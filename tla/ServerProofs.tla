---------------------------- MODULE ServerProofs -----------------------------
(* Proofs about Server, for any connections, and about the hello codec.    *)
EXTENDS Server, SequenceLemmas, TLAPS

-----------------------------------------------------------------------------
(* HelloCodec.                                                             *)

(* strings.Split and strings.Join.                                         *)

LEMMA IndexIs ==
  ASSUME NEW s, Len(s) \in Nat, NEW i \in 1..(Len(s) + 1),
         NEW j \in i..(Len(s) + 1), \A k \in i..(j - 1) : s[k] # Comma,
         j = Len(s) + 1 \/ s[j] = Comma
  PROVE  Index(s, i) = j
<1> DEFINE T == {k \in i..Len(s) : s[k] = Comma} \cup {Len(s) + 1}
<1>1. j \in T /\ T \subseteq Int
  OBVIOUS
<1>2. \A k \in T : j <= k
  OBVIOUS
<1>3. \A k \in T : (\A x \in T : k <= x) => k = j
  BY <1>1, <1>2
<1> QED
  <2>1. (CHOOSE k \in T : \A x \in T : k <= x) = j
    BY <1>1, <1>2, <1>3
  <2> QED
    BY <2>1 DEF Index, Min

LEMMA IndexType ==
  ASSUME NEW s, Len(s) \in Nat, NEW i \in 1..(Len(s) + 1)
  PROVE  Index(s, i) \in i..(Len(s) + 1)
<1> DEFINE T == {k \in i..Len(s) : s[k] = Comma} \cup {Len(s) + 1}
<1>1. T \in SUBSET Nat /\ T # {} /\ T \subseteq i..(Len(s) + 1)
  OBVIOUS
<1>2. \E m \in T : \A k \in T : m <= k
  BY <1>1, Least
<1> QED
  BY <1>1, <1>2 DEF Index, Min

(* One part after the other, from each position on.                        *)
LEMMA SplitFrom ==
  ASSUME NEW D, NEW s \in Seq(D)
  PROVE  \E f : /\ Split(s) = f[1]
                /\ \A i \in 1..(Len(s) + 1) :
                     f[i] = IF Index(s, i) > Len(s)
                              THEN <<SubSeq(s, i, Len(s))>>
                              ELSE <<SubSeq(s, i, Index(s, i) - 1)>> \o f[Index(s, i) + 1]
<1> DEFINE P == 1..(Len(s) + 1)
           base == {i \in P : Index(s, i) > Len(s)}
           T == Seq(Seq(D))
           val == [i \in base \cap P |-> <<SubSeq(s, i, Len(s))>>]
           next == [i \in P \ base |-> Index(s, i) + 1]
           step == [i \in P \ base |-> [t \in T |-> <<SubSeq(s, i, Index(s, i) - 1)>> \o t]]
           rank == [i \in P |-> Len(s) + 1 - i]
<1>1. Len(s) \in Nat /\ \A i \in P : Index(s, i) \in i..(Len(s) + 1)
  BY IndexType
<1>2. \A i \in P : \A j \in i..(Len(s) + 1) : <<SubSeq(s, i, j - 1)>> \in T
  <2> TAKE i \in P
  <2> TAKE j \in i..(Len(s) + 1)
  <2>1. SubSeq(s, i, j - 1) \in Seq(D)
    BY <1>1
  <2> QED
    BY <2>1
<1>3. rank \in [P -> 0..Len(s)] /\ T # {}
  <2>1. \A i \in P : Len(s) + 1 - i \in 0..Len(s)
    BY <1>1
  <2>2. << >> \in T
    OBVIOUS
  <2> QED
    BY <2>1, <2>2
<1>4. val \in [base \cap P -> T]
  <2>1. \A i \in P : (Len(s) + 1) - 1 = Len(s) /\ Len(s) + 1 \in i..(Len(s) + 1)
    BY <1>1
  <2>2. \A i \in P : <<SubSeq(s, i, Len(s))>> \in T
    BY <1>2, <2>1
  <2> QED
    BY <2>2
<1>5. next \in [P \ base -> P] /\ \A i \in P \ base : rank[next[i]] < rank[i]
  <2>1. \A i \in P \ base : Index(s, i) + 1 \in P /\ Index(s, i) + 1 > i
    BY <1>1
  <2>2. \A i \in P, j \in P : j > i => Len(s) + 1 - j < Len(s) + 1 - i
    BY <1>1
  <2>3. next \in [P \ base -> P]
    BY <2>1
  <2> QED
    BY <2>1, <2>2, <2>3
<1>6. step \in [P \ base -> [T -> T]]
  <2> SUFFICES ASSUME NEW i \in P \ base, NEW t \in T
               PROVE  <<SubSeq(s, i, Index(s, i) - 1)>> \o t \in T
    OBVIOUS
  <2>1. <<SubSeq(s, i, Index(s, i) - 1)>> \in T
    BY <1>1, <1>2
  <2> QED
    BY <2>1, ConcatAt
<1>7. PICK f \in [P -> T] : Recurs(f, P, base, val, next, step)
  <2> HIDE DEF P, base, T, val, next, step, rank
  <2> QED
    BY <1>1, <1>3, <1>4, <1>5, <1>6, Recursion
<1>8. ASSUME NEW i \in P
      PROVE  f[i] = IF Index(s, i) > Len(s)
                      THEN <<SubSeq(s, i, Len(s))>>
                      ELSE <<SubSeq(s, i, Index(s, i) - 1)>> \o f[Index(s, i) + 1]
  <2>1. f[i] = IF i \in base THEN val[i] ELSE step[i][f[next[i]]]
    BY <1>7 DEF Recurs
  <2>2. CASE i \in base
    BY <2>1, <2>2
  <2>3. CASE i \notin base
    <3>1. next[i] = Index(s, i) + 1 /\ next[i] \in P
      BY <1>5, <2>3
    <3>2. f[next[i]] \in T
      BY <3>1
    <3> QED
      BY <2>1, <2>3, <3>1, <3>2
  <2> QED
    BY <2>2, <2>3
<1> DEFINE Eq(h) == h = [i \in 1..(Len(s) + 1) |->
                     IF Index(s, i) > Len(s)
                       THEN <<SubSeq(s, i, Len(s))>>
                       ELSE <<SubSeq(s, i, Index(s, i) - 1)>> \o h[Index(s, i) + 1]]
<1>9. Eq(f)
  BY <1>8, SMTT(30)
<1> DEFINE h == CHOOSE h : Eq(h)
<1>10. Eq(h)
  BY <1>9
<1>11. Split(s) = h[1]
  BY DEF Split
<1> HIDE DEF h
<1> QED
  BY <1>10, <1>11
(* What Join writes, and that Split of it is the list: for a list that is  *)
(* not empty, of versions that have no comma.                              *)
Commas(list) == [i \in DOMAIN list |-> <<Comma>> \o list[i]]

LEMMA CommasType ==
  ASSUME NEW D, Comma \in D, NEW list \in Seq(Seq(D))
  PROVE  /\ Commas(list) \in Seq(Seq(D))
         /\ Len(Commas(list)) = Len(list)
         /\ \A i \in 1..Len(list) :
              /\ Len(Commas(list)[i]) = 1 + Len(list[i])
              /\ Commas(list)[i][1] = Comma
              /\ \A j \in 1..Len(list[i]) : Commas(list)[i][1 + j] = list[i][j]
<1>1. /\ Len(list) \in Nat /\ DOMAIN list = 1..Len(list)
      /\ \A i \in 1..Len(list) : list[i] \in Seq(D)
  OBVIOUS
<1>2. \A i \in 1..Len(list) : Commas(list)[i] = <<Comma>> \o list[i]
  BY <1>1 DEF Commas
<1>3. ASSUME NEW i \in 1..Len(list)
      PROVE  /\ Commas(list)[i] \in Seq(D)
             /\ Len(Commas(list)[i]) = 1 + Len(list[i])
             /\ Commas(list)[i][1] = Comma
             /\ \A j \in 1..Len(list[i]) : Commas(list)[i][1 + j] = list[i][j]
  <2>1. list[i] \in Seq(D) /\ Commas(list)[i] = <<Comma>> \o list[i]
    BY <1>1, <1>2
  <2> QED
    BY <2>1, PrefixAt
<1>4. Commas(list) \in [1..Len(list) -> Seq(D)]
  BY <1>1, <1>2, <1>3 DEF Commas
<1> QED
  BY <1>1, <1>3, <1>4, FunctionIsSeq

(* The version k of the list starts behind position at[k] of the text s.   *)
Laid(list, s, at) ==
  /\ at[1] = 0 /\ at[Len(list) + 1] = Len(s) + 1
  /\ \A k \in 1..Len(list) :
       /\ at[k] \in Nat /\ at[k + 1] \in Nat
       /\ at[k + 1] = at[k] + Len(list[k]) + 1
       /\ at[k + 1] <= Len(s) + 1
       /\ \A j \in 1..Len(list[k]) : s[at[k] + j] = list[k][j]
       /\ k # Len(list) => s[at[k + 1]] = Comma

LEMMA JoinAt ==
  ASSUME NEW D, Comma \in D, NEW list \in Seq(Seq(D)), list # << >>
  PROVE  /\ Join(list) \in Seq(D)
         /\ \E at : Laid(list, Join(list), at)
<1> DEFINE n == Len(list)
<1>1. n \in Nat \ {0} /\ \A k \in 1..n : list[k] \in Seq(D) /\ Len(list[k]) \in Nat
  OBVIOUS
<1>2. PICK parts : parts = Commas(list)
  OBVIOUS
<1>3. /\ parts \in Seq(Seq(D)) /\ Len(parts) = n
      /\ \A i \in 1..n : /\ Len(parts[i]) = 1 + Len(list[i])
                         /\ parts[i][1] = Comma
                         /\ \A j \in 1..Len(list[i]) : parts[i][1 + j] = list[i][j]
  BY <1>2, CommasType, SMTT(30)
<1>4. PICK g : Accumulates(g, parts)
  BY <1>3, FlattenAccumulates
<1>5. PICK full : full = FlattenSeq(parts)
  OBVIOUS
<1>6. full = g[n] /\ full \in Seq(D) /\ g[0] = << >>
  <2>1. n \in 0..n
    BY <1>1
  <2>2. full = g[n] /\ \A i \in 0..n : g[i] \in Seq(D)
    BY <1>3, <1>4, <1>5, FlattenIs
  <2> QED
    BY <1>4, <2>1, <2>2 DEF Accumulates
<1>7. ASSUME NEW k \in 1..n
      PROVE  /\ Len(g[k - 1]) \in Nat
             /\ Len(g[k]) = Len(g[k - 1]) + (1 + Len(list[k]))
             /\ Len(g[k]) <= Len(full)
             /\ full[Len(g[k - 1]) + 1] = Comma
             /\ \A j \in 1..Len(list[k]) : full[Len(g[k - 1]) + (1 + j)] = list[k][j]
  <2>1. k \in 1..Len(parts) /\ parts \in Seq(Seq(D))
    BY <1>3
  <2>2. /\ Len(g[k - 1]) \in Nat
        /\ Len(g[k]) = Len(g[k - 1]) + Len(parts[k])
        /\ Len(g[k]) <= Len(full)
        /\ \A j \in 1..Len(parts[k]) : full[Len(g[k - 1]) + j] = parts[k][j]
    <3>1. Placed(full, g, parts, k)
      BY <1>4, <1>5, <2>1, FlattenAt
    <3> QED
      BY <3>1, Zenon DEF Placed
  <2>3. /\ Len(parts[k]) = 1 + Len(list[k]) /\ parts[k][1] = Comma
        /\ \A j \in 1..Len(list[k]) : parts[k][1 + j] = list[k][j]
    BY <1>3
  <2>4. Len(list[k]) \in Nat
    BY <1>1
  <2>5. 1 \in 1..Len(parts[k]) /\ \A j \in 1..Len(list[k]) : 1 + j \in 1..Len(parts[k])
    BY <2>3, <2>4
  <2> QED
    BY <2>2, <2>3, <2>5, Zenon
<1>8. Join(list) = Tail(full)
  BY <1>2, <1>5 DEF Join, Commas
<1>9. PICK L \in Nat : L = Len(full)
  BY <1>6
<1>10. L # 0
  <2>1. 1 \in 1..n
    BY <1>1
  <2>2. Len(list[1]) \in Nat
    BY <1>1, <2>1
  <2>3. Len(g[1 - 1]) \in Nat /\ Len(g[1]) = Len(g[1 - 1]) + (1 + Len(list[1])) /\ Len(g[1]) <= L
    BY <1>7, <1>9, <2>1, Zenon
  <2> QED
    <3> DEFINE x == Len(g[1 - 1])
               y == Len(list[1])
    <3>1. x \in Nat /\ y \in Nat /\ x + (1 + y) <= L
      BY <2>2, <2>3, Zenon
    <3> HIDE DEF x, y
    <3> QED
      BY <3>1
<1>11. /\ Join(list) \in Seq(D) /\ Len(Join(list)) = L - 1
       /\ \A i \in 1..(L - 1) : Join(list)[i] = full[i + 1]
  BY <1>6, <1>8, <1>9, <1>10
<1> DEFINE at == [k \in 1..(n + 1) |-> Len(g[k - 1])]
<1>12. /\ at[1] = 0 /\ at[n + 1] = L
       /\ \A k \in 1..n : at[k] = Len(g[k - 1]) /\ at[k + 1] = Len(g[k])
  <2>1. \A k \in 1..n : k \in 1..(n + 1) /\ k + 1 \in 1..(n + 1) /\ (k + 1) - 1 = k
    BY <1>1
  <2>2. 1 \in 1..(n + 1) /\ n + 1 \in 1..(n + 1) /\ (n + 1) - 1 = n /\ 1 - 1 = 0
    BY <1>1
  <2>3. at[1] = Len(g[0]) /\ at[n + 1] = Len(g[n])
    BY <2>2
  <2>4. Len(<< >>) = 0
    OBVIOUS
  <2>5. \A k \in 1..n : at[k] = Len(g[k - 1]) /\ at[k + 1] = Len(g[k])
    BY <2>1
  <2> HIDE DEF at
  <2> QED
    BY <1>6, <1>9, <2>3, <2>4, <2>5
<1>13. PICK a : a = at
  OBVIOUS
<1> HIDE DEF at
<1>14. ASSUME NEW k \in 1..n
       PROVE  /\ a[k] \in Nat /\ a[k + 1] \in Nat
              /\ a[k + 1] = a[k] + Len(list[k]) + 1
              /\ a[k + 1] <= L
              /\ \A j \in 1..Len(list[k]) : Join(list)[a[k] + j] = list[k][j]
              /\ k # n => Join(list)[a[k + 1]] = Comma
  <2>1. a[k] = Len(g[k - 1]) /\ a[k + 1] = Len(g[k])
    BY <1>12, <1>13
  <2>2. /\ Len(g[k - 1]) \in Nat
        /\ Len(g[k]) = Len(g[k - 1]) + (1 + Len(list[k]))
        /\ Len(g[k]) <= L
        /\ \A j \in 1..Len(list[k]) : full[Len(g[k - 1]) + (1 + j)] = list[k][j]
    BY <1>7, <1>9, Zenon
  <2>3. Len(list[k]) \in Nat
    BY <1>1
  <2>4. /\ a[k] \in Nat /\ a[k + 1] \in Nat
        /\ a[k + 1] = a[k] + Len(list[k]) + 1 /\ a[k + 1] <= L
    <3> DEFINE x == Len(g[k - 1])
               y == Len(list[k])
               z == Len(g[k])
    <3>1. x \in Nat /\ y \in Nat /\ z = x + (1 + y) /\ z <= L /\ a[k] = x /\ a[k + 1] = z
      BY <2>1, <2>2, <2>3, Zenon
    <3> HIDE DEF x, y, z
    <3>2. z \in Nat /\ z = x + y + 1
      BY <3>1
    <3> QED
      BY <3>1, <3>2, Zenon DEF y
  <2>5. ASSUME NEW j \in 1..Len(list[k]) PROVE Join(list)[a[k] + j] = list[k][j]
    <3>1. full[a[k] + (1 + j)] = list[k][j]
      BY <2>1, <2>2
    <3>2. a[k] + j \in 1..(L - 1) /\ (a[k] + j) + 1 = a[k] + (1 + j)
      <4> DEFINE x == a[k]
                 y == Len(list[k])
      <4>1. x \in Nat /\ y \in Nat /\ x + y + 1 <= L /\ j \in 1..y
        BY <2>3, <2>4
      <4> HIDE DEF x, y
      <4>2. x + j \in 1..(L - 1) /\ (x + j) + 1 = x + (1 + j)
        BY <1>9, <4>1
      <4> QED
        BY <4>2 DEF x
    <3> QED
      BY <1>11, <3>1, <3>2
  <2>6. ASSUME k # n PROVE Join(list)[a[k + 1]] = Comma
    <3>1. k + 1 \in 1..n /\ (k + 1) - 1 = k
      BY <1>1, <2>6
    <3>2. /\ Len(g[k + 1]) = Len(g[(k + 1) - 1]) + (1 + Len(list[k + 1]))
          /\ Len(g[k + 1]) <= L
          /\ full[Len(g[(k + 1) - 1]) + 1] = Comma
      BY <1>7, <1>9, <3>1, Zenon
    <3>3. Len(list[k + 1]) \in Nat
      BY <1>1, <3>1
    <3>4. full[a[k + 1] + 1] = Comma /\ a[k + 1] + (1 + Len(list[k + 1])) <= L
      BY <2>1, <3>1, <3>2
    <3>5. a[k + 1] # 0
      BY <2>3, <2>4
    <3>6. a[k + 1] \in 1..(L - 1)
      <4> DEFINE x == a[k + 1]
                 y == Len(list[k + 1])
      <4>1. x \in Nat /\ x # 0 /\ y \in Nat /\ x + (1 + y) <= L
        BY <2>4, <3>3, <3>4, <3>5, Zenon
      <4> HIDE DEF x, y
      <4>2. x \in 1..(L - 1)
        BY <1>9, <4>1
      <4> QED
        BY <4>2 DEF x
    <3> QED
      BY <1>11, <3>4, <3>6
  <2> QED
    BY <2>4, <2>5, <2>6
<1>15. a[1] = 0 /\ a[n + 1] = Len(Join(list)) + 1 /\ L = Len(Join(list)) + 1
  BY <1>9, <1>10, <1>11, <1>12, <1>13
<1> QED
  <2>1. Laid(list, Join(list), a)
    BY <1>14, <1>15, Zenon DEF Laid
  <2> QED
    BY <1>11, <2>1, Zenon
LEMMA JoinLength ==
  ASSUME NEW D, Comma \in D, NEW list \in Seq(Seq(D)), list # << >>
  PROVE  Len(Join(list)) = Len(list) - 1 + Total(list) /\ Total(list) \in Nat
<1> DEFINE n == Len(list)
<1>1. n \in Nat \ {0} /\ \A k \in 1..n : list[k] \in Seq(D)
  OBVIOUS
<1>2. PICK at : /\ at[1] = 0 /\ at[n + 1] = Len(Join(list)) + 1
                /\ \A k \in 1..n : at[k + 1] = at[k] + Len(list[k]) + 1
  BY JoinAt DEF Laid
<1>3. PICK h : Accumulates(h, list)
  BY FlattenAccumulates
<1>4. Total(list) = Len(h[n]) /\ \A i \in 0..n : h[i] \in Seq(D)
  BY <1>3, FlattenIs DEF Total
<1> DEFINE T == {k \in Nat : k <= n => at[k + 1] = Len(h[k]) + k}
<1>5. 0 \in T
  <2>1. h[0] = << >> /\ Len(<< >>) = 0
    BY <1>3 DEF Accumulates
  <2> QED
    BY <1>2, <2>1
<1>6. ASSUME NEW k \in Nat, k \in T PROVE k + 1 \in T
  <2> HIDE DEF T
  <2>1. ASSUME k + 1 <= n PROVE at[(k + 1) + 1] = Len(h[k + 1]) + (k + 1)
    <3>1. k + 1 \in 1..n /\ (k + 1) - 1 = k /\ k <= n /\ k \in 0..n
      BY <1>1, <2>1
    <3>2. h[k] \in Seq(D) /\ list[k + 1] \in Seq(D) /\ h[k + 1] = h[k] \o list[k + 1]
      <4>1. h[k + 1] = h[(k + 1) - 1] \o list[k + 1]
        BY <1>3, <3>1 DEF Accumulates
      <4> QED
        BY <1>1, <1>4, <3>1, <4>1
    <3>3. at[(k + 1) + 1] = at[k + 1] + Len(list[k + 1]) + 1
      BY <1>2, <3>1
    <3>4. at[k + 1] = Len(h[k]) + k
      BY <1>6, <3>1 DEF T
    <3>5. /\ Len(h[k + 1]) = Len(h[k]) + Len(list[k + 1])
          /\ Len(h[k]) \in Nat /\ Len(list[k + 1]) \in Nat
      BY <3>2, ConcatAt
    <3> DEFINE x == Len(h[k])
               y == Len(list[k + 1])
    <3>6. x \in Nat /\ y \in Nat /\ Len(h[k + 1]) = x + y /\ at[(k + 1) + 1] = (x + k) + y + 1
      BY <3>3, <3>4, <3>5
    <3> HIDE DEF x, y
    <3> QED
      BY <3>6
  <2>2. k + 1 \in Nat
    OBVIOUS
  <2> QED
    BY <2>1, <2>2 DEF T
<1>7. at[n + 1] = Len(h[n]) + n
  <2> HIDE DEF T
  <2>1. n \in T
    BY <1>1, <1>5, <1>6, Induction
  <2> QED
    BY <1>1, <2>1 DEF T
<1>8. Len(h[n]) \in Nat
  <2>1. n \in 0..n
    BY <1>1
  <2> QED
    BY <1>4, <2>1
<1>9. Len(Join(list)) \in Nat
  BY JoinAt
<1> QED
  BY <1>1, <1>2, <1>4, <1>7, <1>8, <1>9

LEMMA SplitJoin ==
  ASSUME NEW C, Comma \notin C, NEW list \in Seq(Seq(C)), list # << >>
  PROVE  Split(Join(list)) = list
<1>1. PICK D : D = C \cup {Comma}
  OBVIOUS
<1>2. Comma \in D /\ list \in Seq(Seq(D))
  <2>1. Seq(Seq(C)) \subseteq Seq(Seq(D))
    BY <1>1
  <2> QED
    BY <1>1, <2>1
<1>3. PICK n \in Nat \ {0} : n = Len(list)
  OBVIOUS
<1>4. PICK s \in Seq(D) : s = Join(list)
  BY <1>2, JoinAt
<1>5. PICK N \in Nat : N = Len(s)
  BY <1>4
<1>6. PICK a : Laid(list, s, a)
  BY <1>2, <1>4, JoinAt
<1>6a. /\ a[1] = 0 /\ a[n + 1] = N + 1
       /\ \A k \in 1..n :
            /\ a[k] \in Nat /\ a[k + 1] \in Nat
            /\ a[k + 1] = a[k] + Len(list[k]) + 1
            /\ a[k + 1] <= N + 1
            /\ \A j \in 1..Len(list[k]) : s[a[k] + j] = list[k][j]
            /\ k # n => s[a[k + 1]] = Comma
  BY <1>3, <1>5, <1>6, Zenon DEF Laid
<1>7. PICK f : /\ Split(s) = f[1]
               /\ \A i \in 1..(N + 1) :
                    f[i] = IF Index(s, i) > N
                             THEN <<SubSeq(s, i, N)>>
                             ELSE <<SubSeq(s, i, Index(s, i) - 1)>> \o f[Index(s, i) + 1]
  <2>1. \E f : /\ Split(s) = f[1]
               /\ \A i \in 1..(Len(s) + 1) :
                    f[i] = IF Index(s, i) > Len(s)
                             THEN <<SubSeq(s, i, Len(s))>>
                             ELSE <<SubSeq(s, i, Index(s, i) - 1)>> \o f[Index(s, i) + 1]
    BY SplitFrom, Zenon
  <2> QED
    BY <1>5, <2>1, Zenon
<1>8. ASSUME NEW k \in 1..n
      PROVE  /\ a[k] + 1 \in 1..(N + 1) /\ a[k + 1] \in 1..(N + 1)
             /\ Index(s, a[k] + 1) = a[k + 1]
             /\ SubSeq(s, a[k] + 1, a[k + 1] - 1) = list[k]
             /\ k = n <=> a[k + 1] > N
  <2>1. PICK v \in Seq(C) : v = list[k]
    BY <1>3
  <2>2. PICK m \in Nat : m = Len(v)
    BY <2>1
  <2>3. PICK p \in Nat : p = a[k]
    BY <1>6a
  <2>4. /\ a[k + 1] = p + m + 1 /\ p + m + 1 <= N + 1
        /\ \A j \in 1..m : s[p + j] = v[j]
        /\ k # n => s[p + m + 1] = Comma
    BY <1>6a, <2>1, <2>2, <2>3
  <2>5. p + 1 \in 1..(N + 1) /\ p + m + 1 \in (p + 1)..(N + 1)
    BY <1>5, <2>2, <2>3, <2>4, SMTT(30)
  <2>6. \A i \in (p + 1)..(p + m) : s[i] # Comma
    <3> TAKE i \in (p + 1)..(p + m)
    <3>1. i - p \in 1..m /\ p + (i - p) = i
      OBVIOUS
    <3>2. s[i] = v[i - p]
      BY <2>4, <3>1
    <3>3. v[i - p] \in C
      BY <2>1, <2>2, <3>1
    <3> QED
      BY <3>2, <3>3
  <2>7. k # n => p + m + 1 <= N
    <3>1. ASSUME k # n PROVE p + m + 1 <= N
      <4>1. k + 1 \in 1..n
        BY <1>3, <3>1
      <4>2. PICK q \in Nat : q = Len(list[k + 1])
        BY <1>3, <4>1
      <4>3. a[(k + 1) + 1] = a[k + 1] + q + 1 /\ a[(k + 1) + 1] <= N + 1
        BY <1>6a, <4>1, <4>2
      <4>4. p + m + 1 + q + 1 <= N + 1
        BY <2>4, <4>3
      <4> QED
        BY <4>4
    <3> QED
      BY <3>1
  <2>8. k = n => p + m + 1 = N + 1
    BY <1>6a, <2>4
  <2>9. Index(s, p + 1) = p + m + 1
    <3>1. Len(s) = N /\ N \in Nat /\ (p + m + 1) - 1 = p + m
      BY <1>5, <2>2, <2>3
    <3>2. p + m + 1 = N + 1 \/ s[p + m + 1] = Comma
      BY <2>4, <2>8
    <3> QED
      BY <2>5, <2>6, <3>1, <3>2, IndexIs
  <2>10. SubSeq(s, p + 1, (p + m + 1) - 1) = v
    <3>1. (p + m + 1) - 1 = p + m /\ p + m <= N
      BY <1>5, <2>2, <2>3, <2>4
    <3>4. v \in Seq(D)
      BY <1>2, <1>3, <2>1
    <3>5. SubSeq(s, p + 1, p + m) = v
      BY <1>5, <2>2, <2>4, <3>1, <3>4, SubSeqIs
    <3> QED
      BY <3>1, <3>5
  <2>11. p + m + 1 \in 1..(N + 1)
    BY <1>5, <2>2, <2>3, <2>5
  <2>12. k = n <=> p + m + 1 > N
    BY <1>5, <2>2, <2>3, <2>7, <2>8
  <2> QED
    BY <2>1, <2>3, <2>4, <2>5, <2>9, <2>10, <2>11, <2>12
<1> DEFINE T == {m \in Nat : m < n => f[a[n - m] + 1] = SubSeq(list, n - m, n)}
<1>9. 0 \in T
  <2>1. n \in 1..n /\ n - 0 = n
    BY <1>3
  <2>2. f[a[n] + 1] = <<SubSeq(s, a[n] + 1, N)>>
    BY <1>7, <1>8, <2>1
  <2>3. a[n + 1] - 1 = N
    BY <1>5, <1>6a
  <2>4. SubSeq(s, a[n] + 1, N) = list[n]
    BY <1>8, <2>1, <2>3
  <2>5. SubSeq(list, n, n) = <<list[n]>>
    <3>1. n \in 1..Len(list)
      BY <1>3, <2>1
    <3> QED
      BY <3>1, SubSeqOne
  <2> QED
    BY <2>1, <2>2, <2>4, <2>5
<1>10. ASSUME NEW m \in Nat, m \in T PROVE m + 1 \in T
  <2> HIDE DEF T
  <2> SUFFICES ASSUME m + 1 < n
               PROVE  f[a[n - (m + 1)] + 1] = SubSeq(list, n - (m + 1), n)
    BY DEF T
  <2>1. PICK k \in 1..n : k = n - (m + 1)
    OBVIOUS
  <2>2. k # n /\ k + 1 = n - m /\ m < n
    BY <1>3, <2>1
  <2>3. f[a[k + 1] + 1] = SubSeq(list, k + 1, n)
    BY <1>10, <2>2 DEF T
  <2>4. a[k] + 1 \in 1..(N + 1) /\ Index(s, a[k] + 1) = a[k + 1] /\ ~(a[k + 1] > N)
    BY <1>8, <2>2
  <2>5. f[a[k] + 1] = <<SubSeq(s, a[k] + 1, a[k + 1] - 1)>> \o f[a[k + 1] + 1]
    BY <1>7, <2>4
  <2>6. SubSeq(s, a[k] + 1, a[k + 1] - 1) = list[k]
    BY <1>8
  <2>7. SubSeq(list, k, n) = <<list[k]>> \o SubSeq(list, k + 1, n)
    BY <1>3, SuffixStep
  <2> QED
    BY <2>1, <2>3, <2>5, <2>6, <2>7
<1> HIDE DEF T
<1>11. n - 1 \in T
  <2>1. n - 1 \in Nat
    BY <1>3
  <2> QED
    BY <1>9, <1>10, <2>1, Induction
<1>12. f[a[1] + 1] = SubSeq(list, 1, n)
  <2>1. n - (n - 1) = 1 /\ n - 1 < n
    BY <1>3
  <2> QED
    BY <1>11, <2>1 DEF T
<1>13. SubSeq(list, 1, n) = list
  BY <1>3
<1> QED
  <2>1. a[1] + 1 = 1
    BY <1>6a
  <2> QED
    BY <1>4, <1>7, <1>12, <1>13, <2>1

-----------------------------------------------------------------------------
(* The readers of hellos.                                                  *)

LEMMA HelloOutcome ==
  ASSUME NEW m \in Hellos, Hello(m).to # "panic" PROVE Hello(m).to \in Outcomes
BY DEF Hello, Outcomes

(* Whatever reaches a reader - other protocols, wrong lengths, a connection*)
(* that ends at any byte - a client hello is accepted only when it is whole*)
(* and then as it stands on the wire.                                      *)
LEMMA AcceptedIsWhole ==
  ASSUME NEW m, NEW n, Accepted(ReadClientHello(m, n))
  PROVE  /\ m.flag
         /\ m.window # 0
         /\ Len(m.text) # 0
         /\ ~(m.got < ClientHead + Len(m.text))
         /\ ReadClientHello(m, n).window = m.window
         /\ ReadClientHello(m, n).version = Split(m.text)
BY DEF Accepted, ReadClientHello, Fails

(* The server's answer, read through a buffer of any size that can hold the*)
(* message (or through one that the reader makes), is read as it was       *)
(* written, whatever code, window and message (core/hello.go:198-323).     *)
THEOREM ServerHelloReadBack ==
  ASSUME NEW h, NEW size \in Nat, NEW n \in Nat,
         NEW Chars, h.message \in Seq(Chars),
         n = 0 \/ (n >= FlagSize /\ n >= Len(h.message)),
         MarshalServer(h, size).e = "nil"
  PROVE  LET r == ReadServerHello(MarshalServer(h, size), n)
         IN  /\ r.e = "nil"
             /\ r.code = h.code
             /\ r.window = h.window
             /\ r.message = h.message
<1> DEFINE m == MarshalServer(h, size)
<1>1. /\ h.window # 0
      /\ ~(h.code = "Ok" /\ h.message = << >>)
      /\ m = [e |-> "nil", flag |-> TRUE, code |-> h.code, window |-> h.window,
              text |-> h.message, got |-> ServerHead + Len(h.message)]
  BY DEF MarshalServer
<1>2. /\ m.flag = TRUE /\ m.code = h.code /\ m.window = h.window
      /\ m.text = h.message /\ m.got = ServerHead + Len(h.message)
  BY <1>1
<1> HIDE DEF m
<1>3. Len(h.message) \in Nat /\ (Len(h.message) = 0 => h.message = << >>)
  OBVIOUS
<1>4. m.got >= FlagSize /\ m.got >= ServerHead
  BY <1>2, <1>3 DEF FlagSize, ServerHead
<1>5. n # 0 => Fits(Len(m.text), n) /\ ~(n < FlagSize)
  BY <1>2, <1>3 DEF Fits, FlagSize
<1>6. ~(m.got < FlagSize) /\ ~(m.got < ServerHead) /\ ~(m.got < ServerHead + Len(m.text))
  BY <1>2, <1>3, <1>4 DEF FlagSize, ServerHead
<1>7. ReadServerHello(m, n) = [e |-> "nil", code |-> h.code, window |-> h.window,
                               message |-> h.message]
  BY <1>1, <1>2, <1>3, <1>5, <1>6 DEF ReadServerHello, FlagSize
<1> QED
  BY <1>7 DEF m

(* What sendHello sends, the client takes for what it is: with code Ok it  *)
(* goes on with the server's window, with any other it returns an error    *)
(* (server.go:216-274, client_transport.go:43-69).                         *)
THEOREM AnswerUnderstood ==
  ASSUME NEW code, NEW w \in Nat, SendHello(code, w).e = "nil"
  PROVE  /\ ClientAccepts(SendHello(code, w)) = IF code = "Ok" THEN w ELSE 0
         /\ ReadServerHello(SendHello(code, w), ClientBuffer).e = "nil"
<1> DEFINE msg == IF code = "Ok" THEN ProtocolVersion ELSE <<code>>
           h == [code |-> code, window |-> w, message |-> msg]
           Chars == {"1", "0", code}
<1>1. msg \in Seq(Chars) /\ Len(msg) \in {1, 2}
  <2>1. ProtocolVersion \in Seq(Chars) /\ Len(ProtocolVersion) = 2
    BY DEF ProtocolVersion
  <2>2. <<code>> \in Seq(Chars) /\ Len(<<code>>) = 1
    OBVIOUS
  <2> QED
    BY <2>1, <2>2
<1>2. h.message = msg /\ h.code = code /\ h.window = w
  OBVIOUS
<1>3. SendHello(code, w) = MarshalServer(h, ServerBuffer)
  BY DEF SendHello
<1> HIDE DEF h, msg, Chars
<1>4. /\ ServerBuffer \in Nat /\ ClientBuffer \in Nat
      /\ ClientBuffer >= FlagSize /\ ClientBuffer >= Len(h.message)
  <2>1. Len(h.message) \in {1, 2}
    BY <1>1, <1>2
  <2>2. \A n \in {1, 2} : ClientBuffer >= n
    BY DEF ClientBuffer
  <2>3. ClientBuffer >= Len(h.message)
    BY <2>1, <2>2, Zenon
  <2> QED
    BY <2>3 DEF ServerBuffer, ClientBuffer, FlagSize
<1> DEFINE r == ReadServerHello(SendHello(code, w), ClientBuffer)
<1>5. r.e = "nil" /\ r.code = code /\ r.window = w /\ r.message = msg
  BY <1>1, <1>2, <1>3, <1>4, ServerHelloReadBack
<1>6. code = "Ok" => msg = ProtocolVersion
  BY DEF msg
<1> QED
  BY <1>5, <1>6 DEF ClientAccepts

(* What MarshalClient writes.                                              *)
LEMMA ClientWritten ==
  ASSUME NEW h, NEW n, MarshalClient(h, n).e = "nil"
  PROVE  /\ h.window # 0 /\ h.version # << >>
         /\ MarshalClient(h, n) =
              [e |-> "nil", flag |-> TRUE, window |-> h.window, text |-> Join(h.version),
               got |-> ClientHead + Len(h.version) - 1 + Total(h.version)]
BY DEF MarshalClient

(* A list without commas comes back from the wire, and takes the bytes     *)
(* that size counts.                                                       *)
LEMMA TextIs ==
  ASSUME NEW C, Comma \notin C, NEW list \in Seq(Seq(C)), list # << >>
  PROVE  /\ Split(Join(list)) = list
         /\ Len(Join(list)) \in Nat
         /\ ClientHead + Len(list) - 1 + Total(list) = ClientHead + Len(Join(list))
<1>1. Split(Join(list)) = list
  BY SplitJoin
<1> DEFINE D == C \cup {Comma}
<1>2. list \in Seq(Seq(D)) /\ Comma \in D
  OBVIOUS
<1> HIDE DEF D
<1>3. Len(Join(list)) = Len(list) - 1 + Total(list) /\ Total(list) \in Nat
  BY <1>2, JoinLength
<1>4. Len(list) \in Nat /\ Len(list) # 0
  OBVIOUS
<1> QED
  BY <1>1, <1>3, <1>4 DEF ClientHead, FlagSize

(* The client's hello, cut off anywhere and read through a buffer of any   *)
(* size: what is accepted is whole, and is the window and the list that the*)
(* client wrote (core/hello.go:62-194).                                    *)
THEOREM ClientHelloIsAsWritten ==
  ASSUME NEW C, Comma \notin C, NEW h, h.version \in Seq(Seq(C)),
         NEW size, MarshalClient(h, size).e = "nil", NEW g \in Int, NEW n,
         Accepted(ReadClientHello([MarshalClient(h, size) EXCEPT !.got = g], n))
  PROVE  LET m == MarshalClient(h, size)
             r == ReadClientHello([m EXCEPT !.got = g], n)
         IN  g >= m.got /\ r.window = h.window /\ r.version = h.version
<1> DEFINE m == MarshalClient(h, size)
<1>1. PICK x : x = [m EXCEPT !.got = g]
  OBVIOUS
<1>2. /\ h.version # << >>
      /\ m = [e |-> "nil", flag |-> TRUE, window |-> h.window, text |-> Join(h.version),
              got |-> ClientHead + Len(h.version) - 1 + Total(h.version)]
  BY ClientWritten
<1>3. /\ Split(Join(h.version)) = h.version
      /\ Len(Join(h.version)) \in Nat
      /\ ClientHead + Len(h.version) - 1 + Total(h.version) = ClientHead + Len(Join(h.version))
  BY <1>2, TextIs
<1>4. x.window = h.window /\ x.text = Join(h.version) /\ x.got = g
      /\ m.got = ClientHead + Len(Join(h.version))
  BY <1>1, <1>2, <1>3
<1>5. Accepted(ReadClientHello(x, n))
  BY <1>1
<1>6. /\ ~(x.got < ClientHead + Len(x.text))
      /\ ReadClientHello(x, n).window = x.window
      /\ ReadClientHello(x, n).version = Split(x.text)
  BY <1>5, AcceptedIsWhole
<1>7. g >= m.got
  BY <1>3, <1>4, <1>6 DEF ClientHead, FlagSize
<1> QED
  BY <1>1, <1>3, <1>4, <1>6, <1>7

(* And no whole hello with a list that fits behind the flag is refused.    *)
THEOREM ClientHelloIsAccepted ==
  ASSUME NEW C, Comma \notin C, NEW h, h.version \in Seq(Seq(C)),
         NEW size, MarshalClient(h, size).e = "nil", NEW n \in Nat,
         Join(h.version) # << >>,
         LET bufsize == IF n = 0 THEN 128 ELSE n
         IN  ClientHead <= bufsize /\ FlagSize + Len(Join(h.version)) <= bufsize
  PROVE  Accepted(ReadClientHello(MarshalClient(h, size), n))
<1>1. PICK x : x = MarshalClient(h, size)
  OBVIOUS
<1>2. /\ h.version # << >> /\ h.window # 0
      /\ x = [e |-> "nil", flag |-> TRUE, window |-> h.window, text |-> Join(h.version),
              got |-> ClientHead + Len(h.version) - 1 + Total(h.version)]
  BY <1>1, ClientWritten
<1>3. /\ Len(Join(h.version)) \in Nat
      /\ ClientHead + Len(h.version) - 1 + Total(h.version) = ClientHead + Len(Join(h.version))
      /\ Split(Join(h.version)) = h.version
  BY <1>2, TextIs
<1>4. PICK vs \in Nat : vs = Len(x.text)
  BY <1>2, <1>3
<1>5. x.flag = TRUE /\ x.window # 0 /\ x.got = ClientHead + vs
  BY <1>2, <1>3, <1>4
<1>6. vs # 0
  BY <1>2, <1>3, <1>4
<1> DEFINE b == IF n = 0 THEN 128 ELSE n
<1>7. ClientHead <= b /\ FlagSize + vs <= b /\ (n # 0 => b = n) /\ b \in Nat
  BY <1>2, <1>4
<1> HIDE DEF b
<1>8. /\ ~(b < FlagSize) /\ ~(Left(b) < 6) /\ Fits(vs, b) /\ ~(vs > Left(b))
      /\ ~(x.got < FlagSize) /\ ~(x.got < ClientHead) /\ ~(x.got < ClientHead + vs)
  BY <1>5, <1>7 DEF ClientHead, FlagSize, Left, Fits
<1>9. ReadClientHello(x, n) =
        [e |-> "nil", code |-> "Ok", window |-> x.window, version |-> Split(x.text)]
  BY <1>4, <1>5, <1>6, <1>8, Zenon DEF ReadClientHello, b
<1> QED
  BY <1>1, <1>9 DEF Accepted

(* The readings of the runs.                                               *)
LEMMA ListsType ==
  ASSUME NEW list \in Lists
  PROVE  \E C : Comma \notin C /\ list \in Seq(Seq(C))
<1> DEFINE C == {"1", "0", "x"}
<1>1. Comma \notin C
  BY DEF Comma
<1>2. ProtocolVersion \in Seq(C) /\ <<"1">> \in Seq(C) /\ <<"0">> \in Seq(C) /\ << >> \in Seq(C)
  BY DEF ProtocolVersion
<1>3. \A n \in Nat : Text(n) \in Seq(C)
  BY DEF Text
<1>4. Lengths \subseteq Nat
  BY MaxUint16Assumption DEF Lengths
<1>5. Text(2) \in Seq(C) /\ \A n \in Lengths : Text(n) \in Seq(C)
  BY <1>3, <1>4
<1> HIDE DEF C
<1>6. list \in Seq(Seq(C))
  <2> DEFINE S == Seq(C)
  <2>1. /\ \A a \in S : <<a>> \in Seq(S)
        /\ \A a, b \in S : <<a, b>> \in Seq(S)
        /\ << >> \in Seq(S)
    OBVIOUS
  <2>2. \A n \in Lengths : <<Text(n)>> \in Seq(S)
    BY <1>5, <2>1, Zenon
  <2>3. {<<Text(n)>> : n \in Lengths} \subseteq Seq(S)
    BY <2>2, Zenon
  <2>4. <<ProtocolVersion>> \in Seq(S) /\ <<Text(2), ProtocolVersion>> \in Seq(S)
        /\ <<ProtocolVersion, << >>>> \in Seq(S) /\ <<<<"1">>, <<"0">>>> \in Seq(S)
    BY <1>2, <1>5, <2>1, Zenon
  <2> QED
    BY <2>1, <2>3, <2>4, Zenon DEF Lists
<1> QED
  BY <1>1, <1>6

(* x is the hello h as it was written, m, of which g bytes arrive.         *)
ReadingIs(x, C, h, m, g) ==
  /\ Comma \notin C /\ h.version \in Seq(Seq(C)) /\ h.version = x.list
  /\ h.window = x.w /\ m = MarshalClient(h, 2 * MaxUint16)
  /\ m.e = "nil" /\ x.m = [m EXCEPT !.got = g] /\ g \in Int
  /\ m.got = ClientHead + Len(m.text) /\ m.text = Join(x.list)
  /\ Len(m.text) \in Nat
  /\ g \in Cuts(m) /\ x.all = (g = m.got) /\ x.n \in Nat

LEMMA ReadingExists ==
  ASSUME NEW x \in Readings
  PROVE  \E C, h, m, g : ReadingIs(x, C, h, m, g)
<1>1. PICK w \in Windows, list \in Lists : x \in ReadingsOf(w, list)
  BY DEF Readings
<1> DEFINE H == [window |-> w, version |-> list]
           M == MarshalClient(H, 2 * MaxUint16)
           R == {[w |-> w, list |-> list, m |-> [M EXCEPT !.got = g], n |-> n,
                  all |-> g = M.got] : g \in Cuts(M), n \in Buffers}
<1>1a. ReadingsOf(w, list) = IF M.e # "nil" THEN {} ELSE R
  BY DEF ReadingsOf
<1> HIDE DEF R
<1>2. M.e = "nil" /\ x \in R
  <2> HIDE DEF M
  <2> QED
    BY <1>1, <1>1a
<1>3. PICK g \in Cuts(M), n \in Buffers :
        x = [w |-> w, list |-> list, m |-> [M EXCEPT !.got = g], n |-> n, all |-> g = M.got]
  <2> HIDE DEF M
  <2> QED
    BY <1>2 DEF R
<1>4. PICK h : h = H
  OBVIOUS
<1>5. PICK m : m = MarshalClient(h, 2 * MaxUint16) /\ m = M
  BY <1>4
<1>6. PICK C : Comma \notin C /\ list \in Seq(Seq(C))
  BY ListsType
<1>7. /\ h.window = w /\ h.version = list /\ h.version # << >>
      /\ m.got = ClientHead + Len(list) - 1 + Total(list) /\ m.text = Join(list)
  <2>1. h.window = w /\ h.version = list
    BY <1>4
  <2> QED
    BY <2>1, <1>2, <1>4, <1>5, ClientWritten
<1>8. /\ Len(Join(list)) \in Nat
      /\ ClientHead + Len(list) - 1 + Total(list) = ClientHead + Len(Join(list))
  BY <1>6, <1>7, TextIs
<1>9. m.got = ClientHead + Len(m.text) /\ m.got \in Int /\ Len(m.text) \in Nat
  BY <1>7, <1>8 DEF ClientHead, FlagSize
<1>10. g \in Cuts(m) /\ x.w = w /\ x.list = list /\ x.m = [m EXCEPT !.got = g]
       /\ x.n = n /\ x.all = (g = m.got) /\ m.e = "nil"
  BY <1>2, <1>3, <1>5
<1>11. g \in Int /\ n \in Nat
  BY <1>9, <1>10, MaxUint16Assumption DEF Cuts, FlagSize, ClientHead, ServerHead, Buffers
<1>12. ReadingIs(x, C, h, m, g)
  BY <1>5, <1>6, <1>7, <1>9, <1>10, <1>11, Zenon DEF ReadingIs
<1> QED
  BY <1>12

LEMMA NothingMisread == Misread = {}
<1> SUFFICES ASSUME NEW x \in Readings, Accepted(Read(x))
             PROVE  x.all /\ Read(x).window = x.w /\ Read(x).version = x.list
  BY DEF Misread
<1>1. PICK C, h, m, g : ReadingIs(x, C, h, m, g)
  BY ReadingExists
<1>2. /\ Comma \notin C /\ h.version \in Seq(Seq(C)) /\ h.version = x.list
      /\ h.window = x.w /\ m = MarshalClient(h, 2 * MaxUint16)
      /\ m.e = "nil" /\ x.m = [m EXCEPT !.got = g] /\ g \in Int
      /\ m.got = ClientHead + Len(m.text) /\ m.text = Join(x.list)
      /\ Len(m.text) \in Nat
      /\ g \in Cuts(m) /\ x.all = (g = m.got) /\ x.n \in Nat
  BY <1>1, Zenon DEF ReadingIs
<1>3. Accepted(ReadClientHello([m EXCEPT !.got = g], x.n))
      /\ Read(x) = ReadClientHello([m EXCEPT !.got = g], x.n)
  BY <1>2 DEF Read
<1>4. g >= m.got /\ Read(x).window = h.window /\ Read(x).version = h.version
  <2>1. Comma \notin C /\ h.version \in Seq(Seq(C)) /\ m.e = "nil" /\ g \in Int
    BY <1>2
  <2> QED
    BY <2>1, <1>2, <1>3, ClientHelloIsAsWritten
<1>5. Len(m.text) # 0
  <2>1. Len([m EXCEPT !.got = g].text) # 0
    BY <1>3, AcceptedIsWhole
  <2>2. [m EXCEPT !.got = g].text = m.text
    BY <1>2, ClientWritten
  <2> QED
    BY <2>1, <2>2
<1>6. g = m.got
  <2>1. g \in Cuts(m) /\ m.got = ClientHead + Len(m.text) /\ Len(m.text) \in Nat
    BY <1>2
  <2> QED
    BY <2>1, <1>4, <1>5 DEF Cuts, FlagSize, ClientHead, ServerHead
<1> QED
  BY <1>2, <1>4, <1>6

LEMMA NothingUnread == Unread = {}
<1> SUFFICES ASSUME NEW x \in Readings,
                    LET bufsize == IF x.n = 0 THEN 128 ELSE x.n
                    IN  /\ x.all /\ x.m.window # 0 /\ x.m.text # << >>
                        /\ ClientHead <= bufsize /\ FlagSize + Len(x.m.text) <= bufsize
             PROVE  Accepted(Read(x))
  BY DEF Unread
<1>1. PICK C, h, m, g : ReadingIs(x, C, h, m, g)
  BY ReadingExists
<1>2. /\ Comma \notin C /\ h.version \in Seq(Seq(C)) /\ h.version = x.list
      /\ h.window = x.w /\ m = MarshalClient(h, 2 * MaxUint16)
      /\ m.e = "nil" /\ x.m = [m EXCEPT !.got = g] /\ g \in Int
      /\ m.got = ClientHead + Len(m.text) /\ m.text = Join(x.list)
      /\ Len(m.text) \in Nat
      /\ g \in Cuts(m) /\ x.all = (g = m.got) /\ x.n \in Nat
  BY <1>1, Zenon DEF ReadingIs
<1>3. m = [e |-> "nil", flag |-> TRUE, window |-> h.window, text |-> Join(h.version),
           got |-> ClientHead + Len(h.version) - 1 + Total(h.version)]
  BY <1>2, ClientWritten, ZenonT(40)
<1>4. x.m = m
  <2>1. x.m = [m EXCEPT !.got = g] /\ g = m.got
    BY <1>2
  <2> QED
    BY <1>3, <2>1
<1>5. x.m.text = Join(h.version)
  BY <1>3, <1>4
<1>6. PICK n \in Nat : n = x.n
  BY <1>2
<1>7. LET b == IF n = 0 THEN 128 ELSE n
      IN  ClientHead <= b /\ FlagSize + Len(Join(h.version)) <= b
  BY <1>5, <1>6
<1>8. Accepted(ReadClientHello(m, n))
  <2>1. Comma \notin C /\ h.version \in Seq(Seq(C)) /\ m.e = "nil"
    BY <1>2
  <2> QED
    BY <1>2, <1>5, <1>7, <2>1, ClientHelloIsAccepted
<1> QED
  BY <1>4, <1>6, <1>8 DEF Read

(* What serve makes of a hello that was accepted, or was not.              *)
LEMMA HelloIs ==
  ASSUME NEW m
  PROVE  LET r == ReadClientHello(m, ServerBuffer)
             s == Hello(m)
         IN  /\ Accepted(r) /\ Supported(r.version) =>
                  s.to = "ok" /\ s.code = "Ok" /\ s.window = r.window
             /\ Accepted(r) /\ ~Supported(r.version) => s.to = "refuse"
             /\ s.to = "ok" => Accepted(r) /\ s.code = "Ok" /\ s.window = r.window
             /\ s.to = "refuse" => s.code # "Ok"
             /\ r.e = "nil" /\ r.code = "InvalidVersion" => s.to = "refuse"
BY DEF Hello, Accepted

LEMMA SplitNothing == Split(<< >>) = <<<< >>>>
<1>1. << >> \in Seq(Nat) /\ Len(<< >>) = 0
  OBVIOUS
<1>2. PICK f : /\ Split(<< >>) = f[1]
               /\ \A i \in 1..(Len(<< >>) + 1) :
                     f[i] = IF Index(<< >>, i) > Len(<< >>)
                              THEN <<SubSeq(<< >>, i, Len(<< >>))>>
                              ELSE <<SubSeq(<< >>, i, Index(<< >>, i) - 1)>>
                                     \o f[Index(<< >>, i) + 1]
  BY <1>1, SplitFrom
<1>3. 1 \in 1..(Len(<< >>) + 1) /\ Index(<< >>, 1) \in 1..(Len(<< >>) + 1)
  BY <1>1, IndexType
<1>4. Index(<< >>, 1) > Len(<< >>)
  BY <1>1, <1>3
<1>5. f[1] = <<SubSeq(<< >>, 1, Len(<< >>))>>
  BY <1>2, <1>3, <1>4
<1>6. SubSeq(<< >>, 1, Len(<< >>)) = << >>
  BY <1>1
<1> QED
  BY <1>2, <1>5, <1>6

(* Whatever list without commas and whatever windows: a client whose hello *)
(* arrives whole, and fits behind the flag, is told "ok" exactly when the  *)
(* server's version stands somewhere in its list; then each goes on with   *)
(* the other's window; and any refusal is read as one (server.go:216-274,  *)
(* client_transport.go:43-69).                                             *)
THEOREM HandshakeUnderstood ==
  ASSUME NEW C, Comma \notin C, NEW h, h.version \in Seq(Seq(C)),
         NEW size, MarshalClient(h, size).e = "nil", NEW sw \in Nat
  PROVE  LET m == MarshalClient(h, size)
             s == Hello(m)
             a == SendHello(s.code, sw)
         IN  /\ FlagSize + Len(m.text) <= ServerBuffer =>
                  s.to = IF Contains(h.version, ProtocolVersion) THEN "ok" ELSE "refuse"
             /\ s.to = "ok" /\ a.e = "nil" => s.window = h.window /\ ClientAccepts(a) = sw
             /\ s.to = "refuse" /\ a.e = "nil" =>
                  ReadServerHello(a, ClientBuffer).e = "nil" /\ ClientAccepts(a) = 0
<1>1. PICK m : m = MarshalClient(h, size)
  OBVIOUS
<1>2. /\ h.window # 0 /\ h.version # << >>
      /\ m = [e |-> "nil", flag |-> TRUE, window |-> h.window, text |-> Join(h.version),
              got |-> ClientHead + Len(h.version) - 1 + Total(h.version)]
  BY <1>1, ClientWritten
<1>3. /\ Split(Join(h.version)) = h.version
      /\ Len(Join(h.version)) \in Nat
      /\ ClientHead + Len(h.version) - 1 + Total(h.version) = ClientHead + Len(Join(h.version))
  BY <1>2, TextIs
<1>4. /\ m.text = Join(h.version) /\ m.window = h.window /\ m.window # 0 /\ m.flag = TRUE
      /\ m.got = ClientHead + Len(m.text)
  BY <1>2, <1>3
<1>5. PICK r : r = ReadClientHello(m, ServerBuffer)
  OBVIOUS
<1>6. PICK s : s = Hello(m)
  OBVIOUS
<1>7. /\ Accepted(r) /\ Supported(r.version) =>
                  s.to = "ok" /\ s.code = "Ok" /\ s.window = r.window
      /\ Accepted(r) /\ ~Supported(r.version) => s.to = "refuse"
      /\ s.to = "ok" => Accepted(r) /\ s.code = "Ok" /\ s.window = r.window
      /\ s.to = "refuse" => s.code # "Ok"
      /\ r.e = "nil" /\ r.code = "InvalidVersion" => s.to = "refuse"
  BY <1>5, <1>6, HelloIs
<1>8. Accepted(r) => r.window = h.window /\ r.version = h.version
  <2> SUFFICES ASSUME Accepted(r) PROVE r.window = h.window /\ r.version = h.version
    OBVIOUS
  <2>1. r.window = m.window /\ r.version = Split(m.text)
    BY <1>5, AcceptedIsWhole
  <2> QED
    BY <2>1, <1>3, <1>4
<1>9. ASSUME FlagSize + Len(m.text) <= ServerBuffer
      PROVE  s.to = IF Contains(h.version, ProtocolVersion) THEN "ok" ELSE "refuse"
  <2>1. CASE m.text = << >>
    <3>1. Len(m.text) = 0
      BY <2>1
    <3>2. ~(m.got < FlagSize) /\ ~(m.got < ClientHead)
      BY <1>4, <3>1 DEF ClientHead, FlagSize
    <3>3. r.e = "nil" /\ r.code = "InvalidVersion"
      BY <1>4, <1>5, <3>1, <3>2 DEF ReadClientHello, ServerBuffer, FlagSize, Left
    <3>4. h.version = <<<< >>>>
      BY <1>3, <1>4, <2>1, SplitNothing
    <3>5. ~Contains(h.version, ProtocolVersion)
      BY <3>4 DEF Contains, ProtocolVersion
    <3> QED
      BY <1>7, <3>3, <3>5
  <2>2. CASE m.text # << >>
    <3>1. Join(h.version) # << >> /\ ServerBuffer \in Nat
      BY <1>4, <2>2 DEF ServerBuffer
    <3>2. LET b == IF ServerBuffer = 0 THEN 128 ELSE ServerBuffer
          IN  ClientHead <= b /\ FlagSize + Len(Join(h.version)) <= b
      BY <1>4, <1>9 DEF ServerBuffer, ClientHead, FlagSize
    <3>3. Accepted(r)
      BY <1>1, <1>5, <3>1, <3>2, ClientHelloIsAccepted
    <3> QED
      BY <1>7, <1>8, <3>3 DEF Supported
  <2> QED
    BY <2>1, <2>2
<1>10. SendHello(s.code, sw).e = "nil" =>
         /\ ClientAccepts(SendHello(s.code, sw)) = IF s.code = "Ok" THEN sw ELSE 0
         /\ ReadServerHello(SendHello(s.code, sw), ClientBuffer).e = "nil"
  BY AnswerUnderstood
<1>11. /\ FlagSize + Len(m.text) <= ServerBuffer =>
           s.to = IF Contains(h.version, ProtocolVersion) THEN "ok" ELSE "refuse"
       /\ s.to = "ok" /\ SendHello(s.code, sw).e = "nil" =>
            s.window = h.window /\ ClientAccepts(SendHello(s.code, sw)) = sw
       /\ s.to = "refuse" /\ SendHello(s.code, sw).e = "nil" =>
            /\ ReadServerHello(SendHello(s.code, sw), ClientBuffer).e = "nil"
            /\ ClientAccepts(SendHello(s.code, sw)) = 0
  BY <1>7, <1>8, <1>9, <1>10
<1> QED
  BY <1>1, <1>6, <1>11

LEMMA NoDisagreement == Disagreements = {}
<1> SUFFICES ASSUME NEW k \in Handshakes PROVE Agrees(k)
  BY DEF Disagreements
<1>1. PICK x \in Readings, sw \in Windows : x.all /\ k = [x |-> x, sw |-> sw]
  BY DEF Handshakes
<1>2. k.x = x /\ k.sw = sw /\ sw \in Nat
  BY <1>1 DEF Windows
<1>3. PICK C, h, m, g : ReadingIs(x, C, h, m, g)
  BY ReadingExists
<1>4. /\ Comma \notin C /\ h.version \in Seq(Seq(C)) /\ h.version = x.list
      /\ h.window = x.w /\ m = MarshalClient(h, 2 * MaxUint16)
      /\ m.e = "nil" /\ x.m = [m EXCEPT !.got = g] /\ x.all = (g = m.got)
  BY <1>3, Zenon DEF ReadingIs
<1>5. m = [e |-> "nil", flag |-> TRUE, window |-> h.window, text |-> Join(h.version),
           got |-> ClientHead + Len(h.version) - 1 + Total(h.version)]
  BY <1>4, ClientWritten
<1>6. x.m = m
  <2>1. x.m = [m EXCEPT !.got = g] /\ g = m.got
    BY <1>1, <1>4
  <2> QED
    BY <1>5, <2>1
<1>7. LET s == Hello(m)
          a == SendHello(s.code, sw)
      IN  /\ FlagSize + Len(m.text) <= ServerBuffer =>
               s.to = IF Contains(h.version, ProtocolVersion) THEN "ok" ELSE "refuse"
          /\ s.to = "ok" /\ a.e = "nil" => s.window = h.window /\ ClientAccepts(a) = sw
          /\ s.to = "refuse" /\ a.e = "nil" =>
               ReadServerHello(a, ClientBuffer).e = "nil" /\ ClientAccepts(a) = 0
  BY <1>2, <1>4, HandshakeUnderstood
<1> QED
  BY <1>2, <1>4, <1>6, <1>7 DEF Agrees

-----------------------------------------------------------------------------
(* Server.                                                                 *)

(* serve has the result of the hello only when it has ended.               *)
OutcomeInv ==
  \A c \in Conns : /\ outcome[c] # "none" => hello[c] = "ended"
                   /\ pc[c] = "none" => outcome[c] = "none" /\ hello[c] = "none"

IndInv == TypeOK /\ BufferExclusive /\ OutcomeInv /\ NoLeakedConn

LEMMA InitIndInv == Init => IndInv
<1> SUFFICES ASSUME Init PROVE IndInv
  OBVIOUS
<1>1. opts.handler \in BOOLEAN
  BY DEF Init, Options
<1>2. TypeOK
  <2>1. /\ opts \in Options /\ http \in BOOLEAN
        /\ accept \in {"accept", "wait", "returned"}
    BY <1>1 DEF Init
  <2>2. /\ pc \in [Conns -> {"none", "hello", "dial", "copy", "http", "unknown",
                       "sendHello", "transport", "returned"}]
        /\ hello \in [Conns -> {"none", "reading", "ended", "panic"}]
        /\ outcome \in [Conns -> Outcomes \cup {"none"}]
        /\ timer \in [Conns -> {"none", "running", "fired"}]
    BY DEF Init
  <2>3. open \in [Conns -> BOOLEAN] /\ handed \in [Conns -> BOOLEAN]
    BY DEF Init
  <2> QED
    BY <2>1, <2>2, <2>3 DEF Init, TypeOK
<1>3. BufferExclusive /\ OutcomeInv /\ NoLeakedConn
  BY DEF Init, BufferExclusive, OutcomeInv, NoLeakedConn
<1> QED
  BY <1>2, <1>3 DEF IndInv

(* Serve, its goroutines and Close do not touch a connection.              *)
LEMMA ServeVarsStep ==
  ASSUME IndInv, UNCHANGED connVars, UNCHANGED opts,
         accept' \in {accept, "wait", "returned"},
         done' \in {done, TRUE}, lis' \in {lis, FALSE},
         closer' \in {closer, FALSE}, http' \in {http, FALSE}
  PROVE  IndInv'
<1>1. accept' \in {"accept", "wait", "returned"} /\ opts' \in Options
  BY DEF IndInv, TypeOK
<1>2. done' \in BOOLEAN /\ lis' \in BOOLEAN /\ closer' \in BOOLEAN /\ http' \in BOOLEAN
  BY DEF IndInv, TypeOK
<1>3. TypeOK'
  BY <1>1, <1>2 DEF IndInv, TypeOK, connVars
<1> QED
  BY <1>3 DEF IndInv, BufferExclusive, OutcomeInv, NoLeakedConn, connVars

LEMMA AcceptStep ==
  ASSUME IndInv, NEW c \in Conns, Accept(c) PROVE IndInv'
<1> USE DEF IndInv
<1>1. TypeOK'
  <2>1. /\ UNCHANGED <<serveVars, outcome, handed>>
        /\ open' = [open EXCEPT ![c] = TRUE]
        /\ pc' = [pc EXCEPT ![c] = "hello"]
        /\ hello' = [hello EXCEPT ![c] = "reading"]
    BY DEF Accept
  <2>2. timer' \in [Conns -> {"none", "running", "fired"}]
    BY DEF Accept, TypeOK
  <2>3. open' \in [Conns -> BOOLEAN]
    BY <2>1 DEF TypeOK
  <2>4. /\ pc' \in [Conns -> {"none", "hello", "dial", "copy", "http", "unknown",
                       "sendHello", "transport", "returned"}]
        /\ hello' \in [Conns -> {"none", "reading", "ended", "panic"}]
    BY <2>1 DEF TypeOK
  <2> QED
    BY <2>1, <2>2, <2>3, <2>4 DEF TypeOK, serveVars
<1>2. outcome[c] = "none" /\ outcome' = outcome
  BY DEF Accept, OutcomeInv
<1>3. BufferExclusive' /\ OutcomeInv' /\ NoLeakedConn'
  BY <1>2 DEF Accept, BufferExclusive, OutcomeInv, NoLeakedConn, TypeOK
<1> QED
  BY <1>1, <1>3

LEMMA HelloEndsStep ==
  ASSUME IndInv, NEW c \in Conns, NEW m \in Hellos, HelloEnds(c, m) PROVE IndInv'
<1> USE DEF IndInv
<1>1. PICK o \in Outcomes : outcome' = [outcome EXCEPT ![c] = o]
  BY HelloOutcome DEF HelloEnds
<1>2. hello[c] = "reading" /\ hello' = [hello EXCEPT ![c] = "ended"]
      /\ UNCHANGED <<serveVars, pc, timer, open, handed>>
  BY DEF HelloEnds
<1>3. TypeOK'
  BY <1>1, <1>2 DEF TypeOK, serveVars
<1>4. BufferExclusive' /\ NoLeakedConn'
  BY <1>2 DEF BufferExclusive, NoLeakedConn, TypeOK
<1> QED
  BY <1>1, <1>2, <1>3, <1>4 DEF OutcomeInv, TypeOK

(* A panic leaves everything else as it is.                                *)
LEMMA HelloPanicsStep ==
  ASSUME IndInv, NEW c \in Conns, NEW m \in Hellos, HelloPanics(c, m) PROVE IndInv'
<1> USE DEF IndInv
<1>1. hello[c] = "reading" /\ hello' = [hello EXCEPT ![c] = "panic"]
      /\ UNCHANGED <<serveVars, pc, outcome, timer, open, handed>>
  BY DEF HelloPanics
<1>2. TypeOK'
  BY <1>1 DEF TypeOK, serveVars
<1>3. outcome[c] = "none" /\ pc[c] # "none"
  BY <1>1 DEF OutcomeInv, TypeOK
<1> QED
  BY <1>1, <1>2, <1>3 DEF BufferExclusive, OutcomeInv, NoLeakedConn, TypeOK

LEMMA TimerFiresStep ==
  ASSUME IndInv, NEW c \in Conns, TimerFires(c) PROVE IndInv'
<1>1. TypeOK'
  BY DEF TimerFires, serveVars, IndInv, TypeOK
<1> QED
  BY <1>1 DEF TimerFires, IndInv, BufferExclusive, OutcomeInv, NoLeakedConn

(* The steps of serve: it uses b only after a hello that has ended, and    *)
(* returns only with the connection closed.                                *)
LEMMA GoToStep ==
  ASSUME IndInv, NEW c \in Conns, NEW from, NEW to,
         to \in {"dial", "copy", "http", "unknown", "sendHello", "transport"},
         from # "none", hello[c] = "ended", GoTo(c, from, to)
  PROVE  IndInv'
<1> USE DEF IndInv
<1>1. /\ pc' = [pc EXCEPT ![c] = to]
      /\ UNCHANGED <<serveVars, hello, outcome, timer, open, handed>>
  BY DEF GoTo
<1>2. TypeOK'
  BY <1>1 DEF TypeOK, serveVars
<1> QED
  BY <1>1, <1>2 DEF BufferExclusive, OutcomeInv, NoLeakedConn, TypeOK

LEMMA ReturnClosedStep ==
  ASSUME IndInv, NEW c \in Conns, NEW from, from # "none", ReturnClosed(c, from)
  PROVE  IndInv'
<1> USE DEF IndInv
<1>1. /\ pc' = [pc EXCEPT ![c] = "returned"] /\ open' = [open EXCEPT ![c] = FALSE]
      /\ UNCHANGED <<serveVars, hello, outcome, timer, handed>>
  BY DEF ReturnClosed
<1>2. TypeOK'
  <2>1. open' \in [Conns -> BOOLEAN]
    BY <1>1 DEF TypeOK
  <2>2. pc' \in [Conns -> {"none", "hello", "dial", "copy", "http", "unknown",
                       "sendHello", "transport", "returned"}]
    BY <1>1 DEF TypeOK
  <2> QED
    BY <1>1, <2>1, <2>2 DEF TypeOK, serveVars
<1>3. open'[c] = FALSE
  BY <1>1 DEF TypeOK
<1> QED
  BY <1>1, <1>2, <1>3 DEF BufferExclusive, OutcomeInv, NoLeakedConn, TypeOK

LEMMA HttpTakesStep ==
  ASSUME IndInv, NEW c \in Conns, HttpTakes(c) PROVE IndInv'
<1> USE DEF IndInv
<1>1. /\ pc' = [pc EXCEPT ![c] = "returned"] /\ handed' = [handed EXCEPT ![c] = TRUE]
      /\ UNCHANGED <<serveVars, hello, outcome, timer, open>>
  BY DEF HttpTakes
<1>2. TypeOK'
  <2>1. handed' \in [Conns -> BOOLEAN]
    BY <1>1 DEF TypeOK
  <2>2. pc' \in [Conns -> {"none", "hello", "dial", "copy", "http", "unknown",
                       "sendHello", "transport", "returned"}]
    BY <1>1 DEF TypeOK
  <2> QED
    BY <1>1, <2>1, <2>2 DEF TypeOK, serveVars
<1>3. handed'[c] = TRUE
  BY <1>1 DEF TypeOK
<1> QED
  BY <1>1, <1>2, <1>3 DEF BufferExclusive, OutcomeInv, NoLeakedConn, TypeOK

LEMMA HelloStepStep ==
  ASSUME IndInv, NEW c \in Conns, HelloStep(c) PROVE IndInv'
<1>1. CASE HelloTimeout(c) \/ HelloError(c)
  BY <1>1, ReturnClosedStep DEF HelloTimeout, HelloError
<1>2. CASE HelloOther(c)
  <2> DEFINE to == IF opts.backend THEN "dial"
                   ELSE IF opts.handler THEN "http" ELSE "unknown"
  <2>1. GoTo(c, "hello", to) /\ hello[c] = "ended"
    BY <1>2 DEF HelloOther, IndInv, OutcomeInv
  <2>2. to \in {"dial", "copy", "http", "unknown", "sendHello", "transport"}
    OBVIOUS
  <2> HIDE DEF to
  <2> QED
    BY <2>1, <2>2, GoToStep
<1>3. CASE HelloAnswer(c)
  <2>1. GoTo(c, "hello", "sendHello") /\ hello[c] = "ended"
    BY <1>3 DEF HelloAnswer, IndInv, OutcomeInv
  <2> QED
    BY <2>1, GoToStep
<1> QED
  BY <1>1, <1>2, <1>3 DEF HelloStep

LEMMA RouteStepStep ==
  ASSUME IndInv, NEW c \in Conns, RouteStep(c) PROVE IndInv'
<1>1. CASE BackendDial(c)
  <2>1. GoTo(c, "dial", "copy") /\ hello[c] = "ended"
    BY <1>1 DEF BackendDial, GoTo, IndInv, BufferExclusive
  <2> QED
    BY <2>1, GoToStep
<1>2. CASE SendHelloOk(c)
  <2>1. GoTo(c, "sendHello", "transport") /\ hello[c] = "ended"
    BY <1>2 DEF SendHelloOk, GoTo, IndInv, BufferExclusive
  <2> QED
    BY <2>1, GoToStep
<1>3. CASE BackendFails(c) \/ HttpGone(c) \/ UnknownEnds(c) \/ SendHelloEnds(c)
  BY <1>3, ReturnClosedStep DEF BackendFails, HttpGone, UnknownEnds, SendHelloEnds
<1> QED
  BY <1>1, <1>2, <1>3, HttpTakesStep DEF RouteStep

LEMMA IndInvStep == IndInv /\ [Next]_vars => IndInv'
<1> SUFFICES ASSUME IndInv, [Next]_vars PROVE IndInv'
  OBVIOUS
<1>1. CASE ServeStep \/ AcceptFails \/ Close
  <2>1. CASE ServeStep
    BY <2>1, ServeVarsStep DEF ServeStep, CloseListener, HttpReturns, ServeReturns
  <2>2. CASE AcceptFails
    BY <2>2, ServeVarsStep DEF AcceptFails
  <2>3. CASE Close
    BY <2>3, ServeVarsStep DEF Close
  <2> QED
    BY <1>1, <2>1, <2>2, <2>3
<1>2. ASSUME NEW c \in Conns, CopyEnds(c) \/ TransportEnds(c) PROVE IndInv'
  BY <1>2, ReturnClosedStep DEF CopyEnds, TransportEnds
<1>3. CASE UNCHANGED vars
  BY <1>3, ServeVarsStep DEF vars, serveVars
<1> QED
  BY <1>1, <1>2, <1>3, AcceptStep, HelloEndsStep, HelloPanicsStep,
     TimerFiresStep, HelloStepStep, RouteStepStep
  DEF Next

(* The buffer b of serve is never used by two: when the timer wins against *)
(* the hello, serve returns and leaves b to the goroutine that still reads *)
(* into it; on every other way it waits for that goroutine first           *)
(* (server.go:147-177).                                                    *)
THEOREM BufferIsExclusive == Safe => []ServerInv
<1>1. IndInv => ServerInv
  BY DEF IndInv, ServerInv
<1> QED
  BY InitIndInv, IndInvStep, <1>1, PTL DEF Safe

(* Whatever way a connection takes through serve - a timeout, an unreadable*)
(* hello, a backend that cannot be dialled, http.Serve that has ended - it *)
(* is closed when serve returns, or http.Serve has it (server.go:141-275). *)
THEOREM NoConnLeaks == Safe => []NoLeakedConn
<1>1. IndInv => NoLeakedConn
  BY DEF IndInv
<1> QED
  BY InitIndInv, IndInvStep, <1>1, PTL DEF Safe

(* A hello is read as it was written, or not at all: no buffer, no length  *)
(* of its version list and no point at which the connection ends makes the *)
(* server go on with something else, and it refuses none that fits its     *)
(* buffer behind the flag (core/hello.go:62-194).                          *)
THEOREM SafeClientHelloReadBack == Safe => []ClientHelloReadBack
<1>1. ClientHelloReadBack
  BY NothingMisread, NothingUnread DEF ClientHelloReadBack
<1> QED
  BY <1>1, PTL

(* When serve answers a hello, of whatever versions and windows, the client*)
(* comes to the same conclusion: it goes on exactly when the server does,  *)
(* each with the window of the other (server.go:216-274,                   *)
(* client_transport.go:43-69).                                             *)
THEOREM SafeHandshakeAgrees == Safe => []HandshakeAgrees
<1>1. HandshakeAgrees
  BY NoDisagreement DEF HandshakeAgrees
<1> QED
  BY <1>1, PTL
=============================================================================
