-------------------------- MODULE ContainersProofs --------------------------
(* What holds of the containers for all blocks, nodes, strings and hashes:   *)
(* the buckets are a dictionary or a set, and the nodes are one chain.        *)
EXTENDS Containers, Chains, FiniteSetTheorems, SequenceTheorems, TLAPS

-----------------------------------------------------------------------------
(* The chains *)

\* No link stands at two places
Apart(table) ==
    \A i, h \in DOMAIN table : \A j \in DOMAIN table[i], k \in DOMAIN table[h] :
        table[i][j] = table[h][k] => i = h /\ j = k

\* HashMap and HashSet use the same chains
LEMMA MapChains ==
    /\ \A t : Map!LinksOf(t) = LinksOf(t)
    /\ \A S : Map!First(S) = First(S)
    /\ \A n : Map!Empty(n) = Empty(n)
    /\ \A t, i, x : Map!Pushed(t, i, x) = Pushed(t, i, x)
    /\ \A t, i, j : Map!Unlinked(t, i, j) = Unlinked(t, i, j)
    /\ \A t, n : Map!Walk(t, n) = Walk(t, n)
    /\ \A o, slot, n : Map!Relinked(o, slot, n) = Relinked(o, slot, n)
    /\ \A f : Map!Range(f) = Range(f)
<1>1. /\ \A f : Map!Range(f) = Range(f)
      /\ \A t : Map!LinksOf(t) = LinksOf(t)
      /\ \A S : Map!First(S) = First(S)
      /\ \A n : Map!Empty(n) = Empty(n)
  BY DEF Map!Range, Range, Map!LinksOf, LinksOf, Map!First, First, Map!Empty, Empty
<1>2. /\ \A t, i, x : Map!Pushed(t, i, x) = Pushed(t, i, x)
      /\ \A t, i, j : Map!Unlinked(t, i, j) = Unlinked(t, i, j)
  BY DEF Map!Pushed, Pushed, Map!Unlinked, Unlinked
<1>3. \A t, n : Map!Walk(t, n) = Walk(t, n)
  BY DEF Map!Walk, Walk
<1>4. \A o, slot, n : Map!Relinked(o, slot, n) = Relinked(o, slot, n)
  BY DEF Map!Relinked, Relinked, Map!Pushed, Pushed, Map!Empty, Empty
<1> QED
  BY <1>1, <1>2, <1>3, <1>4

\* HashSet likewise
LEMMA SetChains ==
    /\ \A t : Set!LinksOf(t) = LinksOf(t)
    /\ \A S : Set!First(S) = First(S)
    /\ \A n : Set!Empty(n) = Empty(n)
    /\ \A t, i, x : Set!Pushed(t, i, x) = Pushed(t, i, x)
    /\ \A t, i, j : Set!Unlinked(t, i, j) = Unlinked(t, i, j)
    /\ \A t, n : Set!Walk(t, n) = Walk(t, n)
    /\ \A o, slot, n : Set!Relinked(o, slot, n) = Relinked(o, slot, n)
<1>1. /\ \A t : Set!LinksOf(t) = LinksOf(t)
      /\ \A S : Set!First(S) = First(S)
      /\ \A n : Set!Empty(n) = Empty(n)
  BY DEF Set!Range, Range, Set!LinksOf, LinksOf, Set!First, First, Set!Empty, Empty
<1>2. /\ \A t, i, x : Set!Pushed(t, i, x) = Pushed(t, i, x)
      /\ \A t, i, j : Set!Unlinked(t, i, j) = Unlinked(t, i, j)
  BY DEF Set!Pushed, Pushed, Set!Unlinked, Unlinked
<1>3. \A t, n : Set!Walk(t, n) = Walk(t, n)
  BY DEF Set!Walk, Walk
<1>4. \A o, slot, n : Set!Relinked(o, slot, n) = Relinked(o, slot, n)
  BY DEF Set!Relinked, Relinked, Set!Pushed, Pushed, Set!Empty, Empty
<1> QED
  BY <1>1, <1>2, <1>3, <1>4

(* Least elements, in the place of induction *)
LEMMA LeastOf ==
    ASSUME NEW S \in SUBSET Nat, S # {}
    PROVE  \E n \in S : \A m \in S : ~(m < n)
<1> DEFINE R == {p \in Nat \X Nat : p[1] < p[2]}
<1>1. IsWellFoundedOn(R, Nat)
  BY NatLessThanWellFounded DEF OpToRel
<1> HIDE DEF R
<1>2. PICK n \in S : \A m \in S : ~(<<m, n>> \in R)
  BY <1>1, WFMin
<1> QED
  BY <1>2 DEF R

\* A search that finds anything has a first find
LEMMA FirstFound ==
    ASSUME NEW S \in SUBSET Nat
    PROVE  /\ First(S) \subseteq S
           /\ S # {} => First(S) # {}
<1>1. First(S) \subseteq S
  BY DEF First
<1>2. ASSUME S # {} PROVE First(S) # {}
  <2>1. PICK n \in S : \A m \in S : ~(m < n)
    BY <1>2, LeastOf
  <2>2. n \in First(S)
    BY <2>1 DEF First
  <2> QED
    BY <2>2
<1> QED
  BY <1>1, <1>2

\* f is what each round of a loop leaves
Rounds(f, n, start, step) ==
    f[0] = start /\ \A k \in 1..n : f[k] = step[<<f[k - 1], k>>]

\* A loop that goes on from what its last round left has a result
LEMMA LoopExists ==
    ASSUME NEW S, NEW n \in Nat, NEW start \in S, NEW step \in [S \X (1..n) -> S]
    PROVE  \E f : f \in [0..n -> S] /\ Rounds(f, n, start, step)
<1> DEFINE Runs(f, m) == /\ f \in [0..m -> S] /\ f[0] = start
                         /\ \A k \in 1..m : f[k] = step[<<f[k - 1], k>>]
           Bad == {m \in 0..n : ~(\E f : Runs(f, m))}
<1>1. ASSUME Bad # {}
      PROVE  FALSE
  <2>1. PICK m \in Bad : \A i \in Bad : ~(i < m)
    <3>1. Bad \in SUBSET Nat
      OBVIOUS
    <3> HIDE DEF Bad
    <3> QED
      BY <1>1, <3>1, LeastOf
  <2>2. m # 0
    <3>1. Runs([k \in 0..0 |-> start], 0)
      OBVIOUS
    <3> QED
      BY <2>1, <3>1
  <2>3. m - 1 \in 0..n /\ m - 1 \notin Bad /\ m \in 1..n
    BY <2>1, <2>2
  <2>4. PICK f : Runs(f, m - 1)
    BY <2>3
  <2>5. PICK g : g = [k \in 0..m |-> IF k = m THEN step[<<f[m - 1], m>>] ELSE f[k]]
    OBVIOUS
  <2>6. /\ f[m - 1] \in S /\ step[<<f[m - 1], m>>] \in S
        /\ \A k \in 0..(m - 1) : f[k] \in S
    BY <2>3, <2>4
  <2>7. /\ g \in [0..m -> S] /\ g[m] = step[<<f[m - 1], m>>]
        /\ \A k \in 0..(m - 1) : g[k] = f[k]
    <3>1. \A k \in 0..(m - 1) : k \in 0..m /\ k # m
      BY <2>3
    <3>2. \A k \in 0..m : k # m => k \in 0..(m - 1)
      BY <2>3
    <3> QED
      BY <2>3, <2>5, <2>6, <3>1, <3>2
  <2>8. ASSUME NEW k \in 1..m
        PROVE  g[k] = step[<<g[k - 1], k>>]
    <3>1. k - 1 \in 0..(m - 1)
      BY <2>3
    <3>2. g[k - 1] = f[k - 1]
      BY <2>7, <3>1
    <3>3. CASE k = m
      BY <2>7, <3>2, <3>3
    <3>4. CASE k # m
      <4>1. k \in 1..(m - 1) /\ k \in 0..(m - 1)
        BY <2>3, <3>4
      <4> QED
        BY <2>4, <2>7, <3>2, <4>1
    <3> QED
      BY <3>3, <3>4
  <2>9. g[0] = start
    BY <2>3, <2>4, <2>7
  <2>10. Runs(g, m)
    BY <2>7, <2>8, <2>9
  <2> HIDE DEF Runs
  <2> QED
    BY <2>1, <2>10
<1>2. \E f : Runs(f, n)
  <2> HIDE DEF Runs
  <2> QED
    BY <1>1
<1> QED
  BY <1>2 DEF Rounds

\* P is T and a link more, less, or in the place of another
Gains(P, T, L, n, i, x) ==
    /\ P \in [0..(n - 1) -> Seq(L)]
    /\ \A h \in 0..(n - 1) : Range(P[h]) = IF h = i THEN Range(T[i]) \cup {x} ELSE Range(T[h])
    /\ LinksOf(P) = LinksOf(T) \cup {x}
    /\ Apart(T) /\ x \notin LinksOf(T) => Apart(P)
Loses(P, T, L, n, x) ==
    /\ P \in [0..(n - 1) -> Seq(L)]
    /\ \A h \in 0..(n - 1) : Range(P[h]) \subseteq Range(T[h])
    /\ LinksOf(P) = LinksOf(T) \ {x}
    /\ Apart(P)
Changes(P, T, L, n, i, x, y) ==
    /\ P \in [0..(n - 1) -> Seq(L)]
    /\ \A h \in 0..(n - 1) : \A z \in Range(P[h]) : z \in Range(T[h]) \/ (h = i /\ z = y)
    /\ LinksOf(P) = (LinksOf(T) \ {x}) \cup {y}
    /\ Apart(P)

\* A new link is in the chain of its bucket, in front of the others
LEMMA PushedLinks ==
    ASSUME NEW L, NEW n \in Nat, NEW T \in [0..(n - 1) -> Seq(L)],
           NEW i \in 0..(n - 1), NEW x \in L
    PROVE  Gains(Pushed(T, i, x), T, L, n, i, x)
<1>1. PICK P : P = Pushed(T, i, x)
  OBVIOUS
<1>2. <<x>> \in Seq(L) /\ Len(<<x>>) = 1 /\ <<x>>[1] = x
  OBVIOUS
<1>3. T[i] \in Seq(L) /\ Len(T[i]) \in Nat /\ DOMAIN T[i] = 1..Len(T[i])
  OBVIOUS
<1>4. /\ P \in [0..(n - 1) -> Seq(L)]
      /\ P[i] = <<x>> \o T[i]
      /\ \A h \in 0..(n - 1) : h # i => P[h] = T[h]
  <2>1. <<x>> \o T[i] \in Seq(L)
    BY <1>2, <1>3, ConcatProperties
  <2>2. P = [T EXCEPT ![i] = <<x>> \o T[i]]
    BY <1>1 DEF Pushed
  <2> QED
    BY <2>1, <2>2
<1>5. /\ DOMAIN P[i] = 1..(Len(T[i]) + 1)
      /\ P[i][1] = x
      /\ \A j \in 1..Len(T[i]) : P[i][j + 1] = T[i][j]
      /\ \A j \in DOMAIN P[i] : j # 1 => j - 1 \in DOMAIN T[i] /\ P[i][j] = T[i][j - 1]
  <2>1. /\ P[i] \in Seq(L) /\ Len(P[i]) = 1 + Len(T[i])
        /\ \A j \in 1..(1 + Len(T[i])) : P[i][j] = IF j <= 1 THEN <<x>>[j] ELSE T[i][j - 1]
    BY <1>2, <1>3, <1>4, ConcatProperties
  <2>2. DOMAIN P[i] = 1..(Len(T[i]) + 1) /\ P[i][1] = x
    <3>1. 1 \in 1..(1 + Len(T[i]))
      BY <1>3
    <3>2. P[i][1] = <<x>>[1]
      BY <2>1, <3>1
    <3>3. DOMAIN P[i] = 1..Len(P[i])
      BY <2>1
    <3> QED
      BY <1>2, <1>3, <2>1, <3>2, <3>3
  <2>3. ASSUME NEW j \in 1..Len(T[i])
        PROVE  P[i][j + 1] = T[i][j]
    <3>1. j + 1 \in 1..(1 + Len(T[i])) /\ ~(j + 1 <= 1) /\ (j + 1) - 1 = j
      BY <1>3
    <3> QED
      BY <2>1, <3>1
  <2>4. ASSUME NEW j \in DOMAIN P[i], j # 1
        PROVE  j - 1 \in DOMAIN T[i] /\ P[i][j] = T[i][j - 1]
    <3>1. j \in 1..(1 + Len(T[i])) /\ ~(j <= 1) /\ j - 1 \in 1..Len(T[i])
      BY <1>3, <2>2, <2>4
    <3> QED
      BY <1>3, <2>1, <3>1
  <2> QED
    BY <2>2, <2>3, <2>4
<1>6. ASSUME NEW h \in 0..(n - 1)
      PROVE  Range(P[h]) = IF h = i THEN Range(T[i]) \cup {x} ELSE Range(T[h])
  <2>1. CASE h # i
    BY <1>4, <2>1
  <2>2. CASE h = i
    <3>1. \A j \in DOMAIN P[i] : P[i][j] = x \/ P[i][j] \in Range(T[i])
      BY <1>5 DEF Range
    <3>2. x \in Range(P[i])
      <4>1. 1 \in DOMAIN P[i]
        BY <1>3, <1>5
      <4> QED
        BY <1>5, <4>1, Zenon DEF Range
    <3>3. \A j \in DOMAIN T[i] : j + 1 \in DOMAIN P[i] /\ P[i][j + 1] = T[i][j]
      BY <1>3, <1>5
    <3>4. Range(T[i]) \subseteq Range(P[i])
      BY <3>3 DEF Range
    <3>5. Range(P[i]) \subseteq Range(T[i]) \cup {x}
      BY <3>1 DEF Range
    <3> QED
      BY <2>2, <3>2, <3>4, <3>5
  <2> QED
    BY <2>1, <2>2
<1>7. LinksOf(P) = LinksOf(T) \cup {x}
  <2>1. /\ \A y : y \in LinksOf(P) <=> \E h \in 0..(n - 1) : y \in Range(P[h])
        /\ \A y : y \in LinksOf(T) <=> \E h \in 0..(n - 1) : y \in Range(T[h])
    BY <1>4 DEF LinksOf
  <2> QED
    BY <1>6, <2>1
<1>8. ASSUME Apart(T), x \notin LinksOf(T)
      PROVE  Apart(P)
  <2> SUFFICES ASSUME NEW h \in 0..(n - 1), NEW g \in 0..(n - 1),
                      NEW j \in DOMAIN P[h], NEW k \in DOMAIN P[g], P[h][j] = P[g][k]
               PROVE  h = g /\ j = k
    BY <1>4 DEF Apart
  <2>1. \A f \in 0..(n - 1) : \A m \in DOMAIN T[f] : T[f][m] # x
    <3>1. DOMAIN T = 0..(n - 1)
      OBVIOUS
    <3>2. \A f \in 0..(n - 1) : x \notin Range(T[f])
      BY <1>8, <3>1 DEF LinksOf
    <3> QED
      BY <3>2, Zenon DEF Range
  <2> DEFINE Was(f, m) == IF f = i THEN m - 1 ELSE m
  <2>2. ASSUME NEW f \in 0..(n - 1), NEW m \in DOMAIN P[f]
        PROVE  /\ m \in Int
               /\ f = i /\ m = 1 => P[f][m] = x
               /\ ~(f = i /\ m = 1) =>
                     Was(f, m) \in DOMAIN T[f] /\ P[f][m] = T[f][Was(f, m)]
    <3>1. m \in 1..Len(P[f])
      BY <1>4
    <3>2. CASE f = i
      BY <1>5, <3>1, <3>2
    <3>3. CASE f # i
      BY <1>4, <3>1, <3>3
    <3> QED
      BY <3>2, <3>3
  <2>3. CASE (h = i /\ j = 1) \/ (g = i /\ k = 1)
    <3> HIDE DEF Was
    <3> QED
      BY <2>1, <2>2, <2>3
  <2>4. CASE ~(h = i /\ j = 1) /\ ~(g = i /\ k = 1)
    <3>1. h = g /\ Was(h, j) = Was(g, k)
      <4>1. PICK q \in DOMAIN T[h] : q = Was(h, j) /\ P[h][j] = T[h][q]
        BY <2>2, <2>4
      <4>2. PICK r \in DOMAIN T[g] : r = Was(g, k) /\ P[g][k] = T[g][r]
        BY <2>2, <2>4
      <4>3. T[h][q] = T[g][r] /\ DOMAIN T = 0..(n - 1)
        BY <4>1, <4>2
      <4>4. h = g /\ q = r
        BY <1>8, <4>3 DEF Apart
      <4> QED
        BY <4>1, <4>2, <4>4
    <3> QED
      BY <2>2, <3>1
  <2> QED
    BY <2>3, <2>4
<1> QED
  BY <1>1, <1>4, <1>6, <1>7, <1>8 DEF Gains

\* A link that is taken out of its chain is nowhere else
LEMMA UnlinkedLinks ==
    ASSUME NEW L, NEW n \in Nat, NEW T \in [0..(n - 1) -> Seq(L)], Apart(T),
           NEW i \in 0..(n - 1), NEW j \in DOMAIN T[i]
    PROVE  Loses(Unlinked(T, i, j), T, L, n, T[i][j])
<1>1. PICK P : P = Unlinked(T, i, j)
  OBVIOUS
<1>2. PICK l : l = Len(T[i])
  OBVIOUS
<1>3. T[i] \in Seq(L) /\ l \in Nat /\ DOMAIN T[i] = 1..l /\ j \in 1..l
      /\ \A k \in 1..l : T[i][k] \in L
  BY <1>2
<1> DEFINE a == SubSeq(T[i], 1, j - 1)
           b == SubSeq(T[i], j + 1, l)
<1>4. /\ a \in Seq(L) /\ Len(a) = j - 1 /\ \A k \in 1..(j - 1) : a[k] = T[i][k]
  <2>1. \A k \in 1..(j - 1) : T[i][k] \in L
    BY <1>3
  <2>2. /\ a \in Seq(L)
        /\ Len(a) = IF 1 <= j - 1 THEN j - 1 - 1 + 1 ELSE 0
        /\ \A k \in 1..(j - 1 - 1 + 1) : a[k] = T[i][1 + k - 1]
    BY <1>3, <2>1, SubSeqProperties
  <2> HIDE DEF a
  <2>3. Len(a) = j - 1
    BY <1>3, <2>2
  <2>4. ASSUME NEW k \in 1..(j - 1)
        PROVE  a[k] = T[i][k]
    <3>1. k \in 1..(j - 1 - 1 + 1) /\ 1 + k - 1 = k
      BY <1>3
    <3> QED
      BY <2>2, <3>1
  <2> QED
    BY <2>2, <2>3, <2>4
<1>5. /\ b \in Seq(L) /\ Len(b) = l - j /\ \A k \in 1..(l - j) : b[k] = T[i][j + k]
  <2>1. \A k \in (j + 1)..l : T[i][k] \in L
    BY <1>3
  <2>2. /\ b \in Seq(L)
        /\ Len(b) = IF j + 1 <= l THEN l - (j + 1) + 1 ELSE 0
        /\ \A k \in 1..(l - (j + 1) + 1) : b[k] = T[i][(j + 1) + k - 1]
    BY <1>3, <2>1, SubSeqProperties
  <2> HIDE DEF b
  <2> QED
    BY <1>3, <2>2
<1>6. /\ P \in [0..(n - 1) -> Seq(L)]
      /\ P[i] = a \o b
      /\ \A h \in 0..(n - 1) : h # i => P[h] = T[h]
  <2>1. P = [T EXCEPT ![i] = a \o b]
    BY <1>1, <1>2 DEF Unlinked
  <2>2. a \o b \in Seq(L)
    BY <1>4, <1>5, ConcatProperties
  <2> HIDE DEF a, b
  <2> QED
    BY <2>1, <2>2
<1> HIDE DEF a, b
<1>7. /\ DOMAIN P[i] = 1..(l - 1)
      /\ \A k \in 1..(l - 1) : P[i][k] = IF k < j THEN T[i][k] ELSE T[i][k + 1]
  <2>0. /\ a \o b \in Seq(L) /\ Len(a \o b) = Len(a) + Len(b)
        /\ \A k \in 1..(Len(a) + Len(b)) :
              (a \o b)[k] = IF k <= Len(a) THEN a[k] ELSE b[k - Len(a)]
    BY <1>4, <1>5, ConcatProperties
  <2>1. /\ P[i] \in Seq(L) /\ Len(P[i]) = (j - 1) + (l - j)
        /\ \A k \in 1..((j - 1) + (l - j)) :
              P[i][k] = IF k <= j - 1 THEN a[k] ELSE b[k - (j - 1)]
    BY <1>4, <1>5, <1>6, <2>0
  <2>2. DOMAIN P[i] = 1..(l - 1)
    BY <1>3, <2>1
  <2>3. ASSUME NEW k \in 1..(l - 1)
        PROVE  P[i][k] = IF k < j THEN T[i][k] ELSE T[i][k + 1]
    <3>1. k \in 1..((j - 1) + (l - j)) /\ (k <= j - 1 <=> k < j)
      BY <1>3
    <3>2. CASE k < j
      BY <1>3, <1>4, <2>1, <3>1, <3>2
    <3>3. CASE ~(k < j)
      <4>1. k - (j - 1) \in 1..(l - j) /\ j + (k - (j - 1)) = k + 1
        BY <1>3, <3>3
      <4> QED
        BY <1>5, <2>1, <3>1, <3>3, <4>1
    <3> QED
      BY <3>2, <3>3
  <2> QED
    BY <2>2, <2>3
<1>8. \A x : x \in Range(P[i]) <=> x \in Range(T[i]) /\ x # T[i][j]
  <2>1. \A k, m \in 1..l : T[i][k] = T[i][m] => k = m
    BY <1>3 DEF Apart
  <2>2. ASSUME NEW k \in 1..(l - 1)
        PROVE  \E m \in 1..l : m # j /\ P[i][k] = T[i][m]
    <3>1. CASE k < j
      <4>1. k \in 1..l /\ k # j /\ P[i][k] = T[i][k]
        BY <1>3, <1>7, <3>1
      <4> QED
        BY <4>1
    <3>2. CASE ~(k < j)
      <4>1. k + 1 \in 1..l /\ k + 1 # j /\ P[i][k] = T[i][k + 1]
        BY <1>3, <1>7, <3>2
      <4> QED
        BY <4>1
    <3> QED
      BY <3>1, <3>2
  <2>3. ASSUME NEW m \in 1..l, m # j
        PROVE  \E k \in 1..(l - 1) : P[i][k] = T[i][m]
    <3>1. CASE m < j
      <4>1. m \in 1..(l - 1)
        BY <1>3, <3>1
      <4>2. P[i][m] = T[i][m]
        BY <1>7, <3>1, <4>1
      <4> QED
        BY <4>1, <4>2
    <3>2. CASE m > j
      <4>1. m - 1 \in 1..(l - 1) /\ ~(m - 1 < j) /\ (m - 1) + 1 = m
        BY <1>3, <3>2
      <4>2. P[i][m - 1] = T[i][m]
        BY <1>7, <4>1
      <4> QED
        BY <4>1, <4>2
    <3> QED
      BY <1>3, <2>3, <3>1, <3>2
  <2>4. /\ \A x : x \in Range(P[i]) <=> \E k \in 1..(l - 1) : x = P[i][k]
        /\ \A x : x \in Range(T[i]) <=> \E k \in 1..l : x = T[i][k]
    BY <1>3, <1>7 DEF Range
  <2>5. ASSUME NEW x, x \in Range(P[i])
        PROVE  x \in Range(T[i]) /\ x # T[i][j]
    <3>1. PICK k \in 1..(l - 1) : x = P[i][k]
      BY <2>4, <2>5
    <3>2. PICK m \in 1..l : m # j /\ P[i][k] = T[i][m]
      BY <2>2
    <3> QED
      BY <1>3, <2>1, <2>4, <3>1, <3>2
  <2>6. ASSUME NEW x, x \in Range(T[i]), x # T[i][j]
        PROVE  x \in Range(P[i])
    <3>1. PICK m \in 1..l : x = T[i][m]
      BY <2>4, <2>6
    <3>2. PICK k \in 1..(l - 1) : P[i][k] = T[i][m]
      BY <2>3, <2>6, <3>1
    <3> QED
      BY <2>4, <3>1, <3>2
  <2> QED
    BY <2>5, <2>6
<1>9. \A h \in 0..(n - 1) : Range(P[h]) \subseteq Range(T[h])
  BY <1>6, <1>8
<1>10. LinksOf(P) = LinksOf(T) \ {T[i][j]}
  <2>1. /\ \A y : y \in LinksOf(P) <=> \E h \in 0..(n - 1) : y \in Range(P[h])
        /\ \A y : y \in LinksOf(T) <=> \E h \in 0..(n - 1) : y \in Range(T[h])
    BY <1>6 DEF LinksOf
  <2>2. \A h \in 0..(n - 1) : h # i => T[i][j] \notin Range(T[h])
    BY DEF Apart, Range
  <2> QED
    BY <1>6, <1>8, <2>1, <2>2
<1>11. Apart(P)
  <2> SUFFICES ASSUME NEW h \in 0..(n - 1), NEW g \in 0..(n - 1),
                      NEW k \in DOMAIN P[h], NEW m \in DOMAIN P[g], P[h][k] = P[g][m]
               PROVE  h = g /\ k = m
    BY <1>6 DEF Apart
  <2> DEFINE Was(f, q) == IF f = i /\ ~(q < j) THEN q + 1 ELSE q
  <2>1. ASSUME NEW f \in 0..(n - 1), NEW q \in DOMAIN P[f]
        PROVE  /\ q \in Int /\ Was(f, q) \in DOMAIN T[f]
               /\ P[f][q] = T[f][Was(f, q)]
    <3>1. CASE f = i
      <4>1. q \in 1..(l - 1)
        BY <1>7, <3>1
      <4>2. Was(f, q) \in 1..l /\ P[i][q] = T[i][Was(f, q)]
        BY <1>3, <1>7, <3>1, <4>1
      <4> QED
        BY <1>3, <3>1, <4>1, <4>2
    <3>2. CASE f # i
      <4>1. P[f] = T[f] /\ q \in 1..Len(T[f])
        <5>1. P[f] = T[f] /\ T[f] \in Seq(L)
          BY <1>6, <3>2
        <5> QED
          BY <5>1
      <4> QED
        BY <3>2, <4>1
    <3> QED
      BY <3>1, <3>2
  <2>2. h = g /\ Was(h, k) = Was(g, m)
    <3>1. PICK q \in DOMAIN T[h] : q = Was(h, k) /\ P[h][k] = T[h][q]
      BY <2>1
    <3>2. PICK r \in DOMAIN T[g] : r = Was(g, m) /\ P[g][m] = T[g][r]
      BY <2>1
    <3>3. T[h][q] = T[g][r] /\ DOMAIN T = 0..(n - 1)
      BY <3>1, <3>2
    <3>4. h = g /\ q = r
      BY <3>3 DEF Apart
    <3> QED
      BY <3>1, <3>2, <3>4
  <2> QED
    BY <1>3, <2>1, <2>2
<1> QED
  BY <1>1, <1>6, <1>9, <1>10, <1>11 DEF Loses

\* A link that is written over gives way to what is written
LEMMA WrittenLinks ==
    ASSUME NEW L, NEW n \in Nat, NEW T \in [0..(n - 1) -> Seq(L)], Apart(T),
           NEW i \in 0..(n - 1), NEW j \in DOMAIN T[i],
           NEW y \in L, y \in LinksOf(T) => y = T[i][j],
           NEW P, P = [T EXCEPT ![i][j] = y]
    PROVE  Changes(P, T, L, n, i, T[i][j], y)
<1>1. T[i] \in Seq(L) /\ Len(T[i]) \in Nat /\ DOMAIN T[i] = 1..Len(T[i])
  OBVIOUS
<1>2. PICK w : w = [T[i] EXCEPT ![j] = y]
  OBVIOUS
<1>3. /\ w \in Seq(L) /\ DOMAIN w = DOMAIN T[i]
      /\ \A k \in DOMAIN w : w[k] = IF k = j THEN y ELSE T[i][k]
  BY <1>1, <1>2
<1>4. P = [T EXCEPT ![i] = w]
  BY <1>2
<1>5. /\ P \in [0..(n - 1) -> Seq(L)] /\ P[i] = w
      /\ \A h \in 0..(n - 1) : h # i => P[h] = T[h]
  BY <1>3, <1>4
<1>6. /\ \A h \in 0..(n - 1) : DOMAIN P[h] = DOMAIN T[h]
      /\ \A h \in 0..(n - 1) : \A k \in DOMAIN T[h] :
            P[h][k] = IF h = i /\ k = j THEN y ELSE T[h][k]
  BY <1>3, <1>5
<1>7. /\ \A x : x \in LinksOf(P) <=> \E h \in 0..(n - 1) : \E k \in DOMAIN T[h] : P[h][k] = x
      /\ \A x : x \in LinksOf(T) <=> \E h \in 0..(n - 1) : \E k \in DOMAIN T[h] : T[h][k] = x
  <2>1. DOMAIN P = 0..(n - 1) /\ DOMAIN T = 0..(n - 1)
    BY <1>5
  <2>2. /\ \A x : x \in LinksOf(P) <=> \E h \in 0..(n - 1) : \E k \in DOMAIN P[h] : P[h][k] = x
        /\ \A x : x \in LinksOf(T) <=> \E h \in 0..(n - 1) : \E k \in DOMAIN T[h] : T[h][k] = x
    <3>1. ASSUME NEW x
          PROVE  x \in LinksOf(P) <=> \E h \in 0..(n - 1) : \E k \in DOMAIN P[h] : P[h][k] = x
      BY <2>1 DEF LinksOf, Range
    <3>2. ASSUME NEW x
          PROVE  x \in LinksOf(T) <=> \E h \in 0..(n - 1) : \E k \in DOMAIN T[h] : T[h][k] = x
      BY <2>1 DEF LinksOf, Range
    <3> QED
      BY <3>1, <3>2
  <2>3. \A h \in 0..(n - 1) : DOMAIN P[h] = DOMAIN T[h]
    BY <1>6
  <2> QED
    BY <2>2, <2>3, Zenon
<1>8. LinksOf(P) = (LinksOf(T) \ {T[i][j]}) \cup {y}
  <2>1. ASSUME NEW x \in LinksOf(P)
        PROVE  x \in (LinksOf(T) \ {T[i][j]}) \cup {y}
    <3>1. PICK h \in 0..(n - 1) : \E k \in DOMAIN T[h] : P[h][k] = x
      BY <1>7
    <3>2. PICK k \in DOMAIN T[h] : P[h][k] = x
      BY <3>1
    <3>3. CASE h = i /\ k = j
      BY <1>6, <3>2, <3>3
    <3>4. CASE ~(h = i /\ k = j)
      <4>1. x = T[h][k]
        BY <1>6, <3>2, <3>4
      <4>2. x # T[i][j]
        BY <3>4, <4>1 DEF Apart
      <4> QED
        BY <1>7, <4>1, <4>2
    <3> QED
      BY <3>3, <3>4
  <2>2. y \in LinksOf(P)
    BY <1>6, <1>7
  <2>3. ASSUME NEW x \in LinksOf(T), x # T[i][j]
        PROVE  x \in LinksOf(P)
    <3>1. PICK h \in 0..(n - 1) : \E k \in DOMAIN T[h] : T[h][k] = x
      BY <1>7
    <3>2. PICK k \in DOMAIN T[h] : T[h][k] = x
      BY <3>1
    <3>3. P[h][k] = x
      BY <1>6, <2>3, <3>2
    <3> QED
      BY <1>7, <3>3
  <2> QED
    BY <2>1, <2>2, <2>3
<1>9. Apart(P)
  BY <1>5, <1>6, <1>7 DEF Apart
<1>10. ASSUME NEW h \in 0..(n - 1), NEW z \in Range(P[h])
       PROVE  z \in Range(T[h]) \/ (h = i /\ z = y)
  <2>1. PICK k \in DOMAIN P[h] : z = P[h][k]
    BY DEF Range
  <2> QED
    BY <1>6, <2>1 DEF Range
<1> QED
  BY <1>5, <1>8, <1>9, <1>10 DEF Changes

\* Two sequences that have nothing in common, one behind the other
LEMMA JoinedLinks ==
    ASSUME NEW L, NEW a \in Seq(L), NEW b \in Seq(L), NEW c, c = a \o b
    PROVE  /\ c \in Seq(L)
           /\ Range(c) = Range(a) \cup Range(b)
           /\ ( /\ IsInjective(a) /\ IsInjective(b)
                /\ \A j \in DOMAIN a, k \in DOMAIN b : a[j] # b[k] )
              => IsInjective(c)
<1>1. PICK l, m : l = Len(a) /\ m = Len(b)
  OBVIOUS
<1>2. l \in Nat /\ m \in Nat /\ DOMAIN a = 1..l /\ DOMAIN b = 1..m
  BY <1>1
<1>3. /\ c \in Seq(L) /\ Len(c) = l + m
      /\ \A k \in 1..(l + m) : c[k] = IF k <= l THEN a[k] ELSE b[k - l]
  BY <1>1, ConcatProperties
<1>4. DOMAIN c = 1..(l + m)
  BY <1>3
<1>5. \A k \in 1..(l + m) : IF k <= l THEN k \in 1..l /\ c[k] = a[k]
                                     ELSE k - l \in 1..m /\ c[k] = b[k - l]
  BY <1>2, <1>3
<1>6. \A k \in 1..l : k \in 1..(l + m) /\ c[k] = a[k]
  BY <1>2, <1>3
<1>7. ASSUME NEW k \in 1..m
      PROVE  k + l \in 1..(l + m) /\ c[k + l] = b[k]
  <2>1. k + l \in 1..(l + m) /\ ~(k + l <= l) /\ (k + l) - l = k
    BY <1>2
  <2> QED
    BY <1>3, <2>1
<1>8. /\ \A x : x \in Range(a) <=> \E k \in 1..l : x = a[k]
      /\ \A x : x \in Range(b) <=> \E k \in 1..m : x = b[k]
      /\ \A x : x \in Range(c) <=> \E k \in 1..(l + m) : x = c[k]
  BY <1>2, <1>4 DEF Range
<1>9. Range(c) = Range(a) \cup Range(b)
  <2>1. ASSUME NEW x, x \in Range(c)
        PROVE  x \in Range(a) \/ x \in Range(b)
    <3>1. PICK k \in 1..(l + m) : x = c[k]
      BY <1>8, <2>1
    <3>2. CASE k <= l
      <4>1. k \in 1..l /\ c[k] = a[k]
        BY <1>5, <3>2
      <4> QED
        BY <1>8, <3>1, <4>1
    <3>3. CASE ~(k <= l)
      <4>1. k - l \in 1..m /\ c[k] = b[k - l]
        BY <1>5, <3>3
      <4> QED
        BY <1>8, <3>1, <4>1
    <3> QED
      BY <3>2, <3>3
  <2>2. ASSUME NEW x, x \in Range(a)
        PROVE  x \in Range(c)
    <3>1. PICK k \in 1..l : x = a[k]
      BY <1>8, <2>2
    <3> QED
      BY <1>6, <1>8, <3>1
  <2>3. ASSUME NEW x, x \in Range(b)
        PROVE  x \in Range(c)
    <3>1. PICK k \in 1..m : x = b[k]
      BY <1>8, <2>3
    <3> QED
      BY <1>7, <1>8, <3>1
  <2> QED
    BY <2>1, <2>2, <2>3
<1>10. ASSUME IsInjective(a), IsInjective(b),
              \A j \in DOMAIN a, k \in DOMAIN b : a[j] # b[k],
              NEW j \in 1..(l + m), NEW k \in 1..(l + m), c[j] = c[k]
       PROVE  j = k
  <2>1. /\ \A g, h \in 1..l : a[g] = a[h] => g = h
        /\ \A g, h \in 1..m : b[g] = b[h] => g = h
        /\ \A g \in 1..l, h \in 1..m : a[g] # b[h]
    BY <1>2, <1>10 DEF IsInjective
  <2>2. CASE j <= l /\ k <= l
    BY <1>5, <1>10, <2>1, <2>2
  <2>3. CASE j <= l /\ ~(k <= l)
    BY <1>5, <1>10, <2>1, <2>3
  <2>4. CASE ~(j <= l) /\ k <= l
    <3>1. k \in 1..l /\ c[k] = a[k] /\ j - l \in 1..m /\ c[j] = b[j - l]
      BY <1>5, <1>10, <2>4
    <3> QED
      BY <1>10, <2>1, <3>1
  <2>5. CASE ~(j <= l) /\ ~(k <= l)
    <3>1. j - l = k - l
      BY <1>5, <1>10, <2>1, <2>5
    <3> QED
      BY <1>2, <3>1
  <2> QED
    BY <2>2, <2>3, <2>4, <2>5
<1> QED
  BY <1>3, <1>4, <1>9, <1>10 DEF IsInjective

\* o holds every link of T, and those of chains that are apart once
Visits(o, T, L) ==
    /\ o \in Seq(L)
    /\ Range(o) = LinksOf(T)
    /\ Apart(T) => IsInjective(o)

\* The loop over a table comes to every link, and to a link that is at one place once
LEMMA WalkLinks ==
    ASSUME NEW L, NEW n \in Nat, NEW T \in [0..(n - 1) -> Seq(L)]
    PROVE  Visits(Walk(T, n), T, L)
<1> DEFINE Goes(w) == w = [i \in 0..n |-> IF i = 0 THEN <<>> ELSE w[i - 1] \o T[i - 1]]
<1>1. \E w : Goes(w)
  <2> DEFINE step == [p \in Seq(L) \X (1..n) |-> p[1] \o T[p[2] - 1]]
  <2>1. \A k \in 1..n : k - 1 \in 0..(n - 1) /\ T[k - 1] \in Seq(L)
    OBVIOUS
  <2>2. step \in [Seq(L) \X (1..n) -> Seq(L)]
    <3>1. \A p \in Seq(L) \X (1..n) : p[1] \o T[p[2] - 1] \in Seq(L)
      BY <2>1, ConcatProperties
    <3> QED
      BY <3>1
  <2>3. \A x \in Seq(L), k \in 1..n : step[<<x, k>>] = x \o T[k - 1]
    OBVIOUS
  <2> HIDE DEF step
  <2>4. <<>> \in Seq(L)
    OBVIOUS
  <2>5. PICK w : w \in [0..n -> Seq(L)] /\ Rounds(w, n, <<>>, step)
    BY <2>2, <2>4, LoopExists
  <2> USE DEF Rounds
  <2>6. \A k \in 0..n : w[k] = IF k = 0 THEN <<>> ELSE w[k - 1] \o T[k - 1]
    <3> SUFFICES ASSUME NEW k \in 0..n, k # 0
                 PROVE  w[k] = w[k - 1] \o T[k - 1]
      BY <2>5
    <3>1. k \in 1..n /\ k - 1 \in 0..n
      OBVIOUS
    <3> QED
      BY <2>3, <2>5, <3>1
  <2>7. Goes(w)
    BY <2>5, <2>6
  <2> QED
    BY <2>7
<1>2. PICK w : w = CHOOSE v : Goes(v)
  OBVIOUS
<1>3. Goes(w)
  BY <1>1, <1>2
<1>4. Walk(T, n) = w[n]
  BY <1>2 DEF Walk
<1>5. /\ w[0] = <<>>
      /\ \A i \in 1..n : w[i] = w[i - 1] \o T[i - 1]
  <2>1. \A i \in 0..n : w[i] = IF i = 0 THEN <<>> ELSE w[i - 1] \o T[i - 1]
    BY <1>3
  <2>2. 0 \in 0..n /\ \A i \in 1..n : i \in 0..n /\ i # 0
    OBVIOUS
  <2> QED
    BY <2>1, <2>2
<1> HIDE DEF Goes
<1> DEFINE Done(i) == /\ w[i] \in Seq(L)
                      /\ \A x : x \in Range(w[i]) <=> \E h \in 0..(i - 1) : x \in Range(T[h])
                      /\ Apart(T) => IsInjective(w[i])
           Bad == {i \in 0..n : ~Done(i)}
<1>6. Bad = {}
  <2> SUFFICES ASSUME Bad # {}
               PROVE  FALSE
    OBVIOUS
  <2>1. PICK m \in Bad : \A i \in Bad : ~(i < m)
    <3>1. Bad \in SUBSET Nat
      OBVIOUS
    <3> HIDE DEF Bad
    <3> QED
      BY <3>1, LeastOf
  <2>2. m # 0
    <3>1. <<>> \in Seq(L) /\ Range(<<>>) = {} /\ IsInjective(<<>>)
      BY DEF Range, IsInjective
    <3>2. Done(0)
      BY <1>5, <3>1
    <3> HIDE DEF Done
    <3> QED
      BY <2>1, <3>2
  <2>3. m - 1 \in 0..n /\ m \in 1..n /\ m - 1 \in 0..(n - 1) /\ Done(m - 1)
    <3> HIDE DEF Done
    <3> QED
      BY <2>1, <2>2
  <2>4. PICK a, b, c : a = w[m - 1] /\ b = T[m - 1] /\ c = w[m]
    OBVIOUS
  <2>5. a \in Seq(L) /\ b \in Seq(L) /\ c = a \o b
    BY <1>5, <2>3, <2>4
  <2>6. \A x : x \in Range(a) <=> \E h \in 0..(m - 2) : x \in Range(T[h])
    <3>1. (m - 1) - 1 = m - 2
      BY <2>3
    <3> QED
      BY <2>3, <2>4, <3>1
  <2>7. Apart(T) => IsInjective(a)
    BY <2>3, <2>4
  <2> HIDE DEF Done
  <2>8. \A x : x \in Range(c) <=> \E h \in 0..(m - 1) : x \in Range(T[h])
    <3>1. \A h : h \in 0..(m - 1) <=> h \in 0..(m - 2) \/ h = m - 1
      BY <2>3
    <3>2. Range(c) = Range(a) \cup Range(b)
      BY <2>5, RangeConcatenation
    <3> QED
      BY <2>4, <2>6, <3>1, <3>2
  <2>9. ASSUME Apart(T)
        PROVE  IsInjective(c)
    <3>1. IsInjective(b)
      BY <2>3, <2>4, <2>9 DEF Apart, IsInjective
    <3>2. ASSUME NEW j \in DOMAIN a, NEW k \in DOMAIN b, a[j] = b[k]
          PROVE  FALSE
      <4>1. a[j] \in Range(a)
        BY DEF Range
      <4>2. PICK h \in 0..(m - 2) : a[j] \in Range(T[h])
        BY <2>6, <4>1
      <4>3. PICK i \in DOMAIN T[h] : T[h][i] = a[j]
        BY <4>2 DEF Range
      <4>4. h \in 0..(n - 1) /\ h # m - 1
        BY <2>3
      <4>5. T[h][i] = T[m - 1][k] /\ k \in DOMAIN T[m - 1] /\ DOMAIN T = 0..(n - 1)
        BY <2>4, <3>2, <4>3
      <4>6. h = m - 1
        BY <2>3, <2>9, <4>3, <4>4, <4>5, Zenon DEF Apart
      <4> QED
        BY <4>4, <4>6
    <3> QED
      BY <2>5, <2>7, <2>9, <3>1, <3>2, JoinedLinks
  <2>10. c \in Seq(L)
    BY <2>5, JoinedLinks
  <2>11. Done(m)
    BY <2>4, <2>8, <2>9, <2>10 DEF Done
  <2> QED
    BY <2>1, <2>11
<1>7. Done(n)
  <2> HIDE DEF Done
  <2> QED
    BY <1>6
<1>8. \A x : x \in LinksOf(T) <=> \E h \in 0..(n - 1) : x \in Range(T[h])
  BY DEF LinksOf
<1> QED
  BY <1>4, <1>7, <1>8 DEF Visits

\* R has the links of an order, each in its slot
Takes(R, L, order, slot, n) ==
    /\ R \in [0..(n - 1) -> Seq(L)]
    /\ LinksOf(R) = Range(order)
    /\ \A i \in 0..(n - 1) : \A x \in Range(R[i]) :
          \E k \in 1..Len(order) : order[k] = x /\ slot[k] = i
    /\ IsInjective(order) => Apart(R)

\* New buckets hold the links that are moved to them, each in its slot
LEMMA RelinkedLinks ==
    ASSUME NEW L, NEW order \in Seq(L), NEW n \in Nat,
           NEW slot, \A k \in 1..Len(order) : slot[k] \in 0..(n - 1)
    PROVE  Takes(Relinked(order, slot, n), L, order, slot, n)
<1> DEFINE N == Len(order)
           S == [0..(n - 1) -> Seq(L)]
           Goes(r) == r = [k \in 0..Len(order) |->
                              IF k = 0 THEN Empty(n) ELSE Pushed(r[k - 1], slot[k], order[k])]
<1>1. N \in Nat /\ DOMAIN order = 1..N /\ \A k \in 1..N : order[k] \in L
  OBVIOUS
<1>2. Empty(n) \in S
  BY DEF Empty
<1>3. \A T \in S, k \in 1..N : Pushed(T, slot[k], order[k]) \in S
  <2> SUFFICES ASSUME NEW T \in S, NEW k \in 1..N
               PROVE  Pushed(T, slot[k], order[k]) \in S
    OBVIOUS
  <2>1. slot[k] \in 0..(n - 1) /\ order[k] \in L
    BY <1>1
  <2>2. Gains(Pushed(T, slot[k], order[k]), T, L, n, slot[k], order[k])
    BY <2>1, PushedLinks
  <2> QED
    BY <2>2 DEF Gains
<1> HIDE DEF S
<1>4. \E r : Goes(r)
  <2> DEFINE step == [p \in S \X (1..N) |-> Pushed(p[1], slot[p[2]], order[p[2]])]
  <2>1. step \in [S \X (1..N) -> S]
    BY <1>3
  <2>2. \A T \in S, k \in 1..N : step[<<T, k>>] = Pushed(T, slot[k], order[k])
    OBVIOUS
  <2> HIDE DEF step
  <2>3. PICK r : r \in [0..N -> S] /\ Rounds(r, N, Empty(n), step)
    <3> HIDE DEF N
    <3> QED
      BY <1>1, <1>2, <2>1, LoopExists
  <2> USE DEF Rounds
  <2>4. \A k \in 0..N : r[k] = IF k = 0 THEN Empty(n) ELSE Pushed(r[k - 1], slot[k], order[k])
    <3> SUFFICES ASSUME NEW k \in 0..N, k # 0
                 PROVE  r[k] = Pushed(r[k - 1], slot[k], order[k])
      BY <2>3
    <3>1. k \in 1..N /\ k - 1 \in 0..N
      BY <1>1
    <3> QED
      BY <2>2, <2>3, <3>1
  <2>5. Goes(r)
    BY <2>3, <2>4
  <2> QED
    BY <2>5
<1>5. PICK r : r = CHOOSE v : Goes(v)
  OBVIOUS
<1>6. Goes(r)
  BY <1>4, <1>5
<1>7. Relinked(order, slot, n) = r[N]
  BY <1>5 DEF Relinked
<1>8. /\ r[0] = Empty(n)
      /\ \A k \in 1..N : r[k] = Pushed(r[k - 1], slot[k], order[k])
  BY <1>1, <1>6
<1> HIDE DEF Goes
<1> DEFINE Done(m) ==
             /\ r[m] \in S
             /\ \A i \in 0..(n - 1) : \A x :
                   x \in Range(r[m][i]) => \E k \in 1..m : order[k] = x /\ slot[k] = i
             /\ \A x : x \in LinksOf(r[m]) <=> \E k \in 1..m : order[k] = x
             /\ IsInjective(order) => Apart(r[m])
           Bad == {m \in 0..N : ~Done(m)}
<1>9. Bad = {}
  <2> SUFFICES ASSUME Bad # {}
               PROVE  FALSE
    OBVIOUS
  <2>1. PICK m \in Bad : \A i \in Bad : ~(i < m)
    <3>1. Bad \in SUBSET Nat
      BY <1>1
    <3> HIDE DEF Bad
    <3> QED
      BY <3>1, LeastOf
  <2>2. m # 0
    <3>1. \A i \in 0..(n - 1) : Empty(n)[i] = <<>>
      BY DEF Empty
    <3>2. Range(<<>>) = {} /\ DOMAIN <<>> = {}
      BY DEF Range
    <3>3. LinksOf(Empty(n)) = {} /\ Apart(Empty(n))
      BY <3>1, <3>2 DEF LinksOf, Apart, Empty
    <3>4. Done(0)
      BY <1>2, <1>8, <3>1, <3>2, <3>3
    <3> HIDE DEF Done
    <3> QED
      BY <2>1, <3>4
  <2>3. m - 1 \in 0..N /\ m \in 1..N /\ Done(m - 1)
    <3> HIDE DEF Done
    <3> QED
      BY <1>1, <2>1, <2>2
  <2>4. PICK T : T = r[m - 1]
    OBVIOUS
  <2>5. PICK x, i : x = order[m] /\ i = slot[m]
    OBVIOUS
  <2>6. T \in [0..(n - 1) -> Seq(L)] /\ x \in L /\ i \in 0..(n - 1) /\ r[m] = Pushed(T, i, x)
    BY <1>1, <1>8, <2>3, <2>4, <2>5 DEF S
  <2>7. /\ r[m] \in [0..(n - 1) -> Seq(L)]
        /\ \A h \in 0..(n - 1) : Range(r[m][h]) = IF h = i THEN Range(T[i]) \cup {x}
                                                           ELSE Range(T[h])
        /\ LinksOf(r[m]) = LinksOf(T) \cup {x}
        /\ Apart(T) /\ x \notin LinksOf(T) => Apart(r[m])
    <3>1. Gains(r[m], T, L, n, i, x)
      BY <2>6, PushedLinks
    <3> QED
      BY <3>1 DEF Gains
  <2>8. \A k : k \in 1..m <=> k \in 1..(m - 1) \/ k = m
    BY <1>1, <2>3
  <2>9. /\ \A h \in 0..(n - 1) : \A y :
              y \in Range(T[h]) => \E k \in 1..(m - 1) : order[k] = y /\ slot[k] = h
        /\ \A y : y \in LinksOf(T) <=> \E k \in 1..(m - 1) : order[k] = y
        /\ IsInjective(order) => Apart(T)
    BY <2>3, <2>4
  <2> HIDE DEF Done
  <2>10. ASSUME NEW h \in 0..(n - 1), NEW y, y \in Range(r[m][h])
         PROVE  \E k \in 1..m : order[k] = y /\ slot[k] = h
    <3>1. y \in Range(T[h]) \/ (h = i /\ y = x)
      BY <2>7, <2>10
    <3> QED
      BY <2>5, <2>8, <2>9, <3>1
  <2>11. \A y : y \in LinksOf(r[m]) <=> \E k \in 1..m : order[k] = y
    BY <2>5, <2>7, <2>8, <2>9
  <2>12. ASSUME IsInjective(order)
         PROVE  Apart(r[m])
    <3>1. \A k \in 1..(m - 1) : order[k] # x
      BY <1>1, <2>3, <2>5, <2>12 DEF IsInjective
    <3> QED
      BY <2>7, <2>9, <2>12, <3>1
  <2>13. Done(m)
    BY <2>7, <2>10, <2>11, <2>12 DEF Done, S
  <2> QED
    BY <2>1, <2>13
<1>10. Done(N)
  <2> HIDE DEF Done
  <2> QED
    BY <1>1, <1>9
<1>11. LinksOf(r[N]) = Range(order)
  BY <1>1, <1>10 DEF Range
<1> QED
  BY <1>7, <1>10, <1>11 DEF S, Takes

-----------------------------------------------------------------------------
(* The tables *)

\* The bucket of a string among n
Slot(s, n) == Hash(Text(s)) % n

\* A table of n chains of L: every link is at one place, in its bucket
Table(T, L, n) ==
    /\ n \in Nat \ {0}
    /\ T \in [0..(n - 1) -> Seq(L)]
    /\ Apart(T)
    /\ \A i \in 0..(n - 1) : \A l \in Range(T[i]) : Slot(l.str, n) = i

\* A bucket exists for every string
LEMMA SlotInTable ==
    ASSUME NEW n \in Nat \ {0}, NEW s \in String
    PROVE  Slot(s, n) \in 0..(n - 1)
<1>1. Hash(Text(s)) \in Nat
  BY TableAssumption
<1> QED
  BY <1>1 DEF Slot

\* A table with no link
LEMMA EmptyTable ==
    ASSUME NEW L, NEW n \in Nat \ {0}
    PROVE  Table(Empty(n), L, n) /\ LinksOf(Empty(n)) = {}
<1>1. /\ Empty(n) \in [0..(n - 1) -> Seq(L)] /\ DOMAIN Empty(n) = 0..(n - 1)
      /\ \A i \in 0..(n - 1) : Empty(n)[i] = <<>>
  BY DEF Empty
<1>2. Range(<<>>) = {} /\ DOMAIN <<>> = {}
  BY DEF Range
<1> QED
  BY <1>1, <1>2 DEF Table, Apart, LinksOf

\* A search along one chain comes to all the links of the table with such a text
LEMMA ChainOfText ==
    ASSUME NEW T, NEW L, NEW n, Table(T, L, n), NEW s \in String
    PROVE  /\ T[Slot(s, n)] \in Seq(L)
           /\ \A j \in DOMAIN T[Slot(s, n)] : T[Slot(s, n)][j] \in LinksOf(T)
           /\ \A l \in LinksOf(T) : Text(l.str) = Text(s) =>
                 \E j \in DOMAIN T[Slot(s, n)] : T[Slot(s, n)][j] = l
<1>1. Slot(s, n) \in 0..(n - 1)
  BY SlotInTable DEF Table
<1>2. T[Slot(s, n)] \in Seq(L)
  BY <1>1 DEF Table
<1>3. ASSUME NEW j \in DOMAIN T[Slot(s, n)]
      PROVE  T[Slot(s, n)][j] \in LinksOf(T)
  <2>1. T[Slot(s, n)][j] \in Range(T[Slot(s, n)])
    BY DEF Range
  <2>2. Slot(s, n) \in DOMAIN T
    BY <1>1 DEF Table
  <2> QED
    BY <2>1, <2>2 DEF LinksOf
<1>4. ASSUME NEW l \in LinksOf(T), Text(l.str) = Text(s)
      PROVE  \E j \in DOMAIN T[Slot(s, n)] : T[Slot(s, n)][j] = l
  <2>1. PICK i \in 0..(n - 1) : l \in Range(T[i])
    BY DEF LinksOf, Table
  <2>2. i = Slot(l.str, n)
    BY <2>1 DEF Table
  <2>3. l \in Range(T[Slot(s, n)])
    BY <1>4, <2>1, <2>2 DEF Slot
  <2> QED
    BY <2>3, Zenon DEF Range
<1> QED
  BY <1>2, <1>3, <1>4

\* The links of a table are of its type
LEMMA LinksTyped ==
    ASSUME NEW T, NEW L, NEW n, Table(T, L, n)
    PROVE  LinksOf(T) \subseteq L
<1> SUFFICES ASSUME NEW l \in LinksOf(T)
             PROVE  l \in L
  OBVIOUS
<1>1. PICK i \in 0..(n - 1) : l \in Range(T[i])
  BY DEF LinksOf, Table
<1>2. T[i] \in Seq(L)
  BY DEF Table
<1> QED
  BY <1>1, <1>2, RangeOfSeq

\* A new link goes to its bucket
LEMMA TablePushed ==
    ASSUME NEW T, NEW L, NEW n, Table(T, L, n),
           NEW s \in String, NEW x \in L, x.str = s, x \notin LinksOf(T)
    PROVE  /\ Table(Pushed(T, Slot(s, n), x), L, n)
           /\ LinksOf(Pushed(T, Slot(s, n), x)) = LinksOf(T) \cup {x}
<1>1. PICK i, P : i = Slot(s, n) /\ P = Pushed(T, i, x)
  OBVIOUS
<1>2. n \in Nat /\ T \in [0..(n - 1) -> Seq(L)] /\ i \in 0..(n - 1)
  BY <1>1, SlotInTable DEF Table
<1>3. Gains(P, T, L, n, i, x)
  BY <1>1, <1>2, PushedLinks
<1>4. ASSUME NEW h \in 0..(n - 1), NEW l \in Range(P[h])
      PROVE  Slot(l.str, n) = h
  <2>1. l \in Range(T[h]) \/ (h = i /\ l = x)
    BY <1>3 DEF Gains
  <2> QED
    BY <1>1, <2>1 DEF Table
<1> QED
  BY <1>1, <1>3, <1>4 DEF Gains, Table

\* A link that is taken out leaves the others where they are
LEMMA TableUnlinked ==
    ASSUME NEW T, NEW L, NEW n, Table(T, L, n),
           NEW s \in String, NEW j \in DOMAIN T[Slot(s, n)]
    PROVE  /\ Table(Unlinked(T, Slot(s, n), j), L, n)
           /\ LinksOf(Unlinked(T, Slot(s, n), j)) = LinksOf(T) \ {T[Slot(s, n)][j]}
<1>1. PICK i, P : i = Slot(s, n) /\ P = Unlinked(T, i, j)
  OBVIOUS
<1>2. n \in Nat /\ T \in [0..(n - 1) -> Seq(L)] /\ i \in 0..(n - 1) /\ Apart(T) /\ j \in DOMAIN T[i]
  BY <1>1, SlotInTable DEF Table
<1>3. Loses(P, T, L, n, T[i][j])
  BY <1>1, <1>2, UnlinkedLinks
<1>4. ASSUME NEW h \in 0..(n - 1), NEW l \in Range(P[h])
      PROVE  Slot(l.str, n) = h
  <2>1. l \in Range(T[h])
    BY <1>3 DEF Loses
  <2> QED
    BY <2>1 DEF Table
<1> QED
  BY <1>1, <1>3, <1>4 DEF Loses, Table

\* P is the table T with y in the place of x
Rewritten(P, T, L, n, x, y) ==
    Table(P, L, n) /\ LinksOf(P) = (LinksOf(T) \ {x}) \cup {y}

\* A link may be written over by another with the same text
LEMMA TableWritten ==
    ASSUME NEW T, NEW L, NEW n, Table(T, L, n),
           NEW s \in String, NEW j \in DOMAIN T[Slot(s, n)], NEW y \in L,
           Text(y.str) = Text(s), y \in LinksOf(T) => y = T[Slot(s, n)][j],
           NEW P, P = [T EXCEPT ![Slot(s, n)][j] = y]
    PROVE  Rewritten(P, T, L, n, T[Slot(s, n)][j], y)
<1>1. PICK i : i = Slot(s, n)
  OBVIOUS
<1>2. /\ n \in Nat /\ T \in [0..(n - 1) -> Seq(L)] /\ i \in 0..(n - 1) /\ Apart(T)
      /\ j \in DOMAIN T[i] /\ (y \in LinksOf(T) => y = T[i][j]) /\ P = [T EXCEPT ![i][j] = y]
  BY <1>1, SlotInTable DEF Table
<1>3. Changes(P, T, L, n, i, T[i][j], y)
  BY <1>2, WrittenLinks
<1>4. ASSUME NEW h \in 0..(n - 1), NEW l \in Range(P[h])
      PROVE  Slot(l.str, n) = h
  <2>1. l \in Range(T[h]) \/ (h = i /\ l = y)
    BY <1>3 DEF Changes
  <2>2. Slot(y.str, n) = i
    BY <1>1 DEF Slot
  <2> QED
    BY <2>1, <2>2 DEF Table
<1> QED
  BY <1>1, <1>3, <1>4 DEF Changes, Table, Rewritten

\* A rehash keeps every link, and puts it where it is looked for among m buckets
LEMMA TableRehashed ==
    ASSUME NEW T, NEW L, NEW n, Table(T, L, n), \A l \in L : l.str \in String,
           NEW m \in Nat \ {0},
           NEW o, o = Walk(T, n), NEW slot, slot = [k \in DOMAIN o |-> Slot(o[k].str, m)]
    PROVE  Table(Relinked(o, slot, m), L, m) /\ LinksOf(Relinked(o, slot, m)) = LinksOf(T)
<1>1. n \in Nat /\ T \in [0..(n - 1) -> Seq(L)] /\ Apart(T)
  BY DEF Table
<1>2. Visits(o, T, L)
  BY <1>1, WalkLinks
<1>3. o \in Seq(L) /\ DOMAIN o = 1..Len(o) /\ Range(o) = LinksOf(T) /\ IsInjective(o)
      /\ \A k \in 1..Len(o) : o[k] \in L
  BY <1>1, <1>2 DEF Visits
<1>4. \A k \in 1..Len(o) : slot[k] = Slot(o[k].str, m)
  BY <1>3
<1>5. \A k \in 1..Len(o) : slot[k] \in 0..(m - 1)
  BY <1>3, <1>4, SlotInTable
<1>6. PICK R : R = Relinked(o, slot, m)
  OBVIOUS
<1>7. m \in Nat
  OBVIOUS
<1>8. Takes(R, L, o, slot, m)
  BY <1>3, <1>5, <1>6, <1>7, RelinkedLinks
<1>9. ASSUME NEW i \in 0..(m - 1), NEW l \in Range(R[i])
      PROVE  Slot(l.str, m) = i
  <2>1. PICK k \in 1..Len(o) : o[k] = l /\ slot[k] = i
    BY <1>8 DEF Takes
  <2> QED
    BY <1>4, <2>1
<1> QED
  BY <1>3, <1>6, <1>8, <1>9 DEF Takes, Table

-----------------------------------------------------------------------------
(* The map *)

\* A map in use is a table, and no text has two entries
TableInv ==
    kind = "map" =>
        /\ Table(buckets, Map!Entry, capacity)
        /\ filled \in Int
        /\ Map!OneEntryEach
        /\ IsFiniteSet(Map!Held)

\* What the map holds, before and after
LEMMA MapHeld ==
    /\ Map!Held = LinksOf(buckets) /\ Map!Held' = LinksOf(buckets')
    /\ \A s, n : Map!Index(s, n) = Slot(s, n)
    /\ \A e \in Map!Entry : e.str \in String
BY MapChains DEF Map!Held, Map!Index, Slot, Map!Entry

\* hm_get and hm_put find by its text what the map holds, hm_erase what it holds
\* with this very string
LEMMA FoundIsAll ==
    ASSUME kind = "map", TableInv, NEW s \in String
    PROVE  /\ \A j \in Map!ByText(s) \cup Map!ByAddress(s) :
                 /\ j \in DOMAIN buckets[Slot(s, capacity)]
                 /\ Map!Bucket(s)[j] = buckets[Slot(s, capacity)][j]
                 /\ Map!Bucket(s)[j] \in Map!Held
           /\ \A j \in Map!ByText(s) : Text(Map!Bucket(s)[j].str) = Text(s)
           /\ \A j \in Map!ByAddress(s) : Map!Bucket(s)[j].str = s
           /\ Map!ByText(s) = {} => \A e \in Map!Held : Text(e.str) # Text(s)
           /\ Map!ByAddress(s) = {} => \A e \in Map!Held : e.str # s
<1>1. PICK B : B = buckets[Slot(s, capacity)]
  OBVIOUS
<1>2. /\ B \in Seq(Map!Entry)
      /\ \A j \in DOMAIN B : B[j] \in Map!Held
      /\ \A e \in Map!Held : Text(e.str) = Text(s) => \E j \in DOMAIN B : B[j] = e
  BY <1>1, ChainOfText, MapHeld DEF TableInv
<1>3. DOMAIN B \in SUBSET Nat
  BY <1>2
<1>4. Map!Bucket(s) = B
  BY <1>1, MapHeld DEF Map!Bucket
<1> DEFINE texts == {j \in DOMAIN B : Text(B[j].str) = Text(s)}
           strings == {j \in DOMAIN B : B[j].str = s}
<1>5. Map!ByText(s) = First(texts) /\ Map!ByAddress(s) = First(strings)
  BY <1>4, MapChains DEF Map!ByText, Map!ByAddress
<1>6. texts \in SUBSET Nat /\ strings \in SUBSET Nat
  BY <1>3
<1>7. /\ Map!ByText(s) \subseteq texts /\ Map!ByAddress(s) \subseteq strings
      /\ Map!ByText(s) = {} => texts = {}
      /\ Map!ByAddress(s) = {} => strings = {}
  <2> HIDE DEF texts, strings
  <2> QED
    BY <1>5, <1>6, FirstFound
<1>8. ASSUME Map!ByText(s) = {}, NEW e \in Map!Held
      PROVE  Text(e.str) # Text(s)
  BY <1>2, <1>7, <1>8
<1>9. ASSUME Map!ByAddress(s) = {}, NEW e \in Map!Held
      PROVE  e.str # s
  BY <1>2, <1>7, <1>9
<1> QED
  BY <1>1, <1>2, <1>4, <1>7, <1>8, <1>9

(* hm_get *)
LEMMA GetStep ==
    ASSUME kind = "map", kind' = "map", TableInv, NEW s \in String, Map!hm_get(s)
    PROVE  TableInv' /\ Dictionary!Get(s) /\ Map!Held' = Map!Held /\ filled' = filled
<1>1. Map!Held' = Map!Held
  BY DEF Map!hm_get, Map!Held
<1>2. TableInv'
  BY <1>1 DEF TableInv, Map!hm_get, Map!OneEntryEach
<1>3. \/ Dictionary!For(s) = {} /\ Map!Return(s, Null)
      \/ \E e \in Dictionary!For(s) : Map!Return(s, e)
  <2>1. CASE Map!ByText(s) = {} /\ Map!Return(s, Null)
    BY <2>1, FoundIsAll DEF Dictionary!For
  <2>2. CASE \E j \in Map!ByText(s) : Map!Return(s, Map!Bucket(s)[j])
    BY <2>2, FoundIsAll DEF Dictionary!For
  <2> QED
    BY <2>1, <2>2 DEF Map!hm_get
<1>4. filled' = filled
  BY DEF Map!hm_get
<1> QED
  BY <1>1, <1>2, <1>3, <1>4 DEF Map!Return, Dictionary!Get, Dictionary!Return

(* hm_put for a text that is there *)
LEMMA ReplaceStep ==
    ASSUME kind = "map", kind' = "map", TableInv, NEW s \in String, NEW v \in Block,
           Map!Replace(s, v)
    PROVE  /\ TableInv' /\ Dictionary!Put(s, v) /\ filled' = filled
           /\ \E e \in Map!Held :
                 /\ Map!Held' = (Map!Held \ {e}) \cup {[e EXCEPT !.value = v]}
                 /\ result'.is = e.value
<1>1. PICK j \in Map!ByText(s) :
        /\ buckets' = [buckets EXCEPT ![Slot(s, capacity)][j].value = v]
        /\ Map!Return(s, Map!Bucket(s)[j].value)
        /\ UNCHANGED <<capacity, filled>>
  BY MapHeld DEF Map!Replace
<1>2. PICK e : e = buckets[Slot(s, capacity)][j]
  OBVIOUS
<1>3. /\ j \in DOMAIN buckets[Slot(s, capacity)]
      /\ Map!Bucket(s)[j] = e /\ e \in Map!Held /\ Text(e.str) = Text(s)
  BY <1>1, <1>2, FoundIsAll
<1>4. Table(buckets, Map!Entry, capacity) /\ e \in Map!Entry
  BY <1>3, LinksTyped, MapHeld DEF TableInv
<1>5. PICK f : f = [e EXCEPT !.value = v]
  OBVIOUS
<1>6. f \in Map!Entry /\ f.str = e.str /\ f.value = v
  BY <1>4, <1>5 DEF Map!Entry
<1>7. buckets' = [buckets EXCEPT ![Slot(s, capacity)][j] = f]
  BY <1>1, <1>2, <1>5
<1>8. f \in LinksOf(buckets) => f = e
  BY <1>3, <1>6, MapHeld DEF TableInv, Map!OneEntryEach
<1>9. Rewritten(buckets', buckets, Map!Entry, capacity, e, f)
  <2>1. /\ Text(f.str) = Text(s) /\ j \in DOMAIN buckets[Slot(s, capacity)]
        /\ f \in LinksOf(buckets) => f = buckets[Slot(s, capacity)][j]
    BY <1>2, <1>3, <1>6, <1>8
  <2>2. Rewritten(buckets', buckets, Map!Entry, capacity, buckets[Slot(s, capacity)][j], f)
    BY <1>4, <1>6, <1>7, <2>1, TableWritten
  <2> QED
    BY <1>2, <2>2
<1>10. Map!Held' = (Map!Held \ {e}) \cup {f}
  BY <1>9, MapHeld DEF Rewritten
<1>11. Map!OneEntryEach'
  BY <1>3, <1>6, <1>10 DEF TableInv, Map!OneEntryEach
<1>12. IsFiniteSet(Map!Held')
  BY <1>10, FS_AddElement, FS_RemoveElement DEF TableInv
<1>13. TableInv'
  BY <1>1, <1>9, <1>11, <1>12 DEF TableInv, Rewritten
<1>14. e \in Dictionary!For(s)
  BY <1>3 DEF Dictionary!For
<1>15. Dictionary!Put(s, v)
  BY <1>1, <1>3, <1>5, <1>10, <1>14 DEF Map!Return, Dictionary!Put, Dictionary!Return
<1>16. result'.is = e.value /\ filled' = filled
  BY <1>1, <1>3 DEF Map!Return
<1> QED
  BY <1>3, <1>5, <1>10, <1>13, <1>15, <1>16

(* hm_put for a new text, with or without new buckets *)
LEMMA InsertStep ==
    ASSUME kind = "map", kind' = "map", TableInv, NEW s \in String, NEW v \in Block,
           Map!Insert(s, v)
    PROVE  /\ TableInv' /\ Dictionary!Put(s, v) /\ filled' = filled + 1
           /\ \A e \in Map!Held : Text(e.str) # Text(s)
           /\ Map!Held' = Map!Held \cup {[str |-> s, value |-> v]}
           /\ result'.is = Null
<1>1. PICK f : f = [str |-> s, value |-> v]
  OBVIOUS
<1>2. PICK T : T = Pushed(buckets, Slot(s, capacity), f)
  OBVIOUS
<1>3. /\ Map!ByText(s) = {} /\ filled' = filled + 1 /\ Map!Return(s, Null)
      /\ \/ filled + 1 > 2 * capacity /\ Map!hm_rehash(T)
         \/ buckets' = T /\ capacity' = capacity
  BY <1>1, <1>2, MapHeld, MapChains DEF Map!Insert, Map!Added
<1>4. \A e \in Map!Held : Text(e.str) # Text(s)
  BY <1>3, FoundIsAll
<1>5. f \in Map!Entry /\ f.str = s /\ f \notin LinksOf(buckets)
  BY <1>1, <1>4, MapHeld DEF Map!Entry
<1>6. Table(T, Map!Entry, capacity) /\ LinksOf(T) = LinksOf(buckets) \cup {f}
  BY <1>2, <1>5, TablePushed DEF TableInv
<1>7. Table(buckets', Map!Entry, capacity') /\ LinksOf(buckets') = LinksOf(T)
  <2>1. CASE filled + 1 > 2 * capacity /\ Map!hm_rehash(T)
    <3>1. PICK o, n : o = Walk(T, capacity) /\ n = Map!GrownCapacity(filled')
      OBVIOUS
    <3>2. PICK slot : slot = [k \in DOMAIN o |-> Slot(o[k].str, n)]
      OBVIOUS
    <3>3. n \in Nat \ {0}
      <4>1. /\ filled \in Int /\ capacity \in Nat \ {0}
            /\ filled' = filled + 1 /\ filled + 1 > 2 * capacity
        BY <1>3, <2>1 DEF TableInv, Table
      <4>2. n = (filled' * 4) \div 3
        BY <3>1 DEF Map!GrownCapacity
      <4> QED
        BY <4>1, <4>2
    <3>4. buckets' = Relinked(o, slot, n) /\ capacity' = n
      <4>1. Map!Walk(T, capacity) = o
        BY <3>1, MapChains
      <4>2. Map!GrownCapacity(filled') = n
        BY <3>1
      <4>3. [k \in DOMAIN o |-> Map!Index(o[k].str, n)] = slot
        BY <3>2, MapHeld
      <4>4. /\ buckets' = Map!Relinked(o, [k \in DOMAIN o |-> Map!Index(o[k].str, n)], n)
            /\ capacity' = n
        BY <2>1, <4>1, <4>2 DEF Map!hm_rehash
      <4>5. buckets' = Map!Relinked(o, slot, n)
        BY <4>3, <4>4
      <4> QED
        BY <4>4, <4>5, MapChains
    <3>5. /\ Table(Relinked(o, slot, n), Map!Entry, n)
          /\ LinksOf(Relinked(o, slot, n)) = LinksOf(T)
      BY <1>6, <3>1, <3>2, <3>3, MapHeld, TableRehashed
    <3> QED
      BY <3>4, <3>5
  <2>2. CASE buckets' = T /\ capacity' = capacity
    BY <1>6, <2>2
  <2> QED
    BY <1>3, <2>1, <2>2
<1>8. Map!Held' = Map!Held \cup {f}
  BY <1>6, <1>7, MapHeld
<1>9. Map!OneEntryEach'
  BY <1>4, <1>5, <1>8 DEF TableInv, Map!OneEntryEach
<1>10. IsFiniteSet(Map!Held') /\ filled' \in Int
  BY <1>3, <1>8, FS_AddElement DEF TableInv
<1>11. TableInv'
  BY <1>7, <1>9, <1>10 DEF TableInv
<1>12. Dictionary!For(s) = {}
  BY <1>4 DEF Dictionary!For
<1>13. Dictionary!Put(s, v)
  BY <1>1, <1>3, <1>8, <1>12 DEF Map!Return, Dictionary!Put, Dictionary!Return
<1>14. result'.is = Null
  BY <1>3 DEF Map!Return
<1> QED
  BY <1>1, <1>3, <1>4, <1>8, <1>11, <1>13, <1>14

(* hm_erase *)
LEMMA EraseStep ==
    ASSUME kind = "map", kind' = "map", TableInv, NEW s \in String, Map!hm_erase(s)
    PROVE  /\ TableInv' /\ Dictionary!Erase(s)
           /\ \/ Map!Held' = Map!Held /\ filled' = filled /\ result'.is = Null
              \/ \E e \in Map!Held : /\ Map!Held' = Map!Held \ {e}
                                    /\ filled' = filled - 1 /\ result'.is = e
<1>1. CASE /\ Map!ByAddress(s) = {}
           /\ Map!Return(s, Null)
           /\ UNCHANGED <<buckets, capacity, filled>>
  <2>1. Map!Held' = Map!Held
    BY <1>1 DEF Map!Held
  <2>2. TableInv'
    BY <1>1, <2>1 DEF TableInv, Map!OneEntryEach
  <2>3. \A e \in Dictionary!For(s) : e.str # s
    BY <1>1, FoundIsAll DEF Dictionary!For
  <2>4. result'.is = Null /\ Dictionary!Erase(s)
    BY <1>1, <2>1, <2>3 DEF Map!Return, Dictionary!Erase, Dictionary!Return
  <2> QED
    BY <1>1, <2>1, <2>2, <2>4
<1>2. ASSUME NEW j \in Map!ByAddress(s),
             buckets' = Map!Unlinked(buckets, Map!Index(s, capacity), j),
             filled' = filled - 1, Map!Return(s, Map!Bucket(s)[j]), capacity' = capacity
      PROVE  /\ TableInv' /\ Dictionary!Erase(s)
             /\ \E e \in Map!Held : /\ Map!Held' = Map!Held \ {e}
                                    /\ filled' = filled - 1 /\ result'.is = e
  <2>1. PICK e : e = buckets[Slot(s, capacity)][j]
    OBVIOUS
  <2>2. /\ j \in DOMAIN buckets[Slot(s, capacity)]
        /\ Map!Bucket(s)[j] = e /\ e \in Map!Held /\ e.str = s
    BY <1>2, <2>1, FoundIsAll
  <2>3. buckets' = Unlinked(buckets, Slot(s, capacity), j)
    BY <1>2, MapHeld, MapChains
  <2>4. Table(buckets', Map!Entry, capacity) /\ LinksOf(buckets') = LinksOf(buckets) \ {e}
    BY <2>1, <2>2, <2>3, TableUnlinked DEF TableInv
  <2>5. Map!Held' = Map!Held \ {e}
    BY <2>4, MapHeld
  <2>6. Map!OneEntryEach' /\ IsFiniteSet(Map!Held')
    BY <2>5, FS_RemoveElement DEF TableInv, Map!OneEntryEach
  <2>7. TableInv'
    BY <1>2, <2>4, <2>6 DEF TableInv
  <2>8. result'.is = e /\ e \in Dictionary!For(s) /\ Map!Return(s, e)
    BY <1>2, <2>2 DEF Map!Return, Dictionary!For
  <2>9. Dictionary!Erase(s)
    BY <2>2, <2>5, <2>8 DEF Map!Return, Dictionary!Erase, Dictionary!Return
  <2> QED
    BY <1>2, <2>2, <2>5, <2>7, <2>8, <2>9
<1> QED
  BY <1>1, <1>2 DEF Map!hm_erase

(* A step of the client is one of a dictionary's, or none. *)
LEMMA DictionaryStep ==
    ASSUME TableInv, [Next]_containerVars
    PROVE  TableInv' /\ [Dictionary!Next]_(Dictionary!dictionaryVars)
<1> USE DEF Dictionary!dictionaryVars
<1>1. CASE MapCalls
  <2>1. kind = "map" /\ kind' = "map"
    BY <1>1 DEF MapCalls
  <2>2. PICK s \in String :
          \/ Map!hm_get(s)
          \/ Map!hm_erase(s)
          \/ \E b \in Clients : Map!hm_put(s, b)
    BY <1>1 DEF MapCalls
  <2>3. CASE Map!hm_get(s)
    BY <2>1, <2>3, GetStep DEF Dictionary!Next
  <2>4. CASE Map!hm_erase(s)
    BY <2>1, <2>4, EraseStep DEF Dictionary!Next
  <2>5. ASSUME NEW b \in Clients, Map!hm_put(s, b)
        PROVE  TableInv' /\ Dictionary!Put(s, b)
    <3>1. b \in Block
      BY DEF Clients
    <3> QED
      BY <2>1, <2>5, <3>1, ReplaceStep, InsertStep DEF Map!hm_put
  <2> QED
    BY <2>2, <2>3, <2>4, <2>5 DEF Dictionary!Next, Clients
<1>2. CASE kind = "map" /\ kind' # "map"
  BY <1>2 DEF TableInv, Dictionary!Next, Dictionary!Release
<1>3. CASE kind # "map" /\ kind' = kind
  BY <1>3 DEF TableInv
<1>4. CASE kind # "map" /\ kind' # "map"
  BY <1>4 DEF TableInv
<1>5. CASE UNCHANGED containerVars
  <2>1. UNCHANGED <<kind, buckets, capacity, filled, result>>
    BY <1>5 DEF containerVars, tableVars, listVars
  <2>2. Map!Held' = Map!Held
    BY <2>1 DEF Map!Held
  <2> QED
    BY <2>1, <2>2 DEF TableInv, Map!OneEntryEach
<1> QED
  BY <1>1, <1>2, <1>3, <1>4, <1>5
  DEF Next, ListPuts, ListTakes, SetCalls, MapToList, ListToArray, ArrayCalls, Release

(* A new map is empty. *)
LEMMA DictionaryInit == Init => TableInv /\ Dictionary!Init
<1> SUFFICES ASSUME Init
             PROVE  TableInv /\ Dictionary!Init
  OBVIOUS
<1>1. CASE kind = "map"
  <2>1. /\ buckets = Empty(MapCapacity) /\ capacity = MapCapacity
        /\ filled = 0 /\ result = Null
    BY <1>1, MapChains DEF Init, Map!hm_make
  <2>2. Table(buckets, Map!Entry, capacity) /\ Map!Held = {}
    BY <2>1, TableAssumption, EmptyTable, MapHeld
  <2>3. TableInv
    BY <2>1, <2>2, FS_EmptySet DEF TableInv, Map!OneEntryEach
  <2> QED
    BY <1>1, <2>1, <2>2, <2>3 DEF Dictionary!Init
<1>2. CASE kind # "map"
  BY <1>2 DEF TableInv, Dictionary!Init
<1> QED
  BY <1>1, <1>2

\* Whatever the hashes, and however often the buckets are exchanged, the map is a
\* dictionary: a text has at most one entry, found by every string with that text,
\* and a value that is replaced or erased comes back.
THEOREM MapIsDictionary == Spec => ImplementsDictionary
<1>1. Init => TableInv /\ Dictionary!Init
  BY DictionaryInit
<1>2. TableInv /\ [Next]_containerVars
        => TableInv' /\ [Dictionary!Next]_(Dictionary!dictionaryVars)
  BY DictionaryStep
<1> QED
  BY <1>1, <1>2, PTL DEF Spec, ImplementsDictionary, Dictionary!Spec

\* A map in use keeps its entries where they are looked for.
THEOREM MapKeepsBuckets == Spec => [](kind = "map" => Map!InItsBucket /\ Map!OneEntryEach)
<1>1. Init => TableInv
  BY DictionaryInit
<1>2. TableInv /\ [Next]_containerVars => TableInv'
  BY DictionaryStep
<1>3. TableInv => (kind = "map" => Map!InItsBucket /\ Map!OneEntryEach)
  BY MapHeld, MapChains DEF TableInv, Table, Map!InItsBucket
<1> QED
  BY <1>1, <1>2, <1>3, PTL DEF Spec

-----------------------------------------------------------------------------
(* The set *)

\* A set in use is a table, it holds no more links than were put, and so many were
\* never put without a rehash. No link has the number of a later put.
SetInv ==
    kind = "set" =>
        /\ Table(buckets, Set!Link, capacity)
        /\ filled \in Nat /\ filled <= 2 * capacity
        /\ IsFiniteSet(Set!Held) /\ Cardinality(Set!Held) <= filled
        /\ \A l \in Set!Held : l.put <= filled

\* What the set holds, before and after
LEMMA SetHeld ==
    /\ Set!Held = LinksOf(buckets) /\ Set!Held' = LinksOf(buckets')
    /\ \A s, n : Set!Index(s, n) = Slot(s, n)
    /\ \A l \in Set!Link : l.str \in String
BY SetChains DEF Set!Held, Set!Index, Slot, Set!Link

\* The sets of links are counted as all finite sets are
LEMMA SetCardinality == \A S : Set!Cardinality(S) = Cardinality(S)
BY DEF Set!Cardinality, Cardinality, Set!IsFiniteSet, IsFiniteSet

\* How often some links hold each string
Holding(H, s) == {l \in H : l.str = s}
Times(H) == [s \in String |-> Cardinality(Holding(H, s))]

\* The steps of a bag, said of the links
LEMMA BagMembers ==
    ASSUME kind = "set", kind' = "set"
    PROVE  /\ \A s : Bag!Put(s) <=> /\ Times(Set!Held') = [Times(Set!Held) EXCEPT ![s] = @ + 1]
                                    /\ result' = Null
           /\ \A s : Bag!Erase(s) <=>
                 /\ Times(Set!Held') = [Times(Set!Held) EXCEPT ![s] = IF @ > 0 THEN @ - 1 ELSE 0]
                 /\ result' = Null
           /\ \A s : Bag!Contains(s) <=>
                 /\ result' = [str |-> s, is |-> \E t \in String :
                                 Text(t) = Text(s) /\ Times(Set!Held)[t] > 0]
                 /\ Times(Set!Held') = Times(Set!Held)
BY DEF Bag!Put, Bag!Erase, Bag!Contains, Times, Holding

\* A new link is one more of its string
LEMMA OneMore ==
    ASSUME NEW H, IsFiniteSet(H), NEW s \in String, NEW x, x.str = s, x \notin H,
           NEW G, G = H \cup {x}
    PROVE  /\ IsFiniteSet(G) /\ Cardinality(G) = Cardinality(H) + 1
           /\ Times(G) = [Times(H) EXCEPT ![s] = @ + 1]
<1>1. IsFiniteSet(G) /\ Cardinality(G) = Cardinality(H) + 1
  BY FS_AddElement
<1>2. IsFiniteSet(Holding(H, s)) /\ x \notin Holding(H, s)
  BY FS_Subset DEF Holding
<1>3. Holding(G, s) = Holding(H, s) \cup {x}
  BY DEF Holding
<1>4. Cardinality(Holding(G, s)) = Cardinality(Holding(H, s)) + 1
  BY <1>2, <1>3, FS_AddElement
<1>5. \A u \in String : u # s => Holding(G, u) = Holding(H, u)
  BY DEF Holding
<1> QED
  BY <1>1, <1>4, <1>5 DEF Times

\* A link that is gone is one less of its string
LEMMA OneLess ==
    ASSUME NEW H, IsFiniteSet(H), NEW s \in String, NEW x \in H, x.str = s,
           NEW G, G = H \ {x}
    PROVE  /\ IsFiniteSet(G) /\ Cardinality(G) <= Cardinality(H)
           /\ Times(G) = [Times(H) EXCEPT ![s] = IF @ > 0 THEN @ - 1 ELSE 0]
<1>1. IsFiniteSet(G) /\ Cardinality(G) <= Cardinality(H)
  BY FS_Subset
<1>2. IsFiniteSet(Holding(H, s)) /\ x \in Holding(H, s)
  BY FS_Subset DEF Holding
<1>3. Holding(G, s) = Holding(H, s) \ {x}
  BY DEF Holding
<1>4. /\ Cardinality(Holding(G, s)) = Cardinality(Holding(H, s)) - 1
      /\ Cardinality(Holding(H, s)) \in Nat /\ Cardinality(Holding(G, s)) \in Nat
  <2>1. IsFiniteSet(Holding(G, s))
    BY <1>2, <1>3, FS_RemoveElement
  <2> QED
    BY <1>2, <1>3, <2>1, FS_RemoveElement, FS_CardinalityType
<1>5. \A u \in String : u # s => Holding(G, u) = Holding(H, u)
  BY DEF Holding
<1>6. DOMAIN Times(H) = String /\ Times(H)[s] = Cardinality(Holding(H, s))
  BY DEF Times
<1>7. ASSUME NEW u \in String
      PROVE  Times(G)[u] = [Times(H) EXCEPT ![s] = IF @ > 0 THEN @ - 1 ELSE 0][u]
  <2>1. Times(G)[u] = Cardinality(Holding(G, u)) /\ Times(H)[u] = Cardinality(Holding(H, u))
    BY DEF Times
  <2>2. CASE u = s
    BY <1>4, <1>6, <2>1, <2>2
  <2>3. CASE u # s
    BY <1>5, <1>6, <2>1, <2>3
  <2> QED
    BY <2>2, <2>3
<1>8. Times(G) = [Times(H) EXCEPT ![s] = IF @ > 0 THEN @ - 1 ELSE 0]
  <2>1. DOMAIN Times(G) = String
    BY DEF Times
  <2>2. Times(G) = [u \in String |-> Times(G)[u]]
    BY DEF Times
  <2>3. [Times(H) EXCEPT ![s] = IF @ > 0 THEN @ - 1 ELSE 0]
          = [u \in String |-> [Times(H) EXCEPT ![s] = IF @ > 0 THEN @ - 1 ELSE 0][u]]
    BY <1>6
  <2> QED
    BY <1>7, <2>2, <2>3
<1> QED
  BY <1>1, <1>8

(* hs_put, with or without new buckets *)
LEMMA SetPutStep ==
    ASSUME kind = "set", kind' = "set", SetInv, NEW s \in String, Set!hs_put(s)
    PROVE  SetInv' /\ Bag!Put(s)
<1>1. PICK x : x = [str |-> s, put |-> filled + 1]
  OBVIOUS
<1>2. PICK T : T = Pushed(buckets, Slot(s, capacity), x)
  OBVIOUS
<1>3. /\ filled \in Nat /\ capacity \in Nat \ {0} /\ filled' = filled + 1 /\ result' = Null
      /\ \/ filled + 1 > 2 * capacity /\ Set!hs_rehash(T)
         \/ filled + 1 <= 2 * capacity /\ buckets' = T /\ capacity' = capacity
  BY <1>1, <1>2, SetHeld, SetChains DEF Set!hs_put, Set!Added, SetInv, Table
<1>4. x \in Set!Link /\ x.str = s /\ x.put = filled + 1
  BY <1>1, <1>3 DEF Set!Link
<1>5. x \notin Set!Held
  BY <1>3, <1>4 DEF SetInv
<1>6. Table(T, Set!Link, capacity) /\ LinksOf(T) = LinksOf(buckets) \cup {x}
  <2>1. Table(buckets, Set!Link, capacity) /\ x \notin LinksOf(buckets)
    BY <1>5, SetHeld DEF SetInv
  <2> QED
    BY <1>2, <1>4, <2>1, TablePushed
<1>7. /\ Table(buckets', Set!Link, capacity') /\ LinksOf(buckets') = LinksOf(T)
      /\ filled + 1 <= 2 * capacity'
  <2>1. CASE filled + 1 > 2 * capacity /\ Set!hs_rehash(T)
    <3>1. PICK o, n : o = Walk(T, capacity) /\ n = Set!GrownCapacity(filled')
      OBVIOUS
    <3>2. PICK slot : slot = [k \in DOMAIN o |-> Slot(o[k].str, n)]
      OBVIOUS
    <3>3. n \in Nat \ {0} /\ filled + 1 <= 2 * n
      <4>1. n = (filled' * 4) \div 3
        BY <3>1 DEF Set!GrownCapacity
      <4> QED
        BY <1>3, <2>1, <4>1
    <3>4. buckets' = Relinked(o, slot, n) /\ capacity' = n
      <4>1. Set!Walk(T, capacity) = o
        BY <3>1, SetChains
      <4>2. [k \in DOMAIN o |-> Set!Index(o[k].str, n)] = slot
        BY <3>2, SetHeld
      <4>3. /\ buckets' = Set!Relinked(o, [k \in DOMAIN o |-> Set!Index(o[k].str, n)], n)
            /\ capacity' = n
        BY <2>1, <3>1, <4>1 DEF Set!hs_rehash
      <4>4. buckets' = Set!Relinked(o, slot, n)
        BY <4>2, <4>3
      <4> QED
        BY <4>3, <4>4, SetChains
    <3>5. /\ Table(Relinked(o, slot, n), Set!Link, n)
          /\ LinksOf(Relinked(o, slot, n)) = LinksOf(T)
      BY <1>6, <3>1, <3>2, <3>3, SetHeld, TableRehashed
    <3> QED
      BY <3>3, <3>4, <3>5
  <2>2. CASE filled + 1 <= 2 * capacity /\ buckets' = T /\ capacity' = capacity
    BY <1>6, <2>2
  <2> QED
    BY <1>3, <2>1, <2>2
<1>8. Set!Held' = Set!Held \cup {x}
  BY <1>6, <1>7, SetHeld
<1>9. IsFiniteSet(Set!Held) /\ Cardinality(Set!Held) <= filled /\ Cardinality(Set!Held) \in Nat
  BY FS_CardinalityType DEF SetInv
<1>10. /\ IsFiniteSet(Set!Held') /\ Cardinality(Set!Held') = Cardinality(Set!Held) + 1
       /\ Times(Set!Held') = [Times(Set!Held) EXCEPT ![s] = @ + 1]
  BY <1>4, <1>5, <1>8, <1>9, OneMore
<1>11. \A l \in Set!Held' : l.put <= filled'
  <2>1. \A l \in Set!Held : l.put <= filled /\ l.put \in Nat
    <3>1. \A l \in Set!Held : l \in Set!Link
      BY SetHeld, LinksTyped DEF SetInv
    <3> QED
      BY <3>1 DEF SetInv, Set!Link
  <2> QED
    BY <1>3, <1>4, <1>8, <2>1
<1>12. SetInv'
  <2>1. filled' \in Nat /\ filled' <= 2 * capacity' /\ Cardinality(Set!Held') <= filled'
    BY <1>3, <1>7, <1>9, <1>10
  <2> QED
    BY <1>7, <1>10, <1>11, <2>1 DEF SetInv
<1> QED
  BY <1>3, <1>10, <1>12, BagMembers

(* hs_erase *)
LEMMA SetEraseStep ==
    ASSUME kind = "set", kind' = "set", SetInv, NEW s \in String, Set!hs_erase(s)
    PROVE  SetInv' /\ Bag!Erase(s)
<1>1. /\ Table(buckets, Set!Link, capacity) /\ IsFiniteSet(Set!Held)
      /\ capacity' = capacity /\ filled' = filled /\ result' = Null
      /\ filled \in Nat /\ Cardinality(Set!Held) <= filled
      /\ Cardinality(Set!Held) \in Nat
  BY FS_CardinalityType DEF SetInv, Set!hs_erase
<1>2. PICK B : B = buckets[Slot(s, capacity)]
  OBVIOUS
<1>3. /\ B \in Seq(Set!Link)
      /\ \A j \in DOMAIN B : B[j] \in Set!Held
      /\ \A l \in Set!Held : Text(l.str) = Text(s) => \E j \in DOMAIN B : B[j] = l
  BY <1>1, <1>2, ChainOfText, SetHeld
<1>4. Set!Bucket(s) = B
  BY <1>2, SetHeld DEF Set!Bucket
<1>5. PICK strings : strings = {j \in DOMAIN B : B[j].str = s}
  OBVIOUS
<1>6. strings \in SUBSET Nat
  BY <1>3, <1>5
<1>7. PICK places : places = First(strings)
  OBVIOUS
<1>8. places \subseteq strings /\ (strings # {} => places # {})
  BY <1>6, <1>7, FirstFound
<1>9. \/ \E j \in places : buckets' = Unlinked(buckets, Slot(s, capacity), j)
      \/ places = {} /\ buckets' = buckets
  <2>1. Set!First({j \in DOMAIN Set!Bucket(s) : Set!Bucket(s)[j].str = s}) = places
    BY <1>4, <1>5, <1>7, SetChains
  <2> QED
    BY <2>1, SetHeld, SetChains DEF Set!hs_erase
<1>10. ASSUME NEW j \in places, buckets' = Unlinked(buckets, Slot(s, capacity), j)
       PROVE  SetInv' /\ Bag!Erase(s)
  <2>1. PICK x : x = buckets[Slot(s, capacity)][j]
    OBVIOUS
  <2>2. j \in DOMAIN buckets[Slot(s, capacity)] /\ x \in Set!Held /\ x.str = s
    BY <1>2, <1>3, <1>5, <1>8, <2>1
  <2>3. Table(buckets', Set!Link, capacity) /\ LinksOf(buckets') = LinksOf(buckets) \ {x}
    BY <1>1, <1>10, <2>1, <2>2, TableUnlinked
  <2>4. Set!Held' = Set!Held \ {x}
    BY <2>3, SetHeld
  <2>5. /\ IsFiniteSet(Set!Held') /\ Cardinality(Set!Held') <= Cardinality(Set!Held)
        /\ Times(Set!Held') = [Times(Set!Held) EXCEPT ![s] = IF @ > 0 THEN @ - 1 ELSE 0]
    BY <1>1, <2>2, <2>4, OneLess
  <2>6. Cardinality(Set!Held') \in Nat
    BY <2>5, FS_CardinalityType
  <2>7. Cardinality(Set!Held') <= filled'
    BY <1>1, <2>5, <2>6
  <2>8. SetInv'
    BY <1>1, <2>3, <2>4, <2>5, <2>7 DEF SetInv
  <2> QED
    BY <1>1, <2>5, <2>8, BagMembers
<1>11. ASSUME places = {}, buckets' = buckets
       PROVE  SetInv' /\ Bag!Erase(s)
  <2>1. Set!Held' = Set!Held
    BY <1>11 DEF Set!Held
  <2>2. SetInv'
    BY <1>1, <1>11, <2>1 DEF SetInv
  <2>3. Holding(Set!Held, s) = {}
    BY <1>3, <1>5, <1>8, <1>11 DEF Holding
  <2>4. Times(Set!Held)[s] = 0
    BY <2>3, FS_EmptySet DEF Times
  <2>5. Times(Set!Held) = [Times(Set!Held) EXCEPT ![s] = IF @ > 0 THEN @ - 1 ELSE 0]
    <3>1. ~(Times(Set!Held)[s] > 0)
      BY <2>4
    <3> QED
      BY <2>4, <3>1 DEF Times
  <2> QED
    BY <1>1, <2>1, <2>2, <2>5, BagMembers
<1> QED
  BY <1>9, <1>10, <1>11

(* hs_contains *)
LEMMA SetContainsStep ==
    ASSUME kind = "set", kind' = "set", SetInv, NEW s \in String, Set!hs_contains(s)
    PROVE  SetInv' /\ Bag!Contains(s)
<1>1. UNCHANGED <<buckets, capacity, filled>>
  BY DEF Set!hs_contains
<1>2. Set!Held' = Set!Held
  BY <1>1 DEF Set!Held
<1>3. SetInv'
  BY <1>1, <1>2 DEF SetInv
<1>4. PICK B : B = buckets[Slot(s, capacity)]
  OBVIOUS
<1>5. /\ \A j \in DOMAIN B : B[j] \in Set!Held
      /\ \A l \in Set!Held : Text(l.str) = Text(s) => \E j \in DOMAIN B : B[j] = l
  BY <1>4, ChainOfText, SetHeld DEF SetInv
<1>6. Set!Bucket(s) = B
  BY <1>4, SetHeld DEF Set!Bucket
<1>7. ASSUME NEW t \in String
      PROVE  Times(Set!Held)[t] > 0 <=> \E l \in Set!Held : l.str = t
  <2>1. IsFiniteSet(Holding(Set!Held, t))
    BY FS_Subset DEF Holding, SetInv
  <2>2. /\ Cardinality(Holding(Set!Held, t)) \in Nat
        /\ Cardinality(Holding(Set!Held, t)) = 0 <=> Holding(Set!Held, t) = {}
    BY <2>1, FS_EmptySet, FS_CardinalityType
  <2> QED
    BY <2>2 DEF Holding, Times
<1>8. (\E j \in DOMAIN B : Text(B[j].str) = Text(s))
        <=> \E t \in String : Text(t) = Text(s) /\ Times(Set!Held)[t] > 0
  <2>1. \A l \in Set!Held : l.str \in String
    BY SetHeld, LinksTyped DEF SetInv
  <2> QED
    BY <1>5, <1>7, <2>1
<1>9. result' = [str |-> s, is |-> \E j \in DOMAIN B : Text(B[j].str) = Text(s)]
  BY <1>6 DEF Set!hs_contains
<1>10. result' = [str |-> s, is |-> \E t \in String :
                     Text(t) = Text(s) /\ Times(Set!Held)[t] > 0]
  BY <1>8, <1>9, Zenon
<1> QED
  BY <1>2, <1>3, <1>10, BagMembers

(* A step of the client is one of a set's, or none. *)
LEMMA SetStep ==
    ASSUME SetInv, [Next]_containerVars
    PROVE  SetInv' /\ [Bag!Next]_(Bag!setVars)
<1> USE DEF Bag!setVars
<1>1. CASE SetCalls
  <2>1. kind = "set" /\ kind' = "set"
    BY <1>1 DEF SetCalls
  <2>2. PICK s \in String : Set!hs_put(s) \/ Set!hs_erase(s) \/ Set!hs_contains(s)
    BY <1>1 DEF SetCalls
  <2> QED
    BY <2>1, <2>2, SetPutStep, SetEraseStep, SetContainsStep DEF Bag!Next
<1>2. CASE kind = "set" /\ kind' # "set"
  BY <1>2 DEF SetInv, Bag!Next, Bag!Release, Bag!Nothing
<1>3. CASE kind # "set" /\ kind' # "set"
  BY <1>3 DEF SetInv
<1>4. CASE UNCHANGED containerVars
  <2>1. UNCHANGED <<kind, buckets, capacity, filled, result>>
    BY <1>4 DEF containerVars, tableVars, listVars
  <2>2. Set!Held' = Set!Held
    BY <2>1 DEF Set!Held
  <2> QED
    BY <2>1, <2>2 DEF SetInv
<1> QED
  BY <1>1, <1>2, <1>3, <1>4
  DEF Next, ListPuts, ListTakes, MapCalls, MapToList, ListToArray, ArrayCalls, Release

(* A new set is empty. *)
LEMMA SetInitially == Init => SetInv /\ Bag!Init
<1> SUFFICES ASSUME Init
             PROVE  SetInv /\ Bag!Init
  OBVIOUS
<1>1. CASE kind = "set"
  <2>1. /\ buckets = Empty(SetCapacity) /\ capacity = SetCapacity
        /\ filled = 0 /\ result = Null
    BY <1>1, SetChains DEF Init, Set!hs_make
  <2>2. Table(buckets, Set!Link, capacity) /\ Set!Held = {}
    BY <2>1, TableAssumption, EmptyTable, SetHeld
  <2>3. IsFiniteSet(Set!Held) /\ Cardinality(Set!Held) = 0
    BY <2>2, FS_EmptySet
  <2>4. SetInv
    BY <2>1, <2>2, <2>3, TableAssumption DEF SetInv
  <2>5. \A s \in String : {l \in Set!Held : l.str = s} = {}
    BY <2>2
  <2>6. \A s \in String : Cardinality({l \in Set!Held : l.str = s}) = 0
    BY <2>5, FS_EmptySet
  <2> QED
    BY <1>1, <2>1, <2>4, <2>6 DEF Bag!Init, Bag!Nothing
<1>2. CASE kind # "set"
  BY <1>2 DEF SetInv, Bag!Init, Bag!Nothing, Init, ll_make, Map!hm_make
<1> QED
  BY <1>1, <1>2

\* Whatever the hashes, and however often the buckets are exchanged, the set is a
\* bag of strings: what was put and not erased is found by every string with its
\* text, nothing else is, and no rehash loses or doubles a link.
THEOREM SetIsBag == Spec => ImplementsSet
<1>1. Init => SetInv /\ Bag!Init
  BY SetInitially
<1>2. SetInv /\ [Next]_containerVars => SetInv' /\ [Bag!Next]_(Bag!setVars)
  BY SetStep
<1> QED
  BY <1>1, <1>2, PTL DEF Spec, ImplementsSet, Bag!Spec

\* A set never holds more than two links to a bucket, although it counts what is
\* put and not what is erased.
THEOREM SetStaysRoomy == Spec => []SetNotCrowded
<1>1. SetInv => SetNotCrowded
  <2> SUFFICES ASSUME SetInv, kind = "set"
               PROVE  Set!NotCrowded
    BY DEF SetNotCrowded
  <2>1. /\ filled \in Nat /\ capacity \in Nat /\ filled <= 2 * capacity
        /\ Cardinality(Set!Held) <= filled
        /\ Cardinality(Set!Held) \in Nat
    BY FS_CardinalityType DEF SetInv, Table
  <2> QED
    BY <2>1, SetCardinality DEF Set!NotCrowded
<1>2. Init => SetInv
  BY SetInitially
<1>3. SetInv /\ [Next]_containerVars => SetInv'
  BY SetStep
<1> QED
  BY <1>1, <1>2, <1>3, PTL DEF Spec

-----------------------------------------------------------------------------
(* The nodes *)

\* A node has both fields
IsCell(c) == \E v, p : c = [value |-> v, next |-> p]
Cells == \A n \in Allocated : IsCell(cell[n])

\* A list in use is a chain of nodes
ListInv == kind \in {"list", "entries"} => WellFormed /\ Cells

(* Writing a node's link leaves nodes, and the other links. *)
LEMMA LinkedCells ==
    ASSUME Cells, NEW link, NEW q
    PROVE  LET c == Linked(cell, link, q)
           IN  /\ DOMAIN c = Allocated
               /\ \A m \in Allocated : /\ IsCell(c[m]) /\ c[m].value = cell[m].value
                                       /\ c[m].next = IF m = link THEN q ELSE cell[m].next
<1> DEFINE c == Linked(cell, link, q)
<1>1. DOMAIN c = Allocated
  BY DEF Linked, Allocated
<1>2. ASSUME NEW m \in Allocated
      PROVE  /\ IsCell(c[m]) /\ c[m].value = cell[m].value
             /\ c[m].next = IF m = link THEN q ELSE cell[m].next
  <2>1. PICK v, p : cell[m] = [value |-> v, next |-> p]
    BY DEF Cells, IsCell
  <2>2. c[m] = IF m = link THEN [cell[m] EXCEPT !.next = q] ELSE cell[m]
    BY DEF Linked, Allocated
  <2>3. [cell[m] EXCEPT !.next = q] = [value |-> v, next |-> q]
    BY <2>1
  <2>4. CASE m = link
    BY <2>2, <2>3, <2>4 DEF IsCell
  <2>5. CASE m # link
    BY <2>1, <2>2, <2>5 DEF IsCell
  <2> QED
    BY <2>4, <2>5
<1> QED
  BY <1>1, <1>2

(* A node put behind a chain makes a chain. *)
LEMMA AppendKeepsChain ==
    ASSUME size \in Nat, NEW s \in [1..size -> Node], IsChain(s), Cells,
           NEW v, NEW n \in Node \ Allocated, ll_append(n, v)
    PROVE  /\ Cells' /\ size' = size + 1
           /\ \E t \in [1..size' -> Node] :
                 /\ IsChain(t)'
                 /\ \A i \in 1..size' : t[i] = IF i = size + 1 THEN n ELSE s[i]
           /\ Allocated' = Allocated \cup {n}
           /\ cell'[n].value = v
           /\ \A m \in Allocated : cell'[m].value = cell[m].value
<1> DEFINE c == [value |-> v, next |-> Null]
<1>1. IsChain(s)
  OBVIOUS
<1>2. size \in Nat /\ size' = size + 1 /\ last' = n
  BY DEF ll_append, Appended, Becomes
<1>3. PICK t : t = [i \in 1..(size + 1) |-> IF i = size + 1 THEN n ELSE s[i]]
  OBVIOUS
<1>4. /\ t \in [1..size' -> Node]
      /\ \A i \in 1..size : t[i] = s[i] /\ t[i] # n
      /\ t[size + 1] = n
  BY <1>1, <1>2, <1>3 DEF IsChain
<1>5. /\ Allocated' = Allocated \cup {n}
      /\ cell'[n] = c
      /\ \A m \in Allocated : /\ IsCell(cell'[m]) /\ cell'[m].value = cell[m].value
                              /\ cell'[m].next = IF m = last THEN n ELSE cell[m].next
  <2> DEFINE w == Linked(cell, last, n)
  <2>1. cell' = With(w, n, c)
    BY DEF ll_append, Appended, Becomes
  <2>2. /\ DOMAIN w = Allocated
        /\ \A m \in Allocated : /\ IsCell(w[m]) /\ w[m].value = cell[m].value
                                /\ w[m].next = IF m = last THEN n ELSE cell[m].next
    BY LinkedCells
  <2> HIDE DEF w, c
  <2> QED
    BY <2>1, <2>2 DEF With, Allocated
<1>6. Cells'
  <2>1. IsCell(c)
    BY DEF IsCell
  <2> HIDE DEF c
  <2> QED
    BY <1>5, <2>1 DEF Cells, Allocated
<1>7. \A i, j \in 1..size' : t[i] = t[j] => i = j
  BY <1>1, <1>2, <1>4 DEF IsChain
<1>8. Allocated' = {t[i] : i \in 1..size'}
  BY <1>1, <1>2, <1>4, <1>5 DEF IsChain
<1>9. data' = IF size' = 0 THEN Null ELSE t[1]
  BY <1>1, <1>2, <1>4, ListAssumption DEF IsChain, ll_append, Appended, Becomes
<1>10. last' = IF size' = 0 THEN Front ELSE t[size']
  BY <1>2, <1>4
<1>11. ASSUME NEW i \in 1..size'
       PROVE  cell'[t[i]].next = IF i = size' THEN Null ELSE t[i + 1]
  <2>1. CASE i = size + 1
    BY <1>2, <1>4, <1>5, <2>1
  <2>2. CASE i \in 1..size
    <3>1. s[i] \in Allocated /\ cell[s[i]].next = (IF i = size THEN Null ELSE s[i + 1])
      BY <1>1, <2>2 DEF IsChain
    <3>2. s[i] = last <=> i = size
      BY <1>1, <1>2, <2>2 DEF IsChain
    <3>3. cell'[s[i]].next = IF i = size THEN n ELSE cell[s[i]].next
      BY <1>5, <3>1, <3>2
    <3> QED
      BY <1>2, <1>4, <2>2, <3>1, <3>3
  <2> QED
    BY <1>2, <2>1, <2>2
<1>12. IsChain(t)'
  BY <1>7, <1>8, <1>9, <1>10, <1>11 DEF IsChain
<1>13. size' \in Nat /\ t \in [1..size' -> Node]
  BY <1>2, <1>4
<1>14. cell'[n].value = v
  BY <1>5
<1>15. \A i \in 1..size' : t[i] = IF i = size + 1 THEN n ELSE s[i]
  BY <1>2, <1>3
<1> QED
  BY <1>2, <1>5, <1>6, <1>12, <1>13, <1>14, <1>15

(* A node put in front of a chain makes a chain. *)
LEMMA PrependKeepsChain ==
    ASSUME size \in Nat, NEW s \in [1..size -> Node], IsChain(s), Cells,
           NEW v, NEW n \in Node \ Allocated, ll_prepend(n, v)
    PROVE  /\ Cells' /\ size' = size + 1
           /\ \E t \in [1..size' -> Node] :
                 /\ IsChain(t)'
                 /\ \A i \in 1..size' : t[i] = IF i = 1 THEN n ELSE s[i - 1]
           /\ Allocated' = Allocated \cup {n}
           /\ cell'[n].value = v
           /\ \A m \in Allocated : cell'[m].value = cell[m].value
<1>1. IsChain(s)
  OBVIOUS
<1>2. size \in Nat /\ size' = size + 1 /\ data' = n
  BY DEF ll_prepend
<1>3. PICK t : t = [i \in 1..(size + 1) |-> IF i = 1 THEN n ELSE s[i - 1]]
  OBVIOUS
<1>4. /\ t \in [1..size' -> Node]
      /\ \A i \in 1..size : t[i + 1] = s[i] /\ s[i] # n
      /\ \A i \in 2..size' : t[i] = s[i - 1] /\ i - 1 \in 1..size
      /\ t[1] = n
  BY <1>1, <1>2, <1>3 DEF IsChain
<1>5. /\ Allocated' = Allocated \cup {n}
      /\ cell'[n] = [value |-> v, next |-> data]
      /\ \A m \in Allocated : cell'[m] = cell[m]
  BY DEF ll_prepend, With, Allocated
<1>6. Cells'
  <2>1. IsCell([value |-> v, next |-> data])
    BY DEF IsCell
  <2> QED
    BY <1>5, <2>1 DEF Cells, Allocated
<1>7. \A i, j \in 1..size' : t[i] = t[j] => i = j
  <2>1. \A i \in 1..size' : i = 1 \/ i \in 2..size'
    BY <1>2
  <2> QED
    BY <1>1, <1>2, <1>4, <2>1 DEF IsChain
<1>8. Allocated' = {t[i] : i \in 1..size'}
  <2>1. \A i \in 1..size : i + 1 \in 1..size'
    BY <1>2
  <2>2. 1 \in 1..size' /\ \A i \in 1..size' : i = 1 \/ i \in 2..size'
    BY <1>2
  <2> QED
    BY <1>1, <1>4, <1>5, <2>1, <2>2 DEF IsChain
<1>9. data' = IF size' = 0 THEN Null ELSE t[1]
  BY <1>2, <1>4
<1>10. last' = IF size' = 0 THEN Front ELSE t[size']
  BY <1>1, <1>2, <1>4, ListAssumption DEF IsChain, ll_prepend
<1>11. ASSUME NEW i \in 1..size'
       PROVE  cell'[t[i]].next = IF i = size' THEN Null ELSE t[i + 1]
  <2>1. CASE i = 1
    <3>1. cell'[t[i]].next = data
      BY <1>4, <1>5, <2>1
    <3>2. data = IF size = 0 THEN Null ELSE s[1]
      BY <1>1 DEF IsChain
    <3>3. size # 0 => t[2] = s[1]
      <4>1. size # 0 => 1 \in 1..size
        BY <1>2
      <4> QED
        BY <1>4, <4>1
    <3> QED
      BY <1>2, <2>1, <3>1, <3>2, <3>3
  <2>2. CASE i \in 2..size'
    <3>1. PICK j \in 1..size : j = i - 1
      BY <1>2, <1>4, <2>2
    <3>2. s[j] \in Allocated /\ cell[s[j]].next = IF j = size THEN Null ELSE s[j + 1]
      BY <1>1 DEF IsChain
    <3>3. t[i] = s[j] /\ cell'[t[i]] = cell[s[j]]
      BY <1>4, <1>5, <2>2, <3>1, <3>2
    <3>4. j # size => j + 1 \in 1..size /\ s[j + 1] = t[i + 1]
      BY <1>2, <1>4, <3>1
    <3> QED
      BY <1>2, <3>1, <3>2, <3>3, <3>4
  <2> QED
    BY <1>2, <2>1, <2>2
<1>12. IsChain(t)'
  BY <1>7, <1>8, <1>9, <1>10, <1>11 DEF IsChain
<1>13. size' \in Nat /\ t \in [1..size' -> Node]
  BY <1>2, <1>4
<1>14. \A i \in 1..size' : t[i] = IF i = 1 THEN n ELSE s[i - 1]
  BY <1>2, <1>3
<1>15. cell'[n].value = v
  BY <1>5
<1> QED
  BY <1>2, <1>5, <1>6, <1>12, <1>13, <1>14, <1>15

(* A chain without its first node is a chain. *)
LEMMA ShiftKeepsChain ==
    ASSUME size \in Nat, NEW s \in [1..size -> Node], IsChain(s), Cells, ll_shift
    PROVE  /\ Cells' /\ size # 0 /\ size' = size - 1
           /\ \E t \in [1..size' -> Node] :
                 IsChain(t)' /\ \A i \in 1..size' : t[i] = s[i + 1]
           /\ Allocated' = Allocated \ {s[1]}
           /\ result' = cell[s[1]].value
           /\ \A m \in Allocated' : cell'[m].value = cell[m].value
<1>1. IsChain(s)
  OBVIOUS
<1>2. size \in Nat \ {0} /\ size' = size - 1 /\ data = s[1] /\ s[1] \in Allocated
  BY <1>1 DEF ll_shift, IsChain
<1>3. PICK t : t = [i \in 1..(size - 1) |-> s[i + 1]]
  OBVIOUS
<1>4. /\ t \in [1..size' -> Node]
      /\ \A i \in 1..size' : t[i] = s[i + 1] /\ i + 1 \in 1..size /\ t[i] # s[1]
      /\ \A i \in 1..size : i # 1 => i - 1 \in 1..size' /\ t[i - 1] = s[i]
  BY <1>1, <1>2, <1>3 DEF IsChain
<1>5. /\ Allocated' = Allocated \ {s[1]}
      /\ \A m \in Allocated' : cell'[m] = cell[m]
  BY <1>2 DEF ll_shift, Without, Allocated
<1>6. Cells'
  BY <1>5 DEF Cells
<1>7. \A i, j \in 1..size' : t[i] = t[j] => i = j
  BY <1>1, <1>2, <1>4 DEF IsChain
<1>8. Allocated' = {t[i] : i \in 1..size'}
  BY <1>1, <1>4, <1>5 DEF IsChain
<1>9. data' = IF size' = 0 THEN Null ELSE t[1]
  BY <1>1, <1>2, <1>4 DEF IsChain, ll_shift
<1>10. last' = IF size' = 0 THEN Front ELSE t[size']
  BY <1>1, <1>2, <1>4 DEF IsChain, ll_shift
<1>11. ASSUME NEW i \in 1..size'
       PROVE  cell'[t[i]].next = IF i = size' THEN Null ELSE t[i + 1]
  <2>1. t[i] = s[i + 1] /\ i + 1 \in 1..size /\ cell'[t[i]] = cell[s[i + 1]]
    BY <1>4, <1>5, <1>8
  <2>2. cell[s[i + 1]].next = IF i + 1 = size THEN Null ELSE s[(i + 1) + 1]
    BY <1>1, <2>1 DEF IsChain
  <2>3. i # size' => i + 1 \in 1..size' /\ t[i + 1] = s[(i + 1) + 1]
    BY <1>2, <1>4
  <2> QED
    BY <1>2, <2>1, <2>2, <2>3
<1>12. IsChain(t)'
  BY <1>7, <1>8, <1>9, <1>10, <1>11 DEF IsChain
<1>13. size' \in Nat /\ t \in [1..size' -> Node]
  BY <1>2, <1>4
<1>14. result' = cell[s[1]].value
  BY <1>2 DEF ll_shift
<1> QED
  BY <1>2, <1>4, <1>5, <1>6, <1>12, <1>13, <1>14

(* The search for the last node ends at the link in front of it. *)
LEMMA LastLinkFound ==
    ASSUME size \in Nat \ {0}, NEW s \in [1..size -> Node], IsChain(s)
    PROVE  /\ LastLink = IF size = 1 THEN Front ELSE s[size - 1]
           /\ Target(LastLink) = s[size]
<1> DEFINE Ends(link) == Target(link) \in Allocated /\ cell[Target(link)].next = Null
           l == IF size = 1 THEN Front ELSE s[size - 1]
<1>1. /\ \A i \in 1..size : s[i] \in Allocated /\ s[i] \in Node /\ s[i] # Null /\ s[i] # Front
      /\ Allocated = {s[i] : i \in 1..size}
      /\ data = s[1]
      /\ \A i \in 1..size : cell[s[i]].next = IF i = size THEN Null ELSE s[i + 1]
      /\ \A i, j \in 1..size : s[i] = s[j] => i = j
  BY ListAssumption DEF IsChain
<1>2. l \in Allocated \cup {Front} /\ Target(l) = s[size] /\ Ends(l)
  BY <1>1 DEF Target
<1>3. ASSUME NEW m \in Allocated \cup {Front}, Ends(m)
      PROVE  m = l
  <2>1. PICK k \in 1..size : Target(m) = s[k]
    BY <1>1, <1>3
  <2>2. k = size
    BY <1>1, <1>3, <2>1
  <2>3. CASE m = Front
    BY <1>1, <2>1, <2>2, <2>3 DEF Target
  <2>4. ASSUME NEW j \in 1..size, m = s[j]
        PROVE  m = l
    <3>1. Target(m) = IF j = size THEN Null ELSE s[j + 1]
      BY <1>1, <2>4 DEF Target
    <3>2. j # size
      BY <1>1, <2>1, <3>1
    <3>3. j + 1 \in 1..size /\ s[j + 1] = s[size]
      BY <2>1, <2>2, <3>1, <3>2
    <3> QED
      BY <1>1, <2>4, <3>3
  <2> QED
    BY <1>1, <2>3, <2>4
<1>4. LastLink = l
  <2> HIDE DEF l
  <2> QED
    BY <1>2, <1>3 DEF LastLink
<1> QED
  BY <1>2, <1>4

(* A chain without its last node is a chain. *)
LEMMA PopKeepsChain ==
    ASSUME size \in Nat, NEW s \in [1..size -> Node], IsChain(s), Cells, ll_pop
    PROVE  /\ Cells' /\ size # 0 /\ size' = size - 1
           /\ \E t \in [1..size' -> Node] :
                 IsChain(t)' /\ \A i \in 1..size' : t[i] = s[i]
           /\ Allocated' = Allocated \ {s[size]}
           /\ result' = cell[s[size]].value
           /\ \A m \in Allocated' : cell'[m].value = cell[m].value
<1>1. IsChain(s)
  OBVIOUS
<1>2. size \in Nat \ {0} /\ size' = size - 1
  BY DEF ll_pop
<1>3. PICK t : t = [i \in 1..(size - 1) |-> s[i]]
  OBVIOUS
<1> DEFINE l == IF size = 1 THEN Front ELSE s[size - 1]
<1>4. LastLink = l /\ Target(LastLink) = s[size]
  BY <1>1, <1>2, LastLinkFound
<1>5. /\ \A i \in 1..size : s[i] \in Allocated /\ s[i] \in Node
      /\ Allocated = {s[i] : i \in 1..size}
      /\ data = s[1]
      /\ \A i \in 1..size : cell[s[i]].next = IF i = size THEN Null ELSE s[i + 1]
      /\ \A i, j \in 1..size : s[i] = s[j] => i = j
  BY <1>1, <1>2 DEF IsChain
<1>6. /\ t \in [1..size' -> Node]
      /\ \A i \in 1..size' : t[i] = s[i] /\ i \in 1..size /\ i # size
      /\ \A i \in 1..size : i # size => i \in 1..size'
  BY <1>2, <1>3, <1>5
<1>7. /\ Allocated' = Allocated \ {s[size]}
      /\ \A m \in Allocated' : /\ IsCell(cell'[m]) /\ cell'[m].value = cell[m].value
                               /\ cell'[m].next = IF m = l THEN Null ELSE cell[m].next
  <2> DEFINE w == Linked(cell, l, Null)
  <2>1. cell' = Without(w, s[size])
    BY <1>4 DEF ll_pop
  <2>2. /\ DOMAIN w = Allocated
        /\ \A m \in Allocated : /\ IsCell(w[m]) /\ w[m].value = cell[m].value
                                /\ w[m].next = IF m = l THEN Null ELSE cell[m].next
    BY LinkedCells
  <2> HIDE DEF w, l
  <2> QED
    BY <2>1, <2>2 DEF Without, Allocated
<1>8. Cells'
  BY <1>7 DEF Cells, Allocated
<1>9. Allocated' = {t[i] : i \in 1..size'}
  BY <1>2, <1>5, <1>6, <1>7
<1>10. data' = IF size' = 0 THEN Null ELSE t[1]
  BY <1>2, <1>4, <1>5, <1>6, ListAssumption DEF ll_pop
<1>11. last' = IF size' = 0 THEN Front ELSE t[size']
  BY <1>2, <1>4, <1>6 DEF ll_pop
<1>12. ASSUME NEW i \in 1..size'
       PROVE  cell'[t[i]].next = IF i = size' THEN Null ELSE t[i + 1]
  <2>1. t[i] \in Allocated' /\ t[i] \in Allocated /\ t[i] = s[i]
    BY <1>6, <1>7, <1>9
  <2>2. t[i] = l <=> i = size'
    BY <1>2, <1>5, <1>6, ListAssumption
  <2>3. cell'[t[i]].next = IF i = size' THEN Null ELSE cell[t[i]].next
    BY <1>7, <2>1, <2>2
  <2> QED
    BY <1>2, <1>5, <1>6, <2>1, <2>3
<1>13. \A i, j \in 1..size' : t[i] = t[j] => i = j
  BY <1>5, <1>6
<1>14. IsChain(t)'
  BY <1>9, <1>10, <1>11, <1>12, <1>13 DEF IsChain
<1>15. size' \in Nat /\ t \in [1..size' -> Node]
  BY <1>2, <1>6
<1>16. result' = cell[s[size]].value
  BY <1>4 DEF ll_pop
<1> QED
  BY <1>2, <1>6, <1>7, <1>8, <1>14, <1>15, <1>16

\* `at` says where a node comes among n
Places(at, node, n) ==
    node \in [1..n -> Node] /\ \A i \in 1..n : at[node[i]] = i

\* The list of the first k values of V in the first k nodes
ListOf(k, node, V, at) ==
    [cell |-> [m \in {node[i] : i \in 1..k} |->
                 [value |-> V[at[m]], next |-> IF at[m] = k THEN Null ELSE node[at[m] + 1]]],
     data |-> IF k = 0 THEN Null ELSE node[1],
     last |-> IF k = 0 THEN Front ELSE node[k],
     size |-> k]

\* A value appended makes it the list of one more
LEMMA ListOfOneMore ==
    ASSUME NEW n \in Nat, NEW node, NEW at, Places(at, node, n), NEW V,
           NEW k \in 1..n, NEW j, j = k - 1
    PROVE  Appended(ListOf(j, node, V, at), node[k], V[k]) = ListOf(k, node, V, at)
<1> USE DEF Places
<1>1. PICK l : l = ListOf(j, node, V, at)
  OBVIOUS
<1>2. j \in Nat /\ j + 1 = k /\ j # k
  OBVIOUS
<1>3. PICK C, c : C = l.cell /\ c = [value |-> V[k], next |-> Null]
  OBVIOUS
<1>4. /\ DOMAIN C = {node[i] : i \in 1..j}
      /\ \A i \in 1..j : C[node[i]] = [value |-> V[i],
                                       next |-> IF i = j THEN Null ELSE node[i + 1]]
  <2>1. C = [m \in {node[i] : i \in 1..j} |->
               [value |-> V[at[m]], next |-> IF at[m] = j THEN Null ELSE node[at[m] + 1]]]
    BY <1>1, <1>3 DEF ListOf
  <2>2. \A i \in 1..j : at[node[i]] = i
    BY <1>2
  <2> QED
    BY <2>1, <2>2
<1>5. /\ l.data = (IF j = 0 THEN Null ELSE node[1])
      /\ l.last = (IF j = 0 THEN Front ELSE node[j])
      /\ l.size = j
  BY <1>1 DEF ListOf
<1>6. /\ \A i \in 1..k : node[i] \in Node /\ node[i] # Front
      /\ \A i, h \in 1..k : node[i] = node[h] => i = h
  <2>1. \A i \in 1..k : i \in 1..n /\ at[node[i]] = i
    BY <1>2
  <2>2. \A i, h \in 1..k : node[i] = node[h] => i = h
    BY <2>1
  <2> QED
    BY <2>1, <2>2, ListAssumption
<1>7. PICK D : D = With(Linked(C, l.last, node[k]), node[k], c)
  OBVIOUS
<1>8. DOMAIN D = {node[i] : i \in 1..k}
  <2>1. DOMAIN D = {node[i] : i \in 1..j} \cup {node[k]}
    BY <1>4, <1>7 DEF With, Linked
  <2>2. \A i : i \in 1..k <=> i \in 1..j \/ i = k
    BY <1>2
  <2> QED
    BY <2>1, <2>2
<1>9. ASSUME NEW i \in 1..k
      PROVE  D[node[i]] = [value |-> V[i], next |-> IF i = k THEN Null ELSE node[i + 1]]
  <2>1. CASE i = k
    <3>1. D[node[k]] = c
      BY <1>7 DEF With
    <3> QED
      BY <1>3, <2>1, <3>1
  <2>2. CASE i # k
    <3>1. i \in 1..j /\ node[i] # node[k] /\ node[i] \in DOMAIN C /\ j # 0
      BY <1>2, <1>4, <1>6, <2>2
    <3>2. D[node[i]] = Linked(C, l.last, node[k])[node[i]]
      BY <1>7, <3>1 DEF With, Linked
    <3>3. Linked(C, l.last, node[k])[node[i]] =
             IF node[i] = node[j] THEN [C[node[i]] EXCEPT !.next = node[k]] ELSE C[node[i]]
      BY <1>5, <3>1 DEF Linked
    <3>4. CASE i = j
      <4>1. [C[node[i]] EXCEPT !.next = node[k]] = [value |-> V[i], next |-> node[k]]
        <5>1. PICK p : C[node[i]] = [value |-> V[i], next |-> p]
          BY <1>4, <3>1
        <5> QED
          BY <5>1
      <4> QED
        BY <1>2, <2>2, <3>2, <3>3, <3>4, <4>1
    <3>5. CASE i # j
      <4>1. node[i] # node[j]
        BY <1>2, <1>6, <3>1, <3>5
      <4>2. C[node[i]] = [value |-> V[i], next |-> node[i + 1]]
        BY <1>4, <3>1, <3>5
      <4> QED
        BY <2>2, <3>2, <3>3, <4>1, <4>2
    <3> QED
      BY <3>4, <3>5
  <2> QED
    BY <2>1, <2>2
<1>10. PICK E : E = [m \in {node[i] : i \in 1..k} |->
               [value |-> V[at[m]], next |-> IF at[m] = k THEN Null ELSE node[at[m] + 1]]]
  OBVIOUS
<1>11. D = E
  <2>1. DOMAIN E = {node[i] : i \in 1..k}
    BY <1>10
  <2>2. ASSUME NEW i \in 1..k
        PROVE  E[node[i]] = [value |-> V[i], next |-> IF i = k THEN Null ELSE node[i + 1]]
    <3>1. at[node[i]] = i
      OBVIOUS
    <3> QED
      BY <1>10, <3>1
  <2>3. \A m \in {node[i] : i \in 1..k} : D[m] = E[m]
    <3> SUFFICES ASSUME NEW i \in 1..k
                 PROVE  D[node[i]] = E[node[i]]
      OBVIOUS
    <3>1. PICK q : q = IF i = k THEN Null ELSE node[i + 1]
      OBVIOUS
    <3>2. D[node[i]] = [value |-> V[i], next |-> q] /\ E[node[i]] = [value |-> V[i], next |-> q]
      BY <1>9, <2>2, <3>1
    <3> QED
      BY <3>2
  <2>4. D = [m \in DOMAIN D |-> D[m]] /\ E = [m \in DOMAIN E |-> E[m]]
    BY <1>7, <1>10 DEF With
  <2> QED
    BY <1>8, <2>1, <2>3, <2>4
<1>12. /\ k # 0 /\ l.size + 1 = k
       /\ (IF l.last = Front THEN node[k] ELSE l.data) = node[1]
  BY <1>2, <1>5, <1>6
<1>13. Appended(l, node[k], V[k]) =
          [cell |-> D, data |-> node[1], last |-> node[k], size |-> k]
  BY <1>3, <1>7, <1>12 DEF Appended
<1>14. ListOf(k, node, V, at) = [cell |-> E, data |-> node[1], last |-> node[k], size |-> k]
  BY <1>10, <1>12 DEF ListOf
<1> QED
  BY <1>1, <1>11, <1>13, <1>14

\* hm_free_to appends every entry that the loop comes to
LEMMA ListedIsListOf ==
    ASSUME NEW n \in Nat, NEW order, Len(order) = n,
           NEW node, NEW at, Places(at, node, n),
           NEW V, \A i \in 1..n : V[i] = <<order[i].str, order[i].value>>
    PROVE  Listed(order, node) = ListOf(n, node, V, at)
<1> DEFINE Goes(f) == f = [k \in 0..n |->
               IF k = 0 THEN NewList
               ELSE Appended(f[k - 1], node[k], <<order[k].str, order[k].value>>)]
<1>1. PICK g : g = [k \in 0..n |-> ListOf(k, node, V, at)]
  OBVIOUS
<1>2. g[0] = NewList
  <2>1. {node[i] : i \in 1..0} = {}
    OBVIOUS
  <2>2. [m \in {node[i] : i \in 1..0} |->
            [value |-> V[at[m]], next |-> IF at[m] = 0 THEN Null ELSE node[at[m] + 1]]] = <<>>
    <3>1. PICK F : F = [m \in {node[i] : i \in 1..0} |->
            [value |-> V[at[m]], next |-> IF at[m] = 0 THEN Null ELSE node[at[m] + 1]]]
      OBVIOUS
    <3>2. DOMAIN F = {} /\ F = [m \in {} |-> F[m]]
      BY <2>1, <3>1
    <3>3. F \in Seq({})
      <4>1. 1..0 = {}
        OBVIOUS
      <4>2. F \in [1..0 -> {}]
        BY <3>2, <4>1
      <4> QED
        BY <4>2
    <3>4. Len(F) = 0
      BY <3>2, <3>3
    <3> QED
      BY <3>1, <3>3, <3>4, EmptySeq
  <2>3. g[0] = ListOf(0, node, V, at)
    BY <1>1
  <2> QED
    BY <2>2, <2>3 DEF ListOf, NewList
<1>3. ASSUME NEW k \in 1..n
      PROVE  g[k] = Appended(g[k - 1], node[k], <<order[k].str, order[k].value>>)
  <2>1. k - 1 \in 0..n /\ k \in 0..n /\ V[k] = <<order[k].str, order[k].value>>
    OBVIOUS
  <2>2. g[k - 1] = ListOf(k - 1, node, V, at) /\ g[k] = ListOf(k, node, V, at)
    BY <1>1, <2>1
  <2>3. PICK j : j = k - 1
    OBVIOUS
  <2>4. Appended(g[j], node[k], V[k]) = g[k]
    BY <2>2, <2>3, ListOfOneMore
  <2> QED
    BY <2>1, <2>3, <2>4
<1>4. Goes(g)
  <2>1. \A k \in 0..n : k # 0 => k \in 1..n
    OBVIOUS
  <2>2. \A k \in 0..n : g[k] = IF k = 0 THEN NewList
               ELSE Appended(g[k - 1], node[k], <<order[k].str, order[k].value>>)
    BY <1>2, <1>3, <2>1
  <2>3. g = [k \in 0..n |-> g[k]]
    BY <1>1
  <2> QED
    BY <2>2, <2>3
<1>5. ASSUME NEW f, Goes(f)
      PROVE  f = g
  <2> DEFINE D == {k \in 0..n : f[k] # g[k]}
  <2>1. ASSUME D # {}
        PROVE  FALSE
    <3>1. PICK k \in D : \A j \in D : ~(j < k)
      <4>1. D \in SUBSET Nat
        OBVIOUS
      <4> HIDE DEF D
      <4> QED
        BY <2>1, <4>1, LeastOf
    <3>2. k # 0
      BY <1>2, <1>5, <3>1
    <3>3. f[k] = Appended(f[k - 1], node[k], <<order[k].str, order[k].value>>)
      BY <1>5, <3>1, <3>2
    <3>4. k - 1 \in 0..n /\ k - 1 < k /\ k \in 1..n
      BY <3>1, <3>2
    <3>5. f[k - 1] = g[k - 1]
      BY <3>1, <3>4
    <3> QED
      BY <1>3, <3>1, <3>3, <3>4, <3>5
  <2>2. f = [k \in 0..n |-> f[k]] /\ \A k \in 0..n : f[k] = g[k]
    BY <1>5, <2>1
  <2>3. g = [k \in 0..n |-> g[k]]
    BY <1>1
  <2> QED
    BY <2>2, <2>3
<1> HIDE DEF Goes
<1>6. (CHOOSE f : Goes(f)) = g
  BY <1>4, <1>5
<1>7. Listed(order, node) = g[n]
  BY <1>6 DEF Listed, Goes
<1> QED
  BY <1>1, <1>7

(* The entries of a map, one after another as the buckets are walked, make a chain. *)
LEMMA EntriesMakeChain ==
    ASSUME TableInv, MapToList
    PROVE  /\ WellFormed' /\ Cells' /\ size' \in Nat
           /\ \E order, t :
                 /\ t \in [1..size' -> Node]
                 /\ \A i \in 1..size' : order[i] \in Map!Held
                 /\ \A e \in Map!Held : \E i \in 1..size' : order[i] = e
                 /\ \A i, j \in 1..size' : order[i] = order[j] => i = j
                 /\ \A i, j \in 1..size' : t[i] = t[j] => i = j
                 /\ Allocated' = {t[i] : i \in 1..size'}
                 /\ \A i \in 1..size' :
                       cell'[t[i]].value = <<order[i].str, order[i].value>>
<1>1. PICK order : order = Walk(buckets, capacity)
  OBVIOUS
<1>2. Table(buckets, Map!Entry, capacity)
  BY DEF TableInv, MapToList
<1>3. order \in Seq(Map!Entry) /\ Range(order) = Map!Held /\ IsInjective(order)
  <2>1. Visits(order, buckets, Map!Entry)
    BY <1>1, <1>2, WalkLinks DEF Table
  <2> QED
    BY <1>2, <2>1, MapHeld DEF Visits, Table
<1>4. PICK n : n = Len(order)
  OBVIOUS
<1>5. n \in Nat /\ DOMAIN order = 1..n
  BY <1>3, <1>4
<1>6. PICK t \in [1..n -> Node] : IsInjective(t) /\ Becomes(Listed(order, t))
  <2>1. Map!Walk(buckets, capacity) = order
    BY <1>1, MapChains
  <2> QED
    BY <1>4, <2>1 DEF MapToList
<1>7. \A i, j \in 1..n : t[i] = t[j] => i = j
  BY <1>6 DEF IsInjective
<1>8. PICK at : at = [m \in Node |-> CHOOSE i \in 1..n : t[i] = m]
  OBVIOUS
<1>9. Places(at, t, n)
  BY <1>7, <1>8 DEF Places
<1>10. PICK V : \A i \in 1..n : V[i] = <<order[i].str, order[i].value>>
  <2>1. PICK W : W = [i \in 1..n |-> <<order[i].str, order[i].value>>]
    OBVIOUS
  <2>2. \A i \in 1..n : W[i] = <<order[i].str, order[i].value>>
    BY <2>1
  <2> QED
    BY <2>2
<1>11. Becomes(ListOf(n, t, V, at))
  BY <1>4, <1>5, <1>6, <1>9, <1>10, ListedIsListOf
<1>12. /\ cell' = [m \in {t[i] : i \in 1..n} |->
                 [value |-> V[at[m]], next |-> IF at[m] = n THEN Null ELSE t[at[m] + 1]]]
       /\ data' = IF n = 0 THEN Null ELSE t[1]
       /\ last' = IF n = 0 THEN Front ELSE t[n]
       /\ size' = n
  BY <1>11 DEF Becomes, ListOf
<1>13. Allocated' = {t[i] : i \in 1..n}
  BY <1>12 DEF Allocated
<1>14. ASSUME NEW i \in 1..n
       PROVE  /\ cell'[t[i]].value = <<order[i].str, order[i].value>>
              /\ cell'[t[i]].next = IF i = n THEN Null ELSE t[i + 1]
              /\ IsCell(cell'[t[i]])
  <2>1. at[t[i]] = i
    BY <1>9 DEF Places
  <2>2. PICK v, q : v = V[i] /\ q = IF i = n THEN Null ELSE t[i + 1]
    OBVIOUS
  <2>3. cell'[t[i]] = [value |-> v, next |-> q]
    BY <1>12, <2>1, <2>2
  <2>4. cell'[t[i]].value = v /\ cell'[t[i]].next = q
    BY <2>3
  <2>5. IsCell(cell'[t[i]])
    BY <2>3, Zenon DEF IsCell
  <2> QED
    BY <1>10, <2>2, <2>4, <2>5
<1>15. Cells'
  BY <1>13, <1>14 DEF Cells
<1>16. IsChain(t)'
  BY <1>7, <1>12, <1>13, <1>14 DEF IsChain
<1>17. size' \in Nat /\ t \in [1..size' -> Node]
  BY <1>5, <1>6, <1>12
<1>18. WellFormed'
  BY <1>16, <1>17 DEF WellFormed
<1>19. /\ \A i \in 1..n : order[i] \in Map!Held
       /\ \A e \in Map!Held : \E i \in 1..n : order[i] = e
       /\ \A i, j \in 1..n : order[i] = order[j] => i = j
  BY <1>3, <1>5, Zenon DEF Range, IsInjective
<1>20. n = size' /\ t \in [1..size' -> Node]
  BY <1>12, <1>17
<1>21. /\ \A i \in 1..size' : order[i] \in Map!Held
       /\ \A e \in Map!Held : \E i \in 1..size' : order[i] = e
       /\ \A i, j \in 1..size' : order[i] = order[j] => i = j
       /\ \A i, j \in 1..size' : t[i] = t[j] => i = j
       /\ Allocated' = {t[i] : i \in 1..size'}
       /\ \A i \in 1..size' : cell'[t[i]].value = <<order[i].str, order[i].value>>
  BY <1>7, <1>13, <1>14, <1>19, <1>20
<1> QED
  BY <1>15, <1>17, <1>18, <1>20, <1>21, Zenon

(* A loop from d along the links of the cells c passes the nodes of a chain in *)
(* their order.                                                                *)
LEMMA LoopAlongChain ==
    ASSUME NEW n \in Nat, NEW c, NEW d, NEW s \in [1..n -> Node],
           d = IF n = 0 THEN Null ELSE s[1],
           \A i \in 1..n : c[s[i]].next = IF i = n THEN Null ELSE s[i + 1]
    PROVE  (CHOOSE f : f = [i \in 1..n |-> IF i = 1 THEN d ELSE c[f[i - 1]].next]) = s
<1> DEFINE Loops(f) == f = [i \in 1..n |-> IF i = 1 THEN d ELSE c[f[i - 1]].next]
<1>1. Loops(s)
  <2>1. \A i \in 1..n : s[i] = IF i = 1 THEN d ELSE c[s[i - 1]].next
    <3> SUFFICES ASSUME NEW i \in 1..n
                 PROVE  s[i] = IF i = 1 THEN d ELSE c[s[i - 1]].next
      OBVIOUS
    <3>1. i # 1 => /\ i - 1 \in 1..n /\ i - 1 # n
                   /\ c[s[i - 1]].next = s[(i - 1) + 1]
      OBVIOUS
    <3> QED
      BY <3>1
  <2> QED
    BY <2>1
<1>2. ASSUME NEW f, Loops(f)
      PROVE  f = s
  <2> DEFINE D == {i \in 1..n : f[i] # s[i]}
  <2>1. ASSUME D # {}
        PROVE  FALSE
    <3>1. PICK i \in D : \A j \in D : ~(j < i)
      <4>1. D \in SUBSET Nat
        OBVIOUS
      <4> HIDE DEF D
      <4> QED
        BY <2>1, <4>1, LeastOf
    <3>2. f[i] = IF i = 1 THEN d ELSE c[f[i - 1]].next
      BY <1>2, <3>1
    <3>3. s[i] = IF i = 1 THEN d ELSE c[s[i - 1]].next
      BY <1>1, <3>1
    <3>4. i # 1 => f[i - 1] = s[i - 1]
      BY <3>1
    <3> QED
      BY <3>1, <3>2, <3>3, <3>4
  <2>2. f = [i \in 1..n |-> f[i]] /\ \A i \in 1..n : f[i] = s[i]
    BY <1>2, <2>1
  <2> QED
    BY <2>2
<1> HIDE DEF Loops
<1>3. (CHOOSE f : Loops(f)) = s
  BY <1>1, <1>2
<1> QED
  BY <1>3 DEF Loops

\* The nodes as the loops over a list find them are its chain
LEMMA NthOfChain ==
    ASSUME NEW s
    PROVE  /\ size \in Nat /\ s \in [1..size -> Node] /\ IsChain(s) => Nth = s
           /\ size' \in Nat /\ s \in [1..size' -> Node] /\ IsChain(s)' => Nth' = s
<1>1. ASSUME size \in Nat, s \in [1..size -> Node], IsChain(s)
      PROVE  Nth = s
  <2>1. /\ data = IF size = 0 THEN Null ELSE s[1]
        /\ \A i \in 1..size : cell[s[i]].next = IF i = size THEN Null ELSE s[i + 1]
    BY <1>1 DEF IsChain
  <2> QED
    BY <1>1, <2>1, LoopAlongChain DEF Nth
<1>2. ASSUME size' \in Nat, s \in [1..size' -> Node], IsChain(s)'
      PROVE  Nth' = s
  <2>1. /\ data' = IF size' = 0 THEN Null ELSE s[1]
        /\ \A i \in 1..size' : cell'[s[i]].next = IF i = size' THEN Null ELSE s[i + 1]
    BY <1>2 DEF IsChain
  <2>2. Nth' = CHOOSE f : f = [i \in 1..size' |->
                                  IF i = 1 THEN data' ELSE cell'[f[i - 1]].next]
    BY DEF Nth
  <2>3. ASSUME NEW n, NEW c, NEW d, n = size', c = cell', d = data'
        PROVE  (CHOOSE f : f = [i \in 1..n |-> IF i = 1 THEN d ELSE c[f[i - 1]].next]) = s
    BY <1>2, <2>1, <2>3, LoopAlongChain
  <2> QED
    BY <2>2, <2>3
<1> QED
  BY <1>1, <1>2

(* A new list is an empty chain. *)
LEMMA EmptyChain == ll_make => WellFormed /\ Cells
<1> SUFFICES ASSUME ll_make
             PROVE  WellFormed /\ Cells
  OBVIOUS
<1>1. size = 0 /\ Allocated = {} /\ data = Null /\ last = Front
  BY DEF ll_make, Allocated
<1>2. PICK s : s = [i \in 1..0 |-> Null]
  OBVIOUS
<1>3. s \in [1..size -> Node] /\ IsChain(s)
  BY <1>1, <1>2 DEF IsChain
<1> QED
  BY <1>1, <1>3 DEF WellFormed, Cells

-----------------------------------------------------------------------------
(* Who answers for each block *)

\* What a container holds, once each, is what lies with it
OwnInv ==
    /\ place \in [Block -> Place]
    /\ Contents = {b \in Block : place[b] = "container"}
    /\ kind \in {"list", "entries"} =>
          /\ \A n \in Allocated : cell[n].value \in IF kind = "list" THEN Block ELSE String \X Block
          /\ \A m, n \in Allocated : BlockOf(cell[m].value) = BlockOf(cell[n].value) => m = n
    /\ kind \notin {"list", "entries"} => Allocated = {}
    /\ kind = "map" =>
          /\ \A e, f \in Map!Held : e.value = f.value => e = f
          /\ filled = Cardinality(Map!Held)
    /\ kind = "array" => array \in Seq(Block) /\ IsInjective(array)

LEMMA MovedPlaces ==
    ASSUME place \in [Block -> Place], NEW B, NEW to \in Place
    PROVE  /\ Moved(B, to) \in [Block -> Place]
           /\ to # "container" => {b \in Block : Moved(B, to)[b] = "container"}
                                    = {b \in Block : place[b] = "container"} \ B
           /\ to = "container" /\ B \subseteq Block =>
                 {b \in Block : Moved(B, to)[b] = "container"}
                    = {b \in Block : place[b] = "container"} \cup B
BY DEF Moved

(* What is put into a list is new there. *)
LEMMA PutsAccounted ==
    ASSUME OwnInv, ListInv, ListPuts
    PROVE  OwnInv'
<1>1. kind = "list" /\ kind' = "list"
  BY DEF ListPuts
<1>2. PICK b \in Clients, n \in Node \ Allocated :
         (ll_append(n, b) \/ ll_prepend(n, b)) /\ place' = Moved({b}, "container")
  BY DEF ListPuts
<1>3. b \in Block /\ place[b] = "client"
  BY DEF Clients
<1>4. /\ Allocated' = Allocated \cup {n} /\ cell'[n].value = b
      /\ \A m \in Allocated : cell'[m].value = cell[m].value
  <2>1. PICK s \in [1..size -> Node] : size \in Nat /\ Cells /\ IsChain(s)
    BY <1>1 DEF ListInv, WellFormed
  <2> QED
    BY <1>2, <2>1, AppendKeepsChain, PrependKeepsChain
<1>5. /\ Contents = {cell[m].value : m \in Allocated}
      /\ Contents' = {cell'[m].value : m \in Allocated'}
  BY <1>1 DEF Contents, BlockOf
<1>6. Contents' = Contents \cup {b}
  BY <1>4, <1>5
<1>7. b \notin Contents
  BY <1>3 DEF OwnInv
<1>8. \A m \in Allocated : cell[m].value \in Contents
  BY <1>5
<1>9. /\ \A m \in Allocated' : cell'[m].value \in Block
      /\ \A l, m \in Allocated' : cell'[l].value = cell'[m].value => l = m
  BY <1>1, <1>2, <1>3, <1>4, <1>7, <1>8 DEF OwnInv, BlockOf
<1>10. place' \in [Block -> Place] /\ Contents' = {c \in Block : place'[c] = "container"}
  BY <1>2, <1>3, <1>6, MovedPlaces DEF OwnInv, Place
<1> QED
  BY <1>1, <1>9, <1>10 DEF OwnInv, BlockOf

(* What is taken from a list is no longer in it. *)
LEMMA TakesAccounted ==
    ASSUME OwnInv, ListInv, ListTakes
    PROVE  OwnInv'
<1>1. kind \in {"list", "entries"} /\ kind' = kind
  BY DEF ListTakes
<1>2. CASE TakesNothing /\ UNCHANGED place
  BY <1>1, <1>2 DEF TakesNothing, OwnInv, Contents, BlockOf, Allocated
<1>3. ASSUME ll_pop \/ ll_shift, place' = Moved({BlockOf(result')}, "client")
      PROVE  OwnInv'
  <2>1. PICK s \in [1..size -> Node] : size \in Nat /\ Cells /\ IsChain(s)
    BY <1>1 DEF ListInv, WellFormed
  <2>2. PICK n \in Allocated :
           /\ Allocated' = Allocated \ {n} /\ result' = cell[n].value
           /\ \A m \in Allocated' : cell'[m].value = cell[m].value
    <3>1. size # 0 => s[1] \in Allocated /\ s[size] \in Allocated
      BY <2>1 DEF IsChain
    <3> QED
      BY <1>3, <2>1, <3>1, PopKeepsChain, ShiftKeepsChain
  <2>3. /\ Contents = {BlockOf(cell[m].value) : m \in Allocated}
        /\ Contents' = {BlockOf(cell'[m].value) : m \in Allocated'}
    BY <1>1 DEF Contents, BlockOf
  <2>4. \A l, m \in Allocated : BlockOf(cell[l].value) = BlockOf(cell[m].value) => l = m
    BY <1>1 DEF OwnInv
  <2>5. Contents' = Contents \ {BlockOf(result')}
    BY <2>2, <2>3, <2>4
  <2>6. place' \in [Block -> Place] /\ Contents' = {c \in Block : place'[c] = "container"}
    BY <1>3, <2>5, MovedPlaces DEF OwnInv, Place
  <2>7. /\ \A m \in Allocated' :
              cell'[m].value \in IF kind = "list" THEN Block ELSE String \X Block
        /\ \A l, m \in Allocated' : BlockOf(cell'[l].value) = BlockOf(cell'[m].value) => l = m
    BY <1>1, <2>2, <2>4 DEF OwnInv
  <2> QED
    BY <1>1, <2>6, <2>7 DEF OwnInv, BlockOf
<1> QED
  BY <1>2, <1>3 DEF ListTakes

(* A map's values come and go with its entries. *)
LEMMA MapAccounted ==
    ASSUME OwnInv, TableInv, MapCalls
    PROVE  OwnInv'
<1>1. kind = "map" /\ kind' = "map" /\ Allocated' = Allocated
  BY DEF MapCalls, Allocated
<1>2. /\ Contents = {e.value : e \in Map!Held} /\ Contents' = {e.value : e \in Map!Held'}
      /\ Contents = {b \in Block : place[b] = "container"}
      /\ \A e, f \in Map!Held : e.value = f.value => e = f
      /\ filled = Cardinality(Map!Held) /\ IsFiniteSet(Map!Held)
  BY <1>1 DEF Contents, OwnInv, TableInv
<1>3. \A e \in Map!Held : e \in Map!Entry /\ e.value \in Block /\ e # Null
  BY <1>1, BlockAssumption, MapHeld, LinksTyped DEF TableInv, Map!Entry
<1> SUFFICES /\ place' \in [Block -> Place]
             /\ Contents' = {b \in Block : place'[b] = "container"}
             /\ \A e, f \in Map!Held' : e.value = f.value => e = f
             /\ filled' = Cardinality(Map!Held')
  BY <1>1 DEF OwnInv
<1>4. CASE Map!Held' = Map!Held /\ filled' = filled /\ UNCHANGED place
  BY <1>2, <1>4 DEF OwnInv
<1>5. PICK s \in String :
         \/ Map!hm_get(s) /\ UNCHANGED place
         \/ /\ Map!hm_erase(s)
            /\ place' = Moved(IF result'.is = Null THEN {} ELSE {result'.is.value}, "client")
         \/ \E b \in Clients :
               /\ Map!hm_put(s, b)
               /\ place' = [Moved({result'.is}, "client") EXCEPT ![b] = "container"]
  BY DEF MapCalls
<1>6. CASE Map!hm_get(s) /\ UNCHANGED place
  BY <1>1, <1>4, <1>6, GetStep
<1>7. CASE /\ Map!hm_erase(s)
           /\ place' = Moved(IF result'.is = Null THEN {} ELSE {result'.is.value}, "client")
  <2>1. CASE Map!Held' = Map!Held /\ filled' = filled /\ result'.is = Null
    <3>1. place' = place
      BY <1>7, <2>1 DEF Moved, OwnInv
    <3> QED
      BY <1>4, <2>1, <3>1
  <2>2. ASSUME NEW e \in Map!Held, Map!Held' = Map!Held \ {e},
               filled' = filled - 1, result'.is = e
        PROVE  /\ place' \in [Block -> Place]
               /\ Contents' = {b \in Block : place'[b] = "container"}
               /\ \A d, f \in Map!Held' : d.value = f.value => d = f
               /\ filled' = Cardinality(Map!Held')
    <3>1. place' = Moved({e.value}, "client") /\ e.value \in Block
      BY <1>3, <1>7, <2>2
    <3>2. Contents' = Contents \ {e.value}
      BY <1>2, <2>2
    <3>3. filled' = Cardinality(Map!Held')
      BY <1>2, <2>2, FS_RemoveElement
    <3> QED
      BY <1>2, <2>2, <3>1, <3>2, <3>3, MovedPlaces DEF OwnInv, Place
  <2> QED
    BY <1>1, <1>7, <2>1, <2>2, EraseStep
<1>8. ASSUME NEW b \in Clients, Map!hm_put(s, b),
             place' = [Moved({result'.is}, "client") EXCEPT ![b] = "container"]
      PROVE  /\ place' \in [Block -> Place]
             /\ Contents' = {c \in Block : place'[c] = "container"}
             /\ \A e, f \in Map!Held' : e.value = f.value => e = f
             /\ filled' = Cardinality(Map!Held')
  <2>1. b \in Block /\ b \notin Contents /\ place \in [Block -> Place]
    BY <1>2 DEF Clients, OwnInv
  <2>2. CASE Map!Replace(s, b)
    <3>1. PICK e \in Map!Held : /\ Map!Held' = (Map!Held \ {e}) \cup {[e EXCEPT !.value = b]}
                                /\ result'.is = e.value
      BY <1>1, <2>1, <2>2, ReplaceStep
    <3> DEFINE f == [e EXCEPT !.value = b]
    <3>2. f.value = b /\ f \notin Map!Held
      BY <1>2, <1>3, <2>1 DEF Map!Entry
    <3>3. Map!Held' = (Map!Held \ {e}) \cup {f}
      BY <3>1
    <3> HIDE DEF f
    <3>4. Contents' = (Contents \ {e.value}) \cup {b}
      BY <1>2, <3>2, <3>3
    <3>5. \A c, d \in Map!Held' : c.value = d.value => c = d
      BY <1>2, <2>1, <3>2, <3>3
    <3>6. filled' = Cardinality(Map!Held')
      <4>1. filled' = filled
        BY <1>1, <2>1, <2>2, ReplaceStep
      <4>2. /\ IsFiniteSet(Map!Held \ {e}) /\ f \notin Map!Held \ {e}
            /\ Cardinality(Map!Held \ {e}) = Cardinality(Map!Held) - 1
        BY <1>2, <3>2, FS_RemoveElement
      <4>3. Cardinality(Map!Held') = Cardinality(Map!Held \ {e}) + 1
        BY <3>3, <4>2, FS_AddElement
      <4>4. Cardinality(Map!Held) \in Nat
        BY <1>2, FS_CardinalityType
      <4> QED
        BY <1>2, <4>1, <4>2, <4>3, <4>4
    <3>7. /\ place' \in [Block -> Place]
          /\ {c \in Block : place'[c] = "container"}
                = ({c \in Block : place[c] = "container"} \ {e.value}) \cup {b}
      BY <1>8, <2>1, <3>1 DEF Moved, Place
    <3> QED
      BY <1>2, <3>4, <3>5, <3>6, <3>7
  <2>3. CASE Map!Insert(s, b)
    <3> DEFINE f == [str |-> s, value |-> b]
    <3>1. /\ Map!Held' = Map!Held \cup {f} /\ filled' = filled + 1 /\ result'.is = Null
          /\ \A e \in Map!Held : Text(e.str) # Text(s)
      BY <1>1, <2>1, <2>3, InsertStep
    <3>2. f.value = b /\ f \notin Map!Held
      BY <3>1
    <3> HIDE DEF f
    <3>3. Contents' = Contents \cup {b}
      BY <1>2, <3>1, <3>2
    <3>4. \A c, d \in Map!Held' : c.value = d.value => c = d
      BY <1>2, <2>1, <3>1, <3>2
    <3>5. filled' = Cardinality(Map!Held')
      BY <1>2, <3>1, <3>2, FS_AddElement
    <3>6. /\ place' \in [Block -> Place]
          /\ {c \in Block : place'[c] = "container"}
                = {c \in Block : place[c] = "container"} \cup {b}
      BY <1>8, <2>1, <3>1, BlockAssumption DEF Moved, Place
    <3> QED
      BY <1>2, <3>3, <3>4, <3>5, <3>6
  <2> QED
    BY <1>8, <2>2, <2>3 DEF Map!hm_put
<1> QED
  BY <1>5, <1>6, <1>7, <1>8

(* A list of a map's entries holds their values. *)
LEMMA EntriesAccounted ==
    ASSUME OwnInv, TableInv, MapToList
    PROVE  OwnInv'
<1>1. kind = "map" /\ kind' = "entries" /\ place' = place
  BY DEF MapToList
<1>2. /\ Contents = {e.value : e \in Map!Held}
      /\ \A e, f \in Map!Held : e.value = f.value => e = f
      /\ Map!Held \subseteq Map!Entry
  BY <1>1, MapHeld, LinksTyped DEF Contents, OwnInv, TableInv
<1>3. PICK order, t :
         /\ t \in [1..size' -> Node]
         /\ \A i \in 1..size' : order[i] \in Map!Held
         /\ \A e \in Map!Held : \E i \in 1..size' : order[i] = e
         /\ \A i, j \in 1..size' : order[i] = order[j] => i = j
         /\ \A i, j \in 1..size' : t[i] = t[j] => i = j
         /\ Allocated' = {t[i] : i \in 1..size'}
         /\ \A i \in 1..size' : cell'[t[i]].value = <<order[i].str, order[i].value>>
  BY EntriesMakeChain
<1>4. ASSUME NEW i \in 1..size'
      PROVE  /\ cell'[t[i]].value \in String \X Block
             /\ cell'[t[i]].value[2] = order[i].value
             /\ order[i] \in Map!Held
  <2>1. order[i] \in Map!Held /\ order[i].str \in String /\ order[i].value \in Block
    BY <1>2, <1>3 DEF Map!Entry
  <2>2. PICK u \in String, v \in Block : u = order[i].str /\ v = order[i].value
    BY <2>1
  <2>3. cell'[t[i]].value = <<u, v>>
    BY <1>3, <2>2
  <2> QED
    BY <2>1, <2>2, <2>3
<1>5. Contents' = {cell'[n].value[2] : n \in Allocated'}
  BY <1>1 DEF Contents, BlockOf
<1>6. Contents' = Contents
  BY <1>2, <1>3, <1>4, <1>5
<1>7. /\ \A n \in Allocated' : cell'[n].value \in String \X Block
      /\ \A m, n \in Allocated' : cell'[m].value[2] = cell'[n].value[2] => m = n
  BY <1>2, <1>3, <1>4
<1> QED
  BY <1>1, <1>6, <1>7 DEF OwnInv, BlockOf

(* An array of a list's nodes holds their values. *)
LEMMA ArrayAccounted ==
    ASSUME OwnInv, ListInv, ListToArray
    PROVE  OwnInv'
<1>1. /\ kind = "list" /\ kind' = "array" /\ place' = place /\ cell' = <<>>
      /\ array' = [i \in 1..size |-> cell[Nth[i]].value]
  BY DEF ListToArray, NoList, Becomes, NewList
<1>2. PICK s \in [1..size -> Node] : size \in Nat /\ IsChain(s)
  BY <1>1 DEF ListInv, WellFormed
<1>3. Nth = s
  BY <1>2, NthOfChain
<1>4. /\ Allocated = {s[i] : i \in 1..size}
      /\ \A i, j \in 1..size : s[i] = s[j] => i = j
  BY <1>2 DEF IsChain
<1>5. /\ \A n \in Allocated : cell[n].value \in Block
      /\ \A m, n \in Allocated : cell[m].value = cell[n].value => m = n
      /\ Contents = {cell[n].value : n \in Allocated}
  BY <1>1 DEF OwnInv, Contents, BlockOf
<1>6. /\ array' \in Seq(Block) /\ DOMAIN array' = 1..size
      /\ \A i \in 1..size : array'[i] = cell[s[i]].value
  BY <1>1, <1>2, <1>3, <1>4, <1>5
<1>7. IsInjective(array')
  BY <1>4, <1>5, <1>6 DEF IsInjective
<1>8. Contents' = {array'[i] : i \in 1..size}
  BY <1>1, <1>6 DEF Contents, Range
<1>9. Contents' = Contents
  BY <1>4, <1>5, <1>6, <1>8
<1>10. Allocated' = {}
  BY <1>1 DEF Allocated
<1> QED
  BY <1>1, <1>6, <1>7, <1>9, <1>10 DEF OwnInv

(* What is set in an array takes the place of what was there; what is cut off  *)
(* is freed.                                                                   *)
LEMMA ElementsAccounted ==
    ASSUME OwnInv, ArrayCalls
    PROVE  OwnInv'
<1>1. kind = "array" /\ kind' = "array" /\ Allocated' = Allocated
  BY DEF ArrayCalls, Allocated
<1>2. /\ array \in Seq(Block) /\ Len(array) \in Nat /\ DOMAIN array = 1..Len(array)
      /\ \A i, j \in 1..Len(array) : array[i] = array[j] => i = j
      /\ \A i \in 1..Len(array) : array[i] \in Block
      /\ Contents = {array[i] : i \in 1..Len(array)}
      /\ Contents = {b \in Block : place[b] = "container"}
      /\ place \in [Block -> Place]
  BY <1>1 DEF OwnInv, IsInjective, Contents, Range
<1> SUFFICES /\ place' \in [Block -> Place]
             /\ Contents' = {b \in Block : place'[b] = "container"}
             /\ array' \in Seq(Block) /\ IsInjective(array')
  BY <1>1 DEF OwnInv
<1>3. CASE UNCHANGED <<array, place>>
  BY <1>1, <1>2, <1>3 DEF OwnInv, Contents
<1>4. ASSUME NEW i \in 0..Len(array), NEW b \in Clients, ar_set(i, b), i < Len(array)
      PROVE  /\ place' \in [Block -> Place]
             /\ Contents' = {c \in Block : place'[c] = "container"}
             /\ array' \in Seq(Block) /\ IsInjective(array')
  <2> DEFINE n == Len(array)
             old == array[i + 1]
  <2>1. i + 1 \in 1..n /\ b \in Block /\ old \in Block /\ b \notin Contents
    BY <1>2, <1>4 DEF Clients
  <2>2. /\ array' = [array EXCEPT ![i + 1] = b]
        /\ place' = [place EXCEPT ![b] = "container", ![old] = "client"]
    BY <1>2, <1>4 DEF ar_set
  <2>3. /\ array' \in Seq(Block) /\ DOMAIN array' = 1..n
        /\ \A j \in 1..n : array'[j] = IF j = i + 1 THEN b ELSE array[j]
    BY <1>2, <2>1, <2>2
  <2> HIDE DEF n, old
  <2>4. Contents' = (Contents \ {old}) \cup {b}
    <3>1. Contents' = {array'[j] : j \in 1..n}
      BY <1>1, <2>3 DEF Contents, Range
    <3> QED
      BY <1>2, <2>1, <2>3, <3>1 DEF n, old
  <2>5. \A j \in 1..n : array[j] # b
    BY <1>2, <2>1 DEF n
  <2>6. IsInjective(array')
    BY <1>2, <2>3, <2>5 DEF IsInjective, n
  <2>7. /\ place' \in [Block -> Place]
        /\ {c \in Block : place'[c] = "container"} = (Contents \ {old}) \cup {b}
    <3>1. old \in Contents
      BY <1>2, <2>1 DEF n, old
    <3> QED
      BY <1>2, <2>1, <2>2, <3>1 DEF Place
  <2> QED
    BY <2>3, <2>4, <2>6, <2>7
<1>5. ASSUME NEW i \in 0..Len(array), NEW end \in i..Len(array), ar_cutout(i, end)
      PROVE  /\ place' \in [Block -> Place]
             /\ Contents' = {c \in Block : place'[c] = "container"}
             /\ array' \in Seq(Block) /\ IsInjective(array')
  <2> DEFINE cut == {array[j] : j \in 1..Len(array) \ (i + 1)..end}
  <2>1. array' = SubSeq(array, i + 1, end) /\ place' = Moved(cut, "freed")
    BY <1>2, <1>5 DEF ar_cutout
  <2>2. /\ array' \in Seq(Block) /\ Len(array') = end - i
        /\ \A j \in 1..(end - i) : array'[j] = array[i + j]
    <3>1. i + 1 \in Int /\ end \in Int /\ \A j \in (i + 1)..end : array[j] \in Block
      BY <1>2
    <3>2. /\ array' \in Seq(Block)
          /\ Len(array') = IF i + 1 <= end THEN end - (i + 1) + 1 ELSE 0
          /\ \A j \in 1..(end - (i + 1) + 1) : array'[j] = array[(i + 1) + j - 1]
      BY <2>1, <3>1, SubSeqProperties
    <3>3. Len(array') = end - i
      BY <1>2, <3>2
    <3>4. ASSUME NEW j \in 1..(end - i)
          PROVE  array'[j] = array[i + j]
      <4>1. j \in 1..(end - (i + 1) + 1) /\ (i + 1) + j - 1 = i + j
        BY <1>2
      <4> QED
        BY <3>2, <4>1
    <3> QED
      BY <3>2, <3>3, <3>4
  <2>3. DOMAIN array' = 1..(end - i) /\ \A j \in 1..(end - i) : i + j \in 1..Len(array)
    BY <1>2, <2>2
  <2>4. Contents' = {array'[j] : j \in 1..(end - i)}
    BY <1>1, <2>3 DEF Contents, Range
  <2>5. {array'[j] : j \in 1..(end - i)} = {array[j] : j \in (i + 1)..end}
    <3>1. \A j \in (i + 1)..end : j - i \in 1..(end - i) /\ array'[j - i] = array[j]
      BY <1>2, <2>2
    <3>2. \A j \in 1..(end - i) : i + j \in (i + 1)..end /\ array'[j] = array[i + j]
      BY <1>2, <2>2
    <3> DEFINE A == 1..(end - i)
               B == (i + 1)..end
    <3>3. /\ \A j \in A : \E k \in B : array'[j] = array[k]
          /\ \A j \in B : \E k \in A : array[j] = array'[k]
      BY <3>1, <3>2
    <3> HIDE DEF A, B
    <3>4. {array'[j] : j \in A} = {array[j] : j \in B}
      BY <3>3
    <3> QED
      BY <3>4 DEF A, B
  <2>6. (i + 1)..end \subseteq 1..Len(array)
    BY <1>2
  <2>7. Contents' = Contents \ cut
    <3> DEFINE all == 1..Len(array)
               kept == (i + 1)..end
    <3>1. /\ Contents' = {array[j] : j \in kept} /\ Contents = {array[j] : j \in all}
          /\ cut = {array[j] : j \in all \ kept} /\ kept \subseteq all
          /\ \A j, k \in all : array[j] = array[k] => j = k
      BY <1>2, <2>4, <2>5, <2>6
    <3> HIDE DEF all, kept, cut
    <3> QED
      BY <3>1
  <2>8. IsInjective(array')
    BY <1>2, <2>2, <2>3 DEF IsInjective
  <2> HIDE DEF cut
  <2> QED
    BY <1>2, <2>1, <2>2, <2>7, <2>8, MovedPlaces DEF Place
<1>6. CASE \E i \in 0..Len(array), b \in Clients : ar_set(i, b)
  BY <1>2, <1>3, <1>4, <1>6 DEF ar_set
<1>7. CASE \E i \in 0..Len(array) : \E end \in i..(Len(array) + 1) : ar_cutout(i, end)
  <2>1. PICK i \in 0..Len(array) : \E end \in i..(Len(array) + 1) : ar_cutout(i, end)
    BY <1>7
  <2>2. PICK end \in i..(Len(array) + 1) : ar_cutout(i, end)
    BY <2>1
  <2>3. CASE end > Len(array)
    BY <1>2, <1>3, <2>2, <2>3 DEF ar_cutout
  <2>4. CASE end <= Len(array)
    <3>1. end \in i..Len(array)
      BY <1>2, <2>4
    <3> QED
      BY <1>5, <2>2, <3>1
  <2> QED
    BY <1>2, <2>3, <2>4
<1> QED
  BY <1>3, <1>6, <1>7 DEF ArrayCalls

(* What is released is freed or leaked, and nothing is held. *)
LEMMA ReleaseAccounted ==
    ASSUME OwnInv, Release
    PROVE  OwnInv'
<1>1. /\ kind' = "none" /\ cell' = <<>>
      /\ place' = Moved(Contents, "leaked") \/ place' = Moved(Contents, "freed")
  BY DEF Release, NoList, Becomes, NewList
<1>2. Contents' = {} /\ Allocated' = {}
  BY <1>1 DEF Contents, Allocated
<1>3. place' \in [Block -> Place] /\ {b \in Block : place'[b] = "container"} = {}
  BY <1>1, MovedPlaces DEF OwnInv, Place
<1> QED
  BY <1>1, <1>2, <1>3 DEF OwnInv

LEMMA OwnStep ==
    ASSUME OwnInv, TableInv, ListInv, [Next]_containerVars
    PROVE  OwnInv'
<1>1. CASE SetCalls
  BY <1>1 DEF SetCalls, listVars, OwnInv, Contents, Allocated
<1>2. CASE UNCHANGED containerVars
  <2>1. UNCHANGED <<kind, cell, buckets, capacity, filled, array, place>>
    BY <1>2 DEF containerVars, tableVars, listVars
  <2>2. Map!Held' = Map!Held /\ Contents' = Contents
    BY <2>1 DEF Map!Held, Contents, BlockOf, Allocated
  <2> QED
    BY <2>1, <2>2 DEF OwnInv, Allocated, BlockOf
<1> QED
  BY <1>1, <1>2, PutsAccounted, TakesAccounted, MapAccounted, EntriesAccounted,
     ArrayAccounted, ElementsAccounted, ReleaseAccounted DEF Next

LEMMA OwnInitially == Init => OwnInv
<1> SUFFICES ASSUME Init
             PROVE  OwnInv
  OBVIOUS
<1>1. /\ place = [b \in Block |-> "client"] /\ Allocated = {}
      /\ kind \in {"list", "map", "set"}
  BY DEF Init, ll_make, Allocated
<1>2. kind = "map" => Map!Held = {} /\ filled = 0
  BY MapChains, EmptyTable, TableAssumption DEF Init, Map!hm_make, Map!Held
<1>3. Contents = {} /\ {b \in Block : place[b] = "container"} = {}
  BY <1>1, <1>2 DEF Contents
<1> QED
  BY <1>1, <1>2, <1>3, FS_EmptySet DEF OwnInv, Place

(* Whatever the client calls leaves a list that is in use a chain. *)
LEMMA ListStep ==
    ASSUME TableInv, ListInv, [Next]_containerVars
    PROVE  ListInv'
<1>1. ASSUME UNCHANGED <<kind, cell, data, last, size>>
      PROVE  ListInv'
  BY <1>1 DEF ListInv, WellFormed, Cells, IsChain, Allocated
<1>2. CASE ListPuts
  <2>1. PICK b \in Clients, n \in Node \ Allocated : ll_append(n, b) \/ ll_prepend(n, b)
    BY <1>2 DEF ListPuts
  <2>2. PICK s \in [1..size -> Node] : size \in Nat /\ Cells /\ IsChain(s)
    BY <1>2 DEF ListPuts, ListInv, WellFormed
  <2>3. CASE ll_append(n, b)
    BY <1>2, <2>2, <2>3, AppendKeepsChain DEF ListInv, WellFormed
  <2>4. CASE ll_prepend(n, b)
    BY <1>2, <2>2, <2>4, PrependKeepsChain DEF ListInv, WellFormed
  <2> QED
    BY <2>1, <2>3, <2>4
<1>3. CASE ListTakes
  <2>1. PICK s \in [1..size -> Node] : size \in Nat /\ Cells /\ IsChain(s)
    BY <1>3 DEF ListTakes, ListInv, WellFormed
  <2>2. CASE ll_pop
    BY <2>1, <2>2, PopKeepsChain DEF ListInv, WellFormed
  <2>3. CASE ll_shift
    BY <2>1, <2>3, ShiftKeepsChain DEF ListInv, WellFormed
  <2>4. CASE TakesNothing
    BY <1>1, <1>3, <2>4 DEF ListTakes, TakesNothing
  <2> QED
    BY <1>3, <2>2, <2>3, <2>4 DEF ListTakes
<1>4. CASE MapToList
  BY <1>4, EntriesMakeChain DEF ListInv
<1>5. CASE MapCalls \/ SetCalls \/ ListToArray \/ ArrayCalls \/ Release
  BY <1>5 DEF MapCalls, SetCalls, ListToArray, ArrayCalls, Release, ListInv
<1>6. CASE UNCHANGED containerVars
  BY <1>1, <1>6 DEF containerVars, listVars
<1> QED
  BY <1>2, <1>3, <1>4, <1>5, <1>6 DEF Next

\* Through any puts and takes at both ends, also past empty, the nodes of a list
\* form one chain from `data` to `last`, as long as `size` says; so do the
\* entries of a map that became a list.
THEOREM ListStaysWellFormed == Spec => []ListWellFormed
<1>1. Init => TableInv /\ ListInv
  BY DictionaryInit, EmptyChain DEF Init, ListInv
<1>2. TableInv /\ ListInv /\ [Next]_containerVars => TableInv' /\ ListInv'
  BY DictionaryStep, ListStep
<1>3. ListInv => ListWellFormed
  BY DEF ListInv, ListWellFormed
<1> QED
  BY <1>1, <1>2, <1>3, PTL DEF Spec

\* No call and no conversion frees or loses what a container holds: each block is
\* with the client, in the container once, freed or leaked, and the container's
\* count is that of its blocks.
THEOREM BlocksAccounted == Spec => []Accounted
<1>1. TableInv /\ ListInv /\ OwnInv => Accounted
  <2> SUFFICES ASSUME TableInv, ListInv, OwnInv
               PROVE  Accounted
    OBVIOUS
  <2>1. ASSUME kind \in {"list", "entries"}
        PROVE  Cardinality(Contents) = size
    <3>1. PICK s \in [1..size -> Node] : size \in Nat /\ IsChain(s)
      BY <2>1 DEF ListInv, WellFormed
    <3> DEFINE Of(n) == BlockOf(cell[n].value)
    <3>2. /\ Contents = {Of(n) : n \in Allocated}
          /\ \A m, n \in Allocated : Of(m) = Of(n) => m = n
      BY <2>1 DEF Contents, OwnInv
    <3> HIDE DEF Of
    <3>3. PICK f : f = [i \in 1..size |-> Of(s[i])]
      OBVIOUS
    <3>4. /\ Allocated = {s[i] : i \in 1..size}
          /\ \A i, j \in 1..size : s[i] = s[j] => i = j
      BY <3>1 DEF IsChain
    <3>5. f \in Bijection(1..size, Contents)
      BY <3>2, <3>3, <3>4 DEF Bijection, Injection, Surjection, IsInjective
    <3>6. IsFiniteSet(1..size) /\ Cardinality(1..size) = size
      BY <3>1, FS_Interval
    <3> QED
      BY <3>5, <3>6, FS_Bijection DEF ExistsBijection
  <2>2. ASSUME kind = "map"
        PROVE  Cardinality(Contents) = filled
    <3>1. PICK f : f = [e \in Map!Held |-> e.value]
      OBVIOUS
    <3>2. /\ Contents = {e.value : e \in Map!Held}
          /\ \A e, d \in Map!Held : e.value = d.value => e = d
          /\ IsFiniteSet(Map!Held) /\ filled = Cardinality(Map!Held)
      BY <2>2 DEF Contents, OwnInv, TableInv
    <3>3. f \in Bijection(Map!Held, Contents)
      BY <3>1, <3>2 DEF Bijection, Injection, Surjection, IsInjective
    <3> QED
      BY <3>2, <3>3, FS_Bijection DEF ExistsBijection
  <2>3. ASSUME kind = "array"
        PROVE  Cardinality(Contents) = Len(array)
    <3>1. /\ array \in Seq(Block) /\ IsInjective(array) /\ Len(array) \in Nat
          /\ DOMAIN array = 1..Len(array) /\ Contents = Range(array)
      BY <2>3 DEF OwnInv, Contents
    <3>2. array \in Bijection(1..Len(array), Contents)
      BY <3>1 DEF Bijection, Injection, Surjection, Range
    <3>3. IsFiniteSet(1..Len(array)) /\ Cardinality(1..Len(array)) = Len(array)
      BY <3>1, FS_Interval
    <3> QED
      BY <3>2, <3>3, FS_Bijection DEF ExistsBijection
  <2>4. Contents = {b \in Block : place[b] = "container"}
    BY DEF OwnInv
  <2> QED
    BY <2>1, <2>2, <2>3, <2>4 DEF Accounted
<1>2. Init => TableInv /\ ListInv /\ OwnInv
  BY DictionaryInit, EmptyChain, OwnInitially DEF Init, ListInv
<1>3. TableInv /\ ListInv /\ OwnInv /\ [Next]_containerVars
        => TableInv' /\ ListInv' /\ OwnInv'
  BY DictionaryStep, ListStep, OwnStep
<1> QED
  BY <1>1, <1>2, <1>3, PTL DEF Spec

\* What all the proofs of the containers know
ContainerInv == TableInv /\ SetInv /\ ListInv /\ OwnInv /\ kind \in
    {"list", "map", "set", "entries", "array", "none"}

\* The fields of the container in use have their types, whatever it was before.
THEOREM ContainersTypeCorrect == Spec => []TypeOK
<1>1. ContainerInv => TypeOK
  <2> SUFFICES ASSUME ContainerInv
               PROVE  TypeOK
    OBVIOUS
  <2> USE DEF ContainerInv
  <2>1. ASSUME kind \in {"list", "entries"}
        PROVE  /\ DOMAIN cell \subseteq Node
               /\ \A n \in Allocated : cell[n].value \in Values /\ cell[n].next \in Pointer
    <3>1. PICK s \in [1..size -> Node] : size \in Nat /\ IsChain(s)
      BY <2>1 DEF ListInv, WellFormed
    <3>2. \A i \in 1..size : cell[s[i]].next \in Pointer
      BY <3>1 DEF IsChain, Pointer
    <3> QED
      BY <2>1, <3>1, <3>2 DEF IsChain, Allocated, OwnInv, Values
  <2>2. kind \notin {"list", "entries"} => Allocated = {}
    BY DEF OwnInv
  <2>3. kind = "map" => Map!MapTypeOK
    BY FS_CardinalityType DEF TableInv, Table, OwnInv, Map!MapTypeOK
  <2>4. kind = "set" => Set!SetTypeOK
    BY DEF SetInv, Table, Set!SetTypeOK
  <2> QED
    BY <2>1, <2>2, <2>3, <2>4 DEF TypeOK, OwnInv, Allocated
<1>2. Init => ContainerInv
  BY DictionaryInit, SetInitially, EmptyChain, OwnInitially DEF Init, ListInv, ContainerInv
<1>3. ContainerInv /\ [Next]_containerVars => ContainerInv'
  <2> SUFFICES ASSUME ContainerInv, [Next]_containerVars
               PROVE  ContainerInv'
    OBVIOUS
  <2>1. TableInv' /\ SetInv' /\ ListInv' /\ OwnInv'
    BY DictionaryStep, SetStep, ListStep, OwnStep DEF ContainerInv
  <2>2. kind' \in {kind, "entries", "array", "none"}
    BY DEF Next, ListPuts, ListTakes, MapCalls, SetCalls, MapToList, ListToArray,
           ArrayCalls, Release, containerVars
  <2> QED
    BY <2>1, <2>2 DEF ContainerInv
<1> QED
  BY <1>1, <1>2, <1>3, PTL DEF Spec

-----------------------------------------------------------------------------
(* The list is a sequence *)

\* What Sequence is about
Items == IF kind = "list" THEN [i \in 1..size |-> cell[Nth[i]].value] ELSE <<>>
Returned == IF kind = "list" THEN result ELSE Null

\* The items are the values of a chain in its order
LEMMA ItemsOfChain ==
    ASSUME NEW s
    PROVE  /\ ( /\ kind = "list" /\ size \in Nat /\ s \in [1..size -> Node] /\ IsChain(s)
                /\ \A n \in Allocated : cell[n].value \in Block )
              => /\ Items \in Seq(Block) /\ Len(Items) = size
                 /\ \A i \in 1..size : Items[i] = cell[s[i]].value /\ s[i] \in Allocated
           /\ ( /\ kind' = "list" /\ size' \in Nat /\ s \in [1..size' -> Node]
                /\ IsChain(s)' /\ \A n \in Allocated' : cell'[n].value \in Block )
              => /\ Items' \in Seq(Block) /\ Len(Items') = size'
                 /\ \A i \in 1..size' : Items'[i] = cell'[s[i]].value
<1>1. ASSUME kind = "list", size \in Nat, s \in [1..size -> Node], IsChain(s),
             \A n \in Allocated : cell[n].value \in Block
      PROVE  /\ Items \in Seq(Block) /\ Len(Items) = size
             /\ \A i \in 1..size : Items[i] = cell[s[i]].value /\ s[i] \in Allocated
  <2>1. Nth = s /\ \A i \in 1..size : s[i] \in Allocated
    BY <1>1, NthOfChain DEF IsChain
  <2>2. Items = [i \in 1..size |-> cell[s[i]].value]
    BY <1>1, <2>1 DEF Items
  <2> QED
    BY <1>1, <2>1, <2>2
<1>2. ASSUME kind' = "list", size' \in Nat, s \in [1..size' -> Node], IsChain(s)',
             \A n \in Allocated' : cell'[n].value \in Block
      PROVE  /\ Items' \in Seq(Block) /\ Len(Items') = size'
             /\ \A i \in 1..size' : Items'[i] = cell'[s[i]].value
  <2>1. Nth' = s /\ \A i \in 1..size' : s[i] \in Allocated'
    BY <1>2, NthOfChain DEF IsChain
  <2>2. Items' = [i \in 1..size' |-> cell'[s[i]].value]
    BY <1>2, <2>1 DEF Items
  <2> QED
    BY <1>2, <2>1, <2>2
<1> QED
  BY <1>1, <1>2

\* ll_append and ll_prepend
LEMMA SequencePuts ==
    ASSUME ListInv, OwnInv, ListPuts
    PROVE  \E b \in Block :
              /\ Items' = Append(Items, b) \/ Items' = <<b>> \o Items
              /\ Returned' = Null
<1>1. /\ kind = "list" /\ kind' = "list"
      /\ \A m \in Allocated : cell[m].value \in Block
      /\ \A m \in Allocated' : cell'[m].value \in Block
  BY PutsAccounted DEF ListPuts, OwnInv
<1>2. PICK b \in Clients, n \in Node \ Allocated : ll_append(n, b) \/ ll_prepend(n, b)
  BY DEF ListPuts
<1>3. b \in Block /\ Returned' = Null
  BY <1>1, <1>2 DEF Clients, Returned, ll_append, ll_prepend
<1>4. PICK s \in [1..size -> Node] : size \in Nat /\ Cells /\ IsChain(s)
  BY <1>1 DEF ListInv, WellFormed
<1>5. /\ Items \in Seq(Block) /\ Len(Items) = size
      /\ \A i \in 1..size : Items[i] = cell[s[i]].value /\ s[i] \in Allocated
  BY <1>1, <1>4, ItemsOfChain
<1>6. CASE ll_append(n, b)
  <2>1. /\ size' = size + 1 /\ cell'[n].value = b
        /\ \A m \in Allocated : cell'[m].value = cell[m].value
    BY <1>2, <1>4, <1>6, AppendKeepsChain
  <2>2. PICK t \in [1..size' -> Node] :
           IsChain(t)' /\ \A i \in 1..size' : t[i] = IF i = size + 1 THEN n ELSE s[i]
    BY <1>2, <1>4, <1>6, AppendKeepsChain
  <2>3. /\ Items' \in Seq(Block) /\ Len(Items') = size + 1
        /\ \A i \in 1..(size + 1) : Items'[i] = cell'[t[i]].value
    BY <1>1, <1>4, <2>1, <2>2, ItemsOfChain
  <2>4. \A i \in 1..(size + 1) : Items'[i] = IF i = size + 1 THEN b ELSE Items[i]
    BY <1>4, <1>5, <2>1, <2>2, <2>3
  <2>5. /\ Append(Items, b) \in Seq(Block) /\ Len(Append(Items, b)) = size + 1
        /\ \A i \in 1..(size + 1) : Append(Items, b)[i] = IF i = size + 1 THEN b ELSE Items[i]
    BY <1>3, <1>4, <1>5, AppendProperties
  <2>6. Items' = Append(Items, b)
    BY <1>4, <2>3, <2>4, <2>5, SeqEqual
  <2> QED
    BY <1>3, <2>6
<1>7. CASE ll_prepend(n, b)
  <2>1. /\ size' = size + 1 /\ cell'[n].value = b
        /\ \A m \in Allocated : cell'[m].value = cell[m].value
    BY <1>2, <1>4, <1>7, PrependKeepsChain
  <2>2. PICK t \in [1..size' -> Node] :
           IsChain(t)' /\ \A i \in 1..size' : t[i] = IF i = 1 THEN n ELSE s[i - 1]
    BY <1>2, <1>4, <1>7, PrependKeepsChain
  <2>3. /\ Items' \in Seq(Block) /\ Len(Items') = size + 1
        /\ \A i \in 1..(size + 1) : Items'[i] = cell'[t[i]].value
    BY <1>1, <1>4, <2>1, <2>2, ItemsOfChain
  <2>4. ASSUME NEW i \in 1..(size + 1)
        PROVE  Items'[i] = IF i = 1 THEN b ELSE Items[i - 1]
    <3>1. i # 1 => i - 1 \in 1..size
      BY <1>4
    <3> QED
      BY <1>5, <2>1, <2>2, <2>3, <3>1
  <2>5. /\ <<b>> \o Items \in Seq(Block) /\ Len(<<b>> \o Items) = size + 1
        /\ \A i \in 1..(size + 1) : (<<b>> \o Items)[i] = IF i = 1 THEN b ELSE Items[i - 1]
    <3>1. <<b>> \in Seq(Block) /\ Len(<<b>>) = 1 /\ <<b>>[1] = b
      BY <1>3
    <3> QED
      BY <1>4, <1>5, <3>1, ConcatProperties
  <2>6. Items' = <<b>> \o Items
    BY <1>4, <2>3, <2>4, <2>5, SeqEqual
  <2> QED
    BY <1>3, <2>6
<1> QED
  BY <1>2, <1>6, <1>7

\* ll_pop and ll_shift
LEMMA SequenceTakes ==
    ASSUME ListInv, OwnInv, ListTakes, kind = "list"
    PROVE  \/ Items = <<>> /\ Returned' = Null /\ UNCHANGED Items
           \/ /\ Items # <<>> /\ Returned' = Items[Len(Items)]
              /\ Items' = SubSeq(Items, 1, Len(Items) - 1)
           \/ /\ Items # <<>> /\ Returned' = Head(Items)
              /\ Items' = Tail(Items)
<1>1. /\ kind' = "list" /\ Returned' = result'
      /\ \A m \in Allocated : cell[m].value \in Block
      /\ \A m \in Allocated' : cell'[m].value \in Block
  BY TakesAccounted DEF ListTakes, OwnInv, Returned
<1>2. PICK s \in [1..size -> Node] : size \in Nat /\ Cells /\ IsChain(s)
  BY DEF ListInv, WellFormed
<1>3. /\ Items \in Seq(Block) /\ Len(Items) = size
      /\ \A i \in 1..size : Items[i] = cell[s[i]].value /\ s[i] \in Allocated
  BY <1>1, <1>2, ItemsOfChain
<1>4. CASE TakesNothing
  <2>1. s \in [1..size' -> Node] /\ IsChain(s)' /\ size' = size /\ size = 0
    BY <1>2, <1>4 DEF TakesNothing, IsChain, Allocated
  <2>2. Items' \in Seq(Block) /\ Len(Items') = 0
    BY <1>1, <1>2, <2>1, ItemsOfChain
  <2>3. Items = <<>> /\ Items' = <<>>
    BY <1>3, <2>1, <2>2
  <2> QED
    BY <1>1, <1>4, <2>3 DEF TakesNothing
<1>5. CASE ll_pop
  <2>1. /\ size # 0 /\ size' = size - 1 /\ result' = cell[s[size]].value
        /\ \A m \in Allocated' : cell'[m].value = cell[m].value
    BY <1>2, <1>5, PopKeepsChain
  <2>2. PICK t \in [1..size' -> Node] : IsChain(t)' /\ \A i \in 1..size' : t[i] = s[i]
    BY <1>2, <1>5, PopKeepsChain
  <2>3. /\ Items' \in Seq(Block) /\ Len(Items') = size - 1
        /\ \A i \in 1..(size - 1) : Items'[i] = cell'[t[i]].value /\ t[i] \in Allocated'
    <3>1. size' \in Nat
      BY <1>2, <2>1
    <3>2. /\ Items' \in Seq(Block) /\ Len(Items') = size'
          /\ \A i \in 1..size' : Items'[i] = cell'[t[i]].value
      BY <1>1, <2>2, <3>1, ItemsOfChain
    <3>3. \A i \in 1..size' : t[i] \in Allocated'
      BY <2>2 DEF IsChain
    <3> QED
      BY <2>1, <3>2, <3>3
  <2>4. \A i \in 1..(size - 1) : Items'[i] = Items[i]
    BY <1>2, <1>3, <2>1, <2>2, <2>3
  <2>5. /\ SubSeq(Items, 1, size - 1) \in Seq(Block)
        /\ Len(SubSeq(Items, 1, size - 1)) = size - 1
        /\ \A i \in 1..(size - 1) : SubSeq(Items, 1, size - 1)[i] = Items[i]
    BY <1>2, <1>3, <2>1, SubSeqProperties
  <2>6. Items' = SubSeq(Items, 1, size - 1)
    BY <2>3, <2>4, <2>5, SeqEqual
  <2>7. Items # <<>> /\ Items[size] = result'
    BY <1>2, <1>3, <2>1
  <2> QED
    BY <1>1, <1>3, <2>6, <2>7
<1>6. CASE ll_shift
  <2>1. /\ size # 0 /\ size' = size - 1 /\ result' = cell[s[1]].value
        /\ \A m \in Allocated' : cell'[m].value = cell[m].value
    BY <1>2, <1>6, ShiftKeepsChain
  <2>2. PICK t \in [1..size' -> Node] : IsChain(t)' /\ \A i \in 1..size' : t[i] = s[i + 1]
    BY <1>2, <1>6, ShiftKeepsChain
  <2>3. /\ Items' \in Seq(Block) /\ Len(Items') = size - 1
        /\ \A i \in 1..(size - 1) : Items'[i] = cell'[t[i]].value /\ t[i] \in Allocated'
    <3>1. size' \in Nat
      BY <1>2, <2>1
    <3>2. /\ Items' \in Seq(Block) /\ Len(Items') = size'
          /\ \A i \in 1..size' : Items'[i] = cell'[t[i]].value
      BY <1>1, <2>2, <3>1, ItemsOfChain
    <3>3. \A i \in 1..size' : t[i] \in Allocated'
      BY <2>2 DEF IsChain
    <3> QED
      BY <2>1, <3>2, <3>3
  <2>4. ASSUME NEW i \in 1..(size - 1)
        PROVE  Items'[i] = Items[i + 1]
    <3>1. i + 1 \in 1..size
      BY <1>2
    <3>2. Items[i + 1] = cell[s[i + 1]].value
      BY <1>3, <3>1
    <3>3. t[i] = s[i + 1]
      BY <2>1, <2>2
    <3>4. Items'[i] = cell'[t[i]].value /\ t[i] \in Allocated'
      BY <2>3
    <3> QED
      BY <2>1, <3>2, <3>3, <3>4
  <2>5. Items # <<>>
    BY <1>3, <2>1
  <2>6. /\ Tail(Items) \in Seq(Block) /\ Len(Tail(Items)) = size - 1
        /\ \A i \in 1..(size - 1) : Tail(Items)[i] = Items[i + 1]
    BY <1>3, <2>5, HeadTailProperties
  <2>7. Items' = Tail(Items)
    BY <2>3, <2>4, <2>6, SeqEqual
  <2>8. Head(Items) = result'
    BY <1>2, <1>3, <2>1, <2>5
  <2> QED
    BY <1>1, <2>5, <2>7, <2>8
<1> QED
  BY <1>4, <1>5, <1>6 DEF ListTakes

(* A step of the client is one of a sequence's, or none. *)
LEMMA SequenceStep ==
    ASSUME ListInv, OwnInv, [Next]_containerVars
    PROVE  [Sequence!Next]_(Sequence!sequenceVars)
<1> USE DEF Sequence!sequenceVars
<1>1. CASE ListPuts
  <2>1. PICK b \in Block :
           /\ Items' = Append(Items, b) \/ Items' = <<b>> \o Items
           /\ Returned' = Null
    BY <1>1, SequencePuts
  <2>2. Sequence!Append_(b) \/ Sequence!Prepend(b)
    BY <2>1 DEF Items, Returned, Sequence!Append_, Sequence!Prepend
  <2> QED
    BY <2>2 DEF Sequence!Next
<1>2. CASE ListTakes /\ kind = "list"
  <2>1. \/ Items = <<>> /\ Returned' = Null /\ UNCHANGED Items
        \/ /\ Items # <<>> /\ Returned' = Items[Len(Items)]
           /\ Items' = SubSeq(Items, 1, Len(Items) - 1)
        \/ /\ Items # <<>> /\ Returned' = Head(Items)
           /\ Items' = Tail(Items)
    BY <1>2, SequenceTakes
  <2>2. Sequence!Pop \/ Sequence!Shift
    BY <2>1 DEF Items, Returned, Sequence!Pop, Sequence!Shift
  <2> QED
    BY <2>2 DEF Sequence!Next
<1>3. CASE kind = "list" /\ kind' # "list"
  BY <1>3 DEF Sequence!Next, Sequence!Release
<1>4. CASE kind # "list" /\ kind' # "list"
  BY <1>4
<1>5. CASE UNCHANGED containerVars
  <2>1. UNCHANGED <<kind, cell, data, size, result>>
    BY <1>5 DEF containerVars, listVars
  <2>2. Nth' = Nth
    BY <2>1 DEF Nth
  <2> QED
    BY <2>1, <2>2
<1> QED
  BY <1>1, <1>2, <1>3, <1>4, <1>5
  DEF Next, ListTakes, MapCalls, SetCalls, MapToList, ListToArray, ArrayCalls, Release

\* The linked nodes, with their counter and the link to the last, are a sequence
\* that is read and written at both ends: every value comes back in its order.
THEOREM ListIsSequence == Spec => ImplementsSequence
<1>1. Init => TableInv /\ ListInv /\ OwnInv
  BY DictionaryInit, EmptyChain, OwnInitially DEF Init, ListInv
<1>2. Init => Sequence!Init
  BY DEF Init, ll_make, Sequence!Init
<1>3. TableInv /\ ListInv /\ OwnInv /\ [Next]_containerVars
        => TableInv' /\ ListInv' /\ OwnInv'
  BY DictionaryStep, ListStep, OwnStep
<1>4. ListInv /\ OwnInv /\ [Next]_containerVars
        => [Sequence!Next]_(Sequence!sequenceVars)
  BY SequenceStep
<1> QED
  BY <1>1, <1>2, <1>3, <1>4, PTL DEF Spec, ImplementsSequence, Sequence!Spec

=============================================================================
