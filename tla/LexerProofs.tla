----------------------------- MODULE LexerProofs -----------------------------
(* Every character of every text comes into one word, or stands between words, *)
(* and every word on its line.                                                 *)
EXTENDS Lexer, FiniteSetTheorems, WellFoundedInduction, NaturalsInduction, TLAPS

LOCAL INSTANCE SequenceTheorems

Pair == Nat \X Nat

\* The lines so far, with the one in hand
AllLines == IF lexed = "read" THEN lines ELSE Append(lines, r_line)

LexerTypeOK ==
    /\ text \in Seq(STRING)
    /\ at \in 1..(Len(text) + 1)
    /\ r_line \in Seq(Pair)
    /\ lines \in Seq(Seq(Pair))
    /\ lexed = "read" => at = Len(text) + 1

-----------------------------------------------------------------------------
(* The inductive invariant: what LexesAll says of a text that is read, of its  *)
(* first n - 1 characters and of the words ls in them.  A comment is passed at *)
(* once, so none is open where the next word may begin.                        *)

OnLine(line, p) == \E i \in 1..Len(line) : line[i][1] <= p /\ p <= line[i][2]
Covered(ls, p) == \E k \in 1..Len(ls) : OnLine(ls[k], p)

Commented(ls, p) ==
    \E r \in 1..p : text[r] = "#" /\ ~Covered(ls, r) /\ \A i \in r..p : text[i] # "n"
BreaksBefore(ls, p) == {i \in 1..(p - 1) : text[i] = "n" /\ ~Covered(ls, i)}

Fits(ls, n) ==
    \A k \in 1..Len(ls) : \A i \in 1..Len(ls[k]) :
        ls[k][i][1] \in 1..(n - 1) /\ ls[k][i][2] \in ls[k][i][1]..(n - 1)

Ordered(ls) ==
    \A k, m \in 1..Len(ls) : \A i \in 1..Len(ls[k]), j \in 1..Len(ls[m]) :
        k < m \/ (k = m /\ i < j) => ls[k][i][2] < ls[m][j][1]

EachOnce(ls, n) ==
    \A p \in 1..(n - 1) :
        /\ Covered(ls, p) \/ IsSpace(text[p]) \/ Commented(ls, p)
        /\ Covered(ls, p) => ~Commented(ls, p)

Behind(ls, n) == n <= Len(text) /\ text[n] # "n" => n = 1 \/ ~Commented(ls, n - 1)

Numbered(ls, n) ==
    /\ Len(ls) = 1 + Cardinality(BreaksBefore(ls, n))
    /\ \A k \in 1..Len(ls) : \A i \in 1..Len(ls[k]) :
          Cardinality(BreaksBefore(ls, ls[k][i][1])) = k - 1

LexInv(ls, n) ==
    Fits(ls, n) /\ Ordered(ls) /\ EachOnce(ls, n) /\ Behind(ls, n) /\ Numbered(ls, n)

-----------------------------------------------------------------------------
(* What is searched for                                                        *)

LEMMA LeastOf ==
    ASSUME NEW S \in SUBSET Nat, S # {}
    PROVE  \E n \in S : \A m \in S : ~(m < n)
<1> DEFINE R == {p \in Nat \X Nat : p[1] < p[2]}
<1>1. IsWellFoundedOn(R, Nat)
  BY NatLessThanWellFounded DEF OpToRel
<1> HIDE DEF R
<1>2. PICK n \in S : \A m \in S : ~(<<m, n>> \in R)
  BY <1>1, WFMin
<1> QED
  BY <1>2 DEF R

\* A search ends behind where it begins, at the first place that is right, or
\* behind the text
LEMMA FirstFound ==
    ASSUME NEW n \in 1..Len(text), at = n, Len(text) \in Nat, NEW ps \in SUBSET Positions
    PROVE  /\ First(ps) \in (n + 1)..(Len(text) + 1)
           /\ First(ps) <= Len(text) => First(ps) \in ps
           /\ \A p \in ps : p > n => First(ps) <= p
<1> DEFINE found == {p \in ps : p > at} \cup {Len(text) + 1}
<1>1. \A p \in ps : p \in 1..Len(text)
  BY DEF Positions
<1>2. \E p \in found : \A r \in found : p <= r
  <2>1. found \subseteq Nat /\ found # {}
    BY <1>1
  <2> HIDE DEF found
  <2>2. PICK p \in found : \A r \in found : ~(r < p)
    BY <2>1, LeastOf
  <2> QED
    BY <2>1, <2>2
<1>3. First(ps) = CHOOSE p \in found : \A r \in found : p <= r
  BY DEF First
<1>4. First(ps) \in found /\ \A r \in found : First(ps) <= r
  <2> HIDE DEF found
  <2> QED
    BY <1>2, <1>3
<1> QED
  BY <1>1, <1>4

-----------------------------------------------------------------------------
(* Lines and words that are added                                              *)

LEMMA CoveredAppend ==
    ASSUME NEW ds \in Seq(Seq(Pair)), NEW line \in Seq(Pair), NEW p
    PROVE  Covered(Append(ds, line), p) <=> Covered(ds, p) \/ OnLine(line, p)
<1> DEFINE ls == Append(ds, line)
<1>1. /\ Len(ls) = Len(ds) + 1 /\ Len(ds) \in Nat
      /\ ls[Len(ds) + 1] = line
      /\ \A k \in 1..Len(ds) : ls[k] = ds[k]
  BY SMT
<1> HIDE DEF ls
<1>2. Covered(ls, p) <=> \E k \in 1..(Len(ds) + 1) : OnLine(ls[k], p)
  BY <1>1 DEF Covered
<1>3. 1..(Len(ds) + 1) = 1..Len(ds) \cup {Len(ds) + 1}
  BY <1>1
<1> QED
  BY <1>1, <1>2, <1>3 DEF Covered, ls

LEMMA OnLineAppend ==
    ASSUME NEW line \in Seq(Pair), NEW w \in Pair, NEW p
    PROVE  OnLine(Append(line, w), p) <=> OnLine(line, p) \/ (w[1] <= p /\ p <= w[2])
<1> DEFINE more == Append(line, w)
<1>1. /\ Len(more) = Len(line) + 1 /\ Len(line) \in Nat
      /\ more[Len(line) + 1] = w
      /\ \A i \in 1..Len(line) : more[i] = line[i]
  BY SMT
<1> HIDE DEF more
<1>2. 1..(Len(line) + 1) = 1..Len(line) \cup {Len(line) + 1}
  BY <1>1
<1> QED
  BY <1>1, <1>2 DEF OnLine, more

LEMMA CoveredWithin ==
    ASSUME NEW ls, NEW n \in Nat, Fits(ls, n), NEW p \in Nat, Covered(ls, p)
    PROVE  p < n
<1>1. PICK k \in 1..Len(ls) : OnLine(ls[k], p)
  BY DEF Covered
<1>2. PICK i \in 1..Len(ls[k]) : ls[k][i][1] <= p /\ p <= ls[k][i][2]
  BY <1>1 DEF OnLine
<1>3. ls[k][i][1] \in 1..(n - 1) /\ ls[k][i][2] \in ls[k][i][1]..(n - 1)
  BY DEF Fits
<1> QED
  BY <1>2, <1>3

\* What depends on the words in front of a place alone
LEMMA SameComments ==
    ASSUME NEW ls, NEW ms, NEW n \in Nat, NEW p \in 1..(n - 1),
           \A r \in 1..(n - 1) : Covered(ms, r) <=> Covered(ls, r)
    PROVE  Commented(ms, p) <=> Commented(ls, p)
<1>1. \A r \in 1..p : Covered(ms, r) <=> Covered(ls, r)
  OBVIOUS
<1> QED
  BY <1>1, Zenon DEF Commented

LEMMA SameBreaks ==
    ASSUME NEW ls, NEW ms, NEW n \in Nat, NEW p \in 1..n,
           \A r \in 1..(n - 1) : Covered(ms, r) <=> Covered(ls, r)
    PROVE  BreaksBefore(ms, p) = BreaksBefore(ls, p)
<1>1. \A r \in 1..(p - 1) : Covered(ms, r) <=> Covered(ls, r)
  OBVIOUS
<1> QED
  BY <1>1, Zenon DEF BreaksBefore

LEMMA BreaksFinite ==
    ASSUME NEW ls, NEW p \in Nat
    PROVE  IsFiniteSet(BreaksBefore(ls, p)) /\ Cardinality(BreaksBefore(ls, p)) \in Nat
<1>1. IsFiniteSet(1..(p - 1))
  BY FS_Interval
<1>2. BreaksBefore(ls, p) \in SUBSET (1..(p - 1))
  BY DEF BreaksBefore
<1>3. IsFiniteSet(BreaksBefore(ls, p))
  BY <1>1, <1>2, FS_Subset
<1> QED
  BY <1>3, FS_CardinalityType

-----------------------------------------------------------------------------
(* The steps                                                                   *)

\* No comment reaches over a character that is none and no line break
LEMMA NoComment ==
    ASSUME NEW ls, NEW n \in 1..Len(text), Len(text) \in Nat,
           Behind(ls, n), text[n] \notin {"n", "#"}, NEW r \in 1..n,
           text[r] = "#", ~Covered(ls, r)
    PROVE  \E i \in r..(n - 1) : text[i] = "n"
<1>1. r \in 1..(n - 1) /\ n # 1
  OBVIOUS
<1>2. ~Commented(ls, n - 1)
  BY <1>1 DEF Behind
<1> QED
  BY <1>1, <1>2 DEF Commented

LEMMA BlankPassed ==
    ASSUME NEW ls, NEW n \in 1..Len(text), Len(text) \in Nat,
           LexInv(ls, n), text[n] = "b"
    PROVE  LexInv(ls, n + 1)
<1>1. Fits(ls, n + 1)
  BY DEF LexInv, Fits
<1>2. ~Covered(ls, n)
  BY CoveredWithin DEF LexInv
<1>3. EachOnce(ls, n + 1)
  <2> SUFFICES ASSUME NEW p \in 1..n
               PROVE  /\ Covered(ls, p) \/ IsSpace(text[p]) \/ Commented(ls, p)
                      /\ Covered(ls, p) => ~Commented(ls, p)
    BY DEF EachOnce
  <2>1. CASE p = n
    BY <1>2, <2>1 DEF IsSpace
  <2>2. CASE p \in 1..(n - 1)
    BY <2>2 DEF LexInv, EachOnce
  <2> QED
    BY <2>1, <2>2
<1>4. Behind(ls, n + 1)
  <2> SUFFICES ASSUME Commented(ls, n)
               PROVE  FALSE
    BY DEF Behind
  <2>1. PICK r \in 1..n : text[r] = "#" /\ ~Covered(ls, r) /\ \A i \in r..n : text[i] # "n"
    BY DEF Commented
  <2>2. \E i \in r..(n - 1) : text[i] = "n"
    BY <2>1, NoComment DEF LexInv
  <2> QED
    BY <2>1, <2>2
<1>5. Numbered(ls, n + 1)
  <2>1. BreaksBefore(ls, n + 1) = BreaksBefore(ls, n)
    BY DEF BreaksBefore
  <2> QED
    BY <2>1 DEF LexInv, Numbered
<1> QED
  BY <1>1, <1>3, <1>4, <1>5 DEF LexInv

LEMMA BreakPassed ==
    ASSUME NEW ls \in Seq(Seq(Pair)), NEW n \in 1..Len(text), Len(text) \in Nat,
           LexInv(ls, n), text[n] = "n",
           NEW ms, ms = Append(ls, <<>>)
    PROVE  LexInv(ms, n + 1)
<1>1. /\ Len(ms) = Len(ls) + 1 /\ Len(ls) \in Nat
      /\ Len(ms[Len(ms)]) = 0
      /\ \A k \in 1..Len(ls) : ms[k] = ls[k]
  <2>1. Len(<<>>) = 0
    OBVIOUS
  <2> QED
    BY <2>1
<1>2. \A k \in 1..Len(ms) : \A i \in 1..Len(ms[k]) : k \in 1..Len(ls) /\ ms[k] = ls[k]
  BY <1>1
<1>3. \A p : Covered(ms, p) <=> Covered(ls, p)
  <2>1. \A p : ~OnLine(<<>>, p)
    BY DEF OnLine
  <2>2. <<>> \in Seq(Pair)
    OBVIOUS
  <2> QED
    BY <2>1, <2>2, CoveredAppend
<1> n \in Nat
  OBVIOUS
<1>4. Fits(ms, n + 1)
  BY <1>2 DEF LexInv, Fits
<1>5. Ordered(ms)
  <2> SUFFICES ASSUME NEW k \in 1..Len(ms), NEW m \in 1..Len(ms),
                      NEW i \in 1..Len(ms[k]), NEW j \in 1..Len(ms[m]),
                      k < m \/ (k = m /\ i < j)
               PROVE  ms[k][i][2] < ms[m][j][1]
    BY DEF Ordered
  <2>1. k \in 1..Len(ls) /\ ms[k] = ls[k] /\ m \in 1..Len(ls) /\ ms[m] = ls[m]
    BY <1>2
  <2> QED
    BY <2>1 DEF LexInv, Ordered
<1>6. ~Covered(ls, n)
  BY CoveredWithin DEF LexInv
<1>7. EachOnce(ms, n + 1)
  <2> SUFFICES ASSUME NEW p \in 1..n
               PROVE  /\ Covered(ms, p) \/ IsSpace(text[p]) \/ Commented(ms, p)
                      /\ Covered(ms, p) => ~Commented(ms, p)
    BY DEF EachOnce
  <2>1. CASE p = n
    BY <1>3, <1>6, <2>1 DEF IsSpace
  <2>2. CASE p \in 1..(n - 1)
    <3>1. Commented(ms, p) <=> Commented(ls, p)
      BY <1>3, <2>2, SameComments, Zenon
    <3> QED
      BY <1>3, <2>2, <3>1 DEF LexInv, EachOnce
  <2> QED
    BY <2>1, <2>2
<1>8. Behind(ms, n + 1)
  <2>1. ~Commented(ms, n)
    BY DEF Commented
  <2> QED
    BY <2>1 DEF Behind
<1>9. Numbered(ms, n + 1)
  <2>1. \A p \in 1..n : BreaksBefore(ms, p) = BreaksBefore(ls, p)
    BY <1>3, SameBreaks, Zenon
  <2>2. BreaksBefore(ms, n + 1) = BreaksBefore(ls, n) \cup {n}
    BY <1>3, <1>6 DEF BreaksBefore
  <2>3. n \notin BreaksBefore(ls, n)
    BY DEF BreaksBefore
  <2>4. Cardinality(BreaksBefore(ms, n + 1)) = Cardinality(BreaksBefore(ls, n)) + 1
    BY <2>2, <2>3, BreaksFinite, FS_AddElement
  <2>5. \A k \in 1..Len(ls) : \A i \in 1..Len(ls[k]) : ls[k][i][1] \in 1..n
    BY DEF LexInv, Fits
  <2>6. Len(ls) = 1 + Cardinality(BreaksBefore(ls, n)) /\ Cardinality(BreaksBefore(ls, n)) \in Nat
    BY BreaksFinite DEF LexInv, Numbered
  <2>7. ASSUME NEW k \in 1..Len(ms), NEW i \in 1..Len(ms[k])
        PROVE  Cardinality(BreaksBefore(ms, ms[k][i][1])) = k - 1
    <3>1. k \in 1..Len(ls) /\ ms[k] = ls[k]
      BY <1>2
    <3>2. BreaksBefore(ms, ls[k][i][1]) = BreaksBefore(ls, ls[k][i][1])
      BY <2>1, <2>5, <3>1
    <3> QED
      BY <3>1, <3>2 DEF LexInv, Numbered
  <2> QED
    BY <1>1, <2>4, <2>6, <2>7 DEF Numbered
<1> QED
  BY <1>4, <1>5, <1>7, <1>8, <1>9 DEF LexInv

LEMMA CommentPassed ==
    ASSUME NEW ls, NEW n \in 1..Len(text), Len(text) \in Nat,
           LexInv(ls, n), text[n] = "#",
           NEW e \in (n + 1)..(Len(text) + 1),
           \A p \in n..(e - 1) : text[p] # "n",
           e <= Len(text) => text[e] = "n"
    PROVE  LexInv(ls, e)
<1>1. Fits(ls, e)
  <2> SUFFICES ASSUME NEW k \in 1..Len(ls), NEW i \in 1..Len(ls[k])
               PROVE  ls[k][i][1] \in 1..(e - 1) /\ ls[k][i][2] \in ls[k][i][1]..(e - 1)
    BY DEF Fits
  <2>1. ls[k][i][1] \in 1..(n - 1) /\ ls[k][i][2] \in ls[k][i][1]..(n - 1)
    BY DEF LexInv, Fits
  <2> QED
    BY <2>1
<1>2. \A p \in n..(e - 1) : ~Covered(ls, p)
  BY CoveredWithin DEF LexInv
<1>3. EachOnce(ls, e)
  <2> SUFFICES ASSUME NEW p \in 1..(e - 1)
               PROVE  /\ Covered(ls, p) \/ IsSpace(text[p]) \/ Commented(ls, p)
                      /\ Covered(ls, p) => ~Commented(ls, p)
    BY DEF EachOnce
  <2>1. CASE p \in n..(e - 1)
    <3>1. n \in 1..p /\ \A i \in n..p : text[i] # "n"
      BY <2>1
    <3>2. ~Covered(ls, n) /\ ~Covered(ls, p)
      BY <1>2, <2>1
    <3> QED
      BY <3>1, <3>2 DEF Commented
  <2>2. CASE p \in 1..(n - 1)
    BY <2>2 DEF LexInv, EachOnce
  <2> QED
    BY <2>1, <2>2
<1>4. Behind(ls, e)
  BY DEF Behind
<1>5. Numbered(ls, e)
  <2>1. BreaksBefore(ls, e) = BreaksBefore(ls, n)
    BY DEF BreaksBefore
  <2> QED
    BY <2>1 DEF LexInv, Numbered
<1> QED
  BY <1>1, <1>3, <1>4, <1>5 DEF LexInv

\* A word from n to end is added to the last of the lines ls
Grown(ls, ms, n, end) ==
    /\ Len(ls) \in Nat \ {0} /\ Len(ms) = Len(ls)
    /\ Len(ms[Len(ls)]) = Len(ls[Len(ls)]) + 1 /\ Len(ls[Len(ls)]) \in Nat
    /\ \A k \in 1..Len(ms) : \A i \in 1..Len(ms[k]) :
          \/ k = Len(ls) /\ i = Len(ls[k]) + 1 /\ ms[k][i][1] = n /\ ms[k][i][2] = end
          \/ k \in 1..Len(ls) /\ i \in 1..Len(ls[k]) /\ ms[k][i] = ls[k][i]
    /\ \A p : Covered(ms, p) <=> Covered(ls, p) \/ (n <= p /\ p <= end)

LEMMA GrownAppend ==
    ASSUME NEW ds \in Seq(Seq(Pair)), NEW line \in Seq(Pair), NEW n \in Nat, NEW end \in Nat,
           NEW ls, ls = Append(ds, line), NEW ms, ms = Append(ds, Append(line, <<n, end>>))
    PROVE  Grown(ls, ms, n, end)
<1> DEFINE N == Len(ds) + 1
           w == <<n, end>>
<1>1. ls \in Seq(Seq(Pair)) /\ w \in Pair
  BY DEF Pair
<1>2. /\ Len(ms) = N /\ Len(ls) = N /\ N \in Nat /\ Len(line) \in Nat
      /\ ls[N] = line /\ ms[N] = Append(line, w)
      /\ \A k \in 1..(N - 1) : ms[k] = ls[k]
  BY <1>1, SMT
<1>3. /\ Len(ms[N]) = Len(ls[N]) + 1 /\ Len(ls[N]) \in Nat
      /\ ms[N][Len(ls[N]) + 1] = w
      /\ \A i \in 1..Len(ls[N]) : ms[N][i] = ls[N][i]
  BY <1>1, <1>2, SMT
<1>4. w[1] = n /\ w[2] = end
  OBVIOUS
<1> HIDE DEF N, w
\* A word is one of those before, in its place, or the new one
<1>5. \A k \in 1..Len(ms) : \A i \in 1..Len(ms[k]) :
          \/ k = N /\ i = Len(ls[k]) + 1 /\ ms[k][i] = w
          \/ k \in 1..Len(ls) /\ i \in 1..Len(ls[k]) /\ ms[k][i] = ls[k][i]
  <2> SUFFICES ASSUME NEW k \in 1..Len(ms), NEW i \in 1..Len(ms[k])
               PROVE  \/ k = N /\ i = Len(ls[k]) + 1 /\ ms[k][i] = w
                      \/ k \in 1..Len(ls) /\ i \in 1..Len(ls[k]) /\ ms[k][i] = ls[k][i]
    OBVIOUS
  <2>1. CASE k = N
    BY <1>2, <1>3, <2>1
  <2>2. CASE k \in 1..(N - 1)
    BY <1>2, <2>2
  <2> QED
    BY <1>2, <2>1, <2>2
<1>6. \A p : Covered(ms, p) <=> Covered(ls, p) \/ (n <= p /\ p <= end)
  <2> TAKE p
  <2>1. Append(line, w) \in Seq(Pair)
    BY <1>1
  <2>2. ms = Append(ds, Append(line, w))
    BY DEF w
  <2>3. Covered(ms, p) <=> Covered(ds, p) \/ OnLine(Append(line, w), p)
    BY <2>1, <2>2, CoveredAppend, Zenon
  <2>4. OnLine(Append(line, w), p) <=> OnLine(line, p) \/ (n <= p /\ p <= end)
    BY <1>1, <1>4, OnLineAppend, Zenon
  <2>5. Covered(ls, p) <=> Covered(ds, p) \/ OnLine(line, p)
    BY CoveredAppend, Zenon
  <2> QED
    BY <2>3, <2>4, <2>5, Zenon
<1>7. Len(ls) = N /\ N \in Nat \ {0}
  BY <1>2 DEF N
<1>8. \A k \in 1..Len(ms) : \A i \in 1..Len(ms[k]) :
          \/ k = Len(ls) /\ i = Len(ls[k]) + 1 /\ ms[k][i][1] = n /\ ms[k][i][2] = end
          \/ k \in 1..Len(ls) /\ i \in 1..Len(ls[k]) /\ ms[k][i] = ls[k][i]
  <2> TAKE k \in 1..Len(ms)
  <2> TAKE i \in 1..Len(ms[k])
  <2>1. CASE k = N /\ i = Len(ls[k]) + 1 /\ ms[k][i] = w
    BY <1>4, <1>7, <2>1, Zenon
  <2> QED
    BY <1>5, <2>1, Zenon
<1>9. Len(ms) = Len(ls) /\ Len(ms[Len(ls)]) = Len(ls[Len(ls)]) + 1 /\ Len(ls[Len(ls)]) \in Nat
  BY <1>2, <1>3, <1>7, Zenon
<1> QED
  BY <1>6, <1>7, <1>8, <1>9, Zenon DEF Grown

LEMMA WordTaken ==
    ASSUME NEW ls, NEW n \in 1..Len(text), Len(text) \in Nat,
           LexInv(ls, n), text[n] \notin {"n", "#"},
           NEW end \in n..Len(text), NEW ms, Grown(ls, ms, n, end)
    PROVE  LexInv(ms, end + 1)
<1> DEFINE N == Len(ls)
<1>1. /\ N \in Nat \ {0} /\ Len(ms) = N
      /\ Len(ms[N]) = Len(ls[N]) + 1 /\ Len(ls[N]) \in Nat
  BY DEF Grown
<1>5. \A k \in 1..Len(ms) : \A i \in 1..Len(ms[k]) :
          \/ k = N /\ i = Len(ls[k]) + 1 /\ ms[k][i][1] = n /\ ms[k][i][2] = end
          \/ k \in 1..Len(ls) /\ i \in 1..Len(ls[k]) /\ ms[k][i] = ls[k][i]
  BY DEF Grown
<1> HIDE DEF N
<1>6. \A k \in 1..Len(ls) : \A i \in 1..Len(ls[k]) :
          ls[k][i][1] \in 1..(n - 1) /\ ls[k][i][2] \in ls[k][i][1]..(n - 1)
  BY DEF LexInv, Fits
<1>7. \A p : Covered(ms, p) <=> Covered(ls, p) \/ (n <= p /\ p <= end)
  BY DEF Grown
<1> n \in Nat /\ end \in Nat /\ n <= end
  OBVIOUS
<1>8. \A p \in 1..(n - 1) : Covered(ms, p) <=> Covered(ls, p)
  <2> TAKE p \in 1..(n - 1)
  <2>1. ~(n <= p)
    OBVIOUS
  <2> QED
    BY <1>7, <2>1, Zenon
<1>9. Fits(ms, end + 1)
  <2> SUFFICES ASSUME NEW k \in 1..Len(ms), NEW i \in 1..Len(ms[k])
               PROVE  ms[k][i][1] \in 1..end /\ ms[k][i][2] \in ms[k][i][1]..end
    BY DEF Fits
  <2>1. CASE ms[k][i][1] = n /\ ms[k][i][2] = end
    BY <2>1
  <2>2. CASE k \in 1..Len(ls) /\ i \in 1..Len(ls[k]) /\ ms[k][i] = ls[k][i]
    <3>1. ms[k][i][1] \in 1..(n - 1) /\ ms[k][i][2] \in ms[k][i][1]..(n - 1)
      BY <1>6, <2>2
    <3> QED
      BY <3>1
  <2> QED
    BY <1>5, <2>1, <2>2
<1>10. Ordered(ms)
  <2> SUFFICES ASSUME NEW k \in 1..Len(ms), NEW m \in 1..Len(ms),
                      NEW i \in 1..Len(ms[k]), NEW j \in 1..Len(ms[m]),
                      k < m \/ (k = m /\ i < j)
               PROVE  ms[k][i][2] < ms[m][j][1]
    BY DEF Ordered
  <2>1. ~(k = N /\ i = Len(ls[k]) + 1)
    BY <1>1
  <2>2. k \in 1..Len(ls) /\ i \in 1..Len(ls[k]) /\ ms[k][i] = ls[k][i]
    BY <1>5, <2>1
  <2>3. CASE m = N /\ ms[m][j][1] = n
    <3>1. ms[k][i][1] \in 1..(n - 1) /\ ms[k][i][2] \in ms[k][i][1]..(n - 1)
      BY <1>6, <2>2, Zenon
    <3>2. ms[k][i][2] < n
      BY <3>1
    <3> QED
      BY <2>3, <3>2, Zenon
  <2>4. CASE m \in 1..Len(ls) /\ j \in 1..Len(ls[m]) /\ ms[m][j] = ls[m][j]
    BY <2>2, <2>4 DEF LexInv, Ordered
  <2> QED
    BY <1>5, <2>3, <2>4
<1>11. \A p \in n..end : Covered(ms, p) /\ ~Commented(ms, p)
  <2> TAKE p \in n..end
  <2>1. Covered(ms, p)
    BY <1>7
  <2> SUFFICES ASSUME Commented(ms, p)
               PROVE  FALSE
    BY <2>1
  <2>2. PICK r \in 1..p : text[r] = "#" /\ ~Covered(ms, r) /\ \A i \in r..p : text[i] # "n"
    BY DEF Commented
  <2>3. r \in 1..(n - 1) /\ ~Covered(ls, r)
    BY <1>7, <2>2
  <2>4. \E i \in r..(n - 1) : text[i] = "n"
    BY <2>2, <2>3, NoComment DEF LexInv
  <2> QED
    BY <2>2, <2>4
<1>12. EachOnce(ms, end + 1)
  <2> SUFFICES ASSUME NEW p \in 1..end
               PROVE  /\ Covered(ms, p) \/ IsSpace(text[p]) \/ Commented(ms, p)
                      /\ Covered(ms, p) => ~Commented(ms, p)
    BY DEF EachOnce
  <2>1. CASE p \in n..end
    BY <1>11, <2>1
  <2>2. CASE p \in 1..(n - 1)
    <3>1. Commented(ms, p) <=> Commented(ls, p)
      BY <1>8, <2>2, SameComments, Zenon
    <3> QED
      BY <1>8, <2>2, <3>1 DEF LexInv, EachOnce
  <2> QED
    BY <2>1, <2>2
<1>13. Behind(ms, end + 1)
  BY <1>11 DEF Behind
<1>14. Numbered(ms, end + 1)
  <2>1. \A p \in 1..n : BreaksBefore(ms, p) = BreaksBefore(ls, p)
    BY <1>8, SameBreaks, Zenon
  <2>2. BreaksBefore(ms, end + 1) = BreaksBefore(ms, n)
    BY <1>7 DEF BreaksBefore
  <2>3. Len(ls) = 1 + Cardinality(BreaksBefore(ls, n)) /\ Cardinality(BreaksBefore(ls, n)) \in Nat
    BY BreaksFinite DEF LexInv, Numbered
  <2>4. ASSUME NEW k \in 1..Len(ms), NEW i \in 1..Len(ms[k])
        PROVE  Cardinality(BreaksBefore(ms, ms[k][i][1])) = k - 1
    <3>1. CASE k = N /\ ms[k][i][1] = n
      BY <2>1, <2>3, <3>1 DEF N
    <3>2. CASE k \in 1..Len(ls) /\ i \in 1..Len(ls[k]) /\ ms[k][i] = ls[k][i]
      <4>1. ls[k][i][1] \in 1..n
        BY <1>6, <3>2
      <4> QED
        BY <2>1, <3>2, <4>1 DEF LexInv, Numbered
    <3> QED
      BY <1>5, <3>1, <3>2
  <2> QED
    BY <1>1, <2>1, <2>2, <2>3, <2>4 DEF Numbered, N
<1> QED
  BY <1>9, <1>10, <1>12, <1>13, <1>14 DEF LexInv

-----------------------------------------------------------------------------
(* The invariant is inductive                                                  *)

Inv == LexerTypeOK /\ LexInv(AllLines, at)

LEMMA LexerStarts == text \in Seq(STRING) /\ LexerInit => Inv
<1> SUFFICES ASSUME text \in Seq(STRING), LexerInit
             PROVE  Inv
  OBVIOUS
<1>1. at = 1 /\ r_line = <<>> /\ lines = <<>> /\ lexed = "reading" /\ Len(text) \in Nat
  BY DEF LexerInit
<1>2. LexerTypeOK
  BY <1>1 DEF LexerTypeOK
<1> DEFINE ls == Append(<<>>, <<>>)
<1>3. AllLines = ls
  BY <1>1 DEF AllLines
<1>4. Len(ls) = 1 /\ Len(ls[1]) = 0
  OBVIOUS
<1> HIDE DEF ls
<1>5. Fits(ls, 1) /\ Ordered(ls) /\ EachOnce(ls, 1) /\ Behind(ls, 1)
  BY <1>4 DEF Fits, Ordered, EachOnce, Behind
<1>6. Numbered(ls, 1)
  <2>1. BreaksBefore(ls, 1) = {}
    BY DEF BreaksBefore
  <2>2. Len(ls) = 1 + Cardinality(BreaksBefore(ls, 1))
    <3>1. Cardinality(BreaksBefore(ls, 1)) = 0
      BY <2>1, FS_EmptySet, Zenon
    <3> QED
      BY <1>4, <3>1
  <2>3. \A k \in 1..Len(ls) : k = 1 /\ 1..Len(ls[k]) = {}
    BY <1>4
  <2> QED
    BY <2>2, <2>3 DEF Numbered
<1> QED
  BY <1>1, <1>2, <1>3, <1>5, <1>6 DEF Inv, LexInv

\* It is about the text, which stays
LEMMA SameText ==
    ASSUME UNCHANGED text, NEW ls, NEW n, LexInv(ls, n)
    PROVE  LexInv(ls, n)'
<1>1. text' = text
  OBVIOUS
<1>2. Fits(ls, n)'
  BY DEF LexInv, Fits
<1>3. Ordered(ls)'
  BY DEF LexInv, Ordered
<1>4. \A p : Covered(ls, p)' <=> Covered(ls, p)
  BY Zenon DEF Covered, OnLine
<1>5. \A p : Commented(ls, p)' <=> Commented(ls, p)
  BY <1>1, Zenon DEF Commented, Covered, OnLine
<1>6. \A p : BreaksBefore(ls, p)' = BreaksBefore(ls, p)
  BY <1>1, Zenon DEF BreaksBefore, Covered, OnLine
<1>7. EachOnce(ls, n)'
  BY <1>1, <1>4, <1>5, Zenon DEF LexInv, EachOnce, IsSpace
<1>8. Behind(ls, n)'
  BY <1>1, <1>5, Zenon DEF LexInv, Behind
<1>9. Numbered(ls, n)'
  BY <1>6, Zenon DEF LexInv, Numbered
<1> QED
  BY <1>2, <1>3, <1>7, <1>8, <1>9 DEF LexInv

LEMMA TakeKeeps ==
    ASSUME Inv, lexed = "reading", at <= Len(text), text[at] \notin {"n", "#"}, UNCHANGED text,
           NEW end \in at..Len(text), Take(end)
    PROVE  Inv'
<1>1. /\ text \in Seq(STRING) /\ Len(text) \in Nat /\ at \in 1..Len(text)
      /\ r_line \in Seq(Pair) /\ lines \in Seq(Seq(Pair))
  BY DEF Inv, LexerTypeOK
<1>2. /\ r_line' = Append(r_line, <<at, end>>) /\ at' = end + 1
      /\ lines' = lines /\ lexed' = lexed /\ text' = text
  BY DEF Take
<1>3. <<at, end>> \in Pair
  BY <1>1 DEF Pair
<1>4. LexerTypeOK'
  <2>1. r_line' \in Seq(Pair)
    BY <1>1, <1>2, <1>3
  <2>2. at' \in 1..(Len(text) + 1)
    BY <1>1, <1>2
  <2> QED
    BY <1>1, <1>2, <2>1, <2>2 DEF LexerTypeOK
<1>5. AllLines = Append(lines, r_line) /\ AllLines' = Append(lines, Append(r_line, <<at, end>>))
  BY <1>2 DEF AllLines
<1>6. at \in Nat /\ end \in Nat
  BY <1>1
<1>7. PICK n : n = at
  OBVIOUS
<1>8. PICK ls, ms : ls = AllLines /\ ms = AllLines'
  OBVIOUS
<1>9. Grown(ls, ms, n, end)
  BY <1>1, <1>5, <1>6, <1>7, <1>8, GrownAppend, Zenon
<1>10. LexInv(ms, end + 1)
  <2>1. LexInv(ls, n) /\ n \in 1..Len(text) /\ text[n] \notin {"n", "#"} /\ end \in n..Len(text)
    BY <1>1, <1>7, <1>8 DEF Inv
  <2> QED
    BY <1>1, <1>9, <2>1, WordTaken, Zenon
<1>11. LexInv(AllLines, at)'
  <2>1. LexInv(ms, end + 1)'
    BY <1>10, SameText, Zenon
  <2> QED
    BY <1>2, <1>8, <2>1, Zenon
<1> QED
  BY <1>4, <1>11 DEF Inv

LEMMA SameKeeps ==
    ASSUME UNCHANGED text, NEW ls, NEW n, AllLines' = ls, at' = n, LexInv(ls, n)
    PROVE  LexInv(AllLines, at)'
<1>1. LexInv(ls, n)'
  BY SameText, Zenon
<1> QED
  BY <1>1, Zenon

LEMMA BlankKeeps ==
    ASSUME Inv, lexed = "reading", at <= Len(text), UNCHANGED text, Blank
    PROVE  Inv'
<1>1. /\ text \in Seq(STRING) /\ Len(text) \in Nat /\ at \in 1..Len(text)
      /\ r_line \in Seq(Pair) /\ lines \in Seq(Seq(Pair))
  BY DEF Inv, LexerTypeOK
<1>2. PICK n, ls : n = at /\ ls = AllLines
  OBVIOUS
<1>3. LexInv(ls, n) /\ n \in 1..Len(text) /\ ls = Append(lines, r_line)
  BY <1>1, <1>2 DEF Inv, AllLines
<1>4. at' = n + 1 /\ lexed' = lexed /\ text' = text
  BY <1>2 DEF Blank
<1>5. at' \in 1..(Len(text) + 1)
  BY <1>3, <1>4, <1>1
<1>6. CASE text[at] = "n"
  <2>1. lines' = Append(lines, r_line) /\ r_line' = <<>>
    BY <1>6 DEF Blank
  <2>2. LexerTypeOK'
    <3>1. lines' \in Seq(Seq(Pair)) /\ r_line' \in Seq(Pair)
      BY <1>1, <2>1
    <3> QED
      BY <1>1, <1>4, <1>5, <3>1 DEF LexerTypeOK
  <2>3. PICK ms : ms = Append(ls, <<>>)
    OBVIOUS
  <2>4. AllLines' = ms
    BY <1>3, <1>4, <2>1, <2>3 DEF AllLines
  <2>5. ls \in Seq(Seq(Pair))
    BY <1>1, <1>3
  <2>6. LexInv(ms, n + 1)
    BY <1>1, <1>2, <1>3, <1>6, <2>3, <2>5, BreakPassed, Zenon
  <2> QED
    BY <1>4, <2>2, <2>4, <2>6, SameKeeps, Zenon DEF Inv
<1>7. CASE text[at] = "b"
  <2>1. lines' = lines /\ r_line' = r_line
    BY <1>7 DEF Blank
  <2>2. LexerTypeOK'
    BY <1>1, <1>4, <1>5, <2>1 DEF LexerTypeOK
  <2>3. AllLines' = ls
    BY <1>3, <1>4, <2>1 DEF AllLines
  <2>4. LexInv(ls, n + 1)
    BY <1>1, <1>2, <1>3, <1>7, BlankPassed, Zenon
  <2> QED
    BY <1>4, <2>2, <2>3, <2>4, SameKeeps, Zenon DEF Inv
<1> QED
  BY <1>6, <1>7 DEF Blank, IsSpace

LEMMA CommentKeeps ==
    ASSUME Inv, lexed = "reading", at <= Len(text), UNCHANGED text, Comment
    PROVE  Inv'
<1>1. /\ text \in Seq(STRING) /\ Len(text) \in Nat /\ at \in 1..Len(text)
      /\ r_line \in Seq(Pair) /\ lines \in Seq(Seq(Pair))
  BY DEF Inv, LexerTypeOK
<1>2. PICK n, ls : n = at /\ ls = AllLines
  OBVIOUS
<1>3. LexInv(ls, n) /\ n \in 1..Len(text)
  BY <1>1, <1>2 DEF Inv
<1> DEFINE ps == {p \in Positions : text[p] = "n"}
<1>4. PICK e : e = First(ps)
  OBVIOUS
<1>5. /\ e \in (n + 1)..(Len(text) + 1)
      /\ e <= Len(text) => e \in ps
      /\ \A p \in ps : p > n => e <= p
  BY <1>1, <1>2, <1>3, <1>4, FirstFound
<1>6. text[n] = "#" /\ at' = e /\ UNCHANGED <<r_line, lines, lexed, text>>
  BY <1>2, <1>4 DEF Comment
<1>7. \A p \in n..(e - 1) : text[p] # "n"
  <2> TAKE p \in n..(e - 1)
  <2>1. CASE p = n
    BY <1>6, <2>1
  <2>2. CASE p > n
    <3>1. p \in Positions
      BY <1>1, <1>3, <1>5 DEF Positions
    <3>2. ~(e <= p)
      BY <1>3, <1>5
    <3> QED
      BY <1>5, <2>2, <3>1, <3>2
  <2> QED
    BY <1>3, <1>5, <2>1, <2>2
<1>8. LexInv(ls, e)
  BY <1>1, <1>3, <1>5, <1>6, <1>7, CommentPassed
<1>9. AllLines' = ls
  BY <1>2, <1>6 DEF AllLines
<1>10. LexerTypeOK'
  <2>1. at' \in 1..(Len(text) + 1)
    BY <1>3, <1>5, <1>6
  <2> QED
    BY <1>1, <1>6, <2>1 DEF LexerTypeOK
<1> QED
  BY <1>6, <1>8, <1>9, <1>10, SameKeeps, Zenon DEF Inv

LEMMA QuotedKeeps ==
    ASSUME Inv, lexed = "reading", at <= Len(text), UNCHANGED text, Quoted
    PROVE  Inv'
<1>1. /\ text \in Seq(STRING) /\ Len(text) \in Nat /\ at \in 1..Len(text)
  BY DEF Inv, LexerTypeOK
<1> DEFINE ps == {p \in Positions \ {1} : text[p] = "q" /\ text[p - 1] # "e"}
           end == First(ps)
<1>2. end \in (at + 1)..(Len(text) + 1)
  BY <1>1, FirstFound
<1>3. text[at] = "q"
  BY DEF Quoted
<1>4. CASE end <= Len(text) /\ Take(end)
  <2>1. end \in at..Len(text)
    BY <1>1, <1>2, <1>4
  <2> QED
    BY <1>3, <1>4, <2>1, TakeKeeps
<1>5. CASE lexed' = "torn" /\ UNCHANGED <<at, r_line, lines>>
  <2>1. LexerTypeOK'
    BY <1>5 DEF Inv, LexerTypeOK
  <2>2. AllLines' = AllLines
    BY <1>5 DEF AllLines
  <2>3. PICK n, ls : n = at /\ ls = AllLines
    OBVIOUS
  <2>4. LexInv(ls, n)
    BY <2>3 DEF Inv
  <2> QED
    BY <1>5, <2>1, <2>2, <2>3, <2>4, SameKeeps DEF Inv
<1> QED
  BY <1>4, <1>5 DEF Quoted

LEMMA WordKeeps ==
    ASSUME Inv, lexed = "reading", at <= Len(text), UNCHANGED text, Bare
    PROVE  Inv'
<1>1. /\ text \in Seq(STRING) /\ Len(text) \in Nat /\ at \in 1..Len(text)
  BY DEF Inv, LexerTypeOK
<1> DEFINE ps == {p \in Positions : IsSpace(text[p])}
<1>2. First(ps) \in (at + 1)..(Len(text) + 1)
  BY <1>1, FirstFound
<1>3. PICK end : end = First(ps) - 1
  OBVIOUS
<1>4. end \in at..Len(text)
  BY <1>1, <1>2, <1>3
<1>5. text[at] \notin {"n", "#"} /\ Take(end)
  BY <1>3 DEF Bare, IsSpace
<1> QED
  BY <1>4, <1>5, TakeKeeps

LEMMA LexerStep == Inv /\ [Read_]_lexerVars => Inv'
<1> SUFFICES ASSUME Inv, [Read_]_lexerVars
             PROVE  Inv'
  OBVIOUS
<1>1. CASE lexed = "reading" /\ at > Len(text) /\ lexed' = "read" /\ lines' = Append(lines, r_line)
           /\ UNCHANGED <<at, r_line, text>>
  <2>1. /\ text \in Seq(STRING) /\ Len(text) \in Nat /\ at \in 1..(Len(text) + 1)
        /\ r_line \in Seq(Pair) /\ lines \in Seq(Seq(Pair))
    BY DEF Inv, LexerTypeOK
  <2>2. LexerTypeOK'
    <3>1. at = Len(text) + 1 /\ lines' \in Seq(Seq(Pair))
      BY <1>1, <2>1
    <3> QED
      BY <1>1, <2>1, <3>1 DEF LexerTypeOK
  <2>3. AllLines' = AllLines
    BY <1>1 DEF AllLines
  <2>4. PICK n, ls : n = at /\ ls = AllLines
    OBVIOUS
  <2>5. LexInv(ls, n)
    BY <2>4 DEF Inv
  <2> QED
    BY <1>1, <2>2, <2>3, <2>4, <2>5, SameKeeps DEF Inv
<1>2. CASE UNCHANGED lexerVars
  <2>1. text' = text /\ at' = at /\ r_line' = r_line /\ lines' = lines /\ lexed' = lexed
    BY <1>2 DEF lexerVars
  <2>2. LexerTypeOK'
    BY <2>1 DEF Inv, LexerTypeOK
  <2>3. AllLines' = AllLines
    BY <2>1 DEF AllLines
  <2>4. PICK n, ls : n = at /\ ls = AllLines
    OBVIOUS
  <2>5. LexInv(ls, n)
    BY <2>4 DEF Inv
  <2> QED
    BY <2>1, <2>2, <2>3, <2>4, <2>5, SameKeeps DEF Inv
<1>3. CASE lexed = "reading" /\ at <= Len(text) /\ text' = text /\ (Blank \/ Comment \/ Quoted \/ Bare)
  BY <1>3, BlankKeeps, CommentKeeps, QuotedKeeps, WordKeeps
<1> QED
  BY <1>1, <1>2, <1>3 DEF Read_

-----------------------------------------------------------------------------
(* What it says of a text that is read                                         *)

LEMMA LexedText == Inv => LexesAll
<1> SUFFICES ASSUME Inv, lexed = "read"
             PROVE  LexesAll
  BY DEF LexesAll
<1>1. /\ Len(text) \in Nat /\ at = Len(text) + 1 /\ AllLines = lines
      /\ lines \in Seq(Seq(Pair)) /\ Len(lines) \in Nat
  BY DEF Inv, LexerTypeOK, AllLines
<1>2. LexInv(lines, Len(text) + 1)
  BY <1>1, Zenon DEF Inv
<1>3. \A w : w \in Words <=> \E k \in 1..Len(lines) : \E i \in 1..Len(lines[k]) : w = lines[k][i]
  BY DEF Words
<1>4. \A p : InWord(p) <=> Covered(lines, p)
  BY <1>3, Zenon DEF InWord, Covered, OnLine
<1>5. \A p : InComment(p) <=> Commented(lines, p)
  BY <1>4, Zenon DEF InComment, Commented
<1>6. \A p : Breaks(p) = Cardinality(BreaksBefore(lines, p))
  BY <1>4, Zenon DEF Breaks, BreaksBefore
<1>7. ASSUME NEW p \in Positions
      PROVE  Cardinality({w \in Words : w[1] <= p /\ p <= w[2]}) <= 1
  <2> DEFINE W == {w \in Words : w[1] <= p /\ p <= w[2]}
  <2>1. ASSUME NEW v \in W, NEW w \in W
        PROVE  v = w
    <3>1. PICK k \in 1..Len(lines) : \E i \in 1..Len(lines[k]) : v = lines[k][i]
      BY <1>3
    <3>2. PICK i \in 1..Len(lines[k]) : v = lines[k][i]
      BY <3>1
    <3>3. PICK m \in 1..Len(lines) : \E j \in 1..Len(lines[m]) : w = lines[m][j]
      BY <1>3
    <3>4. PICK j \in 1..Len(lines[m]) : w = lines[m][j]
      BY <3>3
    <3>5. /\ v[1] \in Int /\ v[2] \in Int /\ w[1] \in Int /\ w[2] \in Int
      <4>1. /\ lines[k][i][1] \in 1..Len(text) /\ lines[k][i][2] \in lines[k][i][1]..Len(text)
            /\ lines[m][j][1] \in 1..Len(text) /\ lines[m][j][2] \in lines[m][j][1]..Len(text)
        BY <1>1, <1>2 DEF LexInv, Fits
      <4> QED
        BY <3>2, <3>4, <4>1
    <3>6. p \in Int /\ v[1] <= p /\ p <= v[2] /\ w[1] <= p /\ p <= w[2]
      BY <1>1 DEF Positions
    <3>7. /\ k < m \/ (k = m /\ i < j) => v[2] < w[1]
          /\ m < k \/ (m = k /\ j < i) => w[2] < v[1]
      BY <1>2, <3>2, <3>4, Zenon DEF LexInv, Ordered
    <3>8. ~(v[2] < w[1]) /\ ~(w[2] < v[1])
      BY <3>5, <3>6
    <3>9. k = m /\ ~(i < j) /\ ~(j < i)
      BY <3>7, <3>8
    <3> QED
      BY <3>2, <3>4, <3>9
  <2> HIDE DEF W
  <2>2. CASE W = {}
    <3>1. Cardinality(W) = 0
      BY <2>2, FS_EmptySet, Zenon
    <3> QED
      BY <3>1 DEF W
  <2>3. CASE W # {}
    <3>1. PICK w : w \in W
      BY <2>3
    <3>2. W = {w}
      BY <2>1, <3>1
    <3>3. Cardinality(W) = 1
      BY <3>2, FS_Singleton, Zenon
    <3> QED
      BY <3>3 DEF W
  <2> QED
    BY <2>2, <2>3
<1>8. ASSUME NEW p \in Positions
      PROVE  /\ InWord(p) \/ IsSpace(text[p]) \/ InComment(p)
             /\ InWord(p) => ~InComment(p)
  <2>1. p \in 1..((Len(text) + 1) - 1)
    BY <1>1 DEF Positions
  <2> QED
    BY <1>2, <1>4, <1>5, <2>1, Zenon DEF LexInv, EachOnce
<1>9. ASSUME NEW k \in 1..Len(lines), NEW i \in 1..Len(lines[k])
      PROVE  /\ Breaks(lines[k][i][1]) = k - 1
             /\ i > 1 => lines[k][i - 1][2] < lines[k][i][1]
  <2>1. Breaks(lines[k][i][1]) = k - 1
    BY <1>2, <1>6, Zenon DEF LexInv, Numbered
  <2>2. i > 1 => i - 1 \in 1..Len(lines[k]) /\ i - 1 < i
    OBVIOUS
  <2>3. i > 1 => lines[k][i - 1][2] < lines[k][i][1]
    BY <1>2, <2>2, Zenon DEF LexInv, Ordered
  <2> QED
    BY <2>1, <2>3
<1>10. Len(lines) = 1 + Breaks(Len(text) + 1)
  BY <1>2, <1>6, Zenon DEF LexInv, Numbered
<1> QED
  BY <1>7, <1>8, <1>9, <1>10, Zenon DEF LexesAll

\* cmpl_internal.c:19-50: on every text, of any length and any characters, what
\* helper_file_parse cuts it into has each character in one word, or between words
\* as a blank or in a comment, and each word on the line that it stands on.
THEOREM WordsCoverText == LexerSpec => []LexesAll
<1>1. LexerSpec => []Inv
  <2>1. Inv /\ [Read_]_lexerVars => Inv'
    BY LexerStep
  <2>2. text \in Inputs /\ LexerInit => Inv
    BY LexerStarts, LexerAssumption
  <2> QED
    BY <2>1, <2>2, PTL DEF LexerSpec
<1>2. Inv => LexesAll
  BY LexedText
<1> QED
  BY <1>1, <1>2, PTL
=============================================================================
