---------------------------- MODULE Jobs_proofs ----------------------------
(***************************************************************************)
(* A CSV job, for any files, batch sizes, message limits, workers and      *)
(* faults: no row is queued for delivery twice, the halves of a batch have *)
(* each of its rows once, nothing is made behind a row that fits in no     *)
(* message, "all notifications created" is true, and a job that was        *)
(* cancelled made nothing and is not taken up again.                       *)
(***************************************************************************)
EXTENDS Jobs, WellFoundedInduction, FiniteSetTheorems, TLAPS

LEMMA LeastOf ==
  ASSUME NEW S \in SUBSET Nat, S # {}
  PROVE  \E m \in S : \A n \in S : m <= n
<1>1. IsWellFoundedOn({ss \in Nat \X Nat : ss[1] < ss[2]}, Nat)
  BY NatLessThanWellFounded DEF OpToRel
<1>2. \E m \in S : \A n \in S : ~(<<n, m>> \in {ss \in Nat \X Nat : ss[1] < ss[2]})
  BY <1>1, WFMin
<1>3. PICK m \in S : \A n \in S : ~(<<n, m>> \in {ss \in Nat \X Nat : ss[1] < ss[2]})
  BY <1>2
<1>4. \A n \in S : m <= n
  <2> SUFFICES ASSUME NEW n \in S PROVE m <= n
    OBVIOUS
  <2>1. <<n, m>> \in Nat \X Nat /\ <<n, m>>[1] = n /\ <<n, m>>[2] = m
    OBVIOUS
  <2>2. ~(n < m)
    BY <1>3, <2>1
  <2>3. n \in Nat /\ m \in Nat
    OBVIOUS
  <2> QED BY <2>2, <2>3
<1> QED BY <1>4

-----------------------------------------------------------------------------
(* _shatter_job_rows_with_subdivision.                                     *)

\* The file of a job, as far as its rows go.
FileTyped ==
  /\ file.size \in Nat /\ file.size <= MaxSize
  /\ MaxSize \in Nat /\ MessageLimit \in Nat \ {0}

Pairs == Rows \X Rows
Half(b) == (b[2] + 1 - b[1]) \div 2
LeftHalf(b) == <<b[1], b[1] + Half(b) - 1>>
RightHalf(b) == <<b[1] + Half(b), b[2]>>
InOneMessage(b) == (b[1]..b[2]) \cap file.huge = {} /\ b[2] + 1 - b[1] <= MessageLimit

\* The body of Subdivide, for what f says of the halves.
Part(f, b) ==
  IF InOneMessage(b) THEN [parts |-> {b}, whole |-> TRUE]
  ELSE IF b[1] = b[2] THEN [parts |-> {}, whole |-> FALSE]
  ELSE IF f[LeftHalf(b)].whole
       THEN [parts |-> f[LeftHalf(b)].parts \cup f[RightHalf(b)].parts,
             whole |-> f[RightHalf(b)].whole]
       ELSE f[LeftHalf(b)]

LEMMA SubdivideIsPart ==
  Subdivide = CHOOSE f : f = [b \in Pairs |-> Part(f, b)]
BY DEF Subdivide, Part, LeftHalf, RightHalf, Half, InOneMessage, Pairs

LEMMA HalfBetween ==
  ASSUME NEW lo \in Nat, NEW hi \in Nat, lo < hi
  PROVE  /\ (hi + 1 - lo) \div 2 \in Nat
         /\ 1 <= (hi + 1 - lo) \div 2 /\ (hi + 1 - lo) \div 2 <= hi - lo
<1>1. hi + 1 - lo \in Nat /\ hi + 1 - lo >= 2
  OBVIOUS
<1> QED
  BY <1>1

\* The halves of a batch of two rows or more: both are shorter, and they have
\* its rows between them.
LEMMA HalvesShorter ==
  ASSUME FileTyped, NEW b \in Pairs, b[1] < b[2]
  PROVE  /\ LeftHalf(b) \in Pairs /\ RightHalf(b) \in Pairs
         /\ LeftHalf(b)[1] = b[1] /\ RightHalf(b)[2] = b[2]
         /\ RightHalf(b)[1] = LeftHalf(b)[2] + 1
         /\ b[1] <= LeftHalf(b)[2] /\ LeftHalf(b)[2] < b[2]
<1>1. b[1] \in Nat /\ b[2] \in Nat /\ b[2] < file.size /\ file.size \in Nat
  BY DEF Pairs, Rows, FileTyped
<1>2. Half(b) \in Nat /\ 1 <= Half(b) /\ Half(b) <= b[2] - b[1]
  BY <1>1, HalfBetween DEF Half
<1>3. b[1] + Half(b) - 1 \in Rows /\ b[1] + Half(b) \in Rows /\ b[1] \in Rows /\ b[2] \in Rows
  BY <1>1, <1>2 DEF Rows, Pairs
<1>4. LeftHalf(b) \in Pairs /\ RightHalf(b) \in Pairs
  BY <1>3 DEF LeftHalf, RightHalf, Pairs
<1>5. /\ LeftHalf(b)[1] = b[1] /\ LeftHalf(b)[2] = b[1] + Half(b) - 1
      /\ RightHalf(b)[1] = b[1] + Half(b) /\ RightHalf(b)[2] = b[2]
  BY DEF LeftHalf, RightHalf
<1> QED
  BY <1>1, <1>2, <1>4, <1>5

\* f is right for the batches of at most n rows.
NoPart == [parts |-> {}, whole |-> FALSE]
Approx(f, n) ==
  f = [b \in Pairs |-> IF b[2] < b[1] + n THEN Part(f, b) ELSE NoPart]
Better(f, n) ==
  [b \in Pairs |-> IF b[2] < b[1] + (n + 1) THEN Part(f, b) ELSE NoPart]

LEMMA PartSame ==
  ASSUME FileTyped, NEW f, NEW g, NEW b \in Pairs,
         b[1] < b[2] => f[LeftHalf(b)] = g[LeftHalf(b)] /\ f[RightHalf(b)] = g[RightHalf(b)]
  PROVE  Part(f, b) = Part(g, b)
<1>1. b[1] \in Nat /\ b[2] \in Nat
  BY DEF Pairs, Rows, FileTyped
<1>2. CASE b[1] < b[2]
  BY <1>2 DEF Part
<1>3. CASE b[1] = b[2]
  BY <1>3 DEF Part
<1>4. CASE b[1] > b[2]
  <2>1. b[1]..b[2] = {} /\ b[2] + 1 - b[1] <= MessageLimit
    BY <1>1, <1>4 DEF FileTyped
  <2> QED BY <2>1 DEF Part, InOneMessage
<1> QED
  BY <1>1, <1>2, <1>3, <1>4

LEMMA ApproxBetter ==
  ASSUME FileTyped, NEW n \in Nat, NEW f, Approx(f, n)
  PROVE  Approx(Better(f, n), n + 1)
<1> DEFINE g == Better(f, n)
<1>1. \A b \in Pairs : g[b] = IF b[2] < b[1] + (n + 1) THEN Part(f, b) ELSE NoPart
  BY DEF Better
<1>2. \A b \in Pairs : f[b] = IF b[2] < b[1] + n THEN Part(f, b) ELSE NoPart
  BY DEF Approx
<1>3. ASSUME NEW b \in Pairs, b[2] < b[1] + n PROVE g[b] = f[b]
  <2>1. b[1] \in Nat /\ b[2] \in Nat
    BY DEF Pairs, Rows, FileTyped
  <2>2. b[2] < b[1] + (n + 1)
    BY <1>3, <2>1
  <2> QED BY <1>1, <1>2, <1>3, <2>2
<1>4. ASSUME NEW b \in Pairs, b[2] < b[1] + (n + 1) PROVE Part(g, b) = Part(f, b)
  <2>1. b[1] \in Nat /\ b[2] \in Nat
    BY DEF Pairs, Rows, FileTyped
  <2>2. CASE b[1] < b[2]
    <3>1. /\ LeftHalf(b) \in Pairs /\ RightHalf(b) \in Pairs
          /\ LeftHalf(b)[1] = b[1] /\ RightHalf(b)[2] = b[2]
          /\ RightHalf(b)[1] = LeftHalf(b)[2] + 1
          /\ b[1] <= LeftHalf(b)[2] /\ LeftHalf(b)[2] < b[2]
      BY <2>2, HalvesShorter
    <3>2. LeftHalf(b)[2] \in Nat
      BY <3>1 DEF Pairs, Rows, FileTyped
    <3>3. LeftHalf(b)[2] < LeftHalf(b)[1] + n /\ RightHalf(b)[2] < RightHalf(b)[1] + n
      BY <3>1, <3>2, <2>1, <1>4
    <3>4. g[LeftHalf(b)] = f[LeftHalf(b)] /\ g[RightHalf(b)] = f[RightHalf(b)]
      BY <3>1, <3>3, <1>3
    <3> QED BY <3>4, PartSame
  <2>3. CASE ~(b[1] < b[2])
    BY <2>3, PartSame
  <2> QED BY <2>2, <2>3
<1>5. g = [b \in Pairs |-> IF b[2] < b[1] + (n + 1) THEN Part(g, b) ELSE NoPart]
  <2>1. g = [b \in Pairs |-> IF b[2] < b[1] + (n + 1) THEN Part(f, b) ELSE NoPart]
    BY DEF Better
  <2>2. \A b \in Pairs : (IF b[2] < b[1] + (n + 1) THEN Part(f, b) ELSE NoPart)
                       = (IF b[2] < b[1] + (n + 1) THEN Part(g, b) ELSE NoPart)
    BY <1>4
  <2> HIDE DEF g
  <2> QED BY <2>1, <2>2
<1> QED BY <1>5 DEF Approx

LEMMA ApproxAll ==
  ASSUME FileTyped, NEW n \in Nat
  PROVE  \E f : Approx(f, n)
<1> DEFINE Missing == {k \in Nat : ~\E f : Approx(f, k)}
<1>1. SUFFICES ASSUME Missing # {} PROVE FALSE
  OBVIOUS
<1>2. PICK m \in Missing : \A k \in Missing : m <= k
  BY <1>1, LeastOf
<1>3. CASE m = 0
  <2> DEFINE g == [b \in Pairs |-> IF b[2] < b[1] + 0 THEN [parts |-> {b}, whole |-> TRUE]
                                   ELSE NoPart]
  <2>1. \A b \in Pairs : b[2] < b[1] + 0 => Part(g, b) = [parts |-> {b}, whole |-> TRUE]
    <3> SUFFICES ASSUME NEW b \in Pairs, b[2] < b[1] + 0 PROVE InOneMessage(b)
      BY DEF Part
    <3>1. b[1] \in Nat /\ b[2] \in Nat
      BY DEF Pairs, Rows, FileTyped
    <3>2. b[1]..b[2] = {} /\ b[2] + 1 - b[1] <= MessageLimit
      BY <3>1 DEF FileTyped
    <3> QED BY <3>2 DEF InOneMessage
  <2>2. Approx(g, 0)
    BY <2>1 DEF Approx
  <2> QED BY <2>2, <1>3
<1>4. CASE m # 0
  <2>1. m - 1 \in Nat /\ ~(m <= m - 1)
    BY <1>2, <1>4
  <2>2. m - 1 \notin Missing
    BY <2>1, <1>2
  <2>3. PICK f : Approx(f, m - 1)
    BY <2>1, <2>2
  <2>4. Approx(Better(f, m - 1), (m - 1) + 1)
    BY <2>1, <2>3, ApproxBetter
  <2>5. (m - 1) + 1 = m
    BY <1>2
  <2> QED BY <2>4, <2>5, <1>2
<1> QED BY <1>3, <1>4

\* Subdivide is what its equation says.
LEMMA SubdivideEquation ==
  ASSUME FileTyped
  PROVE  Subdivide = [b \in Pairs |-> Part(Subdivide, b)]
<1>1. PICK f : Approx(f, MaxSize)
  BY ApproxAll DEF FileTyped
<1>2. \A b \in Pairs : b[2] < b[1] + MaxSize
  BY DEF Pairs, Rows, FileTyped
<1>3. f = [b \in Pairs |-> Part(f, b)]
  BY <1>1, <1>2 DEF Approx
<1> QED BY <1>3, SubdivideIsPart

\* None of the rows lo..hi is too long for a message.
Clear(lo, hi) == (lo..hi) \cap file.huge = {}

Within(parts, b) ==
  \A c \in parts : /\ c \in Pairs /\ b[1] <= c[1] /\ c[1] <= c[2] /\ c[2] <= b[2]
                   /\ Clear(b[1], c[2])
Covers(parts, b) ==
  \A r \in b[1]..b[2] : Clear(b[1], r) => \E c \in parts : r \in c[1]..c[2]
Disjoint(parts) ==
  \A c, d \in parts : c # d => (c[1]..c[2]) \cap (d[1]..d[2]) = {}

\* Each row of b up to the first that does not fit is in one of the parts.
SplitRight(sub, b) ==
  /\ Within(sub.parts, b) /\ Covers(sub.parts, b) /\ Disjoint(sub.parts)
  /\ sub.whole <=> Clear(b[1], b[2])
  /\ sub.whole \in BOOLEAN

LEMMA OneMessageRight ==
  ASSUME FileTyped, NEW b \in Pairs, b[1] <= b[2], InOneMessage(b)
  PROVE  SplitRight([parts |-> {b}, whole |-> TRUE], b)
<1>1. b[1] \in Nat /\ b[2] \in Nat /\ Clear(b[1], b[2])
  BY DEF Pairs, Rows, FileTyped, InOneMessage, Clear
<1>2. Within({b}, b)
  BY <1>1 DEF Within
<1>3. Covers({b}, b) /\ Disjoint({b})
  BY <1>1 DEF Covers, Disjoint
<1> QED BY <1>1, <1>2, <1>3 DEF SplitRight

LEMMA LongRowRight ==
  ASSUME FileTyped, NEW b \in Pairs, b[1] = b[2], ~InOneMessage(b)
  PROVE  SplitRight([parts |-> {}, whole |-> FALSE], b)
<1>1. b[1] \in Nat /\ b[2] \in Nat
  BY DEF Pairs, Rows, FileTyped
<1>2. b[2] + 1 - b[1] <= MessageLimit
  BY <1>1 DEF FileTyped
<1>3. ~Clear(b[1], b[2])
  BY <1>2 DEF InOneMessage, Clear
<1>4. \A r \in b[1]..b[2] : r = b[2]
  BY <1>1
<1>5. Covers({}, b)
  BY <1>3, <1>4 DEF Covers
<1> QED BY <1>3, <1>5 DEF SplitRight, Within, Disjoint

LEMMA ClearSplits ==
  ASSUME NEW lo \in Nat, NEW mid \in Nat, NEW hi \in Nat, lo <= mid + 1, mid <= hi
  PROVE  Clear(lo, hi) <=> Clear(lo, mid) /\ Clear(mid + 1, hi)
<1>1. lo..hi = (lo..mid) \cup ((mid + 1)..hi)
  OBVIOUS
<1> QED BY <1>1 DEF Clear

LEMMA LeftOnlyRight ==
  ASSUME FileTyped, NEW b \in Pairs, NEW sub, NEW mid \in Nat, b[1] <= mid, mid < b[2],
         SplitRight(sub, <<b[1], mid>>), ~sub.whole
  PROVE  SplitRight(sub, b)
<1> DEFINE c == <<b[1], mid>>
<1>1. b[1] \in Nat /\ b[2] \in Nat
  BY DEF Pairs, Rows, FileTyped
<1>2. c[1] = b[1] /\ c[2] = mid
  OBVIOUS
<1> HIDE DEF c
<1>3. SplitRight(sub, c)
  BY DEF c
<1>4. ~Clear(b[1], mid)
  BY <1>2, <1>3 DEF SplitRight
<1>5. ~Clear(b[1], b[2])
  BY <1>1, <1>4, ClearSplits
<1>6. Within(sub.parts, b)
  <2> SUFFICES ASSUME NEW d \in sub.parts
               PROVE  /\ d \in Pairs /\ b[1] <= d[1] /\ d[1] <= d[2] /\ d[2] <= b[2]
                      /\ Clear(b[1], d[2])
    BY DEF Within
  <2>1. /\ d \in Pairs /\ b[1] <= d[1] /\ d[1] <= d[2] /\ d[2] <= mid
        /\ Clear(b[1], d[2])
    BY <1>2, <1>3 DEF SplitRight, Within
  <2>2. d[2] \in Nat
    BY <2>1 DEF Pairs, Rows, FileTyped
  <2> QED BY <1>1, <2>1, <2>2
<1>7. Covers(sub.parts, b)
  <2> SUFFICES ASSUME NEW r \in b[1]..b[2], Clear(b[1], r)
               PROVE  \E d \in sub.parts : r \in d[1]..d[2]
    BY DEF Covers
  <2>1. r \in Nat
    BY <1>1
  <2>2. r <= mid
    <3> SUFFICES ASSUME mid < r PROVE FALSE
      BY <2>1
    <3>1. Clear(b[1], mid)
      BY <1>1, <2>1, ClearSplits
    <3> QED BY <3>1, <1>4
  <2>3. r \in c[1]..c[2] /\ Clear(c[1], r)
    BY <1>1, <1>2, <2>2
  <2> QED BY <1>3, <2>3 DEF SplitRight, Covers
<1> QED BY <1>3, <1>4, <1>5, <1>6, <1>7 DEF SplitRight

LEMMA BothRight ==
  ASSUME FileTyped, NEW b \in Pairs, NEW left, NEW right,
         NEW mid \in Nat, b[1] <= mid, mid < b[2],
         SplitRight(left, <<b[1], mid>>), left.whole,
         SplitRight(right, <<mid + 1, b[2]>>)
  PROVE  SplitRight([parts |-> left.parts \cup right.parts, whole |-> right.whole], b)
<1> DEFINE c == <<b[1], mid>>
           d == <<mid + 1, b[2]>>
           parts == left.parts \cup right.parts
<1>1. b[1] \in Nat /\ b[2] \in Nat
  BY DEF Pairs, Rows, FileTyped
<1>2. c[1] = b[1] /\ c[2] = mid /\ d[1] = mid + 1 /\ d[2] = b[2]
  OBVIOUS
<1> HIDE DEF c, d
<1>3. SplitRight(left, c) /\ SplitRight(right, d)
  BY DEF c, d
<1>4. Clear(b[1], mid)
  BY <1>2, <1>3 DEF SplitRight
<1>5. ASSUME NEW r \in Nat, mid < r, r <= b[2] PROVE Clear(b[1], r) <=> Clear(mid + 1, r)
  BY <1>1, <1>4, <1>5, ClearSplits
<1>6. ASSUME NEW e \in left.parts
      PROVE  /\ e \in Pairs /\ b[1] <= e[1] /\ e[1] <= e[2] /\ e[2] <= mid
             /\ Clear(b[1], e[2]) /\ e[1] \in Nat /\ e[2] \in Nat
  <2>1. /\ e \in Pairs /\ b[1] <= e[1] /\ e[1] <= e[2] /\ e[2] <= mid
        /\ Clear(b[1], e[2])
    BY <1>2, <1>3 DEF SplitRight, Within
  <2> QED BY <2>1 DEF Pairs, Rows, FileTyped
<1>7. ASSUME NEW e \in right.parts
      PROVE  /\ e \in Pairs /\ mid + 1 <= e[1] /\ e[1] <= e[2] /\ e[2] <= b[2]
             /\ Clear(b[1], e[2]) /\ e[1] \in Nat /\ e[2] \in Nat
  <2>1. /\ e \in Pairs /\ mid + 1 <= e[1] /\ e[1] <= e[2] /\ e[2] <= b[2]
        /\ Clear(mid + 1, e[2])
    BY <1>2, <1>3 DEF SplitRight, Within
  <2>2. e[1] \in Nat /\ e[2] \in Nat
    BY <2>1 DEF Pairs, Rows, FileTyped
  <2>3. mid < e[2]
    BY <2>1, <2>2
  <2> QED BY <2>1, <2>2, <2>3, <1>5
<1>8. Within(parts, b)
  <2> SUFFICES ASSUME NEW e \in parts
               PROVE  /\ e \in Pairs /\ b[1] <= e[1] /\ e[1] <= e[2] /\ e[2] <= b[2]
                      /\ Clear(b[1], e[2])
    BY DEF Within
  <2>1. CASE e \in left.parts
    BY <2>1, <1>1, <1>6
  <2>2. CASE e \in right.parts
    BY <2>2, <1>1, <1>7
  <2> QED BY <2>1, <2>2
<1>9. Covers(parts, b)
  <2> SUFFICES ASSUME NEW r \in b[1]..b[2], Clear(b[1], r)
               PROVE  \E e \in parts : r \in e[1]..e[2]
    BY DEF Covers
  <2>1. r \in Nat /\ b[1] <= r /\ r <= b[2]
    BY <1>1
  <2>2. CASE r <= mid
    <3>1. r \in c[1]..c[2] /\ Clear(c[1], r)
      BY <1>1, <1>2, <2>1, <2>2
    <3>2. \E e \in left.parts : r \in e[1]..e[2]
      BY <3>1, <1>3 DEF SplitRight, Covers
    <3> QED BY <3>2
  <2>3. CASE mid < r
    <3>1. Clear(mid + 1, r)
      BY <2>1, <2>3, <1>5
    <3>2. r \in d[1]..d[2] /\ Clear(d[1], r)
      BY <1>1, <1>2, <2>1, <2>3, <3>1
    <3>3. \E e \in right.parts : r \in e[1]..e[2]
      BY <3>2, <1>3 DEF SplitRight, Covers
    <3> QED BY <3>3
  <2> QED BY <2>1, <2>2, <2>3
<1>10. ASSUME NEW e \in left.parts, NEW f \in right.parts
       PROVE  (e[1]..e[2]) \cap (f[1]..f[2]) = {}
  <2>1. e[2] \in Nat /\ f[1] \in Nat /\ e[2] <= mid /\ mid + 1 <= f[1]
        /\ e[1] \in Nat /\ f[2] \in Nat
    BY <1>6, <1>7
  <2> QED BY <2>1
<1>11. Disjoint(parts)
  <2>1. Disjoint(left.parts) /\ Disjoint(right.parts)
    BY <1>3 DEF SplitRight
  <2> QED BY <2>1, <1>10 DEF Disjoint
<1>12. right.whole \in BOOLEAN /\ (right.whole <=> Clear(b[1], b[2]))
  <2>1. right.whole \in BOOLEAN /\ (right.whole <=> Clear(mid + 1, b[2]))
    BY <1>2, <1>3 DEF SplitRight
  <2> QED BY <1>1, <1>5, <2>1
<1> HIDE DEF parts
<1>13. SplitRight([parts |-> parts, whole |-> right.whole], b)
  BY <1>8, <1>9, <1>11, <1>12 DEF SplitRight
<1> QED BY <1>13 DEF parts

LEMMA SubdivideRight ==
  ASSUME FileTyped, NEW b \in Pairs, b[1] <= b[2]
  PROVE  SplitRight(Subdivide[b], b)
<1> DEFINE Wrong == {k \in Nat : \E c \in Pairs : c[2] = c[1] + k /\ ~SplitRight(Subdivide[c], c)}
<1>1. \A c \in Pairs : Subdivide[c] = Part(Subdivide, c)
  BY SubdivideEquation
<1>2. ASSUME Wrong # {} PROVE FALSE
  <2>1. PICK k \in Wrong : \A n \in Wrong : k <= n
    BY <1>2, LeastOf
  <2>2. PICK c \in Pairs : c[2] = c[1] + k /\ ~SplitRight(Subdivide[c], c)
    BY <2>1
  <2>3. c[1] \in Nat /\ c[2] \in Nat /\ k \in Nat /\ c[1] <= c[2]
    BY <2>1, <2>2 DEF Pairs, Rows, FileTyped
  <2>4. Subdivide[c] = Part(Subdivide, c)
    BY <1>1
  <2>5. CASE InOneMessage(c)
    BY <2>2, <2>3, <2>4, <2>5, OneMessageRight DEF Part
  <2>6. CASE ~InOneMessage(c) /\ c[1] = c[2]
    BY <2>2, <2>3, <2>4, <2>6, LongRowRight DEF Part
  <2>7. CASE ~InOneMessage(c) /\ c[1] # c[2]
    <3> DEFINE mid == LeftHalf(c)[2]
               left == Subdivide[LeftHalf(c)]
               right == Subdivide[RightHalf(c)]
    <3>1. /\ LeftHalf(c) \in Pairs /\ RightHalf(c) \in Pairs
          /\ LeftHalf(c)[1] = c[1] /\ RightHalf(c)[2] = c[2]
          /\ RightHalf(c)[1] = mid + 1
          /\ c[1] <= mid /\ mid < c[2]
      BY <2>3, <2>7, HalvesShorter
    <3>2. mid \in Nat
      BY <3>1 DEF Pairs, Rows, FileTyped
    <3>3. LeftHalf(c) = <<c[1], mid>> /\ RightHalf(c) = <<mid + 1, c[2]>>
      BY <3>1 DEF Pairs
    <3> HIDE DEF mid
    <3>4. \A d \in Pairs : d[1] <= d[2] /\ d[2] < d[1] + k => SplitRight(Subdivide[d], d)
      <4> SUFFICES ASSUME NEW d \in Pairs, d[1] <= d[2], d[2] < d[1] + k,
                          ~SplitRight(Subdivide[d], d)
                   PROVE  FALSE
        OBVIOUS
      <4>1. d[1] \in Nat /\ d[2] \in Nat
        BY DEF Pairs, Rows, FileTyped
      <4>2. d[2] - d[1] \in Nat /\ d[2] = d[1] + (d[2] - d[1]) /\ ~(k <= d[2] - d[1])
        BY <4>1, <2>3
      <4>3. d[2] - d[1] \in Wrong
        BY <4>2
      <4> QED BY <4>2, <4>3, <2>1
    <3>5. SplitRight(left, LeftHalf(c))
      <4>1. LeftHalf(c)[1] <= LeftHalf(c)[2] /\ LeftHalf(c)[2] < LeftHalf(c)[1] + k
        BY <3>1, <3>2, <3>3, <2>2, <2>3
      <4> QED BY <4>1, <3>1, <3>4
    <3>6. SplitRight(right, RightHalf(c))
      <4>1. RightHalf(c)[1] <= RightHalf(c)[2] /\ RightHalf(c)[2] < RightHalf(c)[1] + k
        BY <3>1, <3>2, <3>3, <2>2, <2>3
      <4> QED BY <4>1, <3>1, <3>4
    <3>7. Subdivide[c] = IF left.whole
                         THEN [parts |-> left.parts \cup right.parts, whole |-> right.whole]
                         ELSE left
      BY <2>4, <2>7 DEF Part
    <3> HIDE DEF left, right
    <3>8. CASE left.whole
      <4>1. SplitRight([parts |-> left.parts \cup right.parts, whole |-> right.whole], c)
        BY <3>1, <3>2, <3>3, <3>5, <3>6, <3>8, BothRight
      <4> QED BY <4>1, <3>7, <3>8, <2>2
    <3>9. CASE ~left.whole
      <4>1. SplitRight(left, c)
        BY <3>1, <3>2, <3>3, <3>5, <3>9, LeftOnlyRight
      <4> QED BY <4>1, <3>7, <3>9, <2>2
    <3> QED BY <3>8, <3>9
  <2> QED BY <2>5, <2>6, <2>7
<1>3. b[1] \in Nat /\ b[2] \in Nat
  BY DEF Pairs, Rows, FileTyped
<1>4. b[2] - b[1] \in Nat /\ b[2] = b[1] + (b[2] - b[1])
  BY <1>3
<1> QED BY <1>2, <1>4

LEMMA ClearMeans ==
  ASSUME NEW lo \in Nat, NEW hi \in Nat
  PROVE  Clear(lo, hi) <=> \A h \in file.huge : ~(h \in lo..hi)
BY DEF Clear

LEMMA MinOf ==
  ASSUME NEW S \in SUBSET Nat, S # {}
  PROVE  Min(S) \in S /\ \A n \in S : Min(S) <= n
BY LeastOf DEF Min

LEMMA ExactFromTypes ==
  ASSUME FileTyped
  PROVE  SubdivisionExact
<1> SUFFICES ASSUME NEW lo \in Rows, NEW hi \in Rows, lo <= hi
             PROVE  LET sub == Subdivide[<<lo, hi>>]
                        fit == IF (lo..hi) \cap file.huge = {} THEN lo..hi
                               ELSE lo..(Min((lo..hi) \cap file.huge) - 1)
                    IN /\ UNION {b[1]..b[2] : b \in sub.parts} = fit
                       /\ \A b, c \in sub.parts : b # c => (b[1]..b[2]) \cap (c[1]..c[2]) = {}
                       /\ sub.whole <=> (lo..hi) \cap file.huge = {}
  BY DEF SubdivisionExact
<1> DEFINE b == <<lo, hi>>
           sub == Subdivide[b]
           bad == (lo..hi) \cap file.huge
           fit == IF bad = {} THEN lo..hi ELSE lo..(Min(bad) - 1)
<1>1. b \in Pairs /\ b[1] = lo /\ b[2] = hi
  BY DEF Pairs
<1>2. lo \in Nat /\ hi \in Nat
  BY DEF Rows, FileTyped
<1>3. SplitRight(sub, b)
  BY <1>1, SubdivideRight
<1> HIDE DEF b, sub
<1>4. sub.whole <=> bad = {}
  BY <1>1, <1>3 DEF SplitRight, Clear
<1>5. \A c, d \in sub.parts : c # d => (c[1]..c[2]) \cap (d[1]..d[2]) = {}
  BY <1>3 DEF SplitRight, Disjoint
<1>6. \A r \in lo..hi : r \in fit <=> Clear(lo, r)
  <2> SUFFICES ASSUME NEW r \in lo..hi PROVE r \in fit <=> Clear(lo, r)
    OBVIOUS
  <2>0. r \in Nat /\ lo <= r /\ r <= hi
    BY <1>2
  <2>1. CASE bad = {}
    BY <2>0, <2>1, <1>2 DEF Clear
  <2>2. CASE bad # {}
    <3>1. bad \in SUBSET Nat
      BY <1>2
    <3>2. Min(bad) \in bad /\ \A n \in bad : Min(bad) <= n
      BY <3>1, <2>2, MinOf
    <3> DEFINE m == Min(bad)
    <3>3. m \in Nat /\ m \in file.huge /\ lo <= m /\ m <= hi
      BY <3>2, <1>2
    <3>4. \A h \in file.huge : h \in lo..hi => m <= h
      BY <3>2
    <3>5. fit = lo..(m - 1)
      BY <2>2
    <3> HIDE DEF m, fit
    <3>6. r \in fit <=> r < m
      BY <3>3, <3>5, <2>0, <1>2
    <3>7. r < m => Clear(lo, r)
      <4> SUFFICES ASSUME r < m, NEW h \in file.huge, h \in lo..r PROVE FALSE
        BY DEF Clear
      <4>1. h \in lo..hi /\ h \in Nat /\ h <= r
        BY <2>0, <1>2
      <4> QED BY <4>1, <3>3, <3>4, <2>0
    <3>8. ~(r < m) => ~Clear(lo, r)
      BY <3>3, <2>0, <1>2 DEF Clear
    <3> QED BY <3>6, <3>7, <3>8
  <2> QED BY <2>1, <2>2
<1>7. fit \subseteq lo..hi
  <2>1. CASE bad = {}
    BY <2>1
  <2>2. CASE bad # {}
    <3>1. bad \in SUBSET Nat
      BY <1>2
    <3>2. Min(bad) \in bad
      BY <3>1, <2>2, MinOf
    <3>3. Min(bad) \in Nat /\ Min(bad) <= hi
      BY <3>2, <1>2
    <3>4. fit = lo..(Min(bad) - 1)
      BY <2>2
    <3> QED BY <3>3, <3>4, <1>2
  <2> QED BY <2>1, <2>2
<1>8. \A c \in sub.parts : /\ lo <= c[1] /\ c[1] <= c[2] /\ c[2] <= hi
                           /\ Clear(lo, c[2]) /\ c[1] \in Nat /\ c[2] \in Nat
  <2> SUFFICES ASSUME NEW c \in sub.parts
               PROVE  /\ lo <= c[1] /\ c[1] <= c[2] /\ c[2] <= hi
                      /\ Clear(lo, c[2]) /\ c[1] \in Nat /\ c[2] \in Nat
    OBVIOUS
  <2>1. /\ c \in Pairs /\ lo <= c[1] /\ c[1] <= c[2] /\ c[2] <= hi
        /\ Clear(lo, c[2])
    BY <1>1, <1>3 DEF SplitRight, Within
  <2> QED BY <2>1 DEF Pairs, Rows, FileTyped
<1> HIDE DEF fit
<1>9. \A r : r \in UNION {c[1]..c[2] : c \in sub.parts} => r \in fit
  <2> SUFFICES ASSUME NEW r, NEW c \in sub.parts, r \in c[1]..c[2] PROVE r \in fit
    OBVIOUS
  <2>1. /\ lo <= c[1] /\ c[1] <= c[2] /\ c[2] <= hi
        /\ Clear(lo, c[2]) /\ c[1] \in Nat /\ c[2] \in Nat
    BY <1>8
  <2>2. r \in Nat /\ lo <= r /\ r <= hi /\ r <= c[2]
    BY <2>1, <1>2
  <2>3. Clear(lo, r)
    BY <2>1, <2>2, <1>2 DEF Clear
  <2> QED BY <2>2, <2>3, <1>6, <1>2
<1>10. \A r \in fit : r \in UNION {c[1]..c[2] : c \in sub.parts}
  <2> SUFFICES ASSUME NEW r \in fit PROVE \E c \in sub.parts : r \in c[1]..c[2]
    OBVIOUS
  <2>1. r \in lo..hi /\ Clear(lo, r)
    BY <1>6, <1>7
  <2> QED BY <2>1, <1>1, <1>3 DEF SplitRight, Covers
<1>11. UNION {c[1]..c[2] : c \in sub.parts} = fit
  BY <1>9, <1>10
<1> QED BY <1>4, <1>5, <1>11 DEF sub, b, fit

-----------------------------------------------------------------------------
(* Save tasks.                                                             *)

SaveState == [pc : SavePCs, tries : Nat]
RowNumbers == 0..(MaxSize - 1)

\* What the argument needs of the types.
SavesTyped ==
  /\ save \in [Ids -> SaveState]
  /\ created \subseteq Ids
  /\ delivers \in [RowNumbers -> Nat]

\* A row has one notification at most; a task that has inserted one and not
\* queued its delivery yet is the only one that will.
OneTaskDelivers ==
  /\ \A i, j \in created : i[1] = j[1] => i = j
  /\ \A i \in Ids : save[i].pc = "saved" => i \in created /\ delivers[i[1]] = 0
  /\ \A r \in RowNumbers : delivers[r] \in {0, 1}
  /\ \A r \in RowNumbers : delivers[r] = 1 => r \in CreatedRows

DeliveryInv == SavesTyped /\ OneTaskDelivers

\* Save tasks come, go and are retried; none passes the INSERT.
NothingSaved ==
  /\ save' \in [Ids -> SaveState]
  /\ \A i \in Ids : save'[i].pc = "saved" => save'[i] = save[i]
  /\ created' = created /\ delivers' = delivers

LEMMA NothingSavedKeeps ==
  ASSUME DeliveryInv, NothingSaved
  PROVE  DeliveryInv'
BY DEF DeliveryInv, SavesTyped, OneTaskDelivers, NothingSaved, CreatedRows

LEMMA NoSaveType == NoSave \in SaveState /\ NoSave.pc = "none"
BY DEF NoSave, SaveState, SavePCs

LEMMA QueuedType ==
  ASSUME NEW n \in Nat
  PROVE  /\ [pc |-> "queued", tries |-> n] \in SaveState
         /\ [pc |-> "queued", tries |-> n].pc = "queued"
BY DEF SaveState, SavePCs

\* One task replaced by one that has not passed the INSERT.
LEMMA SetSaveKeeps ==
  ASSUME DeliveryInv, NEW i \in Ids, NEW new \in SaveState, new.pc # "saved",
         SetSave(i, new), created' = created, delivers' = delivers
  PROVE  DeliveryInv'
<1>1. save \in [Ids -> SaveState] /\ save' = [save EXCEPT ![i] = new]
  BY DEF DeliveryInv, SavesTyped, SetSave
<1>2. save' \in [Ids -> SaveState]
  BY <1>1
<1>3. \A j \in Ids : save'[j].pc = "saved" => save'[j] = save[j]
  BY <1>1
<1> QED
  BY <1>2, <1>3, NothingSavedKeeps DEF NothingSaved

LEMMA SaveRowsKeeps ==
  ASSUME DeliveryInv, NEW R, SaveRows(R), created' = created, delivers' = delivers
  PROVE  DeliveryInv'
<1> DEFINE new == [pc |-> "queued", tries |-> 0]
<1>1. new \in SaveState /\ new.pc # "saved"
  BY QueuedType
<1> HIDE DEF new
<1>2. save' = [i \in Ids |-> IF i[1] \in R /\ i[2] = Min(FreeIds(i[1]))
                             THEN new ELSE save[i]]
  BY DEF SaveRows, new
<1>3. save \in [Ids -> SaveState]
  BY DEF DeliveryInv, SavesTyped
<1>4. \A i \in Ids : save'[i] = new \/ save'[i] = save[i]
  BY <1>2
<1>5. save' \in [Ids -> SaveState]
  BY <1>1, <1>2, <1>3
<1>6. \A i \in Ids : save'[i].pc = "saved" => save'[i] = save[i]
  BY <1>1, <1>4
<1> QED
  BY <1>5, <1>6, NothingSavedKeeps DEF NothingSaved

\* The unique constraint on job and row number.
LEMMA SaveRowKeeps ==
  ASSUME DeliveryInv, NEW i \in Ids, SaveRow(i)
  PROVE  DeliveryInv'
<1>1. /\ i[1] \in RowNumbers /\ i[1] \notin CreatedRows
      /\ created' = created \cup {i} /\ delivers' = delivers
      /\ save' = [save EXCEPT ![i] = [save[i] EXCEPT !.pc = "saved"]]
  BY DEF SaveRow, Insertable, SetSave, Ids, RowNumbers
<1>2. save \in [Ids -> SaveState] /\ created \subseteq Ids /\ delivers \in [RowNumbers -> Nat]
  BY DEF DeliveryInv, SavesTyped
<1>3. \A j \in created : j[1] # i[1]
  BY <1>1 DEF CreatedRows
<1>4. delivers[i[1]] = 0
  BY <1>1 DEF DeliveryInv, OneTaskDelivers
<1>5. [save[i] EXCEPT !.pc = "saved"] \in SaveState
  BY <1>2 DEF SaveState, SavePCs
<1>6. SavesTyped'
  BY <1>1, <1>2, <1>5 DEF SavesTyped
<1>7. \A j, k \in created' : j[1] = k[1] => j = k
  BY <1>1, <1>3 DEF DeliveryInv, OneTaskDelivers
<1>8. \A j \in Ids : save'[j].pc = "saved" => j \in created' /\ delivers'[j[1]] = 0
  BY <1>1, <1>2, <1>4 DEF DeliveryInv, OneTaskDelivers
<1>9. \A r \in RowNumbers : delivers'[r] \in {0, 1} /\ (delivers'[r] = 1 => r \in CreatedRows')
  BY <1>1 DEF DeliveryInv, OneTaskDelivers, CreatedRows
<1> QED
  BY <1>6, <1>7, <1>8, <1>9 DEF DeliveryInv, OneTaskDelivers

LEMMA QueueDeliveryKeeps ==
  ASSUME DeliveryInv, NEW i \in Ids, QueueDelivery(i)
  PROVE  DeliveryInv'
<1> DEFINE d == delivers[i[1]] + (IF i[1] \in file.invalid THEN 0 ELSE 1)
<1>1. /\ i[1] \in RowNumbers /\ save[i].pc = "saved"
      /\ created' = created
      /\ delivers' = [delivers EXCEPT ![i[1]] = d]
      /\ save' = [save EXCEPT ![i] = NoSave]
  BY DEF QueueDelivery, SetSave, Ids, RowNumbers
<1>2. save \in [Ids -> SaveState] /\ created \subseteq Ids /\ delivers \in [RowNumbers -> Nat]
  BY DEF DeliveryInv, SavesTyped
<1>3. i \in created /\ delivers[i[1]] = 0
  BY <1>1 DEF DeliveryInv, OneTaskDelivers
<1>4. d \in {0, 1}
  BY <1>3
<1> HIDE DEF d
<1>5. save' \in [Ids -> SaveState]
  BY <1>1, <1>2, NoSaveType
<1>6. delivers' \in [RowNumbers -> Nat]
  BY <1>1, <1>2, <1>4
<1>7. i[1] \in CreatedRows
  BY <1>3 DEF CreatedRows
<1>8. \A r \in RowNumbers : delivers'[r] \in {0, 1} /\ (delivers'[r] = 1 => r \in CreatedRows')
  BY <1>1, <1>2, <1>4, <1>7 DEF DeliveryInv, OneTaskDelivers, CreatedRows
<1>9. ASSUME NEW j \in Ids, save'[j].pc = "saved"
      PROVE  j \in created' /\ delivers'[j[1]] = 0
  <2>1. j # i
    BY <1>1, <1>2, <1>9, NoSaveType
  <2>2. save[j].pc = "saved"
    BY <1>1, <1>2, <1>9, <2>1
  <2>3. j \in created /\ delivers[j[1]] = 0
    BY <2>2 DEF DeliveryInv, OneTaskDelivers
  <2>4. j[1] # i[1]
    BY <1>3, <2>1, <2>3 DEF DeliveryInv, OneTaskDelivers
  <2>5. j[1] \in RowNumbers
    BY DEF Ids, RowNumbers
  <2> QED
    BY <1>1, <1>2, <2>3, <2>4, <2>5
<1>10. SavesTyped'
  BY <1>1, <1>2, <1>5, <1>6 DEF SavesTyped
<1> QED
  BY <1>1, <1>8, <1>9, <1>10 DEF DeliveryInv, OneTaskDelivers

LEMMA HandleExceptionKeeps ==
  ASSUME DeliveryInv, NEW i \in Ids, save[i].pc = "queued", HandleException(i),
         created' = created, delivers' = delivers
  PROVE  DeliveryInv'
<1>1. save[i] \in SaveState
  BY DEF DeliveryInv, SavesTyped
<1>2. CASE SetSave(i, NoSave)
  BY <1>2, NoSaveType, SetSaveKeeps
<1>3. CASE SetSave(i, [save[i] EXCEPT !.tries = @ + 1])
  <2>1. [save[i] EXCEPT !.tries = @ + 1] \in SaveState
    BY <1>1 DEF SaveState
  <2>2. [save[i] EXCEPT !.tries = @ + 1].pc = "queued"
    BY <1>1 DEF SaveState
  <2> QED
    BY <1>3, <2>1, <2>2, SetSaveKeeps
<1> QED
  BY <1>2, <1>3 DEF HandleException

LEMMA StutterKeeps ==
  ASSUME DeliveryInv, UNCHANGED <<save, created, delivers>>
  PROVE  DeliveryInv'
BY NothingSavedKeeps DEF NothingSaved, DeliveryInv, SavesTyped

\* The actions that leave notifications and save tasks alone.
LEMMA RestStutters ==
  ASSUME \/ \E f \in Files : CreateJob(f) \/ CreateJobFails(f)
         \/ CancelJob \/ CancelLetterJob \/ ArchiveService \/ RunScheduledJob
         \/ RedeliverJob
         \/ \E w \in Workers :
              ProcessJob(w) \/ StartResume(w) \/ Work(w) \/ CrashWorker(w)
         \/ Tick \/ CheckJobStatus \/ QueueResume \/ MarkAllCreated
  PROVE  UNCHANGED <<save, created, delivers>>
BY DEF CreateJob, CreateJobFails, CancelJob, CancelLetterJob, ArchiveService,
       RunScheduledJob, RedeliverJob, ProcessJob, StartResume, Work, StartJob,
       CheckJob, ResumeJob, QueueBatch, CompleteJob, CrashWorker, Tick,
       CheckJobStatus, QueueResume, MarkAllCreated, Notifying

-----------------------------------------------------------------------------
(* Types.                                                                  *)

WorkerState == [pc : WorkerPCs, from : 0..MaxSize]
Saving == [pc : SavePCs, tries : 0..MaxRetries]

LEMMA Bounds ==
  /\ MaxSize \in Nat /\ MaxSize > 0 /\ BatchSize \in Nat /\ BatchSize > 0
  /\ MessageLimit \in Nat /\ MessageLimit > 0 /\ MaxRetries \in Nat
BY JobsAssumption DEF JobsAssumption

LEMMA FileOK ==
  ASSUME TypeOK
  PROVE  /\ FileTyped
         /\ file.huge \subseteq Rows
         /\ Rows \subseteq 0..(MaxSize - 1)
<1>1. MaxSize \in Nat \ {0} /\ MessageLimit \in Nat \ {0}
  BY Bounds
<1>2. CASE file \in Files
  <2>1. file.size \in 1..MaxSize /\ file.huge \subseteq 0..(file.size - 1)
    BY <1>2, JobsAssumption DEF File, JobsAssumption
  <2> QED BY <1>1, <2>1 DEF FileTyped, Rows
<1>3. CASE file = NoFile
  <2>1. file.size = 0 /\ file.huge = {}
    BY <1>3 DEF NoFile
  <2> QED BY <1>1, <2>1 DEF FileTyped, Rows
<1> QED BY <1>2, <1>3 DEF TypeOK

LEMMA SetWorkerTyped ==
  ASSUME TypeOK, NEW w \in Workers, NEW pc \in WorkerPCs, NEW n \in 0..MaxSize,
         SetWorker(w, pc, n)
  PROVE  /\ worker' \in [Workers -> [pc : WorkerPCs, from : 0..MaxSize]]
         /\ worker'[w].pc = pc /\ worker'[w].from = n
         /\ \A v \in Workers \ {w} : worker'[v] = worker[v]
<1>1. worker \in [Workers -> WorkerState]
  BY DEF TypeOK, WorkerState
<1>2. [pc |-> pc, from |-> n] \in WorkerState
  BY DEF WorkerState
<1>3. worker' = [worker EXCEPT ![w] = [pc |-> pc, from |-> n]]
  BY DEF SetWorker
<1>4. worker' \in [Workers -> WorkerState]
  BY <1>1, <1>2, <1>3
<1> QED BY <1>1, <1>3, <1>4 DEF WorkerState

LEMMA SavingTyped ==
  /\ NoSave \in Saving /\ NoSave.pc = "none"
  /\ [pc |-> "queued", tries |-> 0] \in Saving
BY Bounds DEF NoSave, Saving, SavePCs

LEMMA SetSaveTyped ==
  ASSUME TypeOK, NEW i \in Ids, NEW new \in Saving, SetSave(i, new)
  PROVE  /\ save' \in [Ids -> [pc : SavePCs, tries : 0..MaxRetries]]
         /\ save'[i] = new /\ \A j \in Ids \ {i} : save'[j] = save[j]
<1>1. save \in [Ids -> Saving] /\ save' = [save EXCEPT ![i] = new]
  BY DEF TypeOK, SetSave, Saving
<1>2. save' \in [Ids -> Saving]
  BY <1>1
<1> QED BY <1>1, <1>2 DEF Saving

LEMMA SaveRowsTyped ==
  ASSUME TypeOK, NEW R, SaveRows(R)
  PROVE  /\ save' \in [Ids -> [pc : SavePCs, tries : 0..MaxRetries]]
         /\ \A i \in Ids : save'[i] # save[i] => i[1] \in R
<1> DEFINE new == [pc |-> "queued", tries |-> 0]
<1>1. save \in [Ids -> Saving] /\ new \in Saving
  BY SavingTyped DEF TypeOK, Saving
<1>2. save' = [i \in Ids |-> IF i[1] \in R /\ i[2] = Min(FreeIds(i[1]))
                             THEN new ELSE save[i]]
  BY DEF SaveRows
<1> HIDE DEF new
<1>3. save' \in [Ids -> Saving]
  BY <1>1, <1>2
<1>4. \A i \in Ids : save'[i] # save[i] => i[1] \in R
  BY <1>2
<1> QED BY <1>3, <1>4 DEF Saving

\* All variables but the ones about rows.
Rest == <<file, status, scheduled, overdue, settled, active, jobMsgs, resumeMsgs,
          checking, worker>>

LEMMA FaultTyped ==
  ASSUME TypeOK, NEW k, Fault(k)
  PROVE  faults' \subseteq FaultKinds /\ faults' = faults \cup {k}
BY DEF Fault, TypeOK

LEMMA RowsTypeFrame ==
  ASSUME TypeOK, UNCHANGED Rest,
         batches' \subseteq Rows \X Rows,
         save' \in [Ids -> [pc : SavePCs, tries : 0..MaxRetries]],
         created' \subseteq Ids,
         delivers' \in [0..(MaxSize - 1) -> Nat],
         faults' \subseteq FaultKinds
  PROVE  TypeOK'
BY DEF TypeOK, Rest, Rows

LEMMA RunTypeFrame ==
  ASSUME TypeOK, UNCHANGED <<file, save, created, delivers>>,
         status' \in Statuses,
         {scheduled', overdue', settled', active', checking'} \subseteq BOOLEAN,
         jobMsgs' \in Nat, resumeMsgs' \in Nat,
         worker' \in [Workers -> [pc : WorkerPCs, from : 0..MaxSize]],
         batches' \subseteq Rows \X Rows,
         faults' \subseteq FaultKinds
  PROVE  TypeOK'
BY DEF TypeOK, Rows

\* What a step of a run, of a request or of the beat schedule leaves alone.
LEMMA RequestTypes ==
  ASSUME TypeOK, NEW f \in Files, CreateJob(f) \/ CreateJobFails(f), created = {}, batches = {}
  PROVE  TypeOK'
<1>1. /\ file' = f /\ status' \in {"scheduled", "pending"}
      /\ scheduled' \in {scheduled, TRUE} /\ jobMsgs' \in {jobMsgs, 1}
      /\ UNCHANGED <<overdue, settled, active, resumeMsgs, checking, worker,
                     batches, save, created, delivers>>
  BY DEF CreateJob, CreateJobFails, Upload, Clock, Messages, Notifying
<1>2. faults' \subseteq FaultKinds
  BY FaultTyped DEF CreateJob, CreateJobFails, TypeOK
<1>3. /\ file' \in Files \cup {NoFile} /\ status' \in Statuses
      /\ {scheduled, overdue, settled, active, checking}' \subseteq BOOLEAN
      /\ jobMsgs' \in Nat /\ resumeMsgs' \in Nat
  <2>1. jobMsgs \in Nat /\ resumeMsgs \in Nat /\ status \in Statuses
    BY DEF TypeOK
  <2>2. jobMsgs' \in Nat /\ resumeMsgs' \in Nat
    BY <1>1, <2>1
  <2>3. status' \in Statuses
    BY <1>1 DEF Statuses
  <2>4. /\ file' \in Files \cup {NoFile}
        /\ {scheduled, overdue, settled, active, checking}' \subseteq BOOLEAN
    BY <1>1 DEF TypeOK
  <2> QED BY <2>2, <2>3, <2>4
<1>4. /\ worker' \in [Workers -> [pc : WorkerPCs, from : 0..MaxSize]]
      /\ batches' \subseteq (Rows \X Rows)'
      /\ save' \in [Ids -> [pc : SavePCs, tries : 0..MaxRetries]]
      /\ created' \subseteq Ids
      /\ delivers' \in [0..(MaxSize - 1) -> Nat]
  BY <1>1 DEF TypeOK
<1> QED BY <1>2, <1>3, <1>4 DEF TypeOK

LEMMA PlainTypes ==
  ASSUME TypeOK, CancelJob \/ CancelLetterJob \/ ArchiveService \/ RunScheduledJob
                 \/ RedeliverJob \/ Tick \/ CheckJobStatus \/ QueueResume \/ MarkAllCreated
  PROVE  TypeOK'
<1>1. /\ UNCHANGED <<file, save, created, delivers, batches, worker, scheduled>>
      /\ status' \in {status, "cancelled", "pending", "error", "finished all notifications created"}
      /\ overdue' \in {overdue, TRUE, FALSE} /\ settled' \in {settled, TRUE}
      /\ active' \in {active, FALSE} /\ checking' \in {checking, TRUE, FALSE}
  BY DEF CancelJob, CancelLetterJob, ArchiveService, RunScheduledJob, RedeliverJob, Tick,
         CheckJobStatus, QueueResume, MarkAllCreated, Clock, Messages, Notifying
<1>2. faults' \subseteq FaultKinds
  <2>1. faults' = faults \/ \E k : Fault(k)
    BY DEF CancelJob, CancelLetterJob, ArchiveService, RunScheduledJob, RedeliverJob, Tick,
           CheckJobStatus, QueueResume, MarkAllCreated
  <2> QED BY <2>1, FaultTyped DEF TypeOK
<1>3. status' \in Statuses
  BY <1>1 DEF TypeOK, Statuses
<1>4. {scheduled', overdue', settled', active', checking'} \subseteq BOOLEAN
  BY <1>1 DEF TypeOK
<1>5. jobMsgs' \in Nat /\ resumeMsgs' \in Nat
  <2>1. jobMsgs \in Nat /\ resumeMsgs \in Nat
    BY DEF TypeOK
  <2>2. /\ jobMsgs' = jobMsgs \/ jobMsgs' = jobMsgs + 1 \/ jobMsgs' = 2
        /\ resumeMsgs' = resumeMsgs \/ resumeMsgs' = resumeMsgs + 1 \/ resumeMsgs' = 2
    BY DEF CancelJob, CancelLetterJob, ArchiveService, RunScheduledJob, RedeliverJob, Tick,
           CheckJobStatus, QueueResume, MarkAllCreated, Messages
  <2> QED BY <2>1, <2>2
<1>6. /\ worker' \in [Workers -> [pc : WorkerPCs, from : 0..MaxSize]]
      /\ batches' \subseteq Rows \X Rows
  BY <1>1 DEF TypeOK
<1> QED BY <1>1, <1>2, <1>3, <1>4, <1>5, <1>6, RunTypeFrame

\* One round of the loop: the rows that QueueBatch looks at.
BatchEnd(w) == Min({worker[w].from + BatchSize, file.size}) - 1
BatchOf(w) == <<worker[w].from, BatchEnd(w)>>

LEMMA BatchTyped ==
  ASSUME TypeOK, NEW w \in Workers, worker[w].from < file.size
  PROVE  /\ BatchOf(w) \in Pairs /\ BatchOf(w)[1] = worker[w].from
         /\ BatchOf(w)[2] = BatchEnd(w) /\ worker[w].from <= BatchEnd(w)
         /\ BatchEnd(w) + 1 \in Nat /\ BatchEnd(w) + 1 <= file.size
         /\ BatchEnd(w) + 1 \in 0..MaxSize /\ worker[w].from \in Nat
         /\ BatchEnd(w) \in Nat
<1> DEFINE S == {worker[w].from + BatchSize, file.size}
<1>1. worker[w].from \in Nat /\ file.size \in Nat /\ BatchSize \in Nat \ {0}
      /\ file.size <= MaxSize /\ MaxSize \in Nat
  BY FileOK, Bounds DEF TypeOK, FileTyped
<1>2. S \in SUBSET Nat /\ S # {}
  BY <1>1
<1>3. Min(S) \in S /\ \A n \in S : Min(S) <= n
  BY <1>2, MinOf
<1>4. Min(S) \in Nat /\ Min(S) <= file.size /\ worker[w].from < Min(S)
  BY <1>1, <1>3
<1>5. BatchEnd(w) = Min(S) - 1
  BY DEF BatchEnd
<1> HIDE DEF S
<1>6. worker[w].from \in Rows /\ BatchEnd(w) \in Rows
  BY <1>1, <1>4, <1>5 DEF Rows
<1> QED BY <1>1, <1>4, <1>5, <1>6 DEF BatchOf, Pairs

LEMMA QueueBatchIs ==
  ASSUME TypeOK, NEW w \in Workers, QueueBatch(w)
  PROVE  /\ worker[w].pc = "shattering" /\ worker[w].from < file.size
         /\ batches' = batches \cup Subdivide[BatchOf(w)].parts
         /\ SplitRight(Subdivide[BatchOf(w)], BatchOf(w))
         /\ IF Subdivide[BatchOf(w)].whole THEN SetWorker(w, "shattering", BatchEnd(w) + 1)
            ELSE SetWorker(w, "idle", 0)
         /\ UNCHANGED <<file, status, scheduled, overdue, settled, active, jobMsgs,
                        resumeMsgs, checking, save, created, delivers, faults>>
<1>1. /\ worker[w].pc = "shattering" /\ worker[w].from < file.size
      /\ batches' = batches \cup Subdivide[BatchOf(w)].parts
      /\ IF Subdivide[BatchOf(w)].whole THEN SetWorker(w, "shattering", BatchEnd(w) + 1)
         ELSE SetWorker(w, "idle", 0)
      /\ UNCHANGED <<file, status, scheduled, overdue, settled, active, jobMsgs,
                     resumeMsgs, checking, save, created, delivers, faults>>
  BY DEF QueueBatch, BatchOf, BatchEnd, Clock, Messages
<1>2. SplitRight(Subdivide[BatchOf(w)], BatchOf(w))
  BY <1>1, BatchTyped, FileOK, SubdivideRight
<1> QED BY <1>1, <1>2

LEMMA MaxOf ==
  ASSUME NEW k \in Nat, NEW S \in SUBSET (0..k), S # {}
  PROVE  Max(S) \in S /\ \A n \in S : n <= Max(S)
<1> DEFINE T == {k - n : n \in S}
<1>0. \A n \in S : n \in 0..k /\ k - n \in Nat
  OBVIOUS
<1>1. T \in SUBSET Nat /\ T # {}
  BY <1>0
<1>2. PICK d \in T : \A e \in T : d <= e
  BY <1>1, LeastOf
<1>3. PICK m \in S : d = k - m
  BY <1>2
<1>4. \A n \in S : m >= n
  BY <1>0, <1>2, <1>3
<1> QED BY <1>4 DEF Max

LEMMA ResumeFromTyped ==
  ASSUME TypeOK, CreatedRows \subseteq Rows
  PROVE  /\ ResumeFrom \in 0..MaxSize /\ ResumeFrom <= file.size
         /\ ResumeFrom = 0 \/ \E r \in CreatedRows : ResumeFrom = r + 1
<1>1. file.size \in Nat /\ file.size <= MaxSize /\ MaxSize \in Nat
  BY FileOK DEF FileTyped
<1>2. CASE created = {}
  BY <1>1, <1>2 DEF ResumeFrom
<1>3. CASE created # {}
  <2>1. CreatedRows # {}
    BY <1>3 DEF CreatedRows
  <2>2. CreatedRows \in SUBSET (0..file.size)
    BY <1>1 DEF Rows
  <2>3. Max(CreatedRows) \in CreatedRows
    BY <1>1, <2>1, <2>2, MaxOf
  <2>4. Max(CreatedRows) \in 0..(file.size - 1)
    BY <2>3 DEF Rows
  <2>5. ResumeFrom = Max(CreatedRows) + 1
    BY <1>3 DEF ResumeFrom
  <2> QED BY <1>1, <2>3, <2>4, <2>5
<1> QED BY <1>2, <1>3

LEMMA RunTypes ==
  ASSUME TypeOK, CreatedRows \subseteq Rows, NEW w \in Workers,
         ProcessJob(w) \/ StartResume(w) \/ Work(w) \/ CrashWorker(w)
  PROVE  TypeOK'
<1>1. CASE QueueBatch(w)
  <2>1. Within(Subdivide[BatchOf(w)].parts, BatchOf(w))
    BY <1>1, QueueBatchIs DEF SplitRight
  <2>2. batches' \subseteq Rows \X Rows
    BY <1>1, <2>1, QueueBatchIs DEF Within, Pairs, TypeOK
  <2>3. worker' \in [Workers -> [pc : WorkerPCs, from : 0..MaxSize]]
    <3>1. worker[w].from < file.size
      BY <1>1, QueueBatchIs
    <3>2. BatchEnd(w) + 1 \in 0..MaxSize /\ 0 \in 0..MaxSize
      BY <3>1, BatchTyped, Bounds
    <3>3. "shattering" \in WorkerPCs /\ "idle" \in WorkerPCs
      BY DEF WorkerPCs
    <3> QED BY <3>2, <3>3, <1>1, QueueBatchIs, SetWorkerTyped
  <2>4. UNCHANGED <<file, status, scheduled, overdue, settled, active, jobMsgs,
                    resumeMsgs, checking, save, created, delivers, faults>>
    BY <1>1, QueueBatchIs
  <2> QED BY <2>2, <2>3, <2>4, RunTypeFrame DEF TypeOK
<1>2. CASE ~QueueBatch(w)
  <2>1. /\ UNCHANGED <<file, batches, save, created, delivers, scheduled, active, checking>>
        /\ status' \in {status, "in progress", "cancelled", "sending limits exceeded", "finished"}
        /\ overdue' \in {overdue, FALSE} /\ settled' \in {settled, FALSE}
    BY <1>2 DEF ProcessJob, StartResume, Work, StartJob, CheckJob, ResumeJob,
                CompleteJob, CrashWorker, Clock, Messages, Notifying
  <2>2. \E pc \in WorkerPCs, n \in {0, ResumeFrom} : SetWorker(w, pc, n)
    BY <1>2 DEF ProcessJob, StartResume, Work, StartJob, CheckJob, ResumeJob,
                CompleteJob, CrashWorker, WorkerPCs
  <2>3. worker' \in [Workers -> [pc : WorkerPCs, from : 0..MaxSize]]
    <3>1. ResumeFrom \in 0..MaxSize /\ 0 \in 0..MaxSize
      BY ResumeFromTyped, Bounds
    <3> QED BY <3>1, <2>2, SetWorkerTyped
  <2>4. faults' \subseteq FaultKinds
    <3>1. faults' = faults \/ \E k : Fault(k)
      BY <1>2 DEF ProcessJob, StartResume, Work, StartJob, CheckJob, ResumeJob,
                  CompleteJob, CrashWorker
    <3> QED BY <3>1, FaultTyped DEF TypeOK
  <2>5. status' \in Statuses
    BY <2>1 DEF TypeOK, Statuses
  <2>6. {scheduled', overdue', settled', active', checking'} \subseteq BOOLEAN
    BY <2>1 DEF TypeOK
  <2>7. jobMsgs' \in Nat /\ resumeMsgs' \in Nat
    <3>1. jobMsgs \in Nat /\ resumeMsgs \in Nat
      BY DEF TypeOK
    <3>2. /\ jobMsgs' = jobMsgs \/ (jobMsgs > 0 /\ jobMsgs' = jobMsgs - 1)
          /\ resumeMsgs' = resumeMsgs \/ (resumeMsgs > 0 /\ resumeMsgs' = resumeMsgs - 1)
      BY <1>2 DEF ProcessJob, StartResume, Work, StartJob, CheckJob, ResumeJob,
                  CompleteJob, CrashWorker, Messages
    <3> QED BY <3>1, <3>2
  <2>8. batches' \subseteq Rows \X Rows
    BY <2>1 DEF TypeOK
  <2> QED BY <2>1, <2>3, <2>4, <2>5, <2>6, <2>7, <2>8, RunTypeFrame
<1> QED BY <1>1, <1>2

-----------------------------------------------------------------------------
(* The inductive invariant.                                                *)

\* Row r is in front of every row that fits in no message.
Fits(r) == \A h \in file.huge : r < h

AllIdle == \A w \in Workers : worker[w].pc = "idle"
Quiet == jobMsgs = 0 /\ resumeMsgs = 0 /\ AllIdle
NothingMade == created = {} /\ batches = {} /\ \A i \in Ids : save[i].pc = "none"

\* Before the request there is nothing.
BeforeUpload ==
  /\ status = "none" => file = NoFile /\ Quiet /\ ~checking /\ ~overdue
  /\ status # "none" => file \in Files

\* What is queued or created is for rows of the file that fit.
RowsFit ==
  /\ \A b \in batches : \A r \in b[1]..b[2] : Fits(r)
  /\ \A i \in Ids : save[i].pc # "none" => i[1] \in Rows /\ Fits(i[1])
  /\ \A i \in created : i[1] \in Rows /\ Fits(i[1])

\* No run gets past a row that fits in no message, and so none finishes.
RunsStop ==
  /\ \A w \in Workers :
       worker[w].pc = "shattering" => \A h \in file.huge : worker[w].from <= h
  /\ file.huge # {} => status \notin {"finished", "finished all notifications created"}

\* Without overlapping runs a job is in one place: nowhere, in the queue of
\* process_job, in that of process_incomplete_jobs, or at one worker.
AtWorker(w) ==
  /\ worker[w].pc # "idle"
  /\ \A v \in Workers \ {w} : worker[v].pc = "idle"
  /\ worker[w].pc = "read" => status = "pending"
  /\ worker[w].pc # "read" => status = "in progress"
  /\ worker[w].pc = "started" => NothingMade

OnePlace ==
  \/ Quiet
  \/ /\ jobMsgs = 1 /\ resumeMsgs = 0 /\ AllIdle
     /\ ~checking /\ status = "pending" /\ ~overdue
  \/ /\ jobMsgs = 0 /\ resumeMsgs = 1 /\ AllIdle
     /\ ~checking /\ status = "error"
  \/ /\ jobMsgs = 0 /\ resumeMsgs = 0 /\ ~checking /\ ~overdue
     /\ \E w \in Workers : AtWorker(w)

OneRun ==
  OneRunAtATime =>
    /\ OnePlace
    /\ checking => status = "error"
    /\ status \in {"none", "scheduled", "pending"} => NothingMade
    /\ status = "cancelled" => NothingMade \/ (file.letter /\ CreatedRows = Rows)

JobRight ==
  /\ TypeOK /\ DeliveryInv /\ BeforeUpload /\ RowsFit /\ RunsStop
  /\ AllMeansAll /\ OneRun

LEMMA MadeInRows ==
  ASSUME RowsFit
  PROVE  CreatedRows \subseteq Rows
BY DEF RowsFit, CreatedRows

LEMMA SavePc ==
  ASSUME TypeOK, NEW i \in Ids
  PROVE  save[i].pc \in SavePCs /\ save[i].tries \in 0..MaxRetries /\ save[i] \in Saving
BY DEF TypeOK, Saving

-----------------------------------------------------------------------------
(* Steps of the tasks that make notifications.                             *)

LEMMA RowsKeep ==
  ASSUME JobRight, UNCHANGED Rest, ~NothingMade, DeliveryInv',
         save' \in [Ids -> [pc : SavePCs, tries : 0..MaxRetries]],
         faults' \subseteq FaultKinds, faults \subseteq faults',
         batches' \subseteq batches, created \subseteq created',
         \A i \in Ids : save'[i] # save[i] /\ save'[i].pc # "none" => i[1] \in Rows /\ Fits(i[1]),
         \A i \in created' \ created : i \in Ids /\ save[i].pc # "none"
  PROVE  JobRight'
<1>1. TypeOK'
  <2>1. /\ batches' \subseteq Rows \X Rows
        /\ created' \subseteq Ids
        /\ delivers' \in [0..(MaxSize - 1) -> Nat]
    BY DEF JobRight, TypeOK, DeliveryInv, SavesTyped, RowNumbers
  <2> QED BY <2>1, RowsTypeFrame DEF JobRight
<1>2. BeforeUpload' /\ RunsStop'
  BY DEF JobRight, BeforeUpload, RunsStop, Rest, Quiet, AllIdle
<1>3. RowsFit'
  <2>1. file' = file
    BY DEF Rest
  <2>2. \A i \in Ids : save'[i].pc # "none" => i[1] \in Rows /\ Fits(i[1])
    BY DEF JobRight, RowsFit
  <2>3. \A i \in created' : i[1] \in Rows /\ Fits(i[1])
    BY DEF JobRight, RowsFit
  <2>4. \A b \in batches' : \A r \in b[1]..b[2] : Fits(r)
    BY DEF JobRight, RowsFit
  <2> QED BY <2>1, <2>2, <2>3, <2>4 DEF RowsFit, Fits, Rows
<1>4. CreatedRows \subseteq CreatedRows' /\ CreatedRows' \subseteq Rows /\ Rows' = Rows
  <2>1. Rows' = Rows
    BY DEF Rest, Rows
  <2>2. CreatedRows' \subseteq Rows'
    BY <1>3 DEF RowsFit, CreatedRows
  <2> QED BY <2>1, <2>2 DEF CreatedRows
<1>5. AllMeansAll'
  BY <1>4 DEF JobRight, AllMeansAll, Rest
<1>6. OneRun'
  <2> SUFFICES ASSUME OneRunAtATime'
               PROVE  /\ OnePlace'
                      /\ checking' => status' = "error"
                      /\ status' \in {"none", "scheduled", "pending"} => NothingMade'
                      /\ status' = "cancelled" => NothingMade' \/ (file'.letter /\ CreatedRows' = Rows')
    BY DEF OneRun
  <2>1. OneRunAtATime
    BY DEF OneRunAtATime
  <2>2. /\ OnePlace
        /\ checking => status = "error"
        /\ status \notin {"none", "scheduled", "pending"}
        /\ status = "cancelled" => file.letter /\ CreatedRows = Rows
    BY <2>1 DEF JobRight, OneRun
  <2>3. /\ UNCHANGED <<jobMsgs, resumeMsgs, checking, overdue, worker, status>>
        /\ file' = file
    BY DEF Rest
  <2>4. \A w \in Workers : AtWorker(w) => AtWorker(w)'
    BY <2>3 DEF AtWorker
  <2>5. AllIdle => AllIdle'
    BY <2>3 DEF AllIdle
  <2>6. OnePlace'
    BY <2>2, <2>3, <2>4, <2>5 DEF OnePlace, Quiet
  <2>7. checking' => status' = "error"
    BY <2>2, <2>3
  <2>8. status' \notin {"none", "scheduled", "pending"}
    BY <2>2, <2>3
  <2>9. status' = "cancelled" => file'.letter /\ CreatedRows' = Rows'
    BY <2>2, <2>3, <1>4
  <2> QED BY <2>6, <2>7, <2>8, <2>9
<1> QED BY <1>1, <1>2, <1>3, <1>5, <1>6 DEF JobRight

LEMMA RestSame ==
  ASSUME UNCHANGED <<file, status, scheduled, Clock, active, Messages, checking, worker>>
  PROVE  UNCHANGED Rest
BY DEF Rest, Clock, Messages

LEMMA ShatterRight ==
  ASSUME JobRight, NEW b \in batches, Shatter(b) \/ ShatterCrash(b)
  PROVE  JobRight'
<1>1. /\ batches' = batches \ {b} /\ created' = created /\ delivers' = delivers
      /\ UNCHANGED <<file, status, scheduled, Clock, active, Messages, checking, worker>>
  BY DEF Shatter, ShatterCrash
<1>2. \E R \in SUBSET (b[1]..b[2]) : SaveRows(R)
  <2>1. CASE Shatter(b)
    BY <2>1 DEF Shatter
  <2>2. CASE ShatterCrash(b)
    <3>1. PICK last \in b[1]..b[2] : SaveRows(b[1]..(last - 1))
      BY <2>2 DEF ShatterCrash
    <3>2. b[1] \in Nat /\ b[2] \in Nat
      <4>1. b \in Rows \X Rows /\ file.size \in Nat
        BY FileOK DEF JobRight, TypeOK, FileTyped
      <4> QED BY <4>1 DEF Rows
    <3>3. b[1]..(last - 1) \subseteq b[1]..b[2]
      BY <3>2
    <3> QED BY <3>1, <3>3
  <2> QED BY <2>1, <2>2
<1>3. PICK R \in SUBSET (b[1]..b[2]) : SaveRows(R)
  BY <1>2
<1>4. DeliveryInv'
  BY <1>1, <1>3, SaveRowsKeeps DEF JobRight
<1>5. /\ save' \in [Ids -> [pc : SavePCs, tries : 0..MaxRetries]]
      /\ \A i \in Ids : save'[i] # save[i] => i[1] \in R
  BY <1>3, SaveRowsTyped DEF JobRight
<1>6. \A r \in b[1]..b[2] : r \in Rows /\ Fits(r)
  <2>1. b \in Rows \X Rows /\ file.size \in Nat
    BY FileOK DEF JobRight, TypeOK, FileTyped
  <2>2. \A r \in b[1]..b[2] : r \in Rows
    BY <2>1 DEF Rows
  <2> QED BY <2>2 DEF JobRight, RowsFit
<1>7. faults' \subseteq FaultKinds /\ faults \subseteq faults'
  <2>1. faults' = faults \/ \E k : Fault(k)
    BY DEF Shatter, ShatterCrash
  <2>2. TypeOK
    BY DEF JobRight
  <2> QED BY <2>1, <2>2, FaultTyped DEF TypeOK
<1>8. ~NothingMade
  BY DEF NothingMade
<1>9. UNCHANGED Rest
  BY <1>1, RestSame
<1> QED BY <1>1, <1>4, <1>5, <1>6, <1>7, <1>8, <1>9, RowsKeep

LEMMA MissingRight ==
  ASSUME JobRight, QueueMissingRows
  PROVE  JobRight'
<1>1. /\ batches' = batches /\ created' = created /\ delivers' = delivers /\ faults' = faults
      /\ UNCHANGED <<file, status, scheduled, Clock, active, Messages, checking, worker>>
      /\ status = "finished" /\ created # {} /\ SaveRows(Rows \ CreatedRows)
  BY DEF QueueMissingRows, HasRows
<1>4. DeliveryInv'
  BY <1>1, SaveRowsKeeps DEF JobRight
<1>5. /\ save' \in [Ids -> [pc : SavePCs, tries : 0..MaxRetries]]
      /\ \A i \in Ids : save'[i] # save[i] => i[1] \in Rows
  <2>1. TypeOK
    BY DEF JobRight
  <2>2. /\ save' \in [Ids -> [pc : SavePCs, tries : 0..MaxRetries]]
        /\ \A i \in Ids : save'[i] # save[i] => i[1] \in Rows \ CreatedRows
    BY <1>1, <2>1, SaveRowsTyped
  <2> QED BY <2>2
<1>6. \A r : Fits(r)
  BY <1>1 DEF JobRight, RunsStop, Fits
<1>7. faults' \subseteq FaultKinds /\ faults \subseteq faults'
  BY <1>1 DEF JobRight, TypeOK
<1>8. ~NothingMade
  BY <1>1 DEF NothingMade
<1>9. UNCHANGED Rest
  BY <1>1, RestSame
<1> QED BY <1>1, <1>4, <1>5, <1>6, <1>7, <1>8, <1>9, RowsKeep

\* A step of one save task.
LEMMA SaveRight ==
  ASSUME JobRight, NEW i \in Ids, Save(i) \/ CrashSave(i) \/ RedeliverSave(i), DeliveryInv'
  PROVE  JobRight'
<1>0. TypeOK
  BY DEF JobRight
<1>1. /\ batches' = batches
      /\ UNCHANGED <<file, status, scheduled, Clock, active, Messages, checking, worker>>
  BY DEF Save, SaveRestricted, SaveRow, SaveFails, QueueDelivery, CrashSave, RedeliverSave
<1>2. faults' \subseteq FaultKinds /\ faults \subseteq faults'
  <2>1. faults' = faults \/ \E k : Fault(k)
    BY DEF Save, SaveRestricted, SaveRow, SaveFails, QueueDelivery, CrashSave, RedeliverSave
  <2> QED BY <2>1, <1>0, FaultTyped DEF TypeOK
<1>3. created' = created \/ (created' = created \cup {i} /\ save[i].pc = "queued")
  BY DEF Save, SaveRestricted, SaveRow, SaveFails, QueueDelivery, CrashSave, RedeliverSave
<1>4. save[i].pc # "none" \/ i \in created
  BY DEF Save, SaveRestricted, SaveRow, SaveFails, QueueDelivery, CrashSave, RedeliverSave
<1>5. \E new \in Saving : SetSave(i, new)
  <2>1. CASE SaveRestricted(i) \/ CrashSave(i) \/ QueueDelivery(i)
    BY <2>1, SavingTyped DEF SaveRestricted, CrashSave, QueueDelivery
  <2>2. CASE RedeliverSave(i)
    BY <2>2, SavingTyped DEF RedeliverSave
  <2>3. CASE SaveRow(i)
    <3>1. [save[i] EXCEPT !.pc = "saved"] \in Saving
      BY <1>0, SavePc DEF Saving, SavePCs
    <3> QED BY <2>3, <3>1 DEF SaveRow
  <2>4. CASE SaveFails(i)
    <3>1. HandleException(i)
      BY <2>4 DEF SaveFails
    <3>2. CASE SetSave(i, NoSave)
      BY <3>2, SavingTyped
    <3>3. CASE save[i].tries # MaxRetries /\ SetSave(i, [save[i] EXCEPT !.tries = @ + 1])
      <4>1. save[i] \in Saving /\ save[i].tries \in 0..MaxRetries
        BY <1>0, SavePc
      <4>2. save[i].tries + 1 \in 0..MaxRetries
        BY <3>3, <4>1, Bounds
      <4>3. [save[i] EXCEPT !.tries = @ + 1] \in Saving
        BY <4>1, <4>2 DEF Saving
      <4> QED BY <3>3, <4>3
    <3> QED BY <3>1, <3>2, <3>3 DEF HandleException
  <2> QED BY <2>1, <2>2, <2>3, <2>4 DEF Save
<1>6. PICK new \in Saving : SetSave(i, new)
  BY <1>5
<1>7. /\ save' \in [Ids -> [pc : SavePCs, tries : 0..MaxRetries]]
      /\ \A j \in Ids \ {i} : save'[j] = save[j]
  BY <1>0, <1>6, SetSaveTyped
<1>8. i[1] \in Rows /\ Fits(i[1])
  BY <1>4 DEF JobRight, RowsFit
<1>9. ~NothingMade
  BY <1>4 DEF NothingMade
<1>10. UNCHANGED Rest
  BY <1>1, RestSame
<1>11. \A j \in Ids : save'[j] # save[j] /\ save'[j].pc # "none" => j[1] \in Rows /\ Fits(j[1])
  BY <1>7, <1>8
<1>12. \A j \in created' \ created : j \in Ids /\ save[j].pc # "none"
  BY <1>3
<1>13. batches' \subseteq batches /\ created \subseteq created'
  BY <1>1, <1>3
<1> QED BY <1>2, <1>7, <1>9, <1>10, <1>11, <1>12, <1>13, RowsKeep

-----------------------------------------------------------------------------
(* Steps of the runs, of the requests and of the beat schedule.            *)

LEMMA RunKeep ==
  ASSUME JobRight, TypeOK', UNCHANGED <<file, save, created, delivers>>,
         status # "none", status' # "none",
         \A b \in batches' \ batches : \A r \in b[1]..b[2] : Fits(r),
         status' = "finished all notifications created" =>
           status = "finished all notifications created" \/ CreatedRows = Rows,
         RunsStop', OneRun'
  PROVE  JobRight'
<1>1. DeliveryInv'
  BY StutterKeeps DEF JobRight
<1>2. BeforeUpload'
  BY DEF JobRight, BeforeUpload
<1>3. RowsFit'
  <2>1. \A b \in batches' : \A r \in b[1]..b[2] : Fits(r)
    BY DEF JobRight, RowsFit
  <2> QED BY <2>1 DEF JobRight, RowsFit, Fits, Rows
<1>4. AllMeansAll'
  BY DEF JobRight, AllMeansAll, CreatedRows, Rows
<1> QED BY <1>1, <1>2, <1>3, <1>4 DEF JobRight

\* The same for a step that queues no batch and puts no worker to queueing.
LEMMA PlainKeep ==
  ASSUME JobRight, TypeOK', UNCHANGED <<file, save, created, delivers, batches>>,
         status # "none", status' # "none",
         \A w \in Workers : worker'[w].pc = "shattering" => worker'[w] = worker[w],
         status' = "finished" => status = "finished",
         status' = "finished all notifications created" =>
           \/ status = "finished all notifications created"
           \/ status = "finished" /\ CreatedRows = Rows,
         OneRun'
  PROVE  JobRight'
<1>1. RunsStop'
  BY DEF JobRight, RunsStop
<1> QED BY <1>1, RunKeep

LEMMA Alone ==
  ASSUME JobRight, OneRunAtATime, NEW w \in Workers, worker[w].pc # "idle"
  PROVE  /\ jobMsgs = 0 /\ resumeMsgs = 0 /\ ~checking /\ ~overdue /\ AtWorker(w)
<1>1. OnePlace /\ ~AllIdle
  BY DEF JobRight, OneRun, AllIdle
<1>2. PICK v \in Workers : AtWorker(v)
  BY <1>1 DEF OnePlace, Quiet
<1>3. v = w
  BY <1>2 DEF AtWorker
<1> QED BY <1>1, <1>2, <1>3 DEF OnePlace, Quiet

LEMMA HereNow ==
  ASSUME NEW w \in Workers, jobMsgs' = 0, resumeMsgs' = 0, ~checking', ~overdue',
         worker'[w].pc # "idle",
         \A v \in Workers \ {w} : worker'[v].pc = "idle",
         worker'[w].pc = "read" => status' = "pending",
         worker'[w].pc # "read" => status' = "in progress",
         worker'[w].pc = "started" => NothingMade'
  PROVE  OnePlace'
<1>1. AtWorker(w)'
  BY DEF AtWorker
<1> QED BY <1>1 DEF OnePlace

LEMMA MadeSame ==
  ASSUME UNCHANGED <<save, created, batches>>
  PROVE  NothingMade' <=> NothingMade
BY DEF NothingMade

LEMMA PcKinds ==
  {"idle", "read", "started", "resuming", "shattering"} \subseteq WorkerPCs
BY DEF WorkerPCs

LEMMA ProcessJobRight ==
  ASSUME JobRight, NEW w \in Workers, ProcessJob(w)
  PROVE  JobRight'
<1>0. TypeOK /\ 0 \in 0..MaxSize /\ jobMsgs \in Nat
  BY Bounds DEF JobRight, TypeOK
<1>1. TypeOK'
  BY <1>0, RunTypes, MadeInRows DEF JobRight
<1>2. /\ jobMsgs > 0 /\ worker[w].pc = "idle" /\ jobMsgs' = jobMsgs - 1
      /\ SetWorker(w, IF status = "pending" THEN "read" ELSE "idle", 0)
      /\ UNCHANGED <<file, save, created, delivers, batches, status, resumeMsgs, checking,
                     overdue, faults>>
  BY DEF ProcessJob, Clock, Notifying
<1>3. /\ worker'[w].pc = IF status = "pending" THEN "read" ELSE "idle"
      /\ \A v \in Workers \ {w} : worker'[v] = worker[v]
  BY <1>0, <1>2, PcKinds, SetWorkerTyped
<1>4. status # "none"
  BY <1>0, <1>2 DEF JobRight, BeforeUpload, Quiet
<1>5. OneRun'
  <2> SUFFICES ASSUME OneRunAtATime'
               PROVE  /\ OnePlace'
                      /\ checking' => status' = "error"
                      /\ status' \in {"none", "scheduled", "pending"} => NothingMade'
                      /\ status' = "cancelled" => NothingMade' \/ (file'.letter /\ CreatedRows' = Rows')
    BY DEF OneRun
  <2>1. /\ OnePlace
        /\ status = "pending" => NothingMade
    BY <1>2 DEF JobRight, OneRun, OneRunAtATime
  <2>2. /\ jobMsgs = 1 /\ resumeMsgs = 0 /\ AllIdle
        /\ ~checking /\ status = "pending" /\ ~overdue
    BY <1>0, <1>2, <2>1 DEF OnePlace, Quiet, AllIdle
  <2>3. OnePlace'
    BY <1>2, <1>3, <2>2, HereNow DEF AllIdle
  <2>4. NothingMade'
    BY <1>2, <2>1, <2>2, MadeSame
  <2> QED BY <2>2, <2>3, <2>4, <1>2
<1> QED BY <1>1, <1>2, <1>3, <1>4, <1>5, PlainKeep

LEMMA StartResumeRight ==
  ASSUME JobRight, NEW w \in Workers, StartResume(w)
  PROVE  JobRight'
<1>0. TypeOK /\ 0 \in 0..MaxSize /\ resumeMsgs \in Nat
  BY Bounds DEF JobRight, TypeOK
<1>1. TypeOK'
  BY <1>0, RunTypes, MadeInRows DEF JobRight
<1>2. /\ resumeMsgs > 0 /\ worker[w].pc = "idle" /\ resumeMsgs' = resumeMsgs - 1
      /\ SetWorker(w, "resuming", 0) /\ status' = "in progress"
      /\ UNCHANGED <<file, save, created, delivers, batches, jobMsgs, checking, faults>>
  BY DEF StartResume, Notifying
<1>3. ~overdue'
  BY DEF StartResume
<1>4. /\ worker'[w].pc = "resuming"
      /\ \A v \in Workers \ {w} : worker'[v] = worker[v]
  BY <1>0, <1>2, PcKinds, SetWorkerTyped
<1>5. resumeMsgs # 0 /\ resumeMsgs' = resumeMsgs - 1
  <2>1. resumeMsgs > 0
    BY DEF StartResume
  <2>2. resumeMsgs' = resumeMsgs - 1
    BY DEF StartResume
  <2>3. resumeMsgs \in Nat
    BY <1>0
  <2> QED BY <2>1, <2>2, <2>3
<1>6. status # "none"
  BY <1>5 DEF JobRight, BeforeUpload, Quiet
<1>7. OneRun'
  <2> SUFFICES ASSUME OneRunAtATime'
               PROVE  OnePlace' /\ ~checking'
    BY <1>2 DEF OneRun
  <2>1. OnePlace
    BY <1>2 DEF JobRight, OneRun, OneRunAtATime
  <2>2. /\ jobMsgs = 0 /\ resumeMsgs = 1 /\ AllIdle /\ ~checking
    <3>1. worker[w].pc = "idle" => ~AtWorker(w)
      BY DEF AtWorker
    <3>2. resumeMsgs # 0
      BY <1>5
    <3> QED BY <3>2, <2>1 DEF OnePlace, Quiet
  <2>3. ~checking' /\ jobMsgs' = 0 /\ resumeMsgs' = 0
    <3>1. checking' = checking /\ jobMsgs' = jobMsgs
      BY <1>2
    <3>2. resumeMsgs' = 0
      BY <1>5, <2>2
    <3> QED BY <3>1, <3>2, <2>2
  <2>4. OnePlace'
    <3>1. \A v \in Workers \ {w} : worker'[v].pc = "idle"
      BY <1>4, <2>2 DEF AllIdle
    <3>2. status' = "in progress"
      BY <1>2
    <3> QED BY <1>4, <2>3, <1>3, <3>1, <3>2, HereNow
  <2> QED BY <2>3, <2>4
<1> QED BY <1>1, <1>2, <1>4, <1>6, <1>7, PlainKeep

LEMMA NotBefore ==
  ASSUME JobRight, NEW w \in Workers, worker[w].pc # "idle"
  PROVE  status # "none"
BY DEF JobRight, BeforeUpload, Quiet, AllIdle

LEMMA NowQuiet ==
  ASSUME NEW w \in Workers, jobMsgs' = 0, resumeMsgs' = 0, worker'[w].pc = "idle",
         \A v \in Workers \ {w} : worker'[v].pc = "idle"
  PROVE  Quiet'
BY DEF Quiet, AllIdle

LEMMA StartJobRight ==
  ASSUME JobRight, NEW w \in Workers, StartJob(w)
  PROVE  JobRight'
<1>0. TypeOK /\ 0 \in 0..MaxSize
  BY Bounds DEF JobRight, TypeOK
<1>1. TypeOK'
  BY <1>0, RunTypes, MadeInRows DEF JobRight, Work
<1>2. /\ worker[w].pc = "read" /\ SetWorker(w, "started", 0) /\ status' = "in progress"
      /\ UNCHANGED <<file, save, created, delivers, batches, jobMsgs, resumeMsgs, checking, faults>>
  BY DEF StartJob, Notifying, Messages
<1>3. ~overdue'
  BY DEF StartJob
<1>4. /\ worker'[w].pc = "started"
      /\ \A v \in Workers \ {w} : worker'[v] = worker[v]
  BY <1>0, <1>2, PcKinds, SetWorkerTyped
<1>5. status # "none"
  BY <1>2, NotBefore
<1>6. OneRun'
  <2> SUFFICES ASSUME OneRunAtATime'
               PROVE  OnePlace' /\ ~checking'
    BY <1>2 DEF OneRun
  <2>0. OneRunAtATime
    BY <1>2 DEF OneRunAtATime
  <2>1. jobMsgs = 0 /\ resumeMsgs = 0 /\ ~checking /\ AtWorker(w)
    BY <1>2, <2>0, Alone
  <2>2. NothingMade
    BY <1>2, <2>0, <2>1 DEF AtWorker, JobRight, OneRun
  <2>3. ~checking'
    BY <1>2, <2>1
  <2>4. OnePlace'
    BY <1>2, <1>4, <2>1, <2>2, <2>3, <1>3, HereNow, MadeSame DEF AtWorker
  <2> QED BY <2>3, <2>4
<1> QED BY <1>1, <1>2, <1>4, <1>5, <1>6, PlainKeep

LEMMA CheckJobRight ==
  ASSUME JobRight, NEW w \in Workers, CheckJob(w)
  PROVE  JobRight'
<1>0. TypeOK /\ 0 \in 0..MaxSize
  BY Bounds DEF JobRight, TypeOK
<1>1. TypeOK'
  BY <1>0, RunTypes, MadeInRows DEF JobRight, Work
<1>2. /\ worker[w].pc = "started"
      /\ UNCHANGED <<file, save, created, delivers, batches, jobMsgs, resumeMsgs, checking,
                     overdue, faults>>
      /\ \/ status' \in {"cancelled", "sending limits exceeded"} /\ SetWorker(w, "idle", 0)
         \/ status' = status /\ SetWorker(w, "shattering", 0)
  BY DEF CheckJob, Notifying, Messages, Clock
<1>3. /\ \/ status' \in {"cancelled", "sending limits exceeded"} /\ worker'[w].pc = "idle"
         \/ status' = status /\ worker'[w].pc = "shattering" /\ worker'[w].from = 0
      /\ \A v \in Workers \ {w} : worker'[v] = worker[v]
  BY <1>0, <1>2, PcKinds, SetWorkerTyped
<1>4. status # "none" /\ status' # "none"
  BY <1>2, NotBefore
<1>5. OneRun'
  <2> SUFFICES ASSUME OneRunAtATime'
               PROVE  /\ OnePlace' /\ ~checking'
                      /\ status' \in {"cancelled", "sending limits exceeded", "in progress"}
                      /\ NothingMade'
    BY DEF OneRun
  <2>0. OneRunAtATime
    BY <1>2 DEF OneRunAtATime
  <2>1. jobMsgs = 0 /\ resumeMsgs = 0 /\ ~checking /\ ~overdue /\ AtWorker(w)
    BY <1>2, <2>0, Alone
  <2>2. NothingMade' /\ status = "in progress"
    BY <1>2, <2>1, MadeSame DEF AtWorker
  <2>3. ~checking' /\ ~overdue' /\ jobMsgs' = 0 /\ resumeMsgs' = 0
    BY <1>2, <2>1
  <2>4. \A v \in Workers \ {w} : worker'[v].pc = "idle"
    BY <1>3, <2>1 DEF AtWorker
  <2>5. CASE worker'[w].pc = "idle"
    <3>1. OnePlace'
      BY <2>3, <2>4, <2>5, NowQuiet DEF OnePlace
    <3> QED BY <1>2, <2>2, <2>3, <3>1
  <2>6. CASE status' = status /\ worker'[w].pc = "shattering"
    <3>1. OnePlace'
      BY <2>2, <2>3, <2>4, <2>6, HereNow
    <3> QED BY <2>2, <2>3, <2>6, <3>1
  <2> QED BY <1>3, <2>5, <2>6
<1>6. RunsStop'
  <2>1. \A h \in file.huge : 0 <= h
    <3>1. file.huge \subseteq Nat
      BY <1>0, FileOK DEF Rows, FileTyped
    <3> QED BY <3>1
  <2>2. \A v \in Workers : worker'[v].pc = "shattering" => \A h \in file.huge : worker'[v].from <= h
    BY <1>3, <2>1 DEF JobRight, RunsStop
  <2> QED BY <1>2, <1>3, <2>2 DEF JobRight, RunsStop
<1> QED BY <1>1, <1>2, <1>4, <1>5, <1>6, RunKeep

LEMMA ResumeJobRight ==
  ASSUME JobRight, NEW w \in Workers, ResumeJob(w)
  PROVE  JobRight'
<1>0. TypeOK /\ CreatedRows \subseteq Rows
  BY MadeInRows DEF JobRight
<1>1. TypeOK'
  BY <1>0, RunTypes DEF Work
<1>2. /\ worker[w].pc = "resuming" /\ SetWorker(w, "shattering", ResumeFrom)
      /\ UNCHANGED <<file, save, created, delivers, batches, jobMsgs, resumeMsgs, checking,
                     overdue, status, faults>>
  BY DEF ResumeJob, Notifying, Messages, Clock
<1>3. /\ worker'[w].pc = "shattering" /\ worker'[w].from = ResumeFrom
      /\ \A v \in Workers \ {w} : worker'[v] = worker[v]
  BY <1>0, <1>2, PcKinds, ResumeFromTyped, SetWorkerTyped
<1>4. status # "none"
  BY <1>2, NotBefore
<1>5. OneRun'
  <2> SUFFICES ASSUME OneRunAtATime'
               PROVE  OnePlace' /\ ~checking' /\ status' = "in progress"
    BY DEF OneRun
  <2>0. OneRunAtATime
    BY <1>2 DEF OneRunAtATime
  <2>1. jobMsgs = 0 /\ resumeMsgs = 0 /\ ~checking /\ ~overdue /\ AtWorker(w)
    BY <1>2, <2>0, Alone
  <2>2. status = "in progress"
    BY <1>2, <2>1 DEF AtWorker
  <2>3. ~checking' /\ ~overdue' /\ jobMsgs' = 0 /\ resumeMsgs' = 0
    BY <1>2, <2>1
  <2>4. \A v \in Workers \ {w} : worker'[v].pc = "idle"
    BY <1>3, <2>1 DEF AtWorker
  <2>5. OnePlace'
    BY <1>2, <1>3, <2>2, <2>3, <2>4, HereNow
  <2> QED BY <1>2, <2>2, <2>3, <2>5
<1>6. RunsStop'
  <2>1. \A h \in file.huge : ResumeFrom <= h
    <3>1. file.huge \subseteq Nat
      BY <1>0, FileOK DEF Rows, FileTyped
    <3>2. \A r \in CreatedRows : r \in Nat /\ Fits(r)
      BY <1>0, FileOK DEF JobRight, RowsFit, CreatedRows, Rows, FileTyped
    <3>3. ResumeFrom = 0 \/ \E r \in CreatedRows : ResumeFrom = r + 1
      BY <1>0, ResumeFromTyped
    <3> QED BY <3>1, <3>2, <3>3 DEF Fits
  <2>2. \A v \in Workers : worker'[v].pc = "shattering" => \A h \in file.huge : worker'[v].from <= h
    BY <1>3, <2>1 DEF JobRight, RunsStop
  <2> QED BY <1>2, <2>2 DEF JobRight, RunsStop
<1> QED BY <1>1, <1>2, <1>4, <1>5, <1>6, RunKeep

LEMMA QueueBatchRight ==
  ASSUME JobRight, NEW w \in Workers, QueueBatch(w)
  PROVE  JobRight'
<1> DEFINE sub == Subdivide[BatchOf(w)]
           b == BatchOf(w)
<1>0. TypeOK /\ CreatedRows \subseteq Rows
  BY MadeInRows DEF JobRight
<1>1. TypeOK'
  BY <1>0, RunTypes DEF Work
<1>2. /\ worker[w].pc = "shattering" /\ worker[w].from < file.size
      /\ batches' = batches \cup sub.parts
      /\ SplitRight(sub, b)
      /\ IF sub.whole THEN SetWorker(w, "shattering", BatchEnd(w) + 1)
         ELSE SetWorker(w, "idle", 0)
      /\ UNCHANGED <<file, status, overdue, jobMsgs, resumeMsgs, checking, save, created,
                     delivers, faults>>
  BY <1>0, QueueBatchIs
<1>3. /\ b \in Pairs /\ b[1] = worker[w].from /\ b[2] = BatchEnd(w)
      /\ b[1] <= b[2] /\ b[1] \in Nat /\ b[2] \in Nat /\ b[2] + 1 \in 0..MaxSize
  BY <1>0, <1>2, BatchTyped
<1> HIDE DEF sub, b
<1>4. /\ \A v \in Workers \ {w} : worker'[v] = worker[v]
      /\ \/ sub.whole /\ worker'[w].pc = "shattering" /\ worker'[w].from = b[2] + 1
         \/ worker'[w].pc = "idle"
  <2>1. CASE sub.whole
    <3>1. SetWorker(w, "shattering", BatchEnd(w) + 1) /\ BatchEnd(w) + 1 \in 0..MaxSize
      BY <1>2, <1>3, <2>1
    <3>2. /\ worker'[w].pc = "shattering" /\ worker'[w].from = BatchEnd(w) + 1
          /\ \A v \in Workers \ {w} : worker'[v] = worker[v]
      BY <1>0, <3>1, PcKinds, SetWorkerTyped
    <3> QED BY <3>2, <1>3, <2>1
  <2>2. CASE ~sub.whole
    <3>1. SetWorker(w, "idle", 0) /\ 0 \in 0..MaxSize
      BY <1>2, <2>2, Bounds
    <3> QED BY <1>0, <3>1, PcKinds, SetWorkerTyped
  <2> QED BY <2>1, <2>2
<1>5. status # "none"
  BY <1>2, NotBefore
<1>6. \A h \in file.huge : worker[w].from <= h /\ h \in Nat
  <2>1. \A h \in file.huge : h \in Nat
    BY <1>0, FileOK DEF Rows, FileTyped
  <2>2. worker[w].pc = "shattering"
    BY <1>2
  <2> QED BY <2>1, <2>2 DEF JobRight, RunsStop
<1>7. \A r \in Nat : b[1] <= r /\ Clear(b[1], r) => Fits(r)
  <2> SUFFICES ASSUME NEW r \in Nat, b[1] <= r, Clear(b[1], r), NEW h \in file.huge
               PROVE  r < h
    BY DEF Fits
  <2>1. h \in Nat /\ b[1] <= h
    BY <1>3, <1>6
  <2>2. h \notin b[1]..r
    BY DEF Clear
  <2> QED BY <1>3, <2>1, <2>2
<1>8. \A c \in batches' \ batches : \A r \in c[1]..c[2] : Fits(r)
  <2> SUFFICES ASSUME NEW c \in sub.parts, NEW r \in c[1]..c[2]
               PROVE  Fits(r)
    BY <1>2
  <2>1. /\ c \in Pairs /\ b[1] <= c[1] /\ c[1] <= c[2] /\ Clear(b[1], c[2])
    BY <1>2 DEF SplitRight, Within
  <2>2. c[1] \in Nat /\ c[2] \in Nat
    BY <1>0, <2>1, FileOK DEF Pairs, Rows, FileTyped
  <2>3. b[1] <= c[2] /\ r \in Nat /\ r <= c[2]
    BY <1>3, <2>1, <2>2
  <2>4. Fits(c[2])
    BY <1>7, <2>1, <2>2, <2>3
  <2> QED BY <1>6, <2>2, <2>3, <2>4 DEF Fits
<1>9. RunsStop'
  <2>1. sub.whole => \A h \in file.huge : b[2] + 1 <= h
    <3> SUFFICES ASSUME sub.whole, NEW h \in file.huge PROVE b[2] + 1 <= h
      OBVIOUS
    <3>1. Clear(b[1], b[2])
      BY <1>2 DEF SplitRight
    <3>2. b[2] < h
      BY <3>1, <1>3, <1>7 DEF Fits
    <3> QED BY <3>2, <1>3, <1>6
  <2>2. \A v \in Workers : worker'[v].pc = "shattering" => \A h \in file.huge : worker'[v].from <= h
    BY <1>4, <2>1 DEF JobRight, RunsStop
  <2> QED BY <1>2, <2>2 DEF JobRight, RunsStop
<1>10. OneRun'
  <2> SUFFICES ASSUME OneRunAtATime'
               PROVE  OnePlace' /\ ~checking' /\ status' = "in progress"
    BY DEF OneRun
  <2>0. OneRunAtATime
    BY <1>2 DEF OneRunAtATime
  <2>1. jobMsgs = 0 /\ resumeMsgs = 0 /\ ~checking /\ ~overdue /\ AtWorker(w)
    BY <1>2, <2>0, Alone
  <2>2. status' = "in progress"
    BY <1>2, <2>1 DEF AtWorker
  <2>3. ~checking' /\ ~overdue' /\ jobMsgs' = 0 /\ resumeMsgs' = 0
    BY <1>2, <2>1
  <2>4. \A v \in Workers \ {w} : worker'[v].pc = "idle"
    BY <1>4, <2>1 DEF AtWorker
  <2>5. CASE worker'[w].pc = "idle"
    BY <2>2, <2>3, <2>4, <2>5, NowQuiet DEF OnePlace
  <2>6. CASE worker'[w].pc = "shattering"
    BY <2>2, <2>3, <2>4, <2>6, HereNow
  <2> QED BY <1>4, <2>5, <2>6
<1> QED BY <1>1, <1>2, <1>5, <1>8, <1>9, <1>10, RunKeep

LEMMA CompleteJobRight ==
  ASSUME JobRight, NEW w \in Workers, CompleteJob(w)
  PROVE  JobRight'
<1>0. TypeOK /\ 0 \in 0..MaxSize
  BY Bounds DEF JobRight, TypeOK
<1>1. TypeOK'
  BY <1>0, RunTypes, MadeInRows DEF JobRight, Work
<1>2. /\ worker[w].pc = "shattering" /\ SetWorker(w, "idle", 0) /\ status' = "finished"
      /\ UNCHANGED <<file, save, created, delivers, batches, jobMsgs, resumeMsgs, checking,
                     overdue, faults>>
  BY DEF CompleteJob, Notifying, Messages
<1>3. /\ worker'[w].pc = "idle"
      /\ \A v \in Workers \ {w} : worker'[v] = worker[v]
  BY <1>0, <1>2, PcKinds, SetWorkerTyped
<1>4. status # "none"
  BY <1>2, NotBefore
<1>5. OneRun'
  <2> SUFFICES ASSUME OneRunAtATime'
               PROVE  OnePlace' /\ ~checking'
    BY <1>2 DEF OneRun
  <2>0. OneRunAtATime
    BY <1>2 DEF OneRunAtATime
  <2>1. jobMsgs = 0 /\ resumeMsgs = 0 /\ ~checking /\ AtWorker(w)
    BY <1>2, <2>0, Alone
  <2>2. ~checking' /\ jobMsgs' = 0 /\ resumeMsgs' = 0
    BY <1>2, <2>1
  <2>3. \A v \in Workers \ {w} : worker'[v].pc = "idle"
    BY <1>3, <2>1 DEF AtWorker
  <2> QED BY <1>3, <2>2, <2>3, NowQuiet DEF OnePlace
<1>6. RunsStop'
  <2>1. file.huge = {}
    <3> SUFFICES ASSUME NEW h \in file.huge PROVE FALSE
      OBVIOUS
    <3>1. worker[w].from <= h
      BY <1>2 DEF JobRight, RunsStop
    <3>2. worker[w].from >= file.size
      BY DEF CompleteJob
    <3>3. h \in Nat /\ h < file.size /\ file.size \in Nat
      BY <1>0, FileOK DEF Rows, FileTyped
    <3>4. worker[w].from \in Nat
      BY <1>0, Bounds DEF TypeOK
    <3> QED BY <3>1, <3>2, <3>3, <3>4
  <2> QED BY <1>2, <2>1 DEF RunsStop
<1> QED BY <1>1, <1>2, <1>4, <1>5, <1>6, RunKeep

LEMMA CrashWorkerRight ==
  ASSUME JobRight, NEW w \in Workers, CrashWorker(w)
  PROVE  JobRight'
<1>0. TypeOK /\ 0 \in 0..MaxSize
  BY Bounds DEF JobRight, TypeOK
<1>1. TypeOK'
  BY <1>0, RunTypes, MadeInRows DEF JobRight
<1>2. /\ worker[w].pc # "idle" /\ SetWorker(w, "idle", 0)
      /\ UNCHANGED <<file, save, created, delivers, batches, jobMsgs, resumeMsgs, checking,
                     overdue, status>>
      /\ faults \subseteq faults'
  BY DEF CrashWorker, Notifying, Messages, Clock, Fault
<1>3. /\ worker'[w].pc = "idle"
      /\ \A v \in Workers \ {w} : worker'[v] = worker[v]
  BY <1>0, <1>2, PcKinds, SetWorkerTyped
<1>4. status # "none"
  BY <1>2, NotBefore
<1>5. OneRun'
  <2> SUFFICES ASSUME OneRunAtATime'
               PROVE  /\ OnePlace' /\ ~checking'
                      /\ status' = "in progress" \/ (status' = "pending" /\ NothingMade')
    BY DEF OneRun
  <2>0. OneRunAtATime
    BY <1>2 DEF OneRunAtATime
  <2>1. jobMsgs = 0 /\ resumeMsgs = 0 /\ ~checking /\ AtWorker(w)
    BY <1>2, <2>0, Alone
  <2>2. ~checking' /\ jobMsgs' = 0 /\ resumeMsgs' = 0
    BY <1>2, <2>1
  <2>3. \A v \in Workers \ {w} : worker'[v].pc = "idle"
    BY <1>3, <2>1 DEF AtWorker
  <2>4. OnePlace'
    BY <1>3, <2>2, <2>3, NowQuiet DEF OnePlace
  <2>5. status = "in progress" \/ (status = "pending" /\ NothingMade)
    BY <2>0, <2>1 DEF AtWorker, JobRight, OneRun
  <2>6. NothingMade' <=> NothingMade
    BY <1>2, MadeSame
  <2> QED BY <1>2, <2>2, <2>4, <2>5, <2>6
<1> QED BY <1>1, <1>2, <1>3, <1>4, <1>5, PlainKeep

LEMMA UploadRight ==
  ASSUME JobRight, NEW f \in Files, CreateJob(f) \/ CreateJobFails(f)
  PROVE  JobRight'
<1>0. TypeOK
  BY DEF JobRight
<1>1. /\ status = "none" /\ file' = f /\ status' \in {"scheduled", "pending"}
      /\ UNCHANGED <<overdue, resumeMsgs, checking, worker, save, created, delivers, batches>>
      /\ faults \subseteq faults'
  BY DEF CreateJob, CreateJobFails, Upload, Clock, Messages, Notifying, Fault
<1>2. file = NoFile /\ Quiet /\ ~checking /\ ~overdue
  BY <1>1 DEF JobRight, BeforeUpload
<1>3. Rows = {}
  BY <1>2 DEF Rows, NoFile
<1>4. NothingMade
  <2>1. created = {} /\ \A i \in Ids : save[i].pc = "none"
    BY <1>0, <1>3 DEF JobRight, RowsFit, TypeOK
  <2>2. batches = {}
    BY <1>0, <1>3 DEF TypeOK
  <2> QED BY <2>1, <2>2 DEF NothingMade
<1>5. NothingMade' /\ created' = {} /\ batches' = {}
  BY <1>1, <1>4, MadeSame DEF NothingMade
<1>6. TypeOK'
  BY <1>0, <1>4, RequestTypes DEF NothingMade
<1>7. DeliveryInv'
  BY <1>1, StutterKeeps DEF JobRight
<1>8. BeforeUpload'
  BY <1>1 DEF BeforeUpload
<1>9. RowsFit'
  BY <1>5 DEF RowsFit, NothingMade
<1>10. RunsStop'
  BY <1>1, <1>2 DEF RunsStop, Quiet, AllIdle
<1>11. AllMeansAll'
  BY <1>1 DEF AllMeansAll
<1>12. OneRun'
  <2> SUFFICES ASSUME OneRunAtATime'
               PROVE  OnePlace' /\ ~checking'
    BY <1>1, <1>5 DEF OneRun
  <2>1. ~checking' /\ ~overdue' /\ resumeMsgs' = 0 /\ AllIdle'
    BY <1>1, <1>2 DEF Quiet, AllIdle
  <2>2. jobMsgs' = 0 \/ (jobMsgs' = 1 /\ status' = "pending")
    BY <1>2 DEF CreateJob, CreateJobFails, Messages, Quiet
  <2> QED BY <2>1, <2>2 DEF OnePlace, Quiet
<1> QED BY <1>6, <1>7, <1>8, <1>9, <1>10, <1>11, <1>12 DEF JobRight

\* A job that is at no worker and in no queue, by its status.
LEMMA Resting ==
  ASSUME JobRight, OneRunAtATime, status \notin {"pending", "in progress", "error"}
  PROVE  Quiet /\ ~checking
BY DEF JobRight, OneRun, OnePlace, AtWorker

LEMMA CancelRight ==
  ASSUME JobRight, CancelJob \/ CancelLetterJob
  PROVE  JobRight'
<1>1. TypeOK'
  BY PlainTypes DEF JobRight
<1>2. /\ status \in {"scheduled", "finished all notifications created"} /\ status' = "cancelled"
      /\ UNCHANGED <<file, save, created, delivers, batches, jobMsgs, resumeMsgs, checking,
                     overdue, worker, faults>>
      /\ status # "scheduled" => file.letter
  BY DEF CancelJob, CancelLetterJob, Notifying, Messages, Clock
<1>3. OneRun'
  <2> SUFFICES ASSUME OneRunAtATime'
               PROVE  /\ OnePlace' /\ ~checking'
                      /\ NothingMade' \/ (file'.letter /\ CreatedRows' = Rows')
    BY <1>2 DEF OneRun
  <2>1. OneRunAtATime
    BY <1>2 DEF OneRunAtATime
  <2>2. Quiet /\ ~checking
    BY <1>2, <2>1, Resting
  <2>3. OnePlace' /\ ~checking'
    BY <1>2, <2>2 DEF OnePlace, Quiet, AllIdle
  <2>4. CASE status = "scheduled"
    <3>1. NothingMade
      BY <2>1, <2>4 DEF JobRight, OneRun
    <3> QED BY <1>2, <2>3, <3>1, MadeSame
  <2>5. CASE status # "scheduled"
    <3>1. CreatedRows = Rows /\ file.letter
      BY <1>2, <2>5 DEF JobRight, AllMeansAll
    <3> QED BY <1>2, <2>3, <3>1 DEF CreatedRows, Rows
  <2> QED BY <2>4, <2>5
<1> QED BY <1>1, <1>2, <1>3, PlainKeep

LEMMA ArchiveRight ==
  ASSUME JobRight, ArchiveService
  PROVE  JobRight'
<1>1. TypeOK'
  BY PlainTypes DEF JobRight
<1>2. UNCHANGED <<file, save, created, delivers, batches, jobMsgs, resumeMsgs, checking,
                  overdue, worker, faults, status>>
  BY DEF ArchiveService, Notifying, Messages, Clock
<1>3. \A w \in Workers : AtWorker(w) => AtWorker(w)'
  BY <1>2 DEF AtWorker, NothingMade
<1>4. OnePlace => OnePlace'
  BY <1>2, <1>3 DEF OnePlace, Quiet, AllIdle
<1>5. OneRun'
  <2>1. NothingMade' <=> NothingMade
    BY <1>2, MadeSame
  <2>2. CreatedRows' = CreatedRows /\ Rows' = Rows /\ file' = file
    BY <1>2 DEF CreatedRows, Rows
  <2>3. OneRunAtATime' <=> OneRunAtATime
    BY <1>2 DEF OneRunAtATime
  <2> QED BY <1>2, <1>4, <2>1, <2>2, <2>3 DEF JobRight, OneRun
<1>6. AllMeansAll'
  BY <1>2 DEF JobRight, AllMeansAll, CreatedRows, Rows
<1>7. BeforeUpload' /\ RunsStop'
  BY <1>2 DEF JobRight, BeforeUpload, Quiet, AllIdle, RunsStop
<1>8. RowsFit'
  BY <1>2 DEF JobRight, RowsFit, Fits, Rows
<1>9. DeliveryInv'
  BY <1>2, StutterKeeps DEF JobRight
<1> QED BY <1>1, <1>5, <1>6, <1>7, <1>8, <1>9 DEF JobRight

LEMMA ScheduledRight ==
  ASSUME JobRight, RunScheduledJob
  PROVE  JobRight'
<1>1. TypeOK'
  BY PlainTypes DEF JobRight
<1>2. /\ status = "scheduled" /\ status' = "pending"
      /\ UNCHANGED <<file, save, created, delivers, batches, resumeMsgs, checking, worker>>
      /\ faults \subseteq faults'
  BY DEF RunScheduledJob, Notifying, Fault
<1>3. ~overdue' /\ (jobMsgs' = jobMsgs \/ jobMsgs' = jobMsgs + 1)
  BY DEF RunScheduledJob
<1>4. OneRun'
  <2> SUFFICES ASSUME OneRunAtATime'
               PROVE  OnePlace' /\ ~checking' /\ NothingMade'
    BY <1>2 DEF OneRun
  <2>1. OneRunAtATime
    BY <1>2 DEF OneRunAtATime
  <2>2. Quiet /\ ~checking
    BY <1>2, <2>1, Resting
  <2>3. NothingMade
    BY <1>2, <2>1 DEF JobRight, OneRun
  <2>4. ~checking' /\ resumeMsgs' = 0 /\ AllIdle'
    BY <1>2, <2>2 DEF Quiet, AllIdle
  <2>5. jobMsgs' = 0 \/ jobMsgs' = 1
    BY <1>3, <2>2 DEF Quiet
  <2>6. OnePlace'
    BY <1>2, <1>3, <2>4, <2>5 DEF OnePlace, Quiet
  <2> QED BY <1>2, <2>3, <2>4, <2>6, MadeSame
<1> QED BY <1>1, <1>2, <1>4, PlainKeep

LEMMA RedeliverRight ==
  ASSUME JobRight, RedeliverJob
  PROVE  JobRight'
<1>1. TypeOK'
  BY PlainTypes DEF JobRight
<1>2. /\ UNCHANGED <<file, save, created, delivers, batches, worker, status>>
      /\ "redelivery" \in faults'
  BY DEF RedeliverJob, Notifying, Fault
<1>3. status # "none"
  BY DEF JobRight, BeforeUpload, Quiet, RedeliverJob
<1>4. OneRun'
  BY <1>2 DEF OneRun, OneRunAtATime
<1> QED BY <1>1, <1>2, <1>3, <1>4, PlainKeep

\* check_for_missing_rows_in_completed_jobs only counts: as many notifications as
\* rows, each with a row of its own, are one for each row.
LEMMA CountedAll ==
  ASSUME JobRight, HasAllRows
  PROVE  CreatedRows = Rows
<1> DEFINE f == [i \in created |-> i[1]]
<1>1. file.size \in Nat /\ Cardinality(created) = file.size
  BY FileOK DEF HasAllRows, JobRight, FileTyped
<1>2. IsFiniteSet(Rows) /\ Cardinality(Rows) = file.size
  <2>1. 0 \in Int /\ file.size - 1 \in Int
    BY <1>1
  <2>2. /\ IsFiniteSet(0..(file.size - 1))
        /\ Cardinality(0..(file.size - 1)) = IF 0 > file.size - 1 THEN 0 ELSE (file.size - 1) - 0 + 1
    BY <2>1, FS_Interval
  <2>3. (IF 0 > file.size - 1 THEN 0 ELSE (file.size - 1) - 0 + 1) = file.size
    BY <1>1
  <2> QED BY <2>2, <2>3 DEF Rows
<1>3. \A i \in created : i[1] \in Rows
  BY DEF JobRight, RowsFit
<1>4. \A i, j \in created : i[1] = j[1] => i = j
  BY DEF JobRight, DeliveryInv, OneTaskDelivers
<1>5. f \in [created -> Rows] /\ \A i \in created : f[i] = i[1]
  BY <1>3
<1>6. \A i, j \in created : f[i] = f[j] => i = j
  BY <1>4, <1>5
<1> HIDE DEF f
<1>7. f \in Injection(created, Rows)
  BY <1>5, <1>6 DEF Injection, IsInjective
<1>8. f \in Surjection(created, Rows)
  BY <1>1, <1>2, <1>7, FS_Injection
<1>9. \A r \in Rows : \E i \in created : f[i] = r
  BY <1>8 DEF Surjection
<1>10. Rows \subseteq CreatedRows
  BY <1>5, <1>9 DEF CreatedRows
<1> QED BY <1>3, <1>10 DEF CreatedRows

LEMMA BusyIs ==
  ASSUME TypeOK
  PROVE  ~Busy <=> Quiet
<1>1. jobMsgs \in Nat /\ resumeMsgs \in Nat
  BY DEF TypeOK
<1>2. jobMsgs + resumeMsgs > 0 <=> ~(jobMsgs = 0 /\ resumeMsgs = 0)
  BY <1>1
<1> QED BY <1>2 DEF Busy, Quiet, AllIdle

LEMMA TickRight ==
  ASSUME JobRight, Tick
  PROVE  JobRight'
<1>0. TypeOK
  BY DEF JobRight
<1>1. TypeOK'
  BY <1>0, PlainTypes
<1>2. /\ status \in {"in progress", "pending", "finished"}
      /\ UNCHANGED <<file, save, created, delivers, batches, jobMsgs, resumeMsgs, checking,
                     worker, status>>
      /\ faults \subseteq faults'
  BY DEF Tick, Notifying, Messages, Fault
<1>3. overdue' = overdue \/ Quiet \/ "slow" \in faults'
  BY <1>0, BusyIs DEF Tick, Fault
<1>4. OneRun'
  <2> SUFFICES ASSUME OneRunAtATime'
               PROVE  /\ OnePlace' /\ ~checking'
                      /\ status' = "pending" => NothingMade'
    BY <1>2 DEF OneRun
  <2>1. OneRunAtATime /\ "slow" \notin faults'
    BY <1>2 DEF OneRunAtATime
  <2>2. /\ OnePlace
        /\ ~checking
        /\ status = "pending" => NothingMade
    BY <1>2, <2>1 DEF JobRight, OneRun
  <2>3. NothingMade' <=> NothingMade
    BY <1>2, MadeSame
  <2>4. CASE Quiet
    <3>1. Quiet'
      BY <1>2, <2>4 DEF Quiet, AllIdle
    <3>2. ~checking'
      BY <1>2, <2>2
    <3>3. status' = "pending" => NothingMade'
      BY <1>2, <2>2, <2>3
    <3> QED BY <3>1, <3>2, <3>3 DEF OnePlace
  <2>5. CASE overdue' = overdue
    <3>1. \A w \in Workers : AtWorker(w) => AtWorker(w)'
      BY <1>2, <2>3 DEF AtWorker
    <3>2. OnePlace'
      BY <1>2, <2>2, <2>5, <3>1 DEF OnePlace, Quiet, AllIdle
    <3>3. ~checking'
      BY <1>2, <2>2
    <3>4. status' = "pending" => NothingMade'
      BY <1>2, <2>2, <2>3
    <3> QED BY <3>2, <3>3, <3>4
  <2> QED BY <1>3, <2>1, <2>4, <2>5
<1> QED BY <1>1, <1>2, <1>4, PlainKeep

LEMMA CheckStatusRight ==
  ASSUME JobRight, CheckJobStatus
  PROVE  JobRight'
<1>1. TypeOK'
  BY PlainTypes DEF JobRight
<1>2. /\ status \in {"in progress", "pending"} /\ status' = "error"
      /\ UNCHANGED <<file, save, created, delivers, batches, jobMsgs, resumeMsgs, worker, faults>>
  BY DEF CheckJobStatus, Notifying, Messages
<1>3. overdue
  BY DEF CheckJobStatus
<1>4. OneRun'
  <2> SUFFICES ASSUME OneRunAtATime'
               PROVE  OnePlace'
    BY <1>2 DEF OneRun
  <2>1. OneRunAtATime
    BY <1>2 DEF OneRunAtATime
  <2>2. OnePlace
    BY <2>1 DEF JobRight, OneRun
  <2>3. Quiet
    BY <1>2, <1>3, <2>2 DEF OnePlace
  <2> QED BY <1>2, <2>3 DEF OnePlace, Quiet, AllIdle
<1> QED BY <1>1, <1>2, <1>4, PlainKeep

LEMMA QueueResumeRight ==
  ASSUME JobRight, QueueResume
  PROVE  JobRight'
<1>1. TypeOK'
  BY PlainTypes DEF JobRight
<1>2. /\ UNCHANGED <<file, save, created, delivers, batches, jobMsgs, worker, status>>
      /\ faults \subseteq faults'
  BY DEF QueueResume, Notifying, Fault
<1>3. checking /\ ~checking' /\ (resumeMsgs' = resumeMsgs \/ resumeMsgs' = resumeMsgs + 1)
  BY DEF QueueResume
<1>4. status # "none"
  BY <1>3 DEF JobRight, BeforeUpload
<1>5. OneRun'
  <2> SUFFICES ASSUME OneRunAtATime'
               PROVE  OnePlace' /\ status' = "error"
    BY <1>3 DEF OneRun
  <2>1. OneRunAtATime
    BY <1>2 DEF OneRunAtATime
  <2>2. OnePlace /\ status = "error"
    BY <1>3, <2>1 DEF JobRight, OneRun
  <2>3. Quiet
    BY <1>3, <2>2 DEF OnePlace
  <2>4. jobMsgs' = 0 /\ AllIdle' /\ status' = "error"
    BY <1>2, <2>2, <2>3 DEF Quiet, AllIdle
  <2>5. resumeMsgs' = 0 \/ resumeMsgs' = 1
    BY <1>3, <2>3 DEF Quiet
  <2> QED BY <1>3, <2>4, <2>5 DEF OnePlace, Quiet
<1> QED BY <1>1, <1>2, <1>4, <1>5, PlainKeep

LEMMA MarkRight ==
  ASSUME JobRight, MarkAllCreated
  PROVE  JobRight'
<1>1. TypeOK'
  BY PlainTypes DEF JobRight
<1>2. /\ status = "finished" /\ status' = "finished all notifications created"
      /\ UNCHANGED <<file, save, created, delivers, batches, jobMsgs, resumeMsgs, checking,
                     worker, faults>>
  BY DEF MarkAllCreated, Notifying, Messages
<1>3. CreatedRows = Rows
  BY CountedAll DEF MarkAllCreated
<1>4. OneRun'
  <2> SUFFICES ASSUME OneRunAtATime'
               PROVE  OnePlace' /\ ~checking'
    BY <1>2 DEF OneRun
  <2>1. OneRunAtATime
    BY <1>2 DEF OneRunAtATime
  <2>2. Quiet /\ ~checking
    BY <1>2, <2>1, Resting
  <2> QED BY <1>2, <2>2 DEF OnePlace, Quiet, AllIdle
<1> QED BY <1>1, <1>2, <1>3, <1>4, PlainKeep

-----------------------------------------------------------------------------
(* The theorems.                                                           *)

LEMMA JobRightInit == Init => JobRight
<1> SUFFICES ASSUME Init PROVE JobRight
  OBVIOUS
<1>1. /\ created = {} /\ batches = {} /\ jobMsgs = 0 /\ resumeMsgs = 0
      /\ status = "none" /\ file = NoFile /\ faults = {}
  BY DEF Init
<1>2. ~checking /\ ~overdue
  BY DEF Init
<1>3. AllIdle
  BY DEF Init, AllIdle, IdleWorker
<1>4. \A i \in Ids : save[i].pc = "none"
  BY NoSaveType DEF Init
<1>5. NothingMade /\ Quiet
  BY <1>1, <1>3, <1>4 DEF NothingMade, Quiet
<1>6. TypeOK
  <2>1. IdleWorker \in [pc : WorkerPCs, from : 0..MaxSize]
    BY Bounds DEF IdleWorker, WorkerPCs
  <2>2. worker \in [Workers -> [pc : WorkerPCs, from : 0..MaxSize]]
    BY <2>1 DEF Init
  <2>3. NoSave \in [pc : SavePCs, tries : 0..MaxRetries]
    BY SavingTyped DEF Saving
  <2>4. save \in [Ids -> [pc : SavePCs, tries : 0..MaxRetries]]
    BY <2>3 DEF Init
  <2>5. delivers \in [0..(MaxSize - 1) -> Nat]
    BY DEF Init
  <2>6. {scheduled, overdue, settled, active, checking} \subseteq BOOLEAN
    BY DEF Init
  <2>7. jobMsgs \in Nat /\ resumeMsgs \in Nat /\ status \in Statuses
    BY <1>1 DEF Statuses
  <2> QED BY <1>1, <2>2, <2>4, <2>5, <2>6, <2>7 DEF TypeOK
<1>7. DeliveryInv
  <2>1. SavesTyped
    BY NoSaveType DEF Init, SavesTyped, RowNumbers
  <2>2. \A r \in RowNumbers : delivers[r] = 0
    BY DEF Init, RowNumbers
  <2> QED BY <1>1, <1>4, <2>1, <2>2 DEF DeliveryInv, OneTaskDelivers
<1>8. BeforeUpload /\ AllMeansAll
  BY <1>1, <1>2, <1>5 DEF BeforeUpload, AllMeansAll
<1>9. RowsFit /\ RunsStop
  BY <1>1, <1>3, <1>4 DEF RowsFit, RunsStop, AllIdle
<1>10. OneRun
  BY <1>1, <1>2, <1>5 DEF OneRun, OnePlace
<1> QED BY <1>6, <1>7, <1>8, <1>9, <1>10 DEF JobRight

LEMMA SaveDelivers ==
  ASSUME DeliveryInv, NEW i \in Ids, Save(i) \/ CrashSave(i) \/ RedeliverSave(i)
  PROVE  DeliveryInv'
<1>1. CASE SaveRestricted(i) \/ CrashSave(i)
  <2>1. SetSave(i, NoSave) /\ created' = created /\ delivers' = delivers
    BY <1>1 DEF SaveRestricted, CrashSave
  <2> QED BY <2>1, NoSaveType, SetSaveKeeps
<1>2. CASE SaveRow(i)
  BY <1>2, SaveRowKeeps
<1>3. CASE SaveFails(i)
  <2>1. /\ save[i].pc = "queued" /\ HandleException(i)
        /\ created' = created /\ delivers' = delivers
    BY <1>3 DEF SaveFails
  <2> QED BY <2>1, HandleExceptionKeeps
<1>4. CASE QueueDelivery(i)
  BY <1>4, QueueDeliveryKeeps
<1>5. CASE RedeliverSave(i)
  <2>1. /\ SetSave(i, [pc |-> "queued", tries |-> 0])
        /\ created' = created /\ delivers' = delivers
    BY <1>5 DEF RedeliverSave
  <2>2. /\ [pc |-> "queued", tries |-> 0] \in SaveState
        /\ [pc |-> "queued", tries |-> 0].pc # "saved"
    BY QueuedType
  <2> QED BY <2>1, <2>2, SetSaveKeeps
<1> QED BY <1>1, <1>2, <1>3, <1>4, <1>5 DEF Save

LEMMA StutterRight ==
  ASSUME JobRight, UNCHANGED vars
  PROVE  JobRight'
<1>1. /\ UNCHANGED <<file, status, scheduled, overdue, settled, active, jobMsgs, resumeMsgs>>
      /\ UNCHANGED <<checking, worker, batches, save, created, delivers, faults>>
  BY DEF vars
<1>2. TypeOK' /\ BeforeUpload' /\ RunsStop' /\ AllMeansAll'
  BY <1>1 DEF JobRight, TypeOK, Rows, BeforeUpload, Quiet, AllIdle, RunsStop, AllMeansAll,
              CreatedRows
<1>3. DeliveryInv'
  BY <1>1, StutterKeeps DEF JobRight
<1>4. RowsFit'
  BY <1>1 DEF JobRight, RowsFit, Fits, Rows
<1>5. OneRun'
  <2>1. \A w \in Workers : AtWorker(w) => AtWorker(w)'
    BY <1>1 DEF AtWorker, NothingMade
  <2>2. OnePlace => OnePlace'
    BY <1>1, <2>1 DEF OnePlace, Quiet, AllIdle
  <2>3. NothingMade' <=> NothingMade
    BY <1>1, MadeSame
  <2>4. CreatedRows' = CreatedRows /\ Rows' = Rows /\ file' = file
    BY <1>1 DEF CreatedRows, Rows
  <2>5. OneRunAtATime' <=> OneRunAtATime
    BY <1>1 DEF OneRunAtATime
  <2> QED BY <1>1, <2>2, <2>3, <2>4, <2>5 DEF JobRight, OneRun
<1> QED BY <1>2, <1>3, <1>4, <1>5 DEF JobRight

LEMMA JobRightNext == JobRight /\ [Next]_vars => JobRight'
<1> SUFFICES ASSUME JobRight, [Next]_vars PROVE JobRight'
  OBVIOUS
<1>1. CASE UNCHANGED vars
  BY <1>1, StutterRight
<1>2. ASSUME NEW f \in Files, CreateJob(f) \/ CreateJobFails(f) PROVE JobRight'
  BY <1>2, UploadRight
<1>3. ASSUME NEW w \in Workers, ProcessJob(w) \/ StartResume(w) \/ Work(w) \/ CrashWorker(w)
      PROVE  JobRight'
  BY <1>3, ProcessJobRight, StartResumeRight, StartJobRight, CheckJobRight, ResumeJobRight,
     QueueBatchRight, CompleteJobRight, CrashWorkerRight DEF Work
<1>4. ASSUME NEW b \in batches, Shatter(b) \/ ShatterCrash(b) PROVE JobRight'
  BY <1>4, ShatterRight
<1>5. ASSUME NEW i \in Ids, Save(i) \/ CrashSave(i) \/ RedeliverSave(i) PROVE JobRight'
  BY <1>5, SaveDelivers, SaveRight DEF JobRight
<1>6. CASE CancelJob \/ CancelLetterJob \/ ArchiveService \/ RunScheduledJob \/ RedeliverJob
  BY <1>6, CancelRight, ArchiveRight, ScheduledRight, RedeliverRight
<1>7. CASE Tick \/ CheckJobStatus \/ QueueResume \/ MarkAllCreated \/ QueueMissingRows
  BY <1>7, TickRight, CheckStatusRight, QueueResumeRight, MarkRight, MissingRight
<1> QED BY <1>1, <1>2, <1>3, <1>4, <1>5, <1>6, <1>7 DEF Next

LEMMA NothingQueued ==
  ASSUME JobRight, Quiet, NEW w \in Workers
  PROVE  ~ProcessJob(w) /\ ~StartResume(w)
<1>1. jobMsgs = 0 /\ resumeMsgs = 0
  BY DEF Quiet
<1>2. ~(jobMsgs > 0) /\ ~(resumeMsgs > 0)
  BY <1>1
<1> QED BY <1>2 DEF ProcessJob, StartResume

LEMMA JobRightAlways == Spec => []JobRight
BY JobRightInit, JobRightNext, PTL DEF Spec

\* The save tasks queue no row for delivery twice, however many copies of
\* process_job, process_incomplete_jobs, the shatter tasks, the save tasks and the
\* repair of missing rows there are, and whatever is lost or delivered twice.
THEOREM DeliveredOnceAlways == Spec => []DeliveredOnce
<1>1. JobRight => DeliveredOnce
  BY DEF JobRight, DeliveryInv, OneTaskDelivers, DeliveredOnce, RowNumbers
<1> QED BY <1>1, JobRightAlways, PTL

\* Types hold, check_for_missing_rows_in_completed_jobs marks a job only when every
\* row has its notification, and a job with a row that fits in no message makes
\* nothing behind that row and is never taken for finished, however often
\* process_incomplete_jobs takes it up.
THEOREM JobFactsHold == Spec => []JobInv
<1>1. JobRight => JobInv
  <2> SUFFICES ASSUME JobRight PROVE NothingBeyondHuge
    BY DEF JobInv, JobRight
  <2>1. ASSUME file.huge # {}, NEW r \in CreatedRows PROVE r < Min(file.huge)
    <3>1. file.huge \in SUBSET Nat
      BY FileOK DEF JobRight, Rows, FileTyped
    <3>2. Min(file.huge) \in file.huge
      BY <2>1, <3>1, MinOf
    <3>3. Fits(r)
      BY DEF JobRight, RowsFit, CreatedRows
    <3> QED BY <3>2, <3>3 DEF Fits
  <2> QED BY <2>1 DEF NothingBeyondHuge, JobRight, RunsStop
<1> QED BY <1>1, JobRightAlways, PTL

\* Unless runs overlap, what cancel_job cancelled, or process_job of an inactive
\* service, made nothing and has nothing queued; a letter job that
\* cancel_letter_job cancelled has all its notifications.
THEOREM CancelledStaysEmpty == Spec => []CancelledMakesNothing
<1>1. JobRight => CancelledMakesNothing
  <2> SUFFICES ASSUME JobRight, OneRunAtATime, status = "cancelled"
               PROVE  \/ /\ created = {} /\ batches = {} /\ ~Busy
                         /\ \A i \in Ids : save[i].pc = "none"
                      \/ file.letter /\ CreatedRows = Rows
    BY DEF CancelledMakesNothing
  <2>1. ~Busy
    BY Resting, BusyIs DEF JobRight
  <2>2. NothingMade \/ (file.letter /\ CreatedRows = Rows)
    BY DEF JobRight, OneRun
  <2> QED BY <2>1, <2>2 DEF NothingMade
<1> QED BY <1>1, JobRightAlways, PTL

\* _shatter_job_rows_with_subdivision queues each row in front of the first that
\* fits in no message once, for any batch and any limit.
THEOREM SubdivisionIsExact == Spec => []SubdivisionExact
<1>1. JobRight => SubdivisionExact
  BY FileOK, ExactFromTypes DEF JobRight
<1> QED BY <1>1, JobRightAlways, PTL

\* Unless runs overlap, neither process_job nor a scheduled check takes up a job
\* that was cancelled or has all its notifications.
THEOREM EndedStaysEnded == Spec => EndsForGood
<1> DEFINE Ends == OneRunAtATime =>
             /\ status = "cancelled" => status' = "cancelled"
             /\ status = "finished all notifications created"
                  => status' \in {status, "cancelled"}
<1>1. JobRight /\ [Next]_vars => Ends
  <2> SUFFICES ASSUME JobRight, [Next]_vars, OneRunAtATime,
                      status \in {"cancelled", "finished all notifications created"}
               PROVE  /\ status = "cancelled" => status' = "cancelled"
                      /\ status = "finished all notifications created"
                           => status' \in {status, "cancelled"}
    OBVIOUS
  <2>1. Quiet
    BY Resting
  <2>2. ASSUME NEW f \in Files, CreateJob(f) \/ CreateJobFails(f) PROVE FALSE
    BY <2>2 DEF CreateJob, CreateJobFails, Upload
  <2>3. ASSUME NEW w \in Workers, Work(w) \/ CrashWorker(w) PROVE FALSE
    BY <2>1, <2>3 DEF Work, StartJob, CheckJob, ResumeJob, QueueBatch, CompleteJob, CrashWorker,
                      Quiet, AllIdle
  <2>4. ASSUME NEW w \in Workers, ProcessJob(w) \/ StartResume(w) PROVE FALSE
    BY <2>1, <2>4, NothingQueued
  <2>5. ASSUME NEW b \in batches, Shatter(b) \/ ShatterCrash(b) PROVE status' = status
    BY <2>5 DEF Shatter, ShatterCrash
  <2>6. ASSUME NEW i \in Ids, Save(i) \/ CrashSave(i) \/ RedeliverSave(i)
        PROVE  status' = status
    BY <2>6 DEF Save, SaveRestricted, SaveRow, SaveFails, QueueDelivery, CrashSave, RedeliverSave
  <2>7. CASE CancelJob \/ CancelLetterJob
    BY <2>7 DEF CancelJob, CancelLetterJob
  <2>8. CASE ArchiveService \/ RedeliverJob \/ Tick \/ QueueResume \/ QueueMissingRows
    BY <2>8 DEF ArchiveService, RedeliverJob, Tick, QueueResume, QueueMissingRows
  <2>9. CASE RunScheduledJob \/ CheckJobStatus \/ MarkAllCreated
    BY <2>9 DEF RunScheduledJob, CheckJobStatus, MarkAllCreated
  <2>10. CASE UNCHANGED vars
    BY <2>10 DEF vars
  <2> QED BY <2>2, <2>3, <2>4, <2>5, <2>6, <2>7, <2>8, <2>9, <2>10 DEF Next
<1> QED BY <1>1, JobRightAlways, PTL DEF Spec, EndsForGood
=============================================================================
