--------------------------- MODULE PipelineProofs ---------------------------
(***************************************************************************)
(* What holds of the pipeline for every price table, calendar and program. *)
(***************************************************************************)
EXTENDS PipelineProperties, TotalsProofs, FiniteSetTheorems

-----------------------------------------------------------------------------
(* Loops over an index.                                                    *)

\* Of the indices at which something fails, if any, one is the first.
LEMMA FirstFailure ==
  ASSUME NEW n \in Nat, NEW B \in SUBSET (0..n), B # {}
  PROVE  0 \in B \/ \E m \in 1..n : m \in B /\ m - 1 \in 0..n /\ m - 1 \notin B
<1>1. B \in SUBSET Nat
  OBVIOUS
<1>2. PICK m \in B : \A k \in B : m <= k
  BY <1>1, LeastNatural
<1>3. CASE m = 0
  BY <1>2, <1>3
<1>4. CASE m # 0
  <2>1. m \in 0..n
    BY <1>2
  <2>2. m \in 1..n /\ m - 1 \in 0..n /\ ~ (m <= m - 1)
    BY <2>1, <1>4
  <2>. QED  BY <1>2, <2>2
<1>. QED  BY <1>3, <1>4

LEMMA Grown ==
  ASSUME NEW U
  PROVE  Nothing \in Seq(U) /\ \A q \in Seq(U), x \in U : Append(q, x) \in Seq(U)
BY DEF Nothing

\* What is kept of a sequence is a sequence of what was in it.
LEMMA KeptSeq ==
  ASSUME NEW T, NEW seq \in Seq(T), NEW S
  PROVE  Kept(seq, S) \in Seq(S \cap T)
<1>. DEFINE n == Len(seq)
            Step(h, k) == IF k = 0 THEN Nothing
                          ELSE IF seq[k] \in S THEN Append(h[k-1], seq[k]) ELSE h[k-1]
            P(h) == h = [k \in 0..n |-> Step(h, k)]
            s == CHOOSE h : P(h)
<1>1. n \in Nat /\ \A k \in 1..n : seq[k] \in T
  OBVIOUS
<1>. HIDE DEF n
<1>2. \E h : P(h)
  <2>. DEFINE B == {m \in 0..n : ~ \E h : h = [k \in 0..m |-> Step(h, k)]}
  <2>1. 0 \notin B
    <3>. DEFINE g == [k \in 0..0 |-> Nothing]
    <3>1. g = [k \in 0..0 |-> Step(g, k)]
      OBVIOUS
    <3>. QED  BY <3>1
  <2>2. ASSUME NEW m \in 1..n, m - 1 \in 0..n, m - 1 \notin B PROVE m \notin B
    <3>1. m \in Nat /\ m # 0 /\ 0..(m-1) \subseteq 0..m /\ \A k \in 0..m : k # m => k \in 0..(m-1)
      BY <1>1
    <3>2. PICK h : h = [k \in 0..(m-1) |-> Step(h, k)]
      BY <2>2
    <3>. DEFINE g == [k \in 0..m |-> IF k = m THEN Step(h, m) ELSE h[k]]
    <3>3. \A k \in 0..m : g[k] = IF k = m THEN Step(h, m) ELSE h[k]
      OBVIOUS
    <3>4. \A k \in 1..m : g[k-1] = h[k-1]
      BY <3>1, <3>3
    <3>5. ASSUME NEW k \in 0..m PROVE g[k] = Step(g, k)
      <4>1. CASE k = m
        BY <3>1, <3>3, <3>4, <4>1
      <4>2. CASE k # m
        <5>1. k \in 0..(m-1) /\ h[k] = Step(h, k)
          BY <3>1, <3>2, <4>2
        <5>2. k = 0 \/ g[k-1] = h[k-1]
          BY <3>1, <3>4
        <5>. QED  BY <3>3, <4>2, <5>1, <5>2
      <4>. QED  BY <4>1, <4>2
    <3>6. g = [k \in 0..m |-> g[k]]
      OBVIOUS
    <3>. HIDE DEF g
    <3>7. g = [k \in 0..m |-> Step(g, k)]
      BY <3>5, <3>6
    <3>. QED  BY <3>7
  <2>3. B = {}
    <3>1. B \in SUBSET (0..n)
      OBVIOUS
    <3>. HIDE DEF B
    <3>. QED  BY <1>1, <2>1, <2>2, <3>1, FirstFailure
  <2>4. n \in 0..n
    BY <1>1
  <2>. QED  BY <2>3, <2>4
<1>3. P(s)
  BY <1>2, Zenon
<1>4. Kept(seq, S) = s[n]
  BY Zenon DEF Kept, n
<1>. HIDE DEF s
<1>5. \A k \in 0..n : s[k] = Step(s, k)
  BY <1>3
<1>. DEFINE B == {k \in 0..n : s[k] \notin Seq(S \cap T)}
<1>6. 0 \notin B
  <2>1. 0 \in 0..n
    BY <1>1
  <2>. QED  BY <2>1, <1>5, Grown
<1>7. ASSUME NEW m \in 1..n, m - 1 \in 0..n, m - 1 \notin B PROVE m \notin B
  <2>1. s[m-1] \in Seq(S \cap T)
    BY <1>7
  <2>2. s[m] = IF seq[m] \in S THEN Append(s[m-1], seq[m]) ELSE s[m-1]
    BY <1>1, <1>5
  <2>3. seq[m] \in T
    BY <1>1
  <2>4. s[m] \in Seq(S \cap T)
    BY <2>1, <2>2, <2>3, Grown
  <2>. QED  BY <2>4
<1>8. B = {}
  <2>1. B \in SUBSET (0..n)
    OBVIOUS
  <2>. HIDE DEF B
  <2>. QED  BY <1>1, <1>6, <1>7, <2>1, FirstFailure
<1>. QED  BY <1>1, <1>4, <1>8
LEMMA IsASeq ==
  ASSUME NEW T, NEW n \in Nat, NEW q, q = [i \in 1..n |-> q[i]], \A i \in 1..n : q[i] \in T
  PROVE  q \in Seq(T) /\ Len(q) = n
OBVIOUS

LEMMA SeqParts ==
  ASSUME NEW U, NEW q \in Seq(U)
  PROVE  q = [i \in 1..Len(q) |-> q[i]] /\ Len(q) \in Nat /\ \A i \in 1..Len(q) : q[i] \in U
OBVIOUS

LEMMA Appended ==
  ASSUME NEW U, NEW q \in Seq(U), NEW x \in U
  PROVE  /\ Append(q, x) \in Seq(U) /\ Len(Append(q, x)) = Len(q) + 1
         /\ \A i \in 1..(Len(q) + 1) : Append(q, x)[i] = IF i = Len(q) + 1 THEN x ELSE q[i]
OBVIOUS

LEMMA SeqWider ==
  ASSUME NEW S, NEW T, S \subseteq T, NEW q \in Seq(S)
  PROVE  q \in Seq(T)
<1>1. q = [i \in 1..Len(q) |-> q[i]] /\ Len(q) \in Nat /\ \A i \in 1..Len(q) : q[i] \in T
  OBVIOUS
<1>. QED  BY <1>1, IsASeq

-----------------------------------------------------------------------------
(* What each class of algos may change.                                    *)

\* The parts of the context that no algo writes.
SameDate(c, d) == d.day = c.day /\ d.prices = c.prices /\ d.history = c.history

AskedOutcome(r, s, c) ==
  /\ r = [s |-> r.s, c |-> c, status |-> r.status]
  /\ r.status \in {"continue", "skip_day"}
  /\ StateOK(r.s) /\ r.s.target = s.target /\ r.s.left = s.left

\* A scheduler or a guard leaves the context alone, and the target it remembers.
LEMMA Asks ==
  ASSUME NEW a, NEW s, NEW c, NEW draw, WellFormedAlgo(a), a.kind \in Asking,
         StateOK(s), ContextOK(c)
  PROVE  AskedOutcome(CallAlgo(a, s, c, draw), s, c)
<1>. DEFINE Fits(r) == AskedOutcome(r, s, c)
<1>1. ASSUME NEW key PROVE Fits(OncePer(key, s, c))
  BY DEF OncePer, Continue, Skip, StateOK, AskedOutcome
<1>2. ASSUME NEW t, StateOK(t), t.target = s.target, t.left = s.left
      PROVE  Fits(Skip(t, c)) /\ Fits(Continue(t, c))
  BY <1>2 DEF Continue, Skip, AskedOutcome
<1>3. Fits(Skip(s, c)) /\ Fits(Continue(s, c))
  BY <1>2
<1>. SUFFICES Fits(CallAlgo(a, s, c, draw))
  OBVIOUS
<1>. HIDE DEF Fits
<1>4. CASE a.kind = "RunMonthly"
  BY <1>1, <1>4 DEF CallAlgo, RunMonthly
<1>5. CASE a.kind = "RunWeekly"
  BY <1>1, <1>5 DEF CallAlgo, RunWeekly
<1>6. CASE a.kind = "RunQuarterly"
  BY <1>1, <1>6 DEF CallAlgo, RunQuarterly
<1>7. CASE a.kind = "RunYearly"
  BY <1>1, <1>7 DEF CallAlgo, RunYearly
<1>8. CASE a.kind = "RunOnce"
  BY <1>1, <1>8 DEF CallAlgo, RunOnce
<1>9. CASE a.kind = "RunDaily"
  BY <1>3, <1>9 DEF CallAlgo, RunDaily
<1>10. CASE a.kind = "RunOnDate"
  BY <1>3, <1>10 DEF CallAlgo, RunOnDate
<1>11. CASE a.kind = "RunAfterDate"
  BY <1>3, <1>11 DEF CallAlgo, RunAfterDate
<1>12. CASE a.kind = "RunEveryNPeriods"
  <2>. DEFINE t == [s EXCEPT !.count = s.count + 1]
  <2>1. StateOK(t) /\ t.target = s.target /\ t.left = s.left
    BY DEF StateOK
  <2>2. Fits(Skip(t, c)) /\ Fits(Continue(t, c))
    BY <2>1, <1>2
  <2>. QED  BY <2>2, <1>12 DEF CallAlgo, RunEveryNPeriods
<1>13. CASE a.kind = "RunAfterDays"
  <2>. DEFINE t == [s EXCEPT !.count = s.count + 1]
  <2>1. StateOK(t) /\ t.target = s.target /\ t.left = s.left
    BY DEF StateOK
  <2>2. Fits(Skip(t, c)) /\ Fits(Continue(t, c))
    BY <2>1, <1>2
  <2>. QED  BY <2>2, <1>13 DEF CallAlgo, RunAfterDays
<1>14. CASE a.kind = "RunIfOutOfBounds"
  BY <1>3, <1>14 DEF CallAlgo, RunIfOutOfBounds
<1>15. CASE a.kind = "MaxDrawdownGuard"
  <2>. DEFINE t == [s EXCEPT !.peak = IF c.total > s.peak THEN c.total ELSE s.peak]
  <2>1. StateOK(t) /\ t.target = s.target /\ t.left = s.left
    BY DEF StateOK, ContextOK
  <2>2. Fits(Skip(t, c)) /\ Fits(Continue(t, c))
    BY <2>1, <1>2
  <2>. QED  BY <2>2, <1>15 DEF CallAlgo, MaxDrawdownGuard
<1>. QED
  BY <1>4, <1>5, <1>6, <1>7, <1>8, <1>9, <1>10, <1>11, <1>12, <1>13, <1>14, <1>15 DEF Asking
-----------------------------------------------------------------------------
(* Rankings.                                                               *)

StrictOrder(D, R) ==
  /\ \A i \in D : <<i, i>> \notin R
  /\ \A i, j \in D : i # j => <<i, j>> \in R \/ <<j, i>> \in R
  /\ \A i, j, k \in D : <<i, j>> \in R /\ <<j, k>> \in R => <<i, k>> \in R

EachPlaceTaken(D, R) ==
  \A k \in 1..Cardinality(D) : \E i \in D : Cardinality({j \in D : <<j, i>> \in R}) = k - 1

\* In a finite strict order each place is taken.
LEMMA Ranked ==
  ASSUME NEW D, IsFiniteSet(D), NEW R, StrictOrder(D, R)
  PROVE  Cardinality(D) \in Nat /\ EachPlaceTaken(D, R)
<1>0. /\ \A i \in D : <<i, i>> \notin R
      /\ \A i, j \in D : i # j => <<i, j>> \in R \/ <<j, i>> \in R
      /\ \A i, j, k \in D : <<i, j>> \in R /\ <<j, k>> \in R => <<i, k>> \in R
  BY DEF StrictOrder
<1>. USE <1>0
<1>. DEFINE m == Cardinality(D)
            ahead(i) == {j \in D : <<j, i>> \in R}
            f == [i \in D |-> Cardinality(ahead(i))]
<1>1. m \in Nat
  BY FS_CardinalityType
<1>2. ASSUME NEW i \in D
      PROVE  IsFiniteSet(ahead(i)) /\ Cardinality(ahead(i)) \in 0..(m-1)
  <2>1. i \notin ahead(i) /\ ahead(i) \in SUBSET D /\ ahead(i) \in SUBSET (D \ {i})
    OBVIOUS
  <2>2. IsFiniteSet(D \ {i}) /\ Cardinality(D \ {i}) = m - 1
    BY FS_RemoveElement
  <2>. HIDE DEF ahead, m
  <2>3. IsFiniteSet(ahead(i)) /\ Cardinality(ahead(i)) <= m - 1
    BY <2>1, <2>2, FS_Subset
  <2>4. Cardinality(ahead(i)) \in Nat
    BY <2>3, FS_CardinalityType
  <2>. QED  BY <1>1, <2>3, <2>4
<1>3. ASSUME NEW i \in D, NEW j \in D, <<i, j>> \in R
      PROVE  Cardinality(ahead(i)) # Cardinality(ahead(j))
  <2>1. ahead(i) \in SUBSET ahead(j) /\ i \in ahead(j) /\ i \notin ahead(i)
    BY <1>3
  <2>2. IsFiniteSet(ahead(j))
    BY <1>2
  <2>. HIDE DEF ahead
  <2>. QED  BY <2>1, <2>2, FS_Subset
<1>4. ASSUME NEW k \in 1..m, \A i \in D : Cardinality(ahead(i)) # k - 1
      PROVE  FALSE
  <2>. DEFINE T == (0..(m-1)) \ {k - 1}
  <2>1. IsFiniteSet(0..(m-1)) /\ Cardinality(0..(m-1)) = m
    <3>1. m - 1 \in Int /\ 0 \in Int
      BY <1>1
    <3>. HIDE DEF m
    <3>2. IsFiniteSet(0..(m-1)) /\ Cardinality(0..(m-1)) = IF 0 > m - 1 THEN 0 ELSE (m-1) - 0 + 1
      BY <3>1, FS_Interval
    <3>. QED  BY <1>1, <3>2
  <2>2. k - 1 \in 0..(m-1)
    BY <1>1
  <2>3. IsFiniteSet(T) /\ Cardinality(T) = m - 1
    <3>. HIDE DEF m
    <3>. DEFINE I == 0..(m-1)
                x == k - 1
    <3>1. IsFiniteSet(I) /\ Cardinality(I) = m /\ x \in I
      BY <2>1, <2>2
    <3>. HIDE DEF I, x
    <3>2. IsFiniteSet(I \ {x}) /\ Cardinality(I \ {x}) = m - 1
      BY <3>1, FS_RemoveElement
    <3>. QED  BY <3>2 DEF I, x
  <2>4. f \in [D -> T]
    <3>. HIDE DEF ahead, m
    <3>. QED  BY <1>2, <1>4
  <2>5. Cardinality(T) < Cardinality(D)
    BY <1>1, <2>3
  <2>. HIDE DEF f, T
  <2>6. PICK x \in D, y \in D : x # y /\ f[x] = f[y]
    BY <2>3, <2>4, <2>5, FS_PigeonHole
  <2>7. Cardinality(ahead(x)) = Cardinality(ahead(y))
    BY <2>6 DEF f
  <2>8. <<x, y>> \in R \/ <<y, x>> \in R
    BY <2>6
  <2>. HIDE DEF ahead
  <2>. QED  BY <1>3, <2>7, <2>8
<1>. QED  BY <1>1, <1>4 DEF EachPlaceTaken

\* Fractions with positive denominators compare transitively.
LEMMA Fractions ==
  ASSUME NEW v1 \in Nat, NEW v2 \in Nat, NEW v3 \in Nat,
         NEW w1 \in Nat \ {0}, NEW w2 \in Nat \ {0}, NEW w3 \in Nat \ {0}
  PROVE  /\ v1 * w2 >= v2 * w1 /\ v2 * w3 >= v3 * w2 => v1 * w3 >= v3 * w1
         /\ v1 * w2 > v2 * w1 /\ v2 * w3 >= v3 * w2 => v1 * w3 > v3 * w1
         /\ v1 * w2 >= v2 * w1 /\ v2 * w3 > v3 * w2 => v1 * w3 > v3 * w1
<1>1. ASSUME NEW a \in Nat, NEW b \in Nat, NEW k \in Nat \ {0}
      PROVE  (a >= b <=> a * k >= b * k) /\ (a > b <=> a * k > b * k)
  <2>1. k * b <= k * a => b <= a
    BY Cancel
  <2>2. k * a <= k * b => a <= b
    BY Cancel
  <2>3. b <= a => k * b <= k * a
    BY Widen
  <2>4. a <= b => k * a <= k * b
    BY Widen
  <2>5. k * a = a * k /\ k * b = b * k /\ a * k \in Nat /\ b * k \in Nat
    BY ProductNat
  <2>. QED  BY <2>1, <2>2, <2>3, <2>4, <2>5
<1>2. /\ v1 * w2 \in Nat /\ v2 * w1 \in Nat /\ v2 * w3 \in Nat /\ v3 * w2 \in Nat
      /\ v1 * w3 \in Nat /\ v3 * w1 \in Nat
  BY ProductNat
<1>3. (v1 * w2) * w3 = (v1 * w3) * w2 /\ (v2 * w1) * w3 = (v2 * w3) * w1 /\ (v3 * w2) * w1 = (v3 * w1) * w2
  OBVIOUS
<1>4. /\ (v1 * w2) * w3 \in Nat /\ (v2 * w1) * w3 \in Nat /\ (v3 * w2) * w1 \in Nat
  BY <1>2, ProductNat
<1>5. /\ v1 * w2 >= v2 * w1 <=> (v1 * w2) * w3 >= (v2 * w1) * w3
      /\ v1 * w2 > v2 * w1 <=> (v1 * w2) * w3 > (v2 * w1) * w3
  BY <1>1, <1>2
<1>6. /\ v2 * w3 >= v3 * w2 <=> (v2 * w3) * w1 >= (v3 * w2) * w1
      /\ v2 * w3 > v3 * w2 <=> (v2 * w3) * w1 > (v3 * w2) * w1
  BY <1>1, <1>2
<1>7. /\ v1 * w3 >= v3 * w1 <=> (v1 * w3) * w2 >= (v3 * w1) * w2
      /\ v1 * w3 > v3 * w1 <=> (v1 * w3) * w2 > (v3 * w1) * w2
  BY <1>1, <1>2
<1>. DEFINE X == (v1 * w2) * w3
            Y == (v2 * w1) * w3
            Z == (v3 * w2) * w1
<1>8. /\ X \in Nat /\ Y \in Nat /\ Z \in Nat
      /\ v1 * w2 >= v2 * w1 <=> X >= Y
      /\ v1 * w2 > v2 * w1 <=> X > Y
      /\ v2 * w3 >= v3 * w2 <=> Y >= Z
      /\ v2 * w3 > v3 * w2 <=> Y > Z
      /\ v1 * w3 >= v3 * w1 <=> X >= Z
      /\ v1 * w3 > v3 * w1 <=> X > Z
  BY <1>3, <1>4, <1>5, <1>6, <1>7, Zenon
<1>. HIDE DEF X, Y, Z
<1>9. /\ X >= Y /\ Y >= Z => X >= Z
      /\ X > Y /\ Y >= Z => X > Z
      /\ X >= Y /\ Y > Z => X > Z
  BY <1>8
<1>. QED  BY <1>8, <1>9, Zenon

-----------------------------------------------------------------------------
(* Selections.                                                             *)

SelectedOutcome(r, s, c, T) ==
  /\ r = [s |-> s, c |-> [c EXCEPT !.selected = r.c.selected], status |-> r.status]
  /\ r.status \in {"continue", "skip_day"}
  /\ r.c.selected \in Seq(T)

LEMMA ChosenOutcome ==
  ASSUME NEW T, NEW q \in Seq(T), NEW s, NEW c, ContextOK(c)
  PROVE  SelectedOutcome(Choose(q, s, c), s, c, T)
BY DEF SelectedOutcome, Choose, Continue, Skip, ContextOK

\* Trailing returns rank the candidates they are known for, each once.
LEMMA MomentumPlaces ==
  ASSUME NEW a, NEW s, NEW c, NEW T, ContextOK(c), a.n \in Nat, a.lookback \in Nat \ {0},
         T \subseteq Symbols, CandidatesOr(c, PricedColumns(c)) \in Seq(T)
  PROVE  SelectedOutcome(SelectMomentum(a, s, c), s, c, T)
<1>. DEFINE from == CandidatesOr(c, PricedColumns(c))
            window(x) == LastOf(Observed(c, x), a.lookback)
            scored == {i \in DOMAIN from : /\ Len(window(from[i])) >= 2 /\ window(from[i])[1] > 0
                                           /\ \A j \in 1..(i-1) : from[j] # from[i]}
            grew(x, y) == Last(window(x)) * window(y)[1] > Last(window(y)) * window(x)[1]
            above(x, y) == IF a.descending THEN grew(x, y) ELSE grew(y, x)
            goes(j, i) == \/ above(from[j], from[i])
                          \/ ~above(from[i], from[j]) /\ j < i
            ahead(i) == {j \in scored : goes(j, i)}
            place(k) == CHOOSE i \in scored : Cardinality(ahead(i)) = k - 1
            n == Cardinality(scored)
            m == IF a.n < n THEN a.n ELSE n
            q == [k \in 1..m |-> from[place(k)]]
<1>1. SelectMomentum(a, s, c) = Choose(q, s, c)
  BY DEF SelectMomentum
<1>2. scored \subseteq 1..Len(from) /\ Len(from) \in Nat /\ \A i \in scored : from[i] \in T
  <2>1. from \in Seq(T)
    OBVIOUS
  <2>. HIDE DEF from, window
  <2>. QED  BY <2>1
<1>3. IsFiniteSet(scored)
  <2>1. IsFiniteSet(1..Len(from))
    BY <1>2, FS_Interval
  <2>. HIDE DEF scored, from
  <2>. QED  BY <1>2, <2>1, FS_Subset
<1>4. ASSUME NEW x \in Symbols, Len(window(x)) >= 2
      PROVE  Last(window(x)) \in Nat /\ window(x)[1] \in Nat
  <2>. DEFINE col == [i \in DOMAIN c.history |-> c.history[i][x]]
  <2>1. c.history \in Seq(PriceRow)
    BY DEF ContextOK
  <2>2. col \in Seq(Nat \cup {NaN})
    <3>1. \A i \in 1..Len(c.history) : c.history[i] \in PriceRow
      BY <2>1
    <3>2. \A i \in 1..Len(c.history) : c.history[i][x] \in Nat \cup {NaN}
      BY <3>1 DEF PriceRow
    <3>3. DOMAIN c.history = 1..Len(c.history) /\ Len(c.history) \in Nat
      BY <2>1
    <3>. QED  BY <3>2, <3>3
  <2>. HIDE DEF col
  <2>3. Kept(col, Nat) \in Seq(Nat \cap (Nat \cup {NaN}))
    BY <2>2, KeptSeq
  <2>4. Observed(c, x) \in Seq(Nat)
    <3>1. Nat \cap (Nat \cup {NaN}) = Nat
      OBVIOUS
    <3>. QED  BY <2>3, <3>1 DEF Observed, col
  <2>5. window(x) \in Seq(Nat)
    BY <2>4 DEF LastOf
  <2>. HIDE DEF window
  <2>. QED  BY <2>5, <1>4 DEF Last
<1>. DEFINE V(i) == Last(window(from[i]))
            W(i) == window(from[i])[1]
            A(i, j) == IF a.descending THEN V(i) * W(j) ELSE V(j) * W(i)
            R == {p \in scored \X scored : goes(p[1], p[2])}
<1>5. \A i \in scored : V(i) \in Nat /\ W(i) \in Nat \ {0} /\ i \in Nat
  <2>1. ASSUME NEW i \in scored PROVE V(i) \in Nat /\ W(i) \in Nat \ {0} /\ i \in Nat
    <3>1. from[i] \in Symbols /\ i \in Nat
      <4>. HIDE DEF scored, from
      <4>. QED  BY <1>2
    <3>2. Len(window(from[i])) >= 2 /\ window(from[i])[1] > 0
      <4>. HIDE DEF window, from
      <4>. QED  OBVIOUS
    <3>. HIDE DEF window, from, scored
    <3>. QED  BY <1>4, <3>1, <3>2
  <2>. QED  BY <2>1
<1>6. \A i, j \in scored : <<i, j>> \in R <=>
         A(i, j) > A(j, i) \/ (~ (A(j, i) > A(i, j)) /\ i < j)
  <2>. HIDE DEF scored, window, from
  <2>. QED  OBVIOUS
<1>. HIDE DEF V, W, R, scored, window, from
<1>17. \A i, j \in scored : V(i) * W(j) \in Nat
  BY <1>5, ProductNat
<1>7. \A i, j \in scored : A(i, j) \in Nat
  BY <1>17
<1>18. ASSUME NEW i \in scored, NEW j \in scored, NEW k \in scored
       PROVE  /\ A(i, j) >= A(j, i) /\ A(j, k) >= A(k, j) => A(i, k) >= A(k, i)
              /\ A(i, j) > A(j, i) /\ A(j, k) >= A(k, j) => A(i, k) > A(k, i)
              /\ A(i, j) >= A(j, i) /\ A(j, k) > A(k, j) => A(i, k) > A(k, i)
  <2>1. /\ V(i) \in Nat /\ V(j) \in Nat /\ V(k) \in Nat
        /\ W(i) \in Nat \ {0} /\ W(j) \in Nat \ {0} /\ W(k) \in Nat \ {0}
    BY <1>5
  <2>2. CASE a.descending
    <3>1. /\ V(i) * W(j) >= V(j) * W(i) /\ V(j) * W(k) >= V(k) * W(j) => V(i) * W(k) >= V(k) * W(i)
          /\ V(i) * W(j) > V(j) * W(i) /\ V(j) * W(k) >= V(k) * W(j) => V(i) * W(k) > V(k) * W(i)
          /\ V(i) * W(j) >= V(j) * W(i) /\ V(j) * W(k) > V(k) * W(j) => V(i) * W(k) > V(k) * W(i)
      BY <2>1, Fractions
    <3>. QED  BY <2>2, <3>1, Zenon
  <2>3. CASE ~ a.descending
    <3>1. /\ V(k) * W(j) >= V(j) * W(k) /\ V(j) * W(i) >= V(i) * W(j) => V(k) * W(i) >= V(i) * W(k)
          /\ V(k) * W(j) > V(j) * W(k) /\ V(j) * W(i) >= V(i) * W(j) => V(k) * W(i) > V(i) * W(k)
          /\ V(k) * W(j) >= V(j) * W(k) /\ V(j) * W(i) > V(i) * W(j) => V(k) * W(i) > V(i) * W(k)
      BY <2>1, Fractions
    <3>. QED  BY <2>3, <3>1, Zenon
  <2>. QED  BY <2>2, <2>3
<1>. HIDE DEF A
<1>8. \A i \in scored : <<i, i>> \notin R
  BY <1>5, <1>6, <1>7
<1>9. \A i, j \in scored : i # j => <<i, j>> \in R \/ <<j, i>> \in R
  BY <1>5, <1>6, <1>7
<1>10. ASSUME NEW i \in scored, NEW j \in scored, NEW k \in scored,
              <<i, j>> \in R, <<j, k>> \in R
       PROVE  <<i, k>> \in R
  <2>1. /\ A(i, j) \in Nat /\ A(j, i) \in Nat /\ A(j, k) \in Nat
        /\ A(k, j) \in Nat /\ A(i, k) \in Nat /\ A(k, i) \in Nat
        /\ i \in Nat /\ j \in Nat /\ k \in Nat
    BY <1>5, <1>7
  <2>2. /\ A(i, j) > A(j, i) \/ (~ (A(j, i) > A(i, j)) /\ i < j)
        /\ A(j, k) > A(k, j) \/ (~ (A(k, j) > A(j, k)) /\ j < k)
    BY <1>6, <1>10
  <2>3. A(i, k) > A(k, i) \/ (~ (A(k, i) > A(i, k)) /\ i < k)
    BY <1>18, <2>1, <2>2
  <2>. QED  BY <1>6, <2>3
<1>11. /\ n \in Nat
       /\ \A k \in 1..n : \E i \in scored : Cardinality({j \in scored : <<j, i>> \in R}) = k - 1
  <2>1. StrictOrder(scored, R)
    BY <1>8, <1>9, <1>10 DEF StrictOrder
  <2>2. IsFiniteSet(scored) /\ n = Cardinality(scored)
    BY <1>3
  <2>3. Cardinality(scored) \in Nat /\ EachPlaceTaken(scored, R)
    BY <2>1, <2>2, Ranked
  <2>. QED  BY <2>2, <2>3 DEF EachPlaceTaken
<1>12. \A i \in scored : {j \in scored : <<j, i>> \in R} = ahead(i)
  BY DEF R
<1>. HIDE DEF ahead
<1>13. ASSUME NEW k \in 1..n PROVE place(k) \in scored
  <2>1. \E i \in scored : Cardinality(ahead(i)) = k - 1
    BY <1>11, <1>12
  <2>. HIDE DEF n
  <2>. QED  BY <2>1
<1>. HIDE DEF place, n
<1>14. m \in Nat /\ m <= n
  BY <1>11
<1>15. \A k \in 1..m : q[k] \in T
  <2>. HIDE DEF m
  <2>1. \A k \in 1..m : k \in 1..n
    BY <1>11, <1>14
  <2>. QED  BY <1>2, <1>13, <2>1
<1>16. q \in Seq(T)
  <2>1. q = [k \in 1..m |-> q[k]]
    OBVIOUS
  <2>. HIDE DEF q, m
  <2>. QED  BY <1>14, <1>15, <2>1, IsASeq
<1>. HIDE DEF q
<1>. QED  BY <1>1, <1>16, ChosenOutcome

LEMMA ColumnsSeq ==
  /\ Columns \in Seq(Symbols)
  /\ \A c : PricedColumns(c) \in Seq(PricedSymbols(c))
<1>1. NumSymbols \in Nat /\ Columns = [i \in 1..NumSymbols |-> Columns[i]]
      /\ \A i \in 1..NumSymbols : Columns[i] \in Symbols
  BY PipelineAssumption DEF Columns, Symbols
<1>2. Columns \in Seq(Symbols)
  BY <1>1, IsASeq
<1>3. ASSUME NEW c PROVE PricedColumns(c) \in Seq(PricedSymbols(c))
  <2>1. PricedSymbols(c) \cap Symbols = PricedSymbols(c)
    BY DEF PricedSymbols
  <2>2. Kept(Columns, PricedSymbols(c)) \in Seq(PricedSymbols(c) \cap Symbols)
    BY <1>2, KeptSeq
  <2>. QED  BY <2>1, <2>2 DEF PricedColumns
<1>. QED  BY <1>2, <1>3

\* What is kept of symbols, of those in S.
LEMMA KeptSymbols ==
  ASSUME NEW T, T \subseteq Symbols, NEW seq \in Seq(Symbols), NEW S, S \cap Symbols \subseteq T
  PROVE  Kept(seq, S) \in Seq(T)
<1>1. Kept(seq, S) \in Seq(S \cap Symbols)
  BY KeptSeq
<1>. QED  BY <1>1, SeqWider

\* A selection sets the selection only, and unless it looks at names or at the
\* history alone, what it selects has a price today.
LEMMA Selects ==
  ASSUME NEW a, NEW s, NEW c, NEW draw, NEW T, WellFormedAlgo(a), a.kind \in Selecting,
         ContextOK(c), T \subseteq Symbols, PricedSymbols(c) \subseteq T, c.selected \in Seq(T),
         a.kind \in {"SelectRegex", "SelectHasData"} => T = Symbols,
         a.kind = "SelectRandomly" => draw \in Draws(a, c)
  PROVE  SelectedOutcome(CallAlgo(a, s, c, draw), s, c, T)
<1>1. ASSUME NEW q \in Seq(T) PROVE SelectedOutcome(Choose(q, s, c), s, c, T)
  BY <1>1, ChosenOutcome
<1>2. SelectedOutcome(Skip(s, c), s, c, T)
  BY DEF SelectedOutcome, Skip, ContextOK
<1>3. /\ CandidatesOr(c, PricedColumns(c)) \in Seq(T)
      /\ CandidatesOr(c, PricedColumns(c)) \in Seq(Symbols)
      /\ CandidatesOr(c, Columns) \in Seq(Symbols)
  <2>1. PricedColumns(c) \in Seq(T)
    BY ColumnsSeq, SeqWider
  <2>2. CandidatesOr(c, PricedColumns(c)) \in Seq(T)
    BY <2>1 DEF CandidatesOr
  <2>3. c.selected \in Seq(Symbols)
    BY DEF ContextOK
  <2>4. CandidatesOr(c, Columns) \in Seq(Symbols)
    BY <2>3, ColumnsSeq DEF CandidatesOr
  <2>. QED  BY <2>2, <2>4, SeqWider
<1>4. /\ PricedSymbols(c) \cap Symbols \subseteq T
      /\ ActiveSymbols(c) \cap Symbols \subseteq T
  BY DEF PricedSymbols, ActiveSymbols
<1>5. CASE a.kind = "SelectThese"
  <2>1. a.symbols \in Seq(Symbols)
    BY <1>5 DEF WellFormedAlgo
  <2>2. Kept(a.symbols, PricedSymbols(c)) \in Seq(T)
    BY <1>4, <2>1, KeptSymbols
  <2>. QED  BY <1>1, <1>5, <2>2 DEF CallAlgo, SelectThese
<1>6. CASE a.kind = "SelectAll"
  <2>1. Kept(Columns, ActiveSymbols(c)) \in Seq(T)
    BY <1>4, ColumnsSeq, KeptSymbols
  <2>. QED  BY <1>1, <1>6, <2>1 DEF CallAlgo, SelectAll
<1>7. CASE a.kind = "SelectHasData"
  <2>. DEFINE S == {x \in Symbols : Len(Observed(c, x)) >= a.days}
  <2>1. Kept(CandidatesOr(c, Columns), S) \in Seq(T)
    <3>1. S \cap Symbols \subseteq T
      BY <1>7
    <3>. HIDE DEF S
    <3>. QED  BY <1>3, <3>1, KeptSymbols
  <2>2. SelectedOutcome(Choose(Kept(CandidatesOr(c, Columns), S), s, c), s, c, T)
    BY <1>1, <2>1
  <2>. QED  BY <1>7, <2>2 DEF CallAlgo, SelectHasData
<1>8. CASE a.kind = "SelectActive"
  <2>1. Kept(CandidatesOr(c, Columns), ActiveSymbols(c)) \in Seq(T)
    BY <1>3, <1>4, KeptSymbols
  <2>. QED  BY <1>1, <1>8, <2>1 DEF CallAlgo, SelectActive
<1>9. CASE a.kind = "SelectRegex"
  <2>1. a.matches \cap Symbols \subseteq T
    BY <1>9
  <2>2. Kept(CandidatesOr(c, Columns), a.matches) \in Seq(T)
    BY <1>3, <2>1, KeptSymbols
  <2>. QED  BY <1>1, <1>9, <2>2 DEF CallAlgo, SelectRegex
<1>10. CASE a.kind = "SelectWhere"
  <2>1. Kept(CandidatesOr(c, PricedColumns(c)), a.accepts) \in Seq(a.accepts \cap T)
    BY <1>3, KeptSeq
  <2>2. Kept(CandidatesOr(c, PricedColumns(c)), a.accepts) \in Seq(T)
    BY <2>1, SeqWider
  <2>. QED  BY <1>1, <1>10, <2>2 DEF CallAlgo, SelectWhere
<1>11. CASE a.kind = "SelectN"
  <2>1. a.n \in Nat
    BY <1>11 DEF WellFormedAlgo
  <2>2. SubSeq(c.selected, 1, IF a.n < Len(c.selected) THEN a.n ELSE Len(c.selected)) \in Seq(T)
    BY <2>1
  <2>. QED  BY <1>1, <1>11, <2>2 DEF CallAlgo, SelectN
<1>12. CASE a.kind = "SelectMomentum"
  <2>1. a.n \in Nat /\ a.lookback \in Nat \ {0}
    BY <1>12 DEF WellFormedAlgo
  <2>2. SelectedOutcome(SelectMomentum(a, s, c), s, c, T)
    BY <1>3, <2>1, MomentumPlaces
  <2>. QED  BY <1>12, <2>2 DEF CallAlgo
<1>13. CASE a.kind = "SelectRandomly"
  <2>. DEFINE from == CandidatesOr(c, PricedColumns(c))
              k == IF a.n < Len(from) THEN a.n ELSE Len(from)
  <2>1. draw \in {Kept(Columns, U) : U \in kSubset(k, ToSet(from))}
    BY <1>13 DEF Draws, Combinators
  <2>2. PICK U \in kSubset(k, ToSet(from)) : draw = Kept(Columns, U)
    BY <2>1
  <2>3. U \subseteq ToSet(from)
    BY DEF kSubset
  <2>4. ToSet(from) \subseteq T
    <3>. HIDE DEF from
    <3>1. from \in Seq(T)
      BY <1>3 DEF from
    <3>. QED  BY <3>1 DEF ToSet
  <2>5. draw \in Seq(T)
    BY <2>2, <2>3, <2>4, ColumnsSeq, KeptSymbols
  <2>6. SelectedOutcome(Continue(s, [c EXCEPT !.selected = draw]), s, c, T)
    BY <2>5 DEF SelectedOutcome, Continue, ContextOK
  <2>. QED  BY <1>2, <1>13, <2>6 DEF CallAlgo, SelectRandomly
<1>. QED
  BY <1>5, <1>6, <1>7, <1>8, <1>9, <1>10, <1>11, <1>12, <1>13 DEF Selecting

-----------------------------------------------------------------------------
(* Weights.                                                                *)

\* Integer weights of symbols in T.
BookOver(w, T) == DOMAIN w \subseteq T /\ \A x \in DOMAIN w : w[x] \in Int

LEMMA BookTotals ==
  ASSUME NEW T, T \subseteq Symbols, NEW w, BookOver(w, T)
  PROVE  IsBook(w) /\ IntTerms(w, NumSymbols) /\ WeightSum(w) \in Int /\ NumSymbols \in Nat
<1>1. NumSymbols \in Nat
  BY PipelineAssumption
<1>2. IntTerms(w, NumSymbols)
  BY DEF IntTerms, BookOver
<1>3. Total(w, NumSymbols) \in Int
  BY <1>1, <1>2, TotalInt DEF IntTerms
<1>. QED  BY <1>1, <1>2, <1>3 DEF IsBook, BookOver, WeightSum

LEMMA ScaledBook ==
  ASSUME NEW T, T \subseteq Symbols, NEW w, BookOver(w, T), NEW num \in Int, NEW den \in Nat \ {0}
  PROVE  BookOver(Scaled(w, num, den), T)
<1>1. \A x \in DOMAIN w : (w[x] * num) \div den \in Int
  <2>1. ASSUME NEW y \in Int PROVE (y * num) \div den \in Int
    OBVIOUS
  <2>. QED  BY <2>1 DEF BookOver
<1>. QED  BY <1>1 DEF BookOver, Scaled

LEMMA NormalisedBook ==
  ASSUME NEW T, T \subseteq Symbols, NEW w, BookOver(w, T), WeightSum(w) > 0
  PROVE  BookOver(Normalised(w), T)
<1>1. ONE \in Int /\ WeightSum(w) \in Nat \ {0}
  BY BookTotals, PipelineAssumption
<1>2. BookOver(Scaled(w, ONE, WeightSum(w)), T)
  BY <1>1, ScaledBook
<1>. QED  BY <1>2 DEF Normalised, Scaled

LEMMA ClippedPass ==
  ASSUME NEW T, T \subseteq Symbols, NEW w, BookOver(w, T), NEW limit \in Int
  PROVE  BookOver(ClipPass(w, limit), T) /\ DOMAIN ClipPass(w, limit) = DOMAIN w
<1>. DEFINE over == {x \in DOMAIN w : w[x] > limit}
            rest == [x \in DOMAIN w \ over |-> w[x]]
            part == [x \in over |-> w[x] - limit]
            R == WeightSum(rest)
            excess == Total(part, NumSymbols)
<1>1. BookOver(rest, T) /\ BookOver(part, T)
  BY DEF BookOver
<1>2. R \in Int /\ excess \in Int
  BY <1>1, BookTotals DEF WeightSum
<1>3. ClipPass(w, limit) =
        [x \in DOMAIN w |-> IF x \in over THEN limit
                            ELSE IF over # {} /\ R > 0 THEN (w[x] * (R + excess)) \div R ELSE w[x]]
  BY DEF ClipPass
<1>. HIDE DEF over, rest, part, R, excess
<1>4. ASSUME NEW y \in Int, R > 0 PROVE (y * (R + excess)) \div R \in Int
  <2>1. R \in Nat \ {0} /\ y * (R + excess) \in Int
    BY <1>2, <1>4
  <2>. QED  BY <2>1
<1>. QED  BY <1>3, <1>4 DEF BookOver

\* The passes of a clip, one after the other.
LEMMA ClippedPasses ==
  ASSUME NEW w, NEW limit
  PROVE  \E s : /\ s[0] = w /\ \A k \in 1..10 : s[k] = ClipPass(s[k-1], limit)
               /\ Clipped(w, limit) = s[10]
<1>. DEFINE Step(h, k) == IF k = 0 THEN w ELSE ClipPass(h[k-1], limit)
            P(h) == h = [k \in 0..10 |-> Step(h, k)]
            s == CHOOSE h : P(h)
<1>1. \E h : P(h)
  <2>. DEFINE B == {m \in 0..10 : ~ \E h : h = [k \in 0..m |-> Step(h, k)]}
  <2>1. 0 \notin B
    <3>. DEFINE g == [k \in 0..0 |-> w]
    <3>1. g = [k \in 0..0 |-> Step(g, k)]
      OBVIOUS
    <3>. QED  BY <3>1
  <2>2. ASSUME NEW m \in 1..10, m - 1 \in 0..10, m - 1 \notin B PROVE m \notin B
    <3>1. m \in Nat /\ m # 0 /\ 0..(m-1) \subseteq 0..m /\ \A k \in 0..m : k # m => k \in 0..(m-1)
      OBVIOUS
    <3>2. PICK h : h = [k \in 0..(m-1) |-> Step(h, k)]
      BY <2>2
    <3>. DEFINE g == [k \in 0..m |-> IF k = m THEN Step(h, m) ELSE h[k]]
    <3>3. \A k \in 0..m : g[k] = IF k = m THEN Step(h, m) ELSE h[k]
      OBVIOUS
    <3>4. \A k \in 1..m : g[k-1] = h[k-1]
      BY <3>1, <3>3
    <3>5. ASSUME NEW k \in 0..m PROVE g[k] = Step(g, k)
      <4>1. CASE k = m
        BY <3>1, <3>3, <3>4, <4>1
      <4>2. CASE k # m
        <5>1. k \in 0..(m-1) /\ h[k] = Step(h, k)
          BY <3>1, <3>2, <4>2
        <5>2. k = 0 \/ g[k-1] = h[k-1]
          BY <3>1, <3>4
        <5>. QED  BY <3>3, <4>2, <5>1, <5>2
      <4>. QED  BY <4>1, <4>2
    <3>6. g = [k \in 0..m |-> g[k]]
      OBVIOUS
    <3>. HIDE DEF g
    <3>7. g = [k \in 0..m |-> Step(g, k)]
      BY <3>5, <3>6
    <3>. QED  BY <3>7
  <2>3. B = {}
    <3>1. B \in SUBSET (0..10)
      OBVIOUS
    <3>. HIDE DEF B
    <3>. QED  BY <2>1, <2>2, <3>1, FirstFailure
  <2>4. 10 \in 0..10
    OBVIOUS
  <2>. QED  BY <2>3, <2>4
<1>2. P(s)
  BY <1>1, Zenon
<1>3. Clipped(w, limit) = s[10]
  BY Zenon DEF Clipped
<1>. HIDE DEF s
<1>4. s[0] = w /\ \A k \in 1..10 : s[k] = ClipPass(s[k-1], limit)
  BY <1>2
<1>. QED  BY <1>3, <1>4

LEMMA ClippedBook ==
  ASSUME NEW T, T \subseteq Symbols, NEW w, BookOver(w, T), NEW limit \in Int
  PROVE  BookOver(Clipped(w, limit), T)
<1>1. PICK s : /\ s[0] = w /\ \A k \in 1..10 : s[k] = ClipPass(s[k-1], limit)
               /\ Clipped(w, limit) = s[10]
  BY ClippedPasses
<1>. DEFINE B == {k \in 0..10 : ~ BookOver(s[k], T)}
<1>2. 0 \notin B
  BY <1>1
<1>3. ASSUME NEW m \in 1..10, m - 1 \in 0..10, m - 1 \notin B PROVE m \notin B
  BY <1>1, <1>3, ClippedPass
<1>4. B = {}
  <2>1. B \in SUBSET (0..10)
    OBVIOUS
  <2>. HIDE DEF B
  <2>. QED  BY <1>2, <1>3, <2>1, FirstFailure
<1>. QED  BY <1>1, <1>4

\* The last date of a table that is not after d.
LEMMA LatestRow ==
  ASSUME NEW D \in SUBSET Nat, NEW d \in Nat, {e \in D : e <= d} # {}
  PROVE  (CHOOSE e \in {e \in D : e <= d} : \A f \in {f \in D : f <= d} : f <= e) \in D
<1>. DEFINE past == {e \in D : e <= d}
            back == {d - e : e \in past}
<1>1. back \in SUBSET Nat /\ back # {}
  <2>1. \A e \in past : d - e \in Nat
    OBVIOUS
  <2>2. past # {}
    OBVIOUS
  <2>. HIDE DEF past
  <2>. QED  BY <2>1, <2>2
<1>2. PICK b \in back : \A k \in back : b <= k
  BY <1>1, LeastNatural
<1>3. PICK e \in past : b = d - e
  BY <1>2
<1>4. \A f \in past : f <= e
  <2>1. ASSUME NEW f \in past PROVE f <= e
    <3>1. d - f \in back /\ f \in Nat /\ e \in Nat
      OBVIOUS
    <3>2. b <= d - f
      BY <1>2, <3>1
    <3>. QED  BY <1>3, <3>1, <3>2
  <2>. QED  BY <2>1
<1>5. \E e1 \in past : \A f \in past : f <= e1
  BY <1>4
<1>. HIDE DEF past
<1>6. (CHOOSE e1 \in past : \A f \in past : f <= e1) \in past
  BY <1>5
<1>. QED  BY <1>6 DEF past

WeighedOutcome(r, s, c, T) ==
  /\ r = [s |-> s, c |-> [c EXCEPT !.target = r.c.target], status |-> r.status]
  /\ r.status \in {"continue", "skip_day"}
  /\ BookOver(r.c.target, T)

\* A weighting sets the target only, over what was selected, weighted or may hedge.
LEMMA Weighs ==
  ASSUME NEW a, NEW s, NEW c, NEW draw, NEW T, WellFormedAlgo(a), a.kind \in Weighing,
         ContextOK(c), T \subseteq Symbols, PricedSymbols(c) \subseteq T, c.selected \in Seq(T),
         BookOver(c.target, T),
         a.kind \in Drawing => draw \in Draws(a, c)
  PROVE  WeighedOutcome(CallAlgo(a, s, c, draw), s, c, T)
<1>1. WeighedOutcome(Skip(s, c), s, c, T) /\ WeighedOutcome(Continue(s, c), s, c, T)
  BY DEF WeighedOutcome, Skip, Continue, ContextOK
<1>2. ASSUME NEW w, BookOver(w, T)
      PROVE  WeighedOutcome(Continue(s, [c EXCEPT !.target = w]), s, c, T)
  BY <1>2 DEF WeighedOutcome, Continue, ContextOK
<1>3. ASSUME NEW w, w = Nothing \/ BookOver(w, T) PROVE WeighedOutcome(Weigh(w, s, c), s, c, T)
  BY <1>1, <1>2, <1>3 DEF Weigh
<1>4. Selected(c) \subseteq T
  BY DEF Selected, ToSet
<1>5. \A w \in Weightings(Selected(c)) : BookOver(w, T)
  BY <1>4, PipelineAssumption DEF Weightings, BookOver
<1>6. ONE \in Nat \ {0} /\ c.total \in Int
  BY PipelineAssumption DEF ContextOK
<1>7. CASE a.kind = "WeighSpecified"
  <2>. DEFINE raw == [x \in Selected(c) |-> IF x \in DOMAIN a.weights THEN a.weights[x] ELSE 0]
  <2>1. BookOver(raw, T)
    BY <1>4, <1>7 DEF BookOver, WellFormedAlgo, IntValued
  <2>. HIDE DEF raw
  <2>2. ~ (WeightSum(raw) <= 0) => BookOver(Normalised(raw), T)
    BY <2>1, NormalisedBook, BookTotals
  <2>3. ~ (WeightSum(raw) <= 0) => WeighedOutcome(Weigh(Normalised(raw), s, c), s, c, T)
    BY <1>3, <2>2
  <2>4. CallAlgo(a, s, c, draw) = IF WeightSum(raw) <= 0 THEN Skip(s, c) ELSE Weigh(Normalised(raw), s, c)
    BY <1>7 DEF CallAlgo, WeighSpecified, raw
  <2>. QED  BY <1>1, <2>3, <2>4
<1>8. CASE a.kind = "WeighEqually"
  <2>. DEFINE w == [x \in Selected(c) |-> ONE \div Len(c.selected)]
  <2>1. BookOver(w, T)
    <3>1. ASSUME NEW x \in Selected(c) PROVE ONE \div Len(c.selected) \in Int
      <4>1. Len(c.selected) \in Nat \ {0}
        BY DEF Selected, ToSet
      <4>. HIDE DEF w
      <4>. QED  BY <1>6, <4>1
    <3>. QED  BY <1>4, <3>1 DEF BookOver
  <2>. HIDE DEF w
  <2>2. WeighedOutcome(Weigh(w, s, c), s, c, T)
    BY <1>3, <2>1
  <2>. QED  BY <1>8, <2>2 DEF CallAlgo, WeighEqually, w
<1>9. CASE a.kind = "WeighTarget"
  <2>. DEFINE past == {d \in DOMAIN a.table : d <= c.day}
              row  == a.table[CHOOSE d \in past : \A e \in past : e <= d]
              raw  == [x \in Selected(c) \cap DOMAIN row |-> row[x]]
  <2>1. CASE past # {}
    <3>1. DOMAIN a.table \in SUBSET Nat /\ c.day \in Nat
      BY <1>9, PipelineAssumption DEF WellFormedAlgo, ContextOK
    <3>2. (CHOOSE d \in past : \A e \in past : e <= d) \in DOMAIN a.table
      BY <2>1, <3>1, LatestRow
    <3>3. IntValued(row)
      BY <1>9, <3>2 DEF WellFormedAlgo
    <3>. HIDE DEF row
    <3>4. BookOver(raw, T)
      BY <1>4, <3>3 DEF BookOver, IntValued
    <3>. HIDE DEF raw
    <3>5. ~ (WeightSum(raw) <= 0) => BookOver(Normalised(raw), T)
      BY <3>4, NormalisedBook, BookTotals
    <3>6. ~ (WeightSum(raw) <= 0) => WeighedOutcome(Weigh(Normalised(raw), s, c), s, c, T)
      BY <1>3, <3>5
    <3>7. \/ CallAlgo(a, s, c, draw) = Skip(s, c)
          \/ ~ (WeightSum(raw) <= 0) /\ CallAlgo(a, s, c, draw) = Weigh(Normalised(raw), s, c)
      BY <1>9 DEF CallAlgo, WeighTarget, raw, row
    <3>. QED  BY <1>1, <3>6, <3>7
  <2>2. CASE past = {}
    <3>1. CallAlgo(a, s, c, draw) = Skip(s, c)
      BY <1>9, <2>2 DEF CallAlgo, WeighTarget
    <3>. QED  BY <1>1, <3>1
  <2>. QED  BY <2>1, <2>2
<1>10. CASE a.kind \in {"WeighRandomly", "WeighMeanVar", "WeighERC"}
  <2>1. draw \in Draws(a, c)
    BY <1>10 DEF Drawing
  <2>2. draw \in Weightings(Selected(c)) \/ draw = Nothing
    BY <1>10, <2>1 DEF Draws, Combinators
  <2>3. WeighedOutcome(Weigh(draw, s, c), s, c, T)
    BY <1>3, <1>5, <2>2
  <2>4. \/ CallAlgo(a, s, c, draw) = Skip(s, c)
        \/ CallAlgo(a, s, c, draw) = Weigh(draw, s, c)
    BY <1>10 DEF CallAlgo, WeighRandomly, WeighMeanVar, WeighERC
  <2>. QED  BY <1>1, <2>3, <2>4
<1>11. CASE a.kind = "WeighInvVol"
  <2>1. draw \in Draws(a, c)
    BY <1>11 DEF Drawing
  <2>2. draw = Nothing \/ \E S \in SUBSET Selected(c) : draw \in Weightings(S)
    BY <1>11, <2>1 DEF Draws, Combinators
  <2>3. draw = Nothing \/ BookOver(draw, T)
    BY <1>4, <2>2, PipelineAssumption DEF Weightings, BookOver
  <2>. QED  BY <1>3, <1>11, <2>3 DEF CallAlgo, WeighInvVol
<1>12. CASE a.kind = "TargetVol"
  <2>1. draw \in Draws(a, c)
    BY <1>12 DEF Drawing
  <2>2. draw \in 1..ONE
    BY <1>12, <2>1 DEF Draws, Combinators
  <2>3. draw \in Int
    BY <1>6, <2>2
  <2>4. BookOver(Scaled(c.target, draw, ONE), T)
    BY <1>6, <2>3, ScaledBook
  <2>5. \/ CallAlgo(a, s, c, draw) \in {Skip(s, c), Continue(s, c)}
        \/ CallAlgo(a, s, c, draw) = Continue(s, [c EXCEPT !.target = Scaled(c.target, draw, ONE)])
    BY <1>12 DEF CallAlgo, TargetVol
  <2>. QED  BY <1>1, <1>2, <2>4, <2>5
<1>13. CASE a.kind = "LimitWeights"
  <2>1. a.limit \in Int
    BY <1>13 DEF WellFormedAlgo
  <2>2. BookOver(Clipped(c.target, a.limit), T)
    BY <2>1, ClippedBook
  <2>3. CallAlgo(a, s, c, draw) = Continue(s, [c EXCEPT !.target = Clipped(c.target, a.limit)])
    BY <1>13 DEF CallAlgo, LimitWeights, ContextOK
  <2>. QED  BY <1>2, <2>2, <2>3
<1>14. CASE a.kind = "LimitDeltas"
  <2>. DEFINE moved == [x \in DOMAIN c.target |->
                         CurrentWeight(c, x)
                           + Bounded(c.target[x] - CurrentWeight(c, x), -a.limit, a.limit)]
              new == IF WeightSum(moved) > 0 /\ WeightSum(c.target) > 0
                     THEN Scaled(moved, WeightSum(c.target), WeightSum(moved)) ELSE moved
  <2>1. a.limit \in Int
    BY <1>14 DEF WellFormedAlgo
  <2>2. ASSUME NEW x \in DOMAIN c.target, c.total > 0 PROVE CurrentWeight(c, x) \in Int
    <3>1. x \in Symbols /\ c.prices[x] \in Int /\ Quantity(c, x) \in Int
      BY DEF BookOver, ContextOK, IsBook, Quantity, PriceRow, NaN
    <3>2. Quantity(c, x) * c.prices[x] * ONE \in Int
      BY <1>6, <3>1
    <3>3. c.total \in Nat \ {0}
      BY <1>6, <2>2
    <3>. QED  BY <3>2, <3>3 DEF CurrentWeight
  <2>3. c.total > 0 => BookOver(moved, T)
    <3>1. ASSUME NEW x \in DOMAIN c.target, c.total > 0
          PROVE  CurrentWeight(c, x) + Bounded(c.target[x] - CurrentWeight(c, x), -a.limit, a.limit) \in Int
      <4>1. c.target[x] \in Int
        BY DEF BookOver
      <4>2. CurrentWeight(c, x) \in Int
        BY <2>2, <3>1
      <4>. QED  BY <2>1, <4>1, <4>2 DEF Bounded
    <3>. QED  BY <3>1 DEF BookOver
  <2>. HIDE DEF moved
  <2>4. c.total > 0 => BookOver(new, T)
    <3>1. WeightSum(c.target) \in Int
      BY BookTotals
    <3>2. c.total > 0 /\ WeightSum(moved) > 0 => WeightSum(moved) \in Nat \ {0}
      BY <2>3, BookTotals
    <3>. QED  BY <2>3, <3>1, <3>2, ScaledBook
  <2>5. \/ CallAlgo(a, s, c, draw) = Continue(s, c)
        \/ c.total > 0 /\ CallAlgo(a, s, c, draw) = Continue(s, [c EXCEPT !.target = new])
    BY <1>6, <1>14 DEF CallAlgo, LimitDeltas, moved
  <2>. QED  BY <1>1, <1>2, <2>4, <2>5
<1>15. CASE a.kind = "ScaleWeights"
  <2>1. a.scale \in Int
    BY <1>15 DEF WellFormedAlgo
  <2>2. BookOver(Scaled(c.target, a.scale, ONE), T)
    BY <1>6, <2>1, ScaledBook
  <2>3. CallAlgo(a, s, c, draw) = Continue(s, [c EXCEPT !.target = Scaled(c.target, a.scale, ONE)])
    BY <1>15 DEF CallAlgo, ScaleWeights, ContextOK
  <2>. QED  BY <1>2, <2>2, <2>3
<1>16. CASE a.kind = "HedgeRisks"
  <2>. DEFINE H == ToSet(Hedgers(a, c))
              weight(x) == IF x \in DOMAIN c.target THEN c.target[x] ELSE 0
              new == [x \in DOMAIN c.target \cup H |-> weight(x) + IF x \in H THEN draw[x] ELSE 0]
  <2>1. draw \in Draws(a, c) /\ a.bound \in Nat /\ a.hedgers \in Seq(Symbols)
    BY <1>16 DEF Drawing, WellFormedAlgo
  <2>2. H \subseteq T
    <3>1. c.selected \in Seq(Symbols)
      BY DEF ContextOK
    <3>2. PricedSymbols(c) \cap Symbols \subseteq T
      OBVIOUS
    <3>3. Kept(IF a.hedgers # Nothing THEN a.hedgers ELSE c.selected, PricedSymbols(c)) \in Seq(T)
      BY <2>1, <3>1, <3>2, KeptSymbols
    <3>. QED  BY <3>3 DEF Hedgers, ToSet
  <2>3. draw \in [H -> 0..a.bound] \/ draw \in [H -> -a.bound..0]
    BY <1>16, <2>1 DEF Draws, Combinators
  <2>. HIDE DEF H
  <2>4. \A x \in H : draw[x] \in Int
    BY <2>1, <2>3
  <2>5. BookOver(new, T)
    BY <2>2, <2>4 DEF BookOver
  <2>. HIDE DEF new
  <2>6. WeighedOutcome(Continue(s, [c EXCEPT !.target = new]), s, c, T)
    BY <1>2, <2>5
  <2>7. \/ CallAlgo(a, s, c, draw) = Skip(s, c)
        \/ CallAlgo(a, s, c, draw) = Continue(s, [c EXCEPT !.target = new])
    BY <1>16 DEF CallAlgo, HedgeRisks, H, new
  <2>. QED  BY <1>1, <2>6, <2>7
<1>. QED
  BY <1>7, <1>8, <1>9, <1>10, <1>11, <1>12, <1>13, <1>14, <1>15, <1>16 DEF Weighing

-----------------------------------------------------------------------------
(* Books and their value.                                                  *)

\* A floored quotient is the whole quotient or one less, and not below 0 for
\* what is not negative.
LEMMA FlooredQuotient ==
  ASSUME NEW num \in Int, NEW den \in Nat \ {0}, NEW short
  PROVE  LET q == Floored(num, den, short)
         IN  /\ q \in Int /\ q \in {num \div den, (num \div den) - 1} /\ num \div den \in Int
             /\ num = 0 => q = 0
             /\ num >= 0 => q \in Nat /\ den * q <= num
<1>. DEFINE whole == num \div den
            q == Floored(num, den, short)
<1>1. whole \in Int /\ num = den * whole + (num % den) /\ num % den \in 0..(den-1)
  OBVIOUS
<1>2. q = whole \/ (num # 0 /\ num % den = 0 /\ q = whole - 1)
  BY DEF Floored
<1>3. num >= 0 => whole \in Nat /\ den * whole <= num
  BY AsManyAsPaid
<1>4. num = 0 => whole = 0
  OBVIOUS
<1>5. whole = 0 => den * whole = 0
  OBVIOUS
<1>6. den * (whole - 1) = den * whole - den
  BY <1>1
<1>7. den * whole \in Int /\ den * (whole - 1) \in Int
  BY <1>1
<1>. DEFINE paid == den * whole
            less == den * (whole - 1)
            rest == num % den
<1>8. /\ paid \in Int /\ less = paid - den /\ num = paid + rest /\ rest \in 0..(den-1)
      /\ whole = 0 => paid = 0
      /\ num >= 0 => whole \in Nat /\ paid <= num
      /\ num = 0 => whole = 0
      /\ q = whole \/ (num # 0 /\ rest = 0 /\ q = whole - 1)
      /\ q = whole => den * q = paid
      /\ q = whole - 1 => den * q = less
  BY <1>1, <1>2, <1>3, <1>4, <1>5, <1>6, <1>7
<1>. HIDE DEF whole, paid, less, rest, q
<1>9. /\ q \in Int /\ q \in {whole, whole - 1} /\ whole \in Int
      /\ num = 0 => q = 0
      /\ num >= 0 => q \in Nat /\ den * q <= num
  BY <1>1, <1>8
<1>. QED  BY <1>9 DEF whole, q

\* The term of a symbol in a marked value.
Marked(q, p, x) == IF x \in DOMAIN q /\ p[x] # NaN THEN q[x] * p[x] ELSE 0
MarkedFunction(q, p) == [s \in {t \in DOMAIN q : p[t] # NaN} |-> q[s] * p[s]]

LEMMA MarkedTerms ==
  ASSUME NEW q, IsBook(q), NEW p \in PriceRow
  PROVE  /\ NumSymbols \in Nat
         /\ IntTerms(MarkedFunction(q, p), NumSymbols)
         /\ \A x \in 1..NumSymbols : Term(MarkedFunction(q, p), x) = Marked(q, p, x) /\ Marked(q, p, x) \in Int
         /\ MarkedValue(q, p) = Total(MarkedFunction(q, p), NumSymbols)
         /\ MarkedValue(q, p) \in Int
<1>. DEFINE f == MarkedFunction(q, p)
<1>1. NumSymbols \in Nat
  BY PipelineAssumption
<1>2. \A x \in Symbols : p[x] \in Int
  BY DEF PriceRow, NaN
<1>3. \A x \in DOMAIN q : q[x] * p[x] \in Int
  BY <1>2 DEF IsBook
<1>4. IntTerms(f, NumSymbols)
  BY <1>3 DEF IntTerms, MarkedFunction
<1>5. MarkedValue(q, p) = Total(f, NumSymbols)
  BY DEF MarkedValue, MarkedFunction
<1>6. Total(f, NumSymbols) \in Int
  BY <1>1, <1>4, TotalInt DEF IntTerms
<1>7. \A x \in 1..NumSymbols : Term(f, x) = Marked(q, p, x) /\ Marked(q, p, x) \in Int
  BY <1>3 DEF Term, Marked, MarkedFunction
<1>. QED  BY <1>1, <1>4, <1>5, <1>6, <1>7

\* Books whose holdings are worth the same are worth the same.
LEMMA MarkedSame ==
  ASSUME NEW q, IsBook(q), NEW r, IsBook(r), NEW p \in PriceRow,
         \A x \in Symbols : Marked(q, p, x) = Marked(r, p, x)
  PROVE  MarkedValue(q, p) = MarkedValue(r, p)
<1>1. \A x \in 1..NumSymbols : Term(MarkedFunction(q, p), x) = Term(MarkedFunction(r, p), x)
  BY MarkedTerms DEF Symbols
<1>2. /\ NumSymbols \in Nat
      /\ IntTerms(MarkedFunction(q, p), NumSymbols)
      /\ IntTerms(MarkedFunction(r, p), NumSymbols)
  BY MarkedTerms
<1>. DEFINE f == MarkedFunction(q, p)
            g == MarkedFunction(r, p)
<1>. HIDE DEF f, g
<1>3. Total(f, NumSymbols) = Total(g, NumSymbols)
  BY <1>1, <1>2, TotalSame DEF f, g
<1>. QED  BY <1>3, MarkedTerms DEF f, g

\* A change of one holding changes the value by what the change is worth.
LEMMA MarkedChange ==
  ASSUME NEW q, IsBook(q), NEW r, IsBook(r), NEW p \in PriceRow, NEW y \in Symbols,
         \A x \in Symbols \ {y} : Marked(q, p, x) = Marked(r, p, x)
  PROVE  MarkedValue(r, p) = MarkedValue(q, p) + (Marked(r, p, y) - Marked(q, p, y))
<1>. DEFINE f == MarkedFunction(q, p)
            g == MarkedFunction(r, p)
            N == NumSymbols
            v == Marked(r, p, y) - Marked(q, p, y)
<1>1. /\ N \in Nat /\ IntTerms(f, N) /\ IntTerms(g, N)
      /\ MarkedValue(q, p) = Total(f, N) /\ MarkedValue(r, p) = Total(g, N)
      /\ \A x \in 1..N : /\ Term(f, x) = Marked(q, p, x) /\ Marked(q, p, x) \in Int
                         /\ Term(g, x) = Marked(r, p, x) /\ Marked(r, p, x) \in Int
      /\ y \in 1..N
  BY MarkedTerms DEF Symbols
<1>. DEFINE Q(x) == Marked(q, p, x)
            U(x) == Marked(r, p, x)
<1>2. \A x \in 1..N : x # y => Q(x) = U(x)
  BY DEF Symbols
<1>. HIDE DEF f, g, N
<1>3. /\ Total(f, 0) = 0 /\ \A n \in 1..N : Total(f, n) = Total(f, n-1) + Term(f, n)
      /\ Total(g, 0) = 0 /\ \A n \in 1..N : Total(g, n) = Total(g, n-1) + Term(g, n)
      /\ \A n \in 0..N : Total(f, n) \in Int /\ Total(g, n) \in Int
  BY <1>1, TotalRecursion, TermInt
<1>4. v \in Int /\ v = U(y) - Q(y) /\ \A x \in 1..N : Term(f, x) = Q(x) /\ Term(g, x) = U(x) /\ Q(x) \in Int /\ U(x) \in Int
  BY <1>1
<1>. HIDE DEF Q, U, v
<1>. DEFINE B == {n \in 0..N : Total(g, n) # Total(f, n) + (IF n >= y THEN v ELSE 0)}
<1>5. 0 \notin B
  BY <1>1, <1>3
<1>6. ASSUME NEW m \in 1..N, m - 1 \in 0..N, m - 1 \notin B PROVE m \notin B
  <2>1. Total(g, m-1) = Total(f, m-1) + (IF m - 1 >= y THEN v ELSE 0)
    BY <1>6
  <2>2. /\ Total(g, m) = Total(g, m-1) + U(m) /\ Total(f, m) = Total(f, m-1) + Q(m)
        /\ Total(f, m-1) \in Int /\ U(m) \in Int /\ Q(m) \in Int
    BY <1>3, <1>4, <1>6
  <2>3. CASE m = y
    BY <1>1, <1>4, <2>1, <2>2, <2>3
  <2>4. CASE m # y
    <3>1. U(m) = Q(m)
      BY <1>2, <2>4
    <3>2. m >= y <=> m - 1 >= y
      BY <1>1, <2>4
    <3>. QED  BY <1>4, <2>1, <2>2, <3>1, <3>2
  <2>. QED  BY <2>3, <2>4
<1>7. B = {}
  <2>1. B \in SUBSET (0..N)
    OBVIOUS
  <2>. HIDE DEF B
  <2>. QED  BY <1>1, <1>5, <1>6, <2>1, FirstFailure
<1>8. N \in 0..N /\ N >= y
  BY <1>1
<1>9. Total(g, N) = Total(f, N) + v
  BY <1>7, <1>8
<1>. QED  BY <1>1, <1>9 DEF v

-----------------------------------------------------------------------------
(* Money.                                                                  *)

PaidContext(d, c, T) ==
  /\ d = [c EXCEPT !.cash = d.cash, !.total = d.total, !.target = d.target]
  /\ d.cash \in Int /\ d.total \in Int
  /\ d.total - d.cash = c.total - c.cash
  /\ BookOver(d.target, T)

PaidOutcome(r, s, c, T) ==
  /\ r = [s |-> r.s, c |-> r.c, status |-> r.status]
  /\ r.status \in {"continue", "stop"}
  /\ StateOK(r.s) /\ r.s.target = s.target /\ r.s.left = s.left
  /\ PaidContext(r.c, c, T)

LEMMA CreditedContext ==
  ASSUME NEW c, ContextOK(c), NEW T, BookOver(c.target, T), NEW amount \in Int
  PROVE  PaidContext(Credit(c, amount), c, T) /\ PaidContext(c, c, T)
<1>1. PaidContext(c, c, T)
  BY DEF PaidContext, ContextOK
<1>. DEFINE d == Credit(c, amount)
<1>2. /\ d.cash = c.cash + amount /\ d.total = c.total + amount /\ d.target = c.target
      /\ c.cash \in Int /\ c.total \in Int
      /\ d = [c EXCEPT !.cash = c.cash + amount, !.total = c.total + amount]
  BY DEF Credit, ContextOK
<1>. HIDE DEF d
<1>3. d = [c EXCEPT !.cash = d.cash, !.total = d.total, !.target = d.target]
  BY <1>2 DEF ContextOK
<1>4. PaidContext(d, c, T)
  BY <1>2, <1>3 DEF PaidContext
<1>. QED  BY <1>1, <1>4 DEF d

\* A flow, interest or a coupon reaches cash and the total alike.
LEMMA Pays ==
  ASSUME NEW a, NEW s, NEW c, NEW draw, NEW T, WellFormedAlgo(a), a.kind \in Paying,
         StateOK(s), ContextOK(c), T \subseteq Symbols, BookOver(c.target, T)
  PROVE  PaidOutcome(CallAlgo(a, s, c, draw), s, c, T)
<1>1. c.cash \in Int /\ c.total \in Int /\ ONE \in Nat \ {0}
  BY PipelineAssumption DEF ContextOK
<1>2. ASSUME NEW t, StateOK(t), t.target = s.target, t.left = s.left, NEW amount \in Int
      PROVE  /\ PaidOutcome(Continue(t, Credit(c, amount)), s, c, T)
             /\ PaidOutcome(Stop(t, Credit(c, amount)), s, c, T)
             /\ PaidOutcome(Continue(t, c), s, c, T)
  <2>1. PaidContext(Credit(c, amount), c, T) /\ PaidContext(c, c, T)
    BY CreditedContext
  <2>. QED  BY <1>2, <2>1 DEF PaidOutcome, Continue, Stop
<1>3. CASE a.kind = "CapitalFlow"
  <2>1. c.day \in DOMAIN a.flows => a.flows[c.day] \in Int
    BY <1>3 DEF WellFormedAlgo, IntValued
  <2>2. c.day \in DOMAIN a.flows => PaidOutcome(Continue(s, Credit(c, a.flows[c.day])), s, c, T)
    BY <1>2, <2>1
  <2>3. PaidOutcome(Continue(s, c), s, c, T)
    <3>1. 0 \in Int
      OBVIOUS
    <3>. QED  BY <1>2, <3>1
  <2>. QED  BY <1>3, <2>2, <2>3 DEF CallAlgo, CapitalFlow
<1>4. CASE a.kind = "Margin"
  <2>. DEFINE stock == MarkedValue(c.positions, c.prices)
              borrowed == IF stock > c.cash THEN stock - c.cash ELSE 0
              interest == -((a.rate * borrowed) \div ONE)
              d == Credit(c, interest)
              new == Scaled(d.target, a.leverage, ONE)
  <2>1. a.rate \in Int /\ a.leverage \in Int
    BY <1>4 DEF WellFormedAlgo
  <2>2. stock \in Int
    BY MarkedTerms DEF ContextOK
  <2>. HIDE DEF stock
  <2>3. a.rate * borrowed \in Int
    BY <1>1, <2>1, <2>2
  <2>. HIDE DEF borrowed
  <2>4. interest \in Int
    BY <1>1, <2>3
  <2>. HIDE DEF interest
  <2>5. PaidOutcome(Stop(s, d), s, c, T)
    BY <1>2, <2>4
  <2>6. d.target = c.target /\ DOMAIN d = DOMAIN c
    BY DEF Credit, ContextOK
  <2>7. BookOver(new, T)
    BY <1>1, <2>1, <2>6, ScaledBook
  <2>. HIDE DEF new
  <2>8. PaidOutcome(Continue(s, [d EXCEPT !.target = new]), s, c, T)
    <3>. DEFINE e == [d EXCEPT !.target = new]
    <3>1. PaidContext(d, c, T)
      BY <2>4, CreditedContext
    <3>2. DOMAIN d = DOMAIN c /\ {"cash", "total", "target"} \subseteq DOMAIN c
      BY <2>6 DEF ContextOK
    <3>. HIDE DEF d
    <3>3. e.cash = d.cash /\ e.total = d.total /\ e.target = new
      BY <3>2
    <3>4. e = [c EXCEPT !.cash = d.cash, !.total = d.total, !.target = new]
      BY <3>1, <3>2 DEF PaidContext
    <3>. HIDE DEF e
    <3>5. PaidContext(e, c, T)
      BY <2>7, <3>1, <3>3, <3>4 DEF PaidContext
    <3>6. PaidOutcome(Continue(s, e), s, c, T)
      BY <3>5 DEF PaidOutcome, Continue
    <3>. QED  BY <3>6 DEF e
  <2>9. \/ CallAlgo(a, s, c, draw) = Stop(s, d)
        \/ CallAlgo(a, s, c, draw) = Continue(s, [d EXCEPT !.target = new])
    BY <1>4, <2>6 DEF CallAlgo, Margin, new, interest, borrowed, stock, Credit, ContextOK
  <2>. QED  BY <2>5, <2>8, <2>9
<1>5. CASE a.kind = "CouponPayingPosition"
  <2>. DEFINE t == [s EXCEPT !.key = <<Today(c).year, Today(c).month>>]
  <2>1. a.coupon \in Int
    BY <1>5 DEF WellFormedAlgo
  <2>2. StateOK(t) /\ t.target = s.target /\ t.left = s.left
    BY DEF StateOK
  <2>3. PaidOutcome(Continue(t, Credit(c, a.coupon)), s, c, T)
    <3>. HIDE DEF t
    <3>. QED  BY <1>2, <2>1, <2>2
  <2>4. PaidOutcome(Stop(s, Credit(c, a.coupon)), s, c, T) /\ PaidOutcome(Continue(s, c), s, c, T)
    BY <1>2, <2>1
  <2>. QED  BY <1>5, <2>3, <2>4 DEF CallAlgo, CouponPayingPosition
<1>. QED  BY <1>3, <1>4, <1>5 DEF Paying

-----------------------------------------------------------------------------
(* Trades.                                                                 *)

\* The total is the value of the books.
Synced(c) == c.total = c.cash + MarkedValue(c.positions, c.prices)

BookedContext(d, c) ==
  /\ d = [c EXCEPT !.cash = d.cash, !.positions = d.positions]
  /\ d.cash \in Int /\ IsBook(d.positions)

WithBooks(c, v, w) == [c EXCEPT !.cash = v, !.positions = w]

\* New cash and new books are all that differs.
LEMMA BookedFits ==
  ASSUME NEW c, ContextOK(c), NEW v \in Int, NEW w, IsBook(w)
  PROVE  LET d == WithBooks(c, v, w)
         IN  /\ ContextOK(d) /\ BookedContext(d, c)
             /\ d.cash = v /\ d.positions = w /\ d.total = c.total /\ d.prices = c.prices
<1>. DEFINE d == WithBooks(c, v, w)
<1>1. d = [day |-> c.day, prices |-> c.prices, history |-> c.history, total |-> c.total,
           cash |-> v, positions |-> w, selected |-> c.selected, target |-> c.target]
  <2>1. PICK day, row, past, total, money, book, chosen, aim :
          c = [day |-> day, prices |-> row, history |-> past, total |-> total,
               cash |-> money, positions |-> book, selected |-> chosen, target |-> aim]
    <3>1. c = [day |-> c.day, prices |-> c.prices, history |-> c.history, total |-> c.total,
               cash |-> c.cash, positions |-> c.positions, selected |-> c.selected, target |-> c.target]
      BY DEF ContextOK
    <3>. QED  BY <3>1, Zenon
  <2>. DEFINE e == [c EXCEPT !.cash = v]
  <2>2. e = [day |-> day, prices |-> row, history |-> past, total |-> total,
             cash |-> v, positions |-> book, selected |-> chosen, target |-> aim]
    BY <2>1
  <2>3. d = [e EXCEPT !.positions = w]
    BY DEF WithBooks
  <2>. HIDE DEF e, d
  <2>4. d = [day |-> day, prices |-> row, history |-> past, total |-> total,
             cash |-> v, positions |-> w, selected |-> chosen, target |-> aim]
    BY <2>2, <2>3
  <2>. QED  BY <2>1, <2>4
<1>2. /\ d.day = c.day /\ d.prices = c.prices /\ d.history = c.history /\ d.total = c.total
      /\ d.cash = v /\ d.positions = w /\ d.selected = c.selected /\ d.target = c.target
  BY <1>1
<1>3. d = [c EXCEPT !.cash = d.cash, !.positions = d.positions]
  BY <1>2 DEF WithBooks
<1>. HIDE DEF d
<1>4. ContextOK(d)
  BY <1>1, <1>2 DEF ContextOK
<1>5. BookedContext(d, c)
  BY <1>2, <1>3 DEF BookedContext
<1>. QED  BY <1>2, <1>4, <1>5 DEF d

\* A trade of a blotter pays what the holding gains in value.
LEMMA FilledTrade ==
  ASSUME NEW c, ContextOK(c), NEW t \in [day : Nat, symbol : Symbols, qty : Int]
  PROVE  /\ BookedContext(Filled(c, t), c)
         /\ ContextOK(Filled(c, t))
         /\ Synced(c) => Synced(Filled(c, t))
<1>. DEFINE y == t.symbol
            q == Quantity(c, y) + t.qty
            book == [x \in (DOMAIN c.positions \cup {y}) \ (IF q = 0 THEN {y} ELSE {}) |->
                       IF x = y THEN q ELSE c.positions[x]]
            d == WithBooks(c, c.cash - t.qty * c.prices[y], book)
<1>1. /\ y \in Symbols /\ t.qty \in Int /\ c.prices[y] \in Int /\ c.cash \in Int /\ c.total \in Int
      /\ c.prices \in PriceRow /\ IsBook(c.positions) /\ Quantity(c, y) \in Int
      /\ \A x \in Symbols : c.prices[x] \in Int
  BY DEF ContextOK, PriceRow, NaN, Quantity, IsBook
<1>2. CASE ~ (Priced(c, y) /\ c.prices[y] > 0)
  <2>1. Filled(c, t) = c
    BY <1>2 DEF Filled
  <2>2. BookedContext(c, c)
    BY DEF BookedContext, ContextOK
  <2>. QED  BY <2>1, <2>2
<1>3. CASE Priced(c, y) /\ c.prices[y] > 0
  <2>1. Filled(c, t) = d
    BY <1>3 DEF Filled, WithBooks, ContextOK
  <2>2. IsBook(book)
    BY <1>1 DEF IsBook
  <2>3. ContextOK(d) /\ BookedContext(d, c)
    <3>1. c.cash - t.qty * c.prices[y] \in Int
      BY <1>1
    <3>. HIDE DEF book
    <3>. QED  BY <2>2, <3>1, BookedFits
  <2>4. \A x \in Symbols \ {y} : Marked(c.positions, c.prices, x) = Marked(book, c.prices, x)
    BY DEF Marked
  <2>5. Marked(book, c.prices, y) - Marked(c.positions, c.prices, y) = t.qty * c.prices[y]
    <3>1. Marked(c.positions, c.prices, y) = Quantity(c, y) * c.prices[y]
      BY <1>1, <1>3 DEF Marked, Quantity, Priced
    <3>2. Marked(book, c.prices, y) = q * c.prices[y]
      BY <1>1, <1>3 DEF Marked, Priced
    <3>3. ASSUME NEW i \in Int, NEW j \in Int, NEW k \in Int
          PROVE  (i + j) * k - i * k = j * k
      OBVIOUS
    <3>. QED  BY <1>1, <3>1, <3>2, <3>3
  <2>6. MarkedValue(book, c.prices) = MarkedValue(c.positions, c.prices) + t.qty * c.prices[y]
    <3>. HIDE DEF book
    <3>1. MarkedValue(book, c.prices) = MarkedValue(c.positions, c.prices)
            + (Marked(book, c.prices, y) - Marked(c.positions, c.prices, y))
      BY <1>1, <2>2, <2>4, MarkedChange
    <3>. QED  BY <2>5, <3>1
  <2>7. /\ MarkedValue(c.positions, c.prices) \in Int /\ t.qty * c.prices[y] \in Int
        /\ MarkedValue(book, c.prices) \in Int
    <3>. HIDE DEF book
    <3>. QED  BY <1>1, <2>2, MarkedTerms
  <2>8. d.total = c.total /\ d.cash = c.cash - t.qty * c.prices[y] /\ d.positions = book /\ d.prices = c.prices
    <3>1. c.cash - t.qty * c.prices[y] \in Int
      BY <1>1
    <3>. HIDE DEF book
    <3>. QED  BY <2>2, <3>1, BookedFits
  <2>9. Synced(c) => Synced(d)
    <3>. DEFINE x == t.qty * c.prices[y]
                m == MarkedValue(c.positions, c.prices)
                n == MarkedValue(book, c.prices)
    <3>. HIDE DEF x, m, n, d, book
    <3>1. n = m + x /\ m \in Int /\ x \in Int /\ d.total = c.total /\ d.cash = c.cash - x
      BY <2>6, <2>7, <2>8 DEF x, m, n
    <3>2. c.total = c.cash + m => d.total = d.cash + n
      BY <1>1, <3>1
    <3>. QED  BY <2>8, <3>2 DEF Synced, m, n
  <2>. QED  BY <2>1, <2>3, <2>9
<1>. QED  BY <1>2, <1>3

\* The trades of a date, one after the other.
LEMMA ReplayedTrades ==
  ASSUME NEW a, NEW s, NEW c, ContextOK(c),
         a.blotter \in Seq([day : Nat, symbol : Symbols, qty : Int])
  PROVE  LET r == ReplayTransactions(a, s, c)
         IN  /\ r = [s |-> s, c |-> r.c, status |-> "continue"]
             /\ ContextOK(r.c) /\ BookedContext(r.c, c)
             /\ Synced(c) => Synced(r.c)
<1>. DEFINE n == Len(a.blotter)
            Step(h, k) == IF k = 0 THEN c
                          ELSE IF a.blotter[k].day = c.day THEN Filled(h[k-1], a.blotter[k])
                          ELSE h[k-1]
            P(h) == h = [k \in 0..n |-> Step(h, k)]
            after == CHOOSE h : P(h)
<1>1. n \in Nat /\ \A k \in 1..n : a.blotter[k] \in [day : Nat, symbol : Symbols, qty : Int]
  <2>. DEFINE U == [day : Nat, symbol : Symbols, qty : Int]
  <2>. HIDE DEF U
  <2>1. \A q \in Seq(U) : Len(q) \in Nat /\ \A k \in 1..Len(q) : q[k] \in U
    OBVIOUS
  <2>. QED  BY <2>1 DEF U
<1>. HIDE DEF n
<1>2. \E h : P(h)
  <2>. DEFINE B == {m \in 0..n : ~ \E h : h = [k \in 0..m |-> Step(h, k)]}
  <2>1. 0 \notin B
    <3>. DEFINE g == [k \in 0..0 |-> c]
    <3>1. g = [k \in 0..0 |-> Step(g, k)]
      OBVIOUS
    <3>. QED  BY <3>1
  <2>2. ASSUME NEW m \in 1..n, m - 1 \in 0..n, m - 1 \notin B PROVE m \notin B
    <3>1. m \in Nat /\ m # 0 /\ 0..(m-1) \subseteq 0..m /\ \A k \in 0..m : k # m => k \in 0..(m-1)
      BY <1>1
    <3>2. PICK h : h = [k \in 0..(m-1) |-> Step(h, k)]
      BY <2>2
    <3>. DEFINE g == [k \in 0..m |-> IF k = m THEN Step(h, m) ELSE h[k]]
    <3>3. \A k \in 0..m : g[k] = IF k = m THEN Step(h, m) ELSE h[k]
      OBVIOUS
    <3>4. \A k \in 1..m : g[k-1] = h[k-1]
      BY <3>1, <3>3
    <3>5. ASSUME NEW k \in 0..m PROVE g[k] = Step(g, k)
      <4>1. CASE k = m
        BY <3>1, <3>3, <3>4, <4>1
      <4>2. CASE k # m
        <5>1. k \in 0..(m-1) /\ h[k] = Step(h, k)
          BY <3>1, <3>2, <4>2
        <5>2. k = 0 \/ g[k-1] = h[k-1]
          BY <3>1, <3>4
        <5>. QED  BY <3>3, <4>2, <5>1, <5>2
      <4>. QED  BY <4>1, <4>2
    <3>6. g = [k \in 0..m |-> g[k]]
      OBVIOUS
    <3>. HIDE DEF g
    <3>7. g = [k \in 0..m |-> Step(g, k)]
      BY <3>5, <3>6
    <3>. QED  BY <3>7
  <2>3. B = {}
    <3>1. B \in SUBSET (0..n)
      OBVIOUS
    <3>. HIDE DEF B
    <3>. QED  BY <1>1, <2>1, <2>2, <3>1, FirstFailure
  <2>4. n \in 0..n
    BY <1>1
  <2>. QED  BY <2>3, <2>4
<1>3. P(after)
  BY <1>2, Zenon
<1>4. ReplayTransactions(a, s, c) = Continue(s, after[n])
  BY Zenon DEF ReplayTransactions, n
<1>. HIDE DEF after
<1>5. \A k \in 0..n : after[k] = Step(after, k)
  BY <1>3
<1>. DEFINE Good(d) == ContextOK(d) /\ BookedContext(d, c) /\ (Synced(c) => Synced(d))
            B == {k \in 0..n : ~ Good(after[k])}
<1>6. Good(c)
  BY DEF BookedContext, ContextOK
<1>7. ASSUME NEW d, Good(d), NEW t \in [day : Nat, symbol : Symbols, qty : Int] PROVE Good(Filled(d, t))
  <2>1. /\ ContextOK(Filled(d, t)) /\ BookedContext(Filled(d, t), d)
        /\ Synced(d) => Synced(Filled(d, t))
    BY <1>7, FilledTrade
  <2>2. BookedContext(d, c)
    BY <1>7
  <2>3. ASSUME NEW e, BookedContext(e, d) PROVE BookedContext(e, c)
    <3>1. /\ d = [c EXCEPT !.cash = d.cash, !.positions = d.positions]
          /\ e = [d EXCEPT !.cash = e.cash, !.positions = e.positions]
          /\ e.cash \in Int /\ IsBook(e.positions)
      BY <2>2, <2>3 DEF BookedContext
    <3>2. e = [c EXCEPT !.cash = e.cash, !.positions = e.positions]
      BY <3>1
    <3>. QED  BY <3>1, <3>2 DEF BookedContext
  <2>. QED  BY <1>7, <2>1, <2>3
<1>. HIDE DEF Good
<1>8. 0 \notin B
  BY <1>1, <1>5, <1>6
<1>9. ASSUME NEW m \in 1..n, m - 1 \in 0..n, m - 1 \notin B PROVE m \notin B
  <2>1. Good(after[m-1])
    BY <1>9
  <2>2. after[m] \in {Filled(after[m-1], a.blotter[m]), after[m-1]}
    BY <1>1, <1>5
  <2>3. Good(Filled(after[m-1], a.blotter[m]))
    BY <1>1, <1>7, <2>1
  <2>. QED  BY <2>1, <2>2, <2>3
<1>10. B = {}
  <2>1. B \in SUBSET (0..n)
    OBVIOUS
  <2>. HIDE DEF B
  <2>. QED  BY <1>1, <1>8, <1>9, <2>1, FirstFailure
<1>11. Good(after[n])
  BY <1>1, <1>10
<1>. QED  BY <1>4, <1>11 DEF Continue, Good

\* Whole shares bought out of the whole capital leave the total as it is.
LEMMA RebookedFits ==
  ASSUME NEW c, ContextOK(c), NEW q, IsBook(q)
  PROVE  LET d == Rebooked(c, q)
         IN  /\ ContextOK(d) /\ BookedContext(d, c) /\ Synced(d)
             /\ d.positions = q /\ d.cash = c.total - MarkedValue(q, c.prices)
             /\ d.total = c.total /\ d.prices = c.prices
<1>. DEFINE v == c.total - MarkedValue(q, c.prices)
            d == WithBooks(c, v, q)
<1>1. MarkedValue(q, c.prices) \in Int /\ c.total \in Int
  BY MarkedTerms DEF ContextOK
<1>2. v \in Int /\ c.total = v + MarkedValue(q, c.prices)
  BY <1>1
<1>3. Rebooked(c, q) = d
  <2>1. ASSUME NEW day, NEW row, NEW past, NEW total, NEW money, NEW book, NEW chosen, NEW aim,
               c = [day |-> day, prices |-> row, history |-> past, total |-> total,
                    cash |-> money, positions |-> book, selected |-> chosen, target |-> aim]
        PROVE  Rebooked(c, q) = d
    BY <2>1 DEF Rebooked, WithBooks
  <2>2. c = [day |-> c.day, prices |-> c.prices, history |-> c.history, total |-> c.total,
             cash |-> c.cash, positions |-> c.positions, selected |-> c.selected, target |-> c.target]
    BY DEF ContextOK
  <2>. QED  BY <2>1, <2>2, Zenon
<1>. HIDE DEF v
<1>4. /\ ContextOK(d) /\ BookedContext(d, c)
      /\ d.cash = v /\ d.positions = q /\ d.total = c.total /\ d.prices = c.prices
  BY <1>2, BookedFits
<1>. HIDE DEF d
<1>5. Synced(d)
  BY <1>2, <1>4 DEF Synced
<1>. QED  BY <1>3, <1>4, <1>5 DEF v

BookedOutcome(r, s, c) ==
  /\ r = [s |-> r.s, c |-> r.c, status |-> r.status]
  /\ r.status \in {"continue", "skip_day", "NaN"}
  /\ StateOK(r.s)
  /\ ContextOK(r.c) /\ BookedContext(r.c, c)
  /\ r.status = "NaN" => \E x \in DOMAIN c.target : ~ Priced(c, x)

\* Of the booking algos only the one that closes after dates changes the value.
LEMMA Books ==
  ASSUME NEW a, NEW s, NEW c, NEW draw, WellFormedAlgo(a), a.kind \in Booking,
         StateOK(s), ContextOK(c)
  PROVE  LET r == CallAlgo(a, s, c, draw)
         IN  /\ BookedOutcome(r, s, c)
             /\ a.kind # "ClosePositionsAfterDates" /\ Synced(c) => Synced(r.c)
<1>. DEFINE Keeps(r) == BookedOutcome(r, s, c) /\ (Synced(c) => Synced(r.c))
<1>1. /\ c.cash \in Int /\ c.total \in Int /\ ONE \in Nat \ {0} /\ IsBook(c.positions)
      /\ IsBook(c.target) /\ c.prices \in PriceRow
      /\ \A x \in Symbols : c.prices[x] \in Int
  <2>1. /\ c.cash \in Int /\ c.total \in Int /\ IsBook(c.positions)
        /\ IsBook(c.target) /\ c.prices \in PriceRow
    BY DEF ContextOK
  <2>2. \A x \in Symbols : c.prices[x] \in Int
    BY <2>1 DEF PriceRow, NaN
  <2>3. ONE \in Nat \ {0}
    BY PipelineAssumption
  <2>. QED  BY <2>1, <2>2, <2>3
<1>2. ASSUME NEW t, StateOK(t) PROVE Keeps(Skip(t, c))
  BY <1>2 DEF Skip, BookedOutcome, BookedContext, ContextOK
<1>3. ASSUME NEW t, StateOK(t), NEW q, IsBook(q) PROVE Keeps(Continue(t, Rebooked(c, q)))
  BY <1>3, RebookedFits DEF Continue, BookedOutcome
<1>4. ASSUME NEW S, S \subseteq DOMAIN c.positions
      PROVE  LET w == [x \in S |-> c.positions[x]]
             IN  /\ BookedOutcome(Continue(s, Keeping(c, S)), s, c)
                 /\ IsBook(w) /\ Keeping(c, S).positions = w /\ Keeping(c, S).cash = c.cash
                 /\ Keeping(c, S).total = c.total /\ Keeping(c, S).prices = c.prices
  <2>. DEFINE w == [x \in S |-> c.positions[x]]
              d == WithBooks(c, c.cash, w)
  <2>1. IsBook(w)
    BY <1>1, <1>4 DEF IsBook
  <2>. HIDE DEF w
  <2>2. Keeping(c, S) = d
    <3>1. ASSUME NEW day, NEW row, NEW past, NEW total, NEW money, NEW book, NEW chosen, NEW aim,
                 c = [day |-> day, prices |-> row, history |-> past, total |-> total,
                      cash |-> money, positions |-> book, selected |-> chosen, target |-> aim]
          PROVE  [c EXCEPT !.positions = w] = d
      BY <3>1 DEF WithBooks
    <3>2. c = [day |-> c.day, prices |-> c.prices, history |-> c.history, total |-> c.total,
               cash |-> c.cash, positions |-> c.positions, selected |-> c.selected, target |-> c.target]
      BY DEF ContextOK
    <3>3. [c EXCEPT !.positions = w] = d
      BY <3>1, <3>2, Zenon
    <3>. QED  BY <3>3 DEF Keeping, w
  <2>3. /\ ContextOK(d) /\ BookedContext(d, c)
        /\ d.cash = c.cash /\ d.positions = w /\ d.total = c.total /\ d.prices = c.prices
    BY <1>1, <2>1, BookedFits
  <2>. HIDE DEF d
  <2>. QED  BY <2>1, <2>2, <2>3 DEF Continue, BookedOutcome, w
<1>5. CASE a.kind = "ReplayTransactions"
  <2>1. a.blotter \in Seq([day : Nat, symbol : Symbols, qty : Int])
    BY <1>5 DEF WellFormedAlgo
  <2>2. CallAlgo(a, s, c, draw) = ReplayTransactions(a, s, c)
    BY <1>5 DEF CallAlgo
  <2>. DEFINE r == ReplayTransactions(a, s, c)
  <2>3. /\ r = [s |-> s, c |-> r.c, status |-> "continue"]
        /\ ContextOK(r.c) /\ BookedContext(r.c, c)
        /\ Synced(c) => Synced(r.c)
    BY <2>1, ReplayedTrades
  <2>. HIDE DEF r
  <2>4. r.s = s /\ r.status = "continue"
    BY <2>3
  <2>5. BookedOutcome(r, s, c)
    BY <2>3, <2>4 DEF BookedOutcome
  <2>. QED  BY <2>2, <2>3, <2>5 DEF r
<1>6. CASE a.kind = "CloseDead"
  <2>. DEFINE S == {x \in DOMAIN c.positions : Priced(c, x) /\ c.prices[x] > 0}
              w == [x \in S |-> c.positions[x]]
              d == Keeping(c, S)
  <2>1. CallAlgo(a, s, c, draw) = Continue(s, d)
    BY <1>6 DEF CallAlgo, CloseDead
  <2>2. /\ BookedOutcome(Continue(s, d), s, c) /\ IsBook(w)
        /\ d.positions = w /\ d.cash = c.cash /\ d.total = c.total /\ d.prices = c.prices
    <3>1. S \subseteq DOMAIN c.positions
      OBVIOUS
    <3>. HIDE DEF S
    <3>. QED  BY <1>4, <3>1
  <2>3. \A x \in Symbols : Marked(c.positions, c.prices, x) = Marked(w, c.prices, x)
    <3>1. ASSUME NEW x \in Symbols PROVE Marked(c.positions, c.prices, x) = Marked(w, c.prices, x)
      <4>1. CASE x \in S \/ x \notin DOMAIN c.positions \/ c.prices[x] = NaN
        BY <4>1 DEF Marked
      <4>2. CASE x \in DOMAIN c.positions /\ x \notin S /\ c.prices[x] # NaN
        <5>1. c.prices[x] = 0 /\ c.positions[x] \in Int
          BY <1>1, <4>2 DEF PriceRow, IsBook, Priced, NaN
        <5>2. c.positions[x] * c.prices[x] = 0
          BY <5>1
        <5>. QED  BY <4>2, <5>2 DEF Marked
      <4>. QED  BY <4>1, <4>2
    <3>. QED  BY <3>1
  <2>. HIDE DEF w, d
  <2>4. MarkedValue(c.positions, c.prices) = MarkedValue(w, c.prices)
    BY <1>1, <2>2, <2>3, MarkedSame
  <2>. QED  BY <2>1, <2>2, <2>4 DEF Synced, Continue
<1>7. CASE a.kind = "ClosePositionsAfterDates"
  <2>. DEFINE S == {x \in DOMAIN c.positions : ~(x \in DOMAIN a.schedule /\ c.day >= a.schedule[x])}
  <2>1. S \subseteq DOMAIN c.positions
    OBVIOUS
  <2>2. CallAlgo(a, s, c, draw) = Continue(s, Keeping(c, S))
    BY <1>7 DEF CallAlgo, ClosePositionsAfterDates
  <2>. HIDE DEF S
  <2>. QED  BY <1>4, <1>7, <2>1, <2>2
<1>8. CASE a.kind = "Rebalance"
  <2>. DEFINE bought == {x \in DOMAIN c.target : c.prices[x] > 0}
              share(x) == Floored(c.total * c.target[x], ONE * c.prices[x], x \in DOMAIN draw)
              q == [x \in bought |-> share(x)]
  <2>1. ASSUME NEW x \in bought PROVE share(x) \in Int
    <3>1. c.target[x] \in Int /\ c.prices[x] \in Nat \ {0}
      BY <1>1, <2>1 DEF IsBook
    <3>2. c.total * c.target[x] \in Int /\ ONE * c.prices[x] \in Nat /\ ONE * c.prices[x] # 0
      BY <1>1, <3>1, ProductNat
    <3>. HIDE DEF q
    <3>. QED  BY <3>2, FlooredQuotient
  <2>2. IsBook(q)
    BY <1>1, <2>1 DEF IsBook
  <2>. HIDE DEF q, bought
  <2>3. Keeps(Continue(s, Rebooked(c, q))) /\ Keeps(Skip(s, c))
    BY <1>2, <1>3, <2>2
  <2>4. (\E x \in DOMAIN c.target : ~Priced(c, x)) => Keeps([s |-> s, c |-> c, status |-> "NaN"])
    BY DEF BookedOutcome, BookedContext, ContextOK
  <2>5. \/ CallAlgo(a, s, c, draw) = Skip(s, c)
        \/ /\ \E x \in DOMAIN c.target : ~Priced(c, x)
           /\ CallAlgo(a, s, c, draw) = [s |-> s, c |-> c, status |-> "NaN"]
        \/ CallAlgo(a, s, c, draw) = Continue(s, Rebooked(c, q))
    BY <1>8 DEF CallAlgo, Rebalance, q, bought
  <2>. HIDE DEF Keeps
  <2>6. Keeps(CallAlgo(a, s, c, draw))
    BY <2>3, <2>4, <2>5
  <2>. QED  BY <2>6 DEF Keeps
<1>9. CASE a.kind = "RebalanceOverTime"
  <2>. DEFINE fresh  == c.target # Nothing /\ c.target # s.target
              target == IF fresh THEN c.target ELSE s.target
              left   == IF fresh THEN a.n ELSE s.left
              t      == [s EXCEPT !.target = target, !.left = left]
              u      == [t EXCEPT !.left = left - 1]
              qty(x) == Instalment(c, x, IF x \in DOMAIN target THEN target[x] ELSE 0, left, x \in DOMAIN draw)
              kept   == {x \in DOMAIN target \cup DOMAIN c.positions : c.prices[x] > 0 /\ qty(x) > 0}
              q      == [x \in kept |-> qty(x)]
  <2>1. a.n \in Int
    BY <1>9 DEF WellFormedAlgo
  <2>2. IsBook(target) /\ left \in Int
    BY <1>1, <2>1 DEF StateOK
  <2>3. CallAlgo(a, s, c, draw) = IF left <= 0 \/ target = Nothing \/ c.total <= 0 THEN Skip(t, c)
                                  ELSE Continue(u, Rebooked(c, q))
    BY <1>9 DEF CallAlgo, RebalanceOverTime
  <2>. HIDE DEF fresh, target, left
  <2>4. StateOK(t) /\ StateOK(u)
    <3>1. s = [key |-> s.key, count |-> s.count, peak |-> s.peak, target |-> s.target, left |-> s.left]
      BY DEF StateOK
    <3>2. t = [key |-> s.key, count |-> s.count, peak |-> s.peak, target |-> target, left |-> left]
      <4>1. ASSUME NEW key, NEW count, NEW peak, NEW aim, NEW rest,
                   s = [key |-> key, count |-> count, peak |-> peak, target |-> aim, left |-> rest]
            PROVE  t = [key |-> s.key, count |-> s.count, peak |-> s.peak, target |-> target, left |-> left]
        <5>. DEFINE v == [s EXCEPT !.target = target]
        <5>1. v = [key |-> key, count |-> count, peak |-> peak, target |-> target, left |-> rest]
          BY <4>1
        <5>2. t = [v EXCEPT !.left = left]
          OBVIOUS
        <5>. HIDE DEF v, t
        <5>3. t = [key |-> key, count |-> count, peak |-> peak, target |-> target, left |-> left]
          BY <5>1, <5>2
        <5>. QED  BY <4>1, <5>3
      <4>. HIDE DEF t
      <4>. QED  BY <3>1, <4>1, Zenon
    <3>3. u = [key |-> s.key, count |-> s.count, peak |-> s.peak, target |-> target, left |-> left - 1]
      <4>. HIDE DEF t
      <4>. QED  BY <3>2
    <3>4. left - 1 \in Int /\ s.count \in Int /\ s.peak \in Int
      BY <2>2 DEF StateOK
    <3>. HIDE DEF t, u
    <3>. QED  BY <2>2, <3>2, <3>3, <3>4 DEF StateOK
  <2>5. left > 0 => IsBook(q)
    <3>1. ASSUME NEW x \in kept, left > 0 PROVE qty(x) \in Int /\ x \in Symbols
      <4>1. x \in Symbols /\ c.prices[x] \in Nat \ {0}
        BY <1>1, <2>2, <3>1 DEF IsBook
      <4>2. Quantity(c, x) \in Int /\ (IF x \in DOMAIN target THEN target[x] ELSE 0) \in Int
        BY <1>1, <2>2 DEF IsBook, Quantity
      <4>3. left * ONE * c.prices[x] \in Nat \ {0}
        <5>1. left \in Nat \ {0}
          BY <2>2, <3>1
        <5>2. left * ONE \in Nat /\ left * ONE # 0
          BY <1>1, <5>1, ProductNat
        <5>3. (left * ONE) * c.prices[x] \in Nat /\ (left * ONE) * c.prices[x] # 0
          BY <4>1, <5>2, ProductNat
        <5>. QED  BY <5>3
      <4>4. ASSUME NEW aim \in Int
            PROVE  Quantity(c, x) * c.prices[x] * ONE * (left - 1) + c.total * aim \in Int
        BY <1>1, <2>2, <4>1, <4>2
      <4>5. ASSUME NEW aim \in Int PROVE Instalment(c, x, aim, left, x \in DOMAIN draw) \in Int
        <5>. DEFINE num == Quantity(c, x) * c.prices[x] * ONE * (left - 1) + c.total * aim
                    den == left * ONE * c.prices[x]
        <5>1. num \in Int /\ den \in Nat \ {0}
          BY <4>3, <4>4
        <5>2. Instalment(c, x, aim, left, x \in DOMAIN draw) = Floored(num, den, x \in DOMAIN draw)
          BY DEF Instalment
        <5>. HIDE DEF num, den
        <5>. QED  BY <5>1, <5>2, FlooredQuotient
      <4>. QED  BY <4>1, <4>2, <4>5
    <3>. HIDE DEF qty, kept
    <3>. QED  BY <3>1 DEF IsBook
  <2>. HIDE DEF t, u, q
  <2>6. Keeps(Skip(t, c)) /\ (left > 0 => Keeps(Continue(u, Rebooked(c, q))))
    BY <1>2, <1>3, <2>4, <2>5
  <2>. HIDE DEF Keeps
  <2>7. Keeps(CallAlgo(a, s, c, draw))
    <3>1. ~ (left <= 0) => left > 0
      BY <2>2
    <3>. QED  BY <2>3, <2>6, <3>1
  <2>. QED  BY <2>7 DEF Keeps
<1>. QED  BY <1>5, <1>6, <1>7, <1>8, <1>9 DEF Booking

-----------------------------------------------------------------------------
(* A call.                                                                 *)

CallOutcome(r, c, T) ==
  /\ r = [s |-> r.s, c |-> r.c, status |-> r.status]
  /\ r.status \in Statuses /\ StateOK(r.s)
  /\ ContextOK(r.c) /\ SameDate(c, r.c)
  /\ r.c.selected \in Seq(T) /\ BookOver(r.c.target, T)
  /\ r.status = "NaN" => ~ (T \subseteq PricedSymbols(c))

\* What each group changes leaves a context of the same date.
LEMMA ContextsKept ==
  ASSUME NEW T, T \subseteq Symbols, NEW c, ContextOK(c), NEW d
  PROVE  /\ d = [c EXCEPT !.selected = d.selected] /\ d.selected \in Seq(T)
            => /\ ContextOK(d) /\ SameDate(c, d) /\ d.target = c.target
               /\ d.total = c.total /\ d.cash = c.cash /\ d.positions = c.positions
         /\ d = [c EXCEPT !.target = d.target] /\ BookOver(d.target, T)
            => /\ ContextOK(d) /\ SameDate(c, d) /\ d.selected = c.selected
               /\ d.total = c.total /\ d.cash = c.cash /\ d.positions = c.positions
         /\ PaidContext(d, c, T)
            => /\ ContextOK(d) /\ SameDate(c, d) /\ d.selected = c.selected
               /\ d.positions = c.positions
         /\ BookedContext(d, c)
            => /\ SameDate(c, d) /\ d.selected = c.selected /\ d.target = c.target
               /\ d.total = c.total
<1>1. PICK day, row, past, total, money, book, chosen, aim :
        c = [day |-> day, prices |-> row, history |-> past, total |-> total,
             cash |-> money, positions |-> book, selected |-> chosen, target |-> aim]
  <2>1. c = [day |-> c.day, prices |-> c.prices, history |-> c.history, total |-> c.total,
             cash |-> c.cash, positions |-> c.positions, selected |-> c.selected, target |-> c.target]
    BY DEF ContextOK
  <2>. QED  BY <2>1, Zenon
<1>2. ASSUME d = [day |-> c.day, prices |-> c.prices, history |-> c.history, total |-> d.total,
                  cash |-> d.cash, positions |-> d.positions, selected |-> d.selected,
                  target |-> d.target],
             d.total \in Int, d.cash \in Int, IsBook(d.positions), IsBook(d.target),
             d.selected \in Seq(Symbols)
      PROVE  ContextOK(d) /\ SameDate(c, d)
  <2>1. d.day = c.day /\ d.prices = c.prices /\ d.history = c.history
    BY <1>2
  <2>. QED  BY <1>2, <2>1 DEF ContextOK, SameDate
<1>3. /\ c.total \in Int /\ c.cash \in Int /\ IsBook(c.positions) /\ IsBook(c.target)
      /\ c.selected \in Seq(Symbols)
  BY DEF ContextOK
<1>4. ASSUME d = [c EXCEPT !.selected = d.selected], d.selected \in Seq(T)
      PROVE  /\ ContextOK(d) /\ SameDate(c, d) /\ d.target = c.target
             /\ d.total = c.total /\ d.cash = c.cash /\ d.positions = c.positions
  <2>1. d.selected \in Seq(Symbols)
    BY <1>4, SeqWider
  <2>2. d = [day |-> c.day, prices |-> c.prices, history |-> c.history, total |-> c.total,
             cash |-> c.cash, positions |-> c.positions, selected |-> d.selected, target |-> c.target]
    BY <1>1, <1>4
  <2>3. d.target = c.target /\ d.total = c.total /\ d.cash = c.cash /\ d.positions = c.positions
    BY <2>2
  <2>. QED  BY <1>2, <1>3, <2>1, <2>2, <2>3
<1>5. ASSUME d = [c EXCEPT !.target = d.target], BookOver(d.target, T)
      PROVE  /\ ContextOK(d) /\ SameDate(c, d) /\ d.selected = c.selected
             /\ d.total = c.total /\ d.cash = c.cash /\ d.positions = c.positions
  <2>1. IsBook(d.target)
    BY <1>5 DEF BookOver, IsBook
  <2>2. d = [day |-> c.day, prices |-> c.prices, history |-> c.history, total |-> c.total,
             cash |-> c.cash, positions |-> c.positions, selected |-> c.selected, target |-> d.target]
    BY <1>1, <1>5
  <2>3. d.selected = c.selected /\ d.total = c.total /\ d.cash = c.cash /\ d.positions = c.positions
    BY <2>2
  <2>. QED  BY <1>2, <1>3, <2>1, <2>2, <2>3
<1>6. ASSUME PaidContext(d, c, T)
      PROVE  /\ ContextOK(d) /\ SameDate(c, d) /\ d.selected = c.selected
             /\ d.positions = c.positions
  <2>1. IsBook(d.target) /\ d.total \in Int /\ d.cash \in Int
    BY <1>6 DEF PaidContext, BookOver, IsBook
  <2>2. d = [c EXCEPT !.cash = d.cash, !.total = d.total, !.target = d.target]
    BY <1>6 DEF PaidContext
  <2>3. d = [day |-> c.day, prices |-> c.prices, history |-> c.history, total |-> d.total,
             cash |-> d.cash, positions |-> c.positions, selected |-> c.selected, target |-> d.target]
    <3>. DEFINE v == d.cash
                w == d.total
                x == d.target
                e == [c EXCEPT !.cash = v]
                f == [e EXCEPT !.total = w]
                g == [f EXCEPT !.target = x]
    <3>1. d = g
      BY <2>2
    <3>. HIDE DEF v, w, x
    <3>2. e = [day |-> day, prices |-> row, history |-> past, total |-> total,
               cash |-> v, positions |-> book, selected |-> chosen, target |-> aim]
      BY <1>1
    <3>. HIDE DEF e
    <3>3. f = [day |-> day, prices |-> row, history |-> past, total |-> w,
               cash |-> v, positions |-> book, selected |-> chosen, target |-> aim]
      BY <3>2
    <3>. HIDE DEF f
    <3>4. g = [day |-> day, prices |-> row, history |-> past, total |-> w,
               cash |-> v, positions |-> book, selected |-> chosen, target |-> x]
      BY <3>3
    <3>. HIDE DEF g
    <3>5. /\ c.day = day /\ c.prices = row /\ c.history = past /\ c.positions = book
          /\ c.selected = chosen
      BY <1>1
    <3>6. d = [day |-> c.day, prices |-> c.prices, history |-> c.history, total |-> w,
               cash |-> v, positions |-> c.positions, selected |-> c.selected, target |-> x]
      BY <3>1, <3>4, <3>5, Zenon
    <3>. QED  BY <3>6 DEF v, w, x
  <2>4. d.selected = c.selected /\ d.positions = c.positions
    BY <2>3
  <2>. QED  BY <1>2, <1>3, <2>1, <2>3, <2>4
<1>7. ASSUME BookedContext(d, c)
      PROVE  /\ SameDate(c, d) /\ d.selected = c.selected /\ d.target = c.target
             /\ d.total = c.total
  <2>1. d = [c EXCEPT !.cash = d.cash, !.positions = d.positions]
    BY <1>7 DEF BookedContext
  <2>2. /\ d.day = c.day /\ d.prices = c.prices /\ d.history = c.history
        /\ d.selected = c.selected /\ d.target = c.target /\ d.total = c.total
    <3>. DEFINE v == d.cash
                w == d.positions
                e == [c EXCEPT !.cash = v]
                f == [e EXCEPT !.positions = w]
    <3>1. d = f
      BY <2>1
    <3>. HIDE DEF v, w
    <3>2. e = [day |-> day, prices |-> row, history |-> past, total |-> total,
               cash |-> v, positions |-> book, selected |-> chosen, target |-> aim]
      BY <1>1
    <3>. HIDE DEF e
    <3>3. f = [day |-> day, prices |-> row, history |-> past, total |-> total,
               cash |-> v, positions |-> w, selected |-> chosen, target |-> aim]
      BY <3>2
    <3>. HIDE DEF f
    <3>. QED  BY <1>1, <3>1, <3>3
  <2>. QED  BY <2>2 DEF SameDate
<1>. QED  BY <1>4, <1>5, <1>6, <1>7

\* Whatever the algo, a call leaves a context of the date, over the symbols it
\* was called with, and only a rebalance into an unpriced symbol loses the cash;
\* unless it closes positions after a date, the total stays the value of the books.
LEMMA Calls ==
  ASSUME NEW a, NEW s, NEW c, NEW draw, NEW T, WellFormedAlgo(a), StateOK(s), ContextOK(c),
         T \subseteq Symbols, PricedSymbols(c) \subseteq T,
         c.selected \in Seq(T), BookOver(c.target, T),
         a.kind \in {"SelectRegex", "SelectHasData"} => T = Symbols,
         a.kind \in Drawing => draw \in Draws(a, c)
  PROVE  LET r == CallAlgo(a, s, c, draw)
         IN  /\ CallOutcome(r, c, T)
             /\ a.kind # "ClosePositionsAfterDates" /\ Synced(c) => Synced(r.c)
<1>. DEFINE r == CallAlgo(a, s, c, draw)
            d == r.c
<1>1. a.kind \in UNION {Asking, Selecting, Weighing, Paying, Booking}
  BY DEF WellFormedAlgo
<1>2. CASE a.kind \in Asking
  <2>1. AskedOutcome(r, s, c)
    BY <1>2, Asks
  <2>. HIDE DEF r
  <2>2. d = c /\ r = [s |-> r.s, c |-> r.c, status |-> r.status] /\ StateOK(r.s)
        /\ r.status \in {"continue", "skip_day"}
    BY <2>1 DEF AskedOutcome
  <2>. QED  BY <2>2 DEF CallOutcome, SameDate, Statuses, r
<1>3. CASE a.kind \in Selecting
  <2>1. SelectedOutcome(r, s, c, T)
    BY <1>3, Selects DEF Drawing
  <2>. HIDE DEF r
  <2>2. /\ d = [c EXCEPT !.selected = d.selected] /\ d.selected \in Seq(T) /\ r.s = s
        /\ r = [s |-> r.s, c |-> r.c, status |-> r.status] /\ r.status \in {"continue", "skip_day"}
    BY <2>1 DEF SelectedOutcome
  <2>3. /\ ContextOK(d) /\ SameDate(c, d) /\ d.target = c.target
        /\ d.total = c.total /\ d.cash = c.cash /\ d.positions = c.positions
    BY <2>2, ContextsKept
  <2>. QED  BY <2>2, <2>3 DEF CallOutcome, SameDate, Statuses, Synced, r
<1>4. CASE a.kind \in Weighing
  <2>1. WeighedOutcome(r, s, c, T)
    BY <1>4, Weighs
  <2>. HIDE DEF r
  <2>2. /\ d = [c EXCEPT !.target = d.target] /\ BookOver(d.target, T) /\ r.s = s
        /\ r = [s |-> r.s, c |-> r.c, status |-> r.status] /\ r.status \in {"continue", "skip_day"}
    BY <2>1 DEF WeighedOutcome
  <2>3. /\ ContextOK(d) /\ SameDate(c, d) /\ d.selected = c.selected
        /\ d.total = c.total /\ d.cash = c.cash /\ d.positions = c.positions
    BY <2>2, ContextsKept
  <2>. QED  BY <2>2, <2>3 DEF CallOutcome, SameDate, Statuses, Synced, r
<1>5. CASE a.kind \in Paying
  <2>1. PaidOutcome(r, s, c, T)
    BY <1>5, Pays
  <2>. HIDE DEF r
  <2>2. /\ PaidContext(d, c, T) /\ StateOK(r.s)
        /\ r = [s |-> r.s, c |-> r.c, status |-> r.status] /\ r.status \in {"continue", "stop"}
    BY <2>1 DEF PaidOutcome
  <2>3. /\ ContextOK(d) /\ SameDate(c, d) /\ d.selected = c.selected
        /\ d.positions = c.positions
    BY <2>2, ContextsKept
  <2>4. BookOver(d.target, T)
    BY <2>2 DEF PaidContext
  <2>5. Synced(c) => Synced(d)
    <3>. DEFINE m == MarkedValue(c.positions, c.prices)
    <3>1. m \in Int /\ MarkedValue(d.positions, d.prices) = m
      BY <2>3, MarkedTerms DEF ContextOK, SameDate
    <3>2. /\ d.total - d.cash = c.total - c.cash
          /\ d.total \in Int /\ d.cash \in Int /\ c.total \in Int /\ c.cash \in Int
      BY <2>2 DEF PaidContext, ContextOK
    <3>. HIDE DEF m
    <3>3. c.total = c.cash + m => d.total = d.cash + m
      BY <3>1, <3>2
    <3>. QED  BY <3>1, <3>3 DEF Synced, m
  <2>. QED  BY <2>2, <2>3, <2>4, <2>5 DEF CallOutcome, Statuses, r
<1>6. CASE a.kind \in Booking
  <2>1. BookedOutcome(r, s, c) /\ (a.kind # "ClosePositionsAfterDates" /\ Synced(c) => Synced(d))
    BY <1>6, Books
  <2>. HIDE DEF r
  <2>2. /\ BookedContext(d, c) /\ StateOK(r.s) /\ ContextOK(d)
        /\ r = [s |-> r.s, c |-> r.c, status |-> r.status]
        /\ r.status \in {"continue", "skip_day", "NaN"}
        /\ r.status = "NaN" => \E x \in DOMAIN c.target : ~ Priced(c, x)
    BY <2>1 DEF BookedOutcome
  <2>3. SameDate(c, d) /\ d.selected = c.selected /\ d.target = c.target
    BY <2>2, ContextsKept
  <2>. QED  BY <2>1, <2>2, <2>3 DEF CallOutcome, Statuses, PricedSymbols, BookOver, r
<1>. QED  BY <1>1, <1>2, <1>3, <1>4, <1>5, <1>6

\* The children of an Or, asked one after the other.
InTurn(a, ss, c, draw) ==
  \E h : /\ h[0] = Unasked(c)
         /\ \A k \in 1..Len(ss) : h[k] = AskNext(h[k-1], a.algos[k], ss[k], draw)
         /\ Or(a, ss, c, draw) = h[Len(ss)]

LEMMA AskedInTurn ==
  ASSUME NEW a, NEW ss, NEW c, NEW draw, Len(ss) \in Nat
  PROVE  InTurn(a, ss, c, draw)
<1>. DEFINE n == Len(ss)
            Step(h, k) == IF k = 0 THEN Unasked(c)
                          ELSE AskNext(h[k-1], a.algos[k], ss[k], draw)
            P(h) == h = [k \in 0..n |-> Step(h, k)]
            asked == CHOOSE h : P(h)
<1>1. n \in Nat
  OBVIOUS
<1>. HIDE DEF n
<1>2. \E h : P(h)
  <2>. DEFINE B == {m \in 0..n : ~ \E h : h = [k \in 0..m |-> Step(h, k)]}
  <2>1. 0 \notin B
    <3>. DEFINE g == [k \in 0..0 |-> Unasked(c)]
    <3>1. g = [k \in 0..0 |-> Step(g, k)]
      OBVIOUS
    <3>. QED  BY <3>1
  <2>2. ASSUME NEW m \in 1..n, m - 1 \in 0..n, m - 1 \notin B PROVE m \notin B
    <3>1. m \in Nat /\ m # 0 /\ 0..(m-1) \subseteq 0..m /\ \A k \in 0..m : k # m => k \in 0..(m-1)
      BY <1>1
    <3>2. PICK h : h = [k \in 0..(m-1) |-> Step(h, k)]
      BY <2>2
    <3>. DEFINE g == [k \in 0..m |-> IF k = m THEN Step(h, m) ELSE h[k]]
    <3>3. \A k \in 0..m : g[k] = IF k = m THEN Step(h, m) ELSE h[k]
      OBVIOUS
    <3>4. \A k \in 1..m : g[k-1] = h[k-1]
      BY <3>1, <3>3
    <3>5. ASSUME NEW k \in 0..m PROVE g[k] = Step(g, k)
      <4>1. CASE k = m
        BY <3>1, <3>3, <3>4, <4>1
      <4>2. CASE k # m
        <5>1. k \in 0..(m-1) /\ h[k] = Step(h, k)
          BY <3>1, <3>2, <4>2
        <5>2. k = 0 \/ g[k-1] = h[k-1]
          BY <3>1, <3>4
        <5>. QED  BY <3>3, <4>2, <5>1, <5>2
      <4>. QED  BY <4>1, <4>2
    <3>6. g = [k \in 0..m |-> g[k]]
      OBVIOUS
    <3>. HIDE DEF g
    <3>7. g = [k \in 0..m |-> Step(g, k)]
      BY <3>5, <3>6
    <3>. QED  BY <3>7
  <2>3. B = {}
    <3>1. B \in SUBSET (0..n)
      OBVIOUS
    <3>. HIDE DEF B
    <3>. QED  BY <1>1, <2>1, <2>2, <3>1, FirstFailure
  <2>4. n \in 0..n
    BY <1>1
  <2>. QED  BY <2>3, <2>4
<1>3. P(asked)
  BY <1>2, Zenon
<1>4. Or(a, ss, c, draw) = asked[n]
  BY Zenon DEF Or, n
<1>. HIDE DEF asked
<1>5. \A k \in 0..n : asked[k] = Step(asked, k)
  BY <1>3
<1>6. asked[0] = Unasked(c)
  BY <1>1, <1>5
<1>7. \A k \in 1..n : asked[k] = AskNext(asked[k-1], a.algos[k], ss[k], draw)
  BY <1>1, <1>5
<1>. QED  BY <1>4, <1>6, <1>7 DEF n, InTurn

\* What is known after k children.
AskedOf(r, k, c, T) ==
  /\ r = [s |-> r.s, c |-> r.c, status |-> r.status]
  /\ r.status \in {"continue", "skip_day", "NaN"}
  /\ r.s = [i \in 1..k |-> r.s[i]] /\ \A i \in 1..k : StateOK(r.s[i])
  /\ ContextOK(r.c) /\ SameDate(c, r.c)
  /\ r.c.selected \in Seq(T) /\ BookOver(r.c.target, T)
  /\ r.status = "NaN" => ~ (T \subseteq PricedSymbols(c))

\* One more state at the end of a list of states.
LEMMA StatesGrown ==
  ASSUME NEW k \in Nat, NEW q, q = [i \in 1..k |-> q[i]], \A i \in 1..k : StateOK(q[i]),
         NEW t, StateOK(t)
  PROVE  LET p == Append(q, t)
         IN  p = [i \in 1..(k+1) |-> p[i]] /\ \A i \in 1..(k+1) : StateOK(p[i])
<1>. DEFINE U == {q[i] : i \in 1..k} \cup {t}
            p == Append(q, t)
<1>1. \A x \in U : StateOK(x)
  OBVIOUS
<1>2. \A i \in 1..k : q[i] \in U
  OBVIOUS
<1>3. t \in U
  OBVIOUS
<1>. HIDE DEF U
<1>4. q \in Seq(U) /\ Len(q) = k
  BY <1>2, IsASeq
<1>5. p \in Seq(U) /\ Len(p) = k + 1
  BY <1>3, <1>4
<1>6. p = [i \in 1..(k+1) |-> p[i]] /\ \A i \in 1..(k+1) : p[i] \in U
  <2>. HIDE DEF p
  <2>. QED  BY <1>5
<1>. QED  BY <1>1, <1>6

\* What an algo may be given and still keeps the contexts over T.
MayCall(a, T) == a.kind \in {"SelectRegex", "SelectHasData"} => T = Symbols

LEMMA ChildAsked ==
  ASSUME NEW T, T \subseteq Symbols, NEW c, ContextOK(c), PricedSymbols(c) \subseteq T,
         NEW k \in Nat, NEW acc, AskedOf(acc, k, c, T),
         NEW b, WellFormedAlgo(b), b.kind \notin Drawing, MayCall(b, T), NEW s, StateOK(s), NEW draw
  PROVE  LET r == AskChild(acc, b, s, draw)
         IN  /\ AskedOf(r, k + 1, c, T)
             /\ b.kind # "ClosePositionsAfterDates" /\ Synced(acc.c) => Synced(r.c)
<1>. DEFINE q == CallAlgo(b, s, acc.c, draw)
            r == AskChild(acc, b, s, draw)
<1>1. /\ ContextOK(acc.c) /\ SameDate(c, acc.c) /\ acc.c.selected \in Seq(T)
      /\ BookOver(acc.c.target, T) /\ acc.s = [i \in 1..k |-> acc.s[i]]
      /\ \A i \in 1..k : StateOK(acc.s[i])
  BY DEF AskedOf
<1>2. PricedSymbols(acc.c) = PricedSymbols(c)
  BY <1>1 DEF SameDate, PricedSymbols, Priced
<1>3. /\ CallOutcome(q, acc.c, T)
      /\ b.kind # "ClosePositionsAfterDates" /\ Synced(acc.c) => Synced(q.c)
  BY <1>1, <1>2, Calls DEF MayCall
<1>4. /\ r.s = Append(acc.s, q.s) /\ r.c = q.c
      /\ r.status = IF q.status \in {"continue", "NaN"} THEN q.status ELSE "skip_day"
      /\ r = [s |-> r.s, c |-> r.c, status |-> r.status]
  BY DEF AskChild
<1>. HIDE DEF r, q
<1>5. r.s = [i \in 1..(k+1) |-> r.s[i]] /\ \A i \in 1..(k+1) : StateOK(r.s[i])
  BY <1>1, <1>3, <1>4, StatesGrown DEF CallOutcome
<1>6. AskedOf(r, k + 1, c, T)
  BY <1>1, <1>2, <1>3, <1>4, <1>5 DEF AskedOf, CallOutcome, SameDate
<1>. QED  BY <1>3, <1>4, <1>6 DEF r, q

\* A turn of Or, whether the child is asked or not.
LEMMA NextAsked ==
  ASSUME NEW T, T \subseteq Symbols, NEW c, ContextOK(c), PricedSymbols(c) \subseteq T,
         NEW k \in Nat, NEW acc, AskedOf(acc, k, c, T),
         NEW b, WellFormedAlgo(b), b.kind \notin Drawing, MayCall(b, T), NEW s, StateOK(s), NEW draw
  PROVE  LET r == AskNext(acc, b, s, draw)
         IN  /\ AskedOf(r, k + 1, c, T)
             /\ b.kind # "ClosePositionsAfterDates" /\ Synced(acc.c) => Synced(r.c)
<1>. DEFINE r == AskNext(acc, b, s, draw)
<1>1. CASE acc.status = "skip_day"
  BY <1>1, ChildAsked DEF AskNext
<1>2. CASE acc.status # "skip_day"
  <2>. DEFINE q == Append(acc.s, s)
  <2>1. q = [i \in 1..(k+1) |-> q[i]] /\ \A i \in 1..(k+1) : StateOK(q[i])
    BY StatesGrown DEF AskedOf
  <2>2. acc = [s |-> acc.s, c |-> acc.c, status |-> acc.status] /\ r = [acc EXCEPT !.s = q]
    BY <1>2 DEF AskNext, AskedOf
  <2>. HIDE DEF q, r
  <2>3. /\ r.s = q /\ r.c = acc.c /\ r.status = acc.status
        /\ r = [s |-> r.s, c |-> r.c, status |-> r.status]
    BY <2>2
  <2>4. AskedOf(r, k + 1, c, T)
    BY <2>1, <2>3 DEF AskedOf
  <2>. QED  BY <2>3, <2>4 DEF r
<1>. QED  BY <1>1, <1>2

CalledOutcome(r, a, c, T) ==
  /\ r = [s |-> r.s, c |-> r.c, status |-> r.status]
  /\ r.status \in Statuses /\ StatesOK(a, r.s)
  /\ ContextOK(r.c) /\ SameDate(c, r.c)
  /\ r.c.selected \in Seq(T) /\ BookOver(r.c.target, T)
  /\ r.status = "NaN" => ~ (T \subseteq PricedSymbols(c))

Closes(a) == \E b \in Inside(a) : b.kind = "ClosePositionsAfterDates"

\* What holds of the call of an algo holds of the call of a combinator of algos.
LEMMA CallFits ==
  ASSUME NEW a, WellFormed(a), NEW ss, StatesOK(a, ss), NEW c, ContextOK(c), NEW T,
         T \subseteq Symbols, PricedSymbols(c) \subseteq T, c.selected \in Seq(T),
         BookOver(c.target, T), \A b \in Inside(a) : MayCall(b, T), NEW draw \in Draws(a, c)
  PROVE  LET r == Call(a, ss, c, draw)
         IN  /\ CalledOutcome(r, a, c, T)
             /\ ~ Closes(a) /\ Synced(c) => Synced(r.c)
<1>. DEFINE r == Call(a, ss, c, draw)
<1>1. CASE a.kind \in Combinators
  <2>. DEFINE n == Len(a.algos)
  <2>1. /\ n \in Nat \ {0} /\ (a.kind # "Or" => n = 1) /\ Len(ss) = n /\ \A i \in 1..n : StateOK(ss[i])
        /\ \A i \in 1..n : WellFormedAlgo(a.algos[i]) /\ a.algos[i].kind \notin Drawing
    <3>1. /\ IF a.kind = "Or" THEN n \in Nat \ {0} ELSE n = 1
          /\ \A i \in 1..n : WellFormedAlgo(a.algos[i]) /\ a.algos[i].kind \notin Drawing
      BY <1>1, Zenon DEF WellFormed
    <3>2. Len(ss) = n /\ \A i \in 1..Len(ss) : StateOK(ss[i])
      BY <1>1 DEF StatesOK
    <3>. HIDE DEF n
    <3>. QED  BY <3>1, <3>2
  <2>2. \A i \in 1..n : a.algos[i] \in Inside(a)
    <3>1. a.algos = [i \in 1..n |-> a.algos[i]]
      BY <1>1 DEF WellFormed
    <3>2. DOMAIN a.algos = 1..n
      BY <3>1, Zenon
    <3>. QED  BY <1>1, <3>2 DEF Inside
  <2>3. \A i \in 1..n : MayCall(a.algos[i], T)
    BY <2>2
  <2>4. ~ Closes(a) => \A i \in 1..n : a.algos[i].kind # "ClosePositionsAfterDates"
    BY <2>2 DEF Closes
  <2>5. AskedOf(Unasked(c), 0, c, T) /\ Unasked(c).c = c
    <3>1. /\ Unasked(c).s = Nothing /\ Unasked(c).c = c /\ Unasked(c).status = "skip_day"
          /\ Unasked(c) = [s |-> Unasked(c).s, c |-> Unasked(c).c, status |-> Unasked(c).status]
      BY DEF Unasked
    <3>2. Nothing = [i \in 1..0 |-> Nothing[i]] /\ 1..0 = {}
      BY DEF Nothing
    <3>. QED  BY <3>1, <3>2 DEF AskedOf, SameDate
  <2>. HIDE DEF n
  <2>6. ASSUME NEW q, AskedOf(q, n, c, T), ~ Closes(a) /\ Synced(c) => Synced(q.c)
        PROVE  CalledOutcome(q, a, c, T) /\ (~ Closes(a) /\ Synced(c) => Synced(q.c))
    <3>1. q.s = [i \in 1..n |-> q.s[i]] /\ \A i \in 1..n : StateOK(q.s[i])
      BY <2>6 DEF AskedOf
    <3>2. StatesOK(a, q.s)
      <4>1. Len(q.s) = n
        <5>. DEFINE U == {q.s[i] : i \in 1..n}
        <5>1. \A i \in 1..n : q.s[i] \in U
          OBVIOUS
        <5>. HIDE DEF U
        <5>. QED  BY <2>1, <3>1, <5>1, IsASeq
      <4>. QED  BY <1>1, <3>1, <4>1 DEF StatesOK, n
    <3>. QED  BY <2>6, <3>2 DEF AskedOf, CalledOutcome, Statuses
  <2>7. CASE a.kind = "Or"
    <3>1. Len(ss) \in Nat
      BY <2>1
    <3>0. InTurn(a, ss, c, draw)
      BY <3>1, AskedInTurn
    <3>2. PICK h : /\ h[0] = Unasked(c)
                   /\ \A k \in 1..Len(ss) : h[k] = AskNext(h[k-1], a.algos[k], ss[k], draw)
                   /\ Or(a, ss, c, draw) = h[Len(ss)]
      BY <3>0, Zenon DEF InTurn
    <3>. DEFINE Good(k) == AskedOf(h[k], k, c, T) /\ (~ Closes(a) /\ Synced(c) => Synced(h[k].c))
                B == {k \in 0..n : ~ Good(k)}
    <3>3. Good(0)
      BY <2>5, <3>2
    <3>4. ASSUME NEW m \in 1..n, m - 1 \in 0..n, m - 1 \notin B PROVE m \notin B
      <4>1. m - 1 \in Nat /\ (m - 1) + 1 = m /\ Good(m-1)
        BY <2>1, <3>4
      <4>. DEFINE acc == h[m-1]
      <4>2. h[m] = AskNext(acc, a.algos[m], ss[m], draw)
        BY <2>1, <3>2
      <4>3. AskedOf(acc, m - 1, c, T) /\ (~ Closes(a) /\ Synced(c) => Synced(acc.c))
        BY <4>1
      <4>. HIDE DEF acc
      <4>4. /\ AskedOf(h[m], (m - 1) + 1, c, T)
            /\ a.algos[m].kind # "ClosePositionsAfterDates" /\ Synced(acc.c) => Synced(h[m].c)
        BY <2>1, <2>3, <4>1, <4>2, <4>3, NextAsked
      <4>. QED  BY <2>4, <4>1, <4>3, <4>4
    <3>5. B = {}
      <4>1. B \in SUBSET (0..n) /\ 0 \notin B
        BY <3>3
      <4>. HIDE DEF B
      <4>. QED  BY <2>1, <3>4, <4>1, FirstFailure
    <3>6. Good(n)
      <4>1. n \in 0..n
        BY <2>1
      <4>. QED  BY <3>5, <4>1
    <3>7. r = h[n]
      BY <2>1, <2>7, <3>2 DEF Call
    <3>. HIDE DEF r
    <3>. QED  BY <2>6, <3>6, <3>7 DEF r
  <2>8. 1 \in 1..n
    BY <2>1
  <2>9. CASE a.kind = "Not"
    <3>. DEFINE q == CallAlgo(a.algos[1], ss[1], c, draw)
                t == <<q.s>>
    <3>1. /\ CallOutcome(q, c, T)
          /\ a.algos[1].kind # "ClosePositionsAfterDates" /\ Synced(c) => Synced(q.c)
      BY <2>1, <2>3, <2>8, Calls DEF MayCall
    <3>2. /\ r.s = t /\ r.c = q.c
          /\ r.status = IF q.status = "skip_day" THEN "continue"
                        ELSE IF q.status = "NaN" THEN "NaN" ELSE "skip_day"
          /\ r = [s |-> r.s, c |-> r.c, status |-> r.status]
      BY <2>9 DEF Call, Not
    <3>. HIDE DEF r, q
    <3>3. 1..1 = {1} /\ t = [i \in 1..1 |-> t[i]] /\ t[1] = q.s
      OBVIOUS
    <3>4. n = 1
      BY <2>1, <2>9
    <3>. HIDE DEF t
    <3>5. AskedOf(r, n, c, T) \/ r.status \notin {"continue", "skip_day", "NaN"}
      BY <3>1, <3>2, <3>3, <3>4 DEF AskedOf, CallOutcome
    <3>6. r.status \in {"continue", "skip_day", "NaN"}
      BY <3>2
    <3>7. ~ Closes(a) /\ Synced(c) => Synced(r.c)
      BY <2>4, <2>8, <3>1, <3>2
    <3>8. CalledOutcome(r, a, c, T) /\ (~ Closes(a) /\ Synced(c) => Synced(r.c))
      BY <2>6, <3>5, <3>6, <3>7
    <3>. QED  BY <3>8 DEF r
  <2>10. CASE a.kind = "Require"
    <3>1. r = AskChild(Unasked(c), a.algos[1], ss[1], draw)
      BY <2>10 DEF Call, Require
    <3>2. n = 0 + 1 /\ 0 \in Nat
      BY <2>1, <2>10
    <3>. HIDE DEF r
    <3>3. /\ AskedOf(r, n, c, T)
          /\ a.algos[1].kind # "ClosePositionsAfterDates" /\ Synced(c) => Synced(r.c)
      BY <2>1, <2>3, <2>5, <2>8, <3>1, <3>2, ChildAsked
    <3>4. CalledOutcome(r, a, c, T) /\ (~ Closes(a) /\ Synced(c) => Synced(r.c))
      BY <2>4, <2>6, <2>8, <3>3
    <3>. QED  BY <3>4 DEF r
  <2>. QED  BY <1>1, <2>7, <2>9, <2>10 DEF Combinators
<1>2. CASE a.kind \notin Combinators
  <2>. DEFINE q == CallAlgo(a, ss[1], c, draw)
              t == <<q.s>>
  <2>1. WellFormedAlgo(a) /\ StateOK(ss[1]) /\ Inside(a) = {a}
    BY <1>2 DEF WellFormed, StatesOK, Inside
  <2>2. /\ CallOutcome(q, c, T)
        /\ a.kind # "ClosePositionsAfterDates" /\ Synced(c) => Synced(q.c)
    BY <2>1, Calls DEF MayCall
  <2>3. r = [q EXCEPT !.s = t]
    BY <1>2 DEF Call, Combinators
  <2>. HIDE DEF r, q
  <2>4. /\ r.s = t /\ r.c = q.c /\ r.status = q.status
        /\ r = [s |-> r.s, c |-> r.c, status |-> r.status]
    BY <2>2, <2>3 DEF CallOutcome
  <2>5. t = [i \in 1..Len(t) |-> t[i]] /\ Len(t) = 1 /\ \A i \in 1..Len(t) : t[i] = q.s
    OBVIOUS
  <2>. HIDE DEF t
  <2>6. StatesOK(a, r.s)
    BY <1>2, <2>2, <2>4, <2>5 DEF StatesOK, CallOutcome
  <2>7. CalledOutcome(r, a, c, T)
    BY <2>2, <2>4, <2>6 DEF CalledOutcome, CallOutcome
  <2>8. ~ Closes(a) /\ Synced(c) => Synced(r.c)
    BY <2>1, <2>2, <2>4 DEF Closes
  <2>. QED  BY <2>7, <2>8 DEF r
<1>. QED  BY <1>1, <1>2

-----------------------------------------------------------------------------
(* The run.                                                                *)

\* The programs are sequences, and an algo starts with a state for each child.
LEMMA ProgramsFit ==
  ASSUME NEW p \in Programs
  PROVE  /\ Len(p) \in Nat /\ DOMAIN p = 1..Len(p)
         /\ \A k \in 1..Len(p) : WellFormed(p[k]) /\ StatesOK(p[k], StatesOf(p[k]))
<1>1. /\ p = [k \in 1..Len(p) |-> p[k]] /\ Len(p) \in Nat
      /\ \A k \in 1..Len(p) : WellFormed(p[k])
  BY PipelineAssumption
<1>2. DOMAIN p = 1..Len(p)
  BY <1>1, Zenon
<1>3. StateOK(Fresh)
  BY DEF StateOK, Fresh, IsBook, Nothing
<1>4. ASSUME NEW a, WellFormed(a) PROVE StatesOK(a, StatesOf(a))
  <2>1. CASE a.kind \in Combinators
    <3>. DEFINE n == Len(a.algos)
                q == [i \in 1..n |-> Fresh]
    <3>1. a.algos = [i \in 1..n |-> a.algos[i]] /\ (IF a.kind = "Or" THEN n \in Nat \ {0} ELSE n = 1)
      BY <1>4, <2>1, Zenon DEF WellFormed
    <3>2. DOMAIN a.algos = 1..n
      BY <3>1, Zenon
    <3>3. n \in Nat
      BY <3>1
    <3>4. StatesOf(a) = q
      BY <2>1, <3>2 DEF StatesOf
    <3>. HIDE DEF n
    <3>5. Len(q) = n /\ q = [i \in 1..n |-> q[i]] /\ \A i \in 1..n : q[i] = Fresh
      <4>1. q = [i \in 1..n |-> q[i]] /\ \A i \in 1..n : q[i] = Fresh /\ q[i] \in {Fresh}
        OBVIOUS
      <4>. HIDE DEF q
      <4>. QED  BY <3>3, <4>1, IsASeq
    <3>. HIDE DEF q
    <3>. QED  BY <1>3, <2>1, <3>4, <3>5 DEF StatesOK, n
  <2>2. CASE a.kind \notin Combinators
    <3>1. StatesOf(a) = <<Fresh>>
      BY <2>2 DEF StatesOf
    <3>. DEFINE t == <<Fresh>>
    <3>2. t = [i \in 1..Len(t) |-> t[i]] /\ Len(t) = 1 /\ \A i \in 1..Len(t) : t[i] = Fresh
      OBVIOUS
    <3>. HIDE DEF t
    <3>. QED  BY <1>3, <2>2, <3>1, <3>2 DEF StatesOK, t
  <2>. QED  BY <2>1, <2>2
<1>. QED  BY <1>1, <1>2, <1>4

\* The context of a new date, before an algo has seen it.
LEMMA OpenedContext ==
  ASSUME PipelineTypeOK, Len(prices) < Len(Calendar), NEW p \in PriceRow
  PROVE  LET c == Context(p)
         IN  /\ ContextOK(c) /\ Synced(c) /\ c.day = Len(prices) + 1 /\ c.prices = p
             /\ c.history = Append(prices, p) /\ c.selected = Nothing /\ c.target = Nothing
             /\ c.cash = cash /\ c.positions = positions
             /\ c.total = cash + MarkedValue(positions, p)
<1>. DEFINE c == Context(p)
<1>1. /\ prices \in Seq(PriceRow) /\ cash \in Int /\ IsBook(positions)
  BY DEF PipelineTypeOK
<1>2. MarkedValue(positions, p) \in Int
  BY <1>1, MarkedTerms
<1>3. Len(prices) + 1 \in 1..Len(Calendar)
  BY <1>1, PipelineAssumption
<1>4. Append(prices, p) \in Seq(PriceRow) /\ Nothing \in Seq(Symbols) /\ IsBook(Nothing)
  BY <1>1, Grown DEF IsBook, Nothing
<1>5. /\ c.day = Len(prices) + 1 /\ c.prices = p /\ c.history = Append(prices, p)
      /\ c.selected = Nothing /\ c.target = Nothing /\ c.cash = cash /\ c.positions = positions
      /\ c.total = cash + MarkedValue(positions, p)
      /\ c = [day |-> c.day, prices |-> c.prices, history |-> c.history, total |-> c.total,
              cash |-> c.cash, positions |-> c.positions, selected |-> c.selected, target |-> c.target]
  BY DEF Context
<1>. HIDE DEF c
<1>6. ContextOK(c) /\ Synced(c)
  BY <1>1, <1>2, <1>3, <1>4, <1>5 DEF ContextOK, Synced
<1>. QED  BY <1>5, <1>6 DEF c

\* The call of the next algo, with T the symbols it may select and weigh.
LEMMA NextCallFits ==
  ASSUME PipelineTypeOK, pc = "algo", step <= Len(program), NEW draw \in Draws(program[step], ctx),
         NEW T, T \subseteq Symbols, PricedSymbols(ctx) \subseteq T, ctx.selected \in Seq(T),
         BookOver(ctx.target, T), \A b \in Inside(program[step]) : MayCall(b, T)
  PROVE  LET r == Call(program[step], states[step], ctx, draw)
         IN  /\ CalledOutcome(r, program[step], ctx, T)
             /\ ~ Closes(program[step]) /\ Synced(ctx) => Synced(r.c)
             /\ step \in 1..Len(program) /\ Inside(program[step]) \subseteq Used
             /\ ContextOK(ctx)
<1>1. /\ step \in 1..Len(program) /\ ContextOK(ctx) /\ program \in Programs
      /\ StatesOK(program[step], states[step])
  BY ProgramsFit DEF PipelineTypeOK
<1>2. WellFormed(program[step]) /\ step \in DOMAIN program
  BY <1>1, ProgramsFit
<1>3. Inside(program[step]) \subseteq Used
  BY <1>2 DEF Used
<1>. QED  BY <1>1, <1>2, <1>3, CallFits

\* The books, the context, the states of the algos, the rows and the log keep
\* their types, and a row its date, whatever the prices, the program and the draws.
THEOREM PipelineTypeCorrect == Spec => []PipelineTypeOK
<1>1. Init => PipelineTypeOK
  <2>. SUFFICES ASSUME Init PROVE PipelineTypeOK
    OBVIOUS
  <2>1. program \in Programs /\ Len(program) \in Nat /\ DOMAIN program = 1..Len(program)
    BY ProgramsFit DEF Init
  <2>2. states = [k \in 1..Len(program) |-> states[k]]
        /\ \A k \in 1..Len(program) : StatesOK(program[k], states[k])
    BY <2>1, ProgramsFit DEF Init
  <2>3. prices \in Seq(PriceRow) /\ Len(prices) = 0 /\ Len(Calendar) \in Nat
    BY PipelineAssumption DEF Init, Nothing
  <2>4. cash \in Int /\ IsBook(positions) /\ step = 0
    BY PipelineAssumption DEF Init, IsBook, Nothing
  <2>5. rows = [i \in 1..Len(rows) |-> rows[i]] /\ Len(rows) = 0
    BY DEF Init, Nothing
  <2>6. log \in Seq([day : 1..Len(prices), step : 1..Len(program), status : Statuses])
    <3>. DEFINE U == [day : 1..Len(prices), step : 1..Len(program), status : Statuses]
    <3>. HIDE DEF U
    <3>1. log \in Seq(U)
      BY Grown DEF Init
    <3>. QED  BY <3>1 DEF U
  <2>7. /\ Len(prices) <= Len(Calendar) /\ step \in 0..(Len(program) + 1) /\ 1..Len(rows) = {}
        /\ Len(rows) = Len(prices) - 0 /\ pc = "date"
    BY <2>1, <2>3, <2>4, <2>5 DEF Init
  <2>. QED  BY <2>1, <2>2, <2>3, <2>4, <2>5, <2>6, <2>7 DEF PipelineTypeOK
<1>2. PipelineTypeOK /\ [Next]_vars => PipelineTypeOK'
  <2>. SUFFICES ASSUME PipelineTypeOK, [Next]_vars PROVE PipelineTypeOK'
    OBVIOUS
  <2>. DEFINE Entry == [day : 1..Len(prices), step : 1..Len(program), status : Statuses]
  <2>1. /\ program \in Programs /\ Len(program) \in Nat /\ Len(Calendar) \in Nat
        /\ prices \in Seq(PriceRow) /\ Len(prices) \in Nat /\ Len(prices) <= Len(Calendar)
        /\ rows = [i \in 1..Len(rows) |-> rows[i]]
        /\ \A i \in 1..Len(rows) : rows[i].day = i /\ rows[i].total = rows[i].cash + rows[i].stocks
        /\ Len(rows) = Len(prices) - (IF pc \in {"algo", "record", "NaN"} THEN 1 ELSE 0)
        /\ log \in Seq(Entry)
    <3>1. /\ program \in Programs /\ prices \in Seq(PriceRow) /\ Len(prices) <= Len(Calendar)
          /\ rows = [i \in 1..Len(rows) |-> rows[i]]
          /\ \A i \in 1..Len(rows) : rows[i].day = i /\ rows[i].total = rows[i].cash + rows[i].stocks
          /\ Len(rows) = Len(prices) - (IF pc \in {"algo", "record", "NaN"} THEN 1 ELSE 0)
          /\ log \in Seq(Entry)
      BY Zenon DEF PipelineTypeOK
    <3>2. Len(prices) \in Nat
      BY <3>1
    <3>3. Len(Calendar) \in Nat
      BY PipelineAssumption
    <3>4. Len(program) \in Nat
      BY <3>1, ProgramsFit
    <3>. HIDE DEF Entry
    <3>. QED  BY <3>1, <3>2, <3>3, <3>4
  <2>. HIDE DEF Entry
  <2>2. CASE OpenDate
    <3>1. PICK p \in PriceRow : prices' = Append(prices, p) /\ ctx' = Context(p)
      BY <2>2, PipelineAssumption DEF OpenDate, PriceRow
    <3>2. prices' \in Seq(PriceRow) /\ Len(prices') = Len(prices) + 1
      BY <2>1, <3>1
    <3>3. ContextOK(ctx') /\ ctx'.day = Len(prices') /\ ctx'.history = prices'
      BY <2>2, <3>1, <3>2, OpenedContext DEF OpenDate
    <3>4. Entry \subseteq Entry'
      BY <2>1, <2>2, <3>2 DEF Entry, OpenDate
    <3>5. log' \in Seq(Entry')
      <4>. DEFINE V == Entry'
      <4>. HIDE DEF V
      <4>1. log \in Seq(V)
        BY <2>1, <3>4, SeqWider DEF V
      <4>. QED  BY <2>2, <4>1 DEF OpenDate, V
    <3>6. /\ Len(prices') <= Len(Calendar) /\ step' \in 0..(Len(program) + 1) /\ step' > 0
      BY <2>1, <2>2, <3>2 DEF OpenDate
    <3>7. /\ pc = "date" /\ pc' = "algo" /\ Len(rows) = Len(prices) - 0
          /\ UNCHANGED <<program, states, cash, positions, rows, log>>
      BY <2>1, <2>2 DEF OpenDate
    <3>8. Len(rows') = Len(prices') - 1
      BY <2>1, <3>2, <3>7
    <3>. QED  BY <3>2, <3>3, <3>5, <3>6, <3>7, <3>8 DEF PipelineTypeOK, Entry
  <2>3. CASE CallNext
    <3>1. PICK draw \in Draws(program[step], ctx) :
            LET r == Call(program[step], states[step], ctx, draw)
            IN  /\ states' = [states EXCEPT ![step] = r.s]
                /\ ctx' = r.c
                /\ log' = Append(log, [day |-> ctx.day, step |-> step, status |-> r.status])
                /\ pc' = CASE r.status = "continue" -> "algo"
                           [] r.status = "NaN" -> "NaN"
                           [] OTHER -> "record"
      BY <2>3 DEF CallNext
    <3>. DEFINE r == Call(program[step], states[step], ctx, draw)
    <3>2. /\ pc = "algo" /\ step <= Len(program) /\ step' = step + 1
          /\ UNCHANGED <<program, prices, cash, positions, rows>>
      BY <2>3 DEF CallNext
    <3>3. /\ ContextOK(ctx) /\ ctx.day = Len(prices) /\ ctx.history = prices
          /\ PricedSymbols(ctx) \subseteq Symbols /\ ctx.selected \in Seq(Symbols)
          /\ BookOver(ctx.target, Symbols)
      BY <3>2 DEF PipelineTypeOK, ContextOK, BookOver, IsBook, PricedSymbols
    <3>4. CalledOutcome(r, program[step], ctx, Symbols) /\ step \in 1..Len(program)
      BY <3>2, <3>3, NextCallFits DEF MayCall
    <3>5. /\ states' = [states EXCEPT ![step] = r.s] /\ ctx' = r.c
          /\ log' = Append(log, [day |-> ctx.day, step |-> step, status |-> r.status])
          /\ pc' \in {"algo", "NaN", "record"}
      BY <3>1
    <3>. HIDE DEF r
    <3>6. /\ states' = [k \in 1..Len(program) |-> states'[k]]
          /\ \A k \in 1..Len(program) : StatesOK(program[k], states'[k])
      BY <3>4, <3>5 DEF CalledOutcome, PipelineTypeOK
    <3>7. ContextOK(ctx') /\ ctx'.day = Len(prices) /\ ctx'.history = prices
      BY <3>3, <3>4, <3>5 DEF CalledOutcome, SameDate
    <3>8. [day |-> ctx.day, step |-> step, status |-> r.status] \in Entry
      BY <3>3, <3>4 DEF CalledOutcome, Entry, ContextOK
    <3>9. log' \in Seq(Entry)
      BY <2>1, <3>5, <3>8, Grown
    <3>10. step' \in 0..(Len(program) + 1) /\ step' > 0
      BY <2>1, <3>2, <3>4
    <3>11. Len(rows') = Len(prices') - 1 /\ Entry' = Entry
      BY <2>1, <3>2 DEF Entry
    <3>12. PipelineTypeOK'
      <4>1. log' \in Seq(Entry')
        BY <3>9, <3>11
      <4>. QED  BY <3>2, <3>5, <3>6, <3>7, <3>10, <3>11, <4>1 DEF PipelineTypeOK, Entry
    <3>. QED  BY <3>12
  <2>4. CASE RecordRow
    <3>. DEFINE row == [day |-> ctx.day, cash |-> ctx.cash, positions |-> ctx.positions,
                        stocks |-> MarkedValue(ctx.positions, ctx.prices),
                        total |-> ctx.cash + MarkedValue(ctx.positions, ctx.prices)]
    <3>1. /\ pc \in {"record", "algo"} /\ rows' = Append(rows, row)
          /\ cash' = ctx.cash /\ positions' = ctx.positions /\ pc' \in {"done", "date"}
          /\ UNCHANGED <<program, states, prices, ctx, step, log>>
      BY <2>4 DEF RecordRow, AlgosDone
    <3>2. ContextOK(ctx) /\ ctx.day = Len(prices)
      BY <3>1 DEF PipelineTypeOK
    <3>3. cash' \in Int /\ IsBook(positions')
      BY <3>1, <3>2 DEF ContextOK
    <3>4. row.day = Len(prices) /\ row.total = row.cash + row.stocks /\ Len(rows) = Len(prices) - 1
      BY <2>1, <3>1, <3>2
    <3>5. /\ rows' = [i \in 1..Len(rows') |-> rows'[i]] /\ Len(rows') = Len(rows) + 1
          /\ \A i \in 1..Len(rows') : rows'[i] = IF i = Len(rows) + 1 THEN row ELSE rows[i]
      <4>. DEFINE U == {rows[i] : i \in 1..Len(rows)} \cup {row}
      <4>1. \A i \in 1..Len(rows) : rows[i] \in U
        OBVIOUS
      <4>2. row \in U
        OBVIOUS
      <4>. HIDE DEF U, row
      <4>3. Len(rows) \in Nat
        BY <2>1, <3>4
      <4>4. rows \in Seq(U)
        <5>1. rows = [i \in 1..Len(rows) |-> rows[i]]
          BY <2>1
        <5>. QED  BY <4>1, <4>3, <5>1, IsASeq
      <4>5. /\ rows' \in Seq(U) /\ Len(rows') = Len(rows) + 1
            /\ \A i \in 1..(Len(rows) + 1) : rows'[i] = IF i = Len(rows) + 1 THEN row ELSE rows[i]
        <5>1. rows' = Append(rows, row)
          BY <3>1
        <5>. QED  BY <4>2, <4>4, <5>1, Appended
      <4>6. rows' = [i \in 1..Len(rows') |-> rows'[i]]
        BY <4>5, SeqParts
      <4>. QED  BY <4>5, <4>6
    <3>. HIDE DEF row
    <3>6. Len(rows') = Len(prices') - 0
      BY <2>1, <3>1, <3>4, <3>5
    <3>7. \A i \in 1..Len(rows') : rows'[i].day = i /\ rows'[i].total = rows'[i].cash + rows'[i].stocks
      <4>1. ASSUME NEW i \in 1..Len(rows')
            PROVE  rows'[i].day = i /\ rows'[i].total = rows'[i].cash + rows'[i].stocks
        <5>1. i = Len(rows) + 1 \/ i \in 1..Len(rows)
          BY <2>1, <3>4, <3>5
        <5>. QED  BY <2>1, <3>4, <3>5, <5>1
      <4>. QED  BY <4>1
    <3>8. log' \in Seq(Entry') /\ Entry' = Entry
      BY <2>1, <3>1 DEF Entry
    <3>. QED  BY <3>1, <3>3, <3>5, <3>6, <3>7, <3>8 DEF PipelineTypeOK, Entry
  <2>5. CASE EndOfData
    BY <2>5 DEF EndOfData, PipelineTypeOK
  <2>6. CASE Ended \/ UNCHANGED vars
    BY <2>6 DEF Ended, vars, PipelineTypeOK
  <2>. QED  BY <2>2, <2>3, <2>4, <2>5, <2>6 DEF Next
<1>. QED  BY <1>1, <1>2, PTL DEF Spec

\* The total of the context stays the value of its books through every algo, a
\* combinator's children included, until the books are read back.
THEOREM TotalInSyncHolds == Spec => []TotalInSync
<1>1. Init => TotalInSync
  BY DEF Init, TotalInSync
<1>2. PipelineTypeOK /\ TotalInSync /\ [Next]_vars => TotalInSync'
  <2>. SUFFICES ASSUME PipelineTypeOK, TotalInSync, [Next]_vars, ~ Uses({"ClosePositionsAfterDates"})',
                       pc' \in {"algo", "record"}
                PROVE  Synced(ctx)'
    BY DEF TotalInSync, Synced
  <2>1. program' = program
    BY DEF Next, vars, OpenDate, CallNext, RecordRow, EndOfData, Ended
  <2>2. /\ ~ Uses({"ClosePositionsAfterDates"})
        /\ \A b \in Used : b.kind # "ClosePositionsAfterDates"
    BY <2>1 DEF Uses, Used
  <2>3. CASE OpenDate
    <3>1. PICK p \in PriceRow : ctx' = Context(p)
      BY <2>3, PipelineAssumption DEF OpenDate, PriceRow
    <3>2. Synced(ctx')
      BY <2>3, <3>1, OpenedContext DEF OpenDate
    <3>. QED  BY <3>2 DEF Synced
  <2>4. CASE CallNext
    <3>1. PICK draw \in Draws(program[step], ctx) : ctx' = Call(program[step], states[step], ctx, draw).c
      BY <2>4 DEF CallNext
    <3>2. pc = "algo" /\ step <= Len(program)
      BY <2>4 DEF CallNext
    <3>3. /\ PricedSymbols(ctx) \subseteq Symbols /\ ctx.selected \in Seq(Symbols)
          /\ BookOver(ctx.target, Symbols)
      BY <3>2 DEF PipelineTypeOK, ContextOK, BookOver, IsBook, PricedSymbols
    <3>4. /\ ~ Closes(program[step]) /\ Synced(ctx) => Synced(ctx')
          /\ Inside(program[step]) \subseteq Used
      BY <3>1, <3>2, <3>3, NextCallFits DEF MayCall
    <3>5. ~ Closes(program[step]) /\ Synced(ctx)
      BY <2>2, <3>2, <3>4 DEF Closes, TotalInSync, Synced
    <3>. QED  BY <3>4, <3>5 DEF Synced
  <2>5. CASE RecordRow
    BY <2>5 DEF RecordRow
  <2>6. CASE EndOfData
    BY <2>6 DEF EndOfData
  <2>7. CASE Ended \/ UNCHANGED vars
    BY <2>2, <2>7 DEF Ended, vars, TotalInSync, Synced
  <2>. QED  BY <2>3, <2>4, <2>5, <2>6, <2>7 DEF Next
<1>. QED  BY <1>1, <1>2, PipelineTypeCorrect, PTL DEF Spec

\* While the algos of a date run, only symbols with a price are selected or weighed.
PricedOnly ==
  ~ Uses({"SelectRegex", "SelectHasData"})
  => /\ pc # "NaN"
     /\ pc = "algo" => /\ ctx.selected \in Seq(PricedSymbols(ctx))
                      /\ BookOver(ctx.target, PricedSymbols(ctx))

\* Cash stays a number unless a selection that ignores today's prices is used,
\* whatever weighting, limit or hedge comes between the selection and the rebalance.
THEOREM CashStaysNumberHolds == Spec => []CashStaysNumber
<1>1. Init => PricedOnly
  BY DEF Init, PricedOnly
<1>2. PipelineTypeOK /\ PricedOnly /\ [Next]_vars => PricedOnly'
  <2>. SUFFICES ASSUME PipelineTypeOK, PricedOnly, [Next]_vars,
                       ~ Uses({"SelectRegex", "SelectHasData"})'
                PROVE  /\ pc' # "NaN"
                       /\ pc' = "algo" => /\ ctx'.selected \in Seq(PricedSymbols(ctx'))
                                         /\ BookOver(ctx'.target, PricedSymbols(ctx'))
    BY DEF PricedOnly, PricedSymbols, BookOver, Priced
  <2>1. program' = program
    BY DEF Next, vars, OpenDate, CallNext, RecordRow, EndOfData, Ended
  <2>2. /\ pc # "NaN"
        /\ pc = "algo" => /\ ctx.selected \in Seq(PricedSymbols(ctx))
                         /\ BookOver(ctx.target, PricedSymbols(ctx))
        /\ \A b \in Used : b.kind \notin {"SelectRegex", "SelectHasData"}
    BY <2>1 DEF Uses, Used, PricedOnly
  <2>3. CASE OpenDate
    <3>1. PICK p \in PriceRow : ctx' = Context(p)
      BY <2>3, PipelineAssumption DEF OpenDate, PriceRow
    <3>2. ctx'.selected = Nothing /\ ctx'.target = Nothing
      BY <2>3, <3>1, OpenedContext DEF OpenDate
    <3>3. BookOver(Nothing, PricedSymbols(ctx')) /\ Nothing \in Seq(PricedSymbols(ctx'))
      BY Grown DEF BookOver, Nothing
    <3>4. pc' = "algo"
      BY <2>3 DEF OpenDate
    <3>. QED  BY <3>2, <3>3, <3>4
  <2>4. CASE CallNext
    <3>1. PICK draw \in Draws(program[step], ctx) :
            LET r == Call(program[step], states[step], ctx, draw)
            IN  /\ ctx' = r.c
                /\ pc' = CASE r.status = "continue" -> "algo"
                           [] r.status = "NaN" -> "NaN"
                           [] OTHER -> "record"
      BY <2>4 DEF CallNext
    <3>. DEFINE T == PricedSymbols(ctx)
                r == Call(program[step], states[step], ctx, draw)
    <3>2. pc = "algo" /\ step <= Len(program)
      BY <2>4 DEF CallNext
    <3>3. T \subseteq Symbols /\ ctx.selected \in Seq(T) /\ BookOver(ctx.target, T)
      BY <2>2, <3>2 DEF PricedSymbols
    <3>4. \A b \in Inside(program[step]) : MayCall(b, T)
      <4>1. Inside(program[step]) \subseteq Used
        <5>1. step \in 1..Len(program) /\ DOMAIN program = 1..Len(program)
          BY <3>2, ProgramsFit DEF PipelineTypeOK
        <5>. QED  BY <5>1 DEF Used
      <4>. QED  BY <2>2, <4>1 DEF MayCall
    <3>5. CalledOutcome(r, program[step], ctx, T)
      BY <3>2, <3>3, <3>4, NextCallFits
    <3>6. /\ ctx' = r.c
          /\ pc' = CASE r.status = "continue" -> "algo"
                     [] r.status = "NaN" -> "NaN"
                     [] OTHER -> "record"
      BY <3>1
    <3>. HIDE DEF r
    <3>7. r.status # "NaN"
      BY <3>5 DEF CalledOutcome
    <3>8. PricedSymbols(ctx') = T
      BY <3>5, <3>6 DEF CalledOutcome, SameDate, PricedSymbols, Priced
    <3>. QED  BY <3>5, <3>6, <3>7, <3>8 DEF CalledOutcome
  <2>5. CASE RecordRow
    BY <2>5 DEF RecordRow
  <2>6. CASE EndOfData
    BY <2>6 DEF EndOfData
  <2>7. CASE Ended \/ UNCHANGED vars
    BY <2>2, <2>7 DEF Ended, vars
  <2>. QED  BY <2>3, <2>4, <2>5, <2>6, <2>7 DEF Next
<1>3. PricedOnly => CashStaysNumber
  BY DEF PricedOnly, CashStaysNumber
<1>. QED  BY <1>1, <1>2, <1>3, PipelineTypeCorrect, PTL DEF Spec

-----------------------------------------------------------------------------
(* Gradual rebalances.                                                     *)

\* The last instalment reaches the target.
LEMMA LastInstalment ==
  ASSUME NEW a, NEW s, NEW c, NEW draw, WellFormedAlgo(a), a.kind = "RebalanceOverTime",
         StateOK(s), ContextOK(c), \A x \in Symbols : c.prices[x] > 0,
         NEW r, r = CallAlgo(a, s, c, draw), r.status = "continue", r.s.left = 0
  PROVE  \A x \in Symbols : Reached(r.s.target, r.c, x)
<1>. DEFINE fresh  == c.target # Nothing /\ c.target # s.target
            target == IF fresh THEN c.target ELSE s.target
            left   == IF fresh THEN a.n ELSE s.left
            t      == [s EXCEPT !.target = target, !.left = left]
            u      == [t EXCEPT !.left = left - 1]
            qty(x) == Instalment(c, x, IF x \in DOMAIN target THEN target[x] ELSE 0, left, x \in DOMAIN draw)
            kept   == {x \in DOMAIN target \cup DOMAIN c.positions : c.prices[x] > 0 /\ qty(x) > 0}
            q      == [x \in kept |-> qty(x)]
            share(x) == SharesOf(target, c, x)
<1>1. /\ a.n \in Int /\ ONE \in Nat \ {0} /\ c.total \in Int /\ IsBook(c.positions)
      /\ IsBook(c.target) /\ \A x \in Symbols : c.prices[x] \in Nat \ {0}
  <2>1. /\ c.prices \in PriceRow /\ c.total \in Int /\ IsBook(c.positions) /\ IsBook(c.target)
    BY DEF ContextOK
  <2>2. \A x \in Symbols : c.prices[x] \in Nat \ {0}
    BY <2>1 DEF PriceRow, NaN
  <2>3. a.n \in Int /\ ONE \in Nat \ {0}
    BY PipelineAssumption DEF WellFormedAlgo
  <2>. QED  BY <2>1, <2>2, <2>3
<1>2. IsBook(target) /\ left \in Int
  BY <1>1 DEF StateOK
<1>3. r = IF left <= 0 \/ target = Nothing \/ c.total <= 0 THEN Skip(t, c)
          ELSE Continue(u, Rebooked(c, q))
  BY DEF CallAlgo, RebalanceOverTime
<1>. HIDE DEF fresh, target, left
<1>4. u.left = left - 1 /\ u.target = target
  <2>1. s = [key |-> s.key, count |-> s.count, peak |-> s.peak, target |-> s.target, left |-> s.left]
    BY DEF StateOK
  <2>2. DOMAIN s = {"key", "count", "peak", "target", "left"}
    BY <2>1
  <2>. QED  BY <2>2
<1>. HIDE DEF t, u
<1>5. /\ ~ (left <= 0) /\ target # Nothing
      /\ r.s = u /\ r.c = Rebooked(c, q)
  BY <1>3 DEF Skip, Continue
<1>6. left = 1
  BY <1>2, <1>4, <1>5
<1>7. ASSUME NEW x \in Symbols
      PROVE  /\ qty(x) \in Int /\ share(x) \in Int /\ qty(x) \in {share(x), share(x) - 1}
             /\ x \notin DOMAIN target => qty(x) = 0 /\ share(x) = 0
  <2>. DEFINE aim == IF x \in DOMAIN target THEN target[x] ELSE 0
              p == c.prices[x]
              m == Quantity(c, x)
              num == c.total * aim
              den == ONE * p
  <2>1. aim \in Int /\ m \in Int /\ p \in Nat \ {0}
    BY <1>1, <1>2 DEF IsBook, Quantity
  <2>2. qty(x) = Floored(m * p * ONE * (1 - 1) + c.total * aim, 1 * ONE * p, x \in DOMAIN draw)
    BY <1>6 DEF Instalment
  <2>3. share(x) = IF x \in DOMAIN target THEN num \div den ELSE 0
    BY DEF SharesOf
  <2>4. x \notin DOMAIN target => aim = 0
    OBVIOUS
  <2>. HIDE DEF aim, p, m, qty, share
  <2>5. m * p * ONE \in Int /\ num \in Int /\ den \in Nat \ {0}
    BY <1>1, <2>1, ProductNat
  <2>6. m * p * ONE * (1 - 1) + c.total * aim = num /\ 1 * ONE * p = den
    BY <1>1, <2>1, <2>5
  <2>7. qty(x) = Floored(num, den, x \in DOMAIN draw)
    BY <2>2, <2>6
  <2>8. aim = 0 => num = 0
    BY <1>1
  <2>. HIDE DEF num, den
  <2>9. /\ qty(x) \in Int /\ num \div den \in Int /\ qty(x) \in {num \div den, (num \div den) - 1}
        /\ num = 0 => qty(x) = 0
    BY <2>5, <2>7, FlooredQuotient
  <2>10. num = 0 => num \div den = 0
    BY <2>5
  <2>. QED  BY <2>3, <2>4, <2>8, <2>9, <2>10
<1>. HIDE DEF qty, share
<1>8. \A x \in DOMAIN target \cup DOMAIN c.positions : x \in Symbols
  BY <1>1, <1>2 DEF IsBook
<1>9. /\ r.c.positions = q /\ r.c.total = c.total /\ r.c.prices = c.prices
  <2>1. c = [day |-> c.day, prices |-> c.prices, history |-> c.history, total |-> c.total,
             cash |-> c.cash, positions |-> c.positions, selected |-> c.selected, target |-> c.target]
    BY DEF ContextOK
  <2>2. {"cash", "positions", "total", "prices"} \subseteq DOMAIN c
    BY <2>1
  <2>. HIDE DEF q
  <2>. QED  BY <1>5, <2>2 DEF Rebooked
<1>10. ASSUME NEW x \in Symbols PROVE Reached(target, r.c, x)
  <2>1. SharesOf(target, r.c, x) = share(x)
    BY <1>9 DEF SharesOf, share
  <2>2. Quantity(r.c, x) = IF x \in kept THEN qty(x) ELSE 0
    BY <1>9 DEF Quantity
  <2>3. x \in kept \/ x \notin DOMAIN target \/ ~ (qty(x) > 0)
    BY <1>1
  <2>. HIDE DEF kept
  <2>. QED  BY <1>7, <2>1, <2>2, <2>3 DEF Reached
<1>. QED  BY <1>4, <1>5, <1>10

\* The last instalment of a gradual rebalance lands on the shares that its target
\* buys at the prices of the date, or one short of them, whatever happened since
\* the first.
THEOREM GradualEndsAtTargetHolds == Spec => []GradualEndsAtTarget
<1>1. Init => GradualEndsAtTarget
  <2>1. Init => pc # "algo"
    BY DEF Init
  <2>. QED  BY <2>1 DEF GradualEndsAtTarget
<1>2. PipelineTypeOK /\ GradualEndsAtTarget /\ [Next]_vars => GradualEndsAtTarget'
  <2>. SUFFICES ASSUME PipelineTypeOK, GradualEndsAtTarget, [Next]_vars PROVE GradualEndsAtTarget'
    OBVIOUS
  <2>1. CASE OpenDate
    <3>1. ~ step' > 1
      BY <2>1 DEF OpenDate
    <3>. QED  BY <3>1 DEF GradualEndsAtTarget
  <2>2. CASE CallNext
    <3>. SUFFICES ASSUME pc' = "algo", program[step].kind = "RebalanceOverTime",
                         states'[step][1].left = 0, \A x \in Symbols : ctx'.prices[x] > 0
                  PROVE  \A x \in Symbols : Reached(states'[step][1].target, ctx', x)
      <4>1. step' = step + 1 /\ program' = program
        BY <2>2 DEF CallNext
      <4>2. step \in Int
        BY DEF PipelineTypeOK
      <4>3. step' - 1 = step /\ program' = program
        BY <4>1, <4>2
      <4>. QED  BY <4>3 DEF GradualEndsAtTarget, Reached, Quantity, SharesOf
    <3>1. PICK draw \in Draws(program[step], ctx) :
            LET r == Call(program[step], states[step], ctx, draw)
            IN  /\ states' = [states EXCEPT ![step] = r.s]
                /\ ctx' = r.c
                /\ pc' = CASE r.status = "continue" -> "algo"
                           [] r.status = "NaN" -> "NaN"
                           [] OTHER -> "record"
      BY <2>2 DEF CallNext
    <3>. DEFINE r == Call(program[step], states[step], ctx, draw)
                q == CallAlgo(program[step], states[step][1], ctx, draw)
    <3>2. pc = "algo" /\ step <= Len(program)
      BY <2>2 DEF CallNext
    <3>3. /\ PricedSymbols(ctx) \subseteq Symbols /\ ctx.selected \in Seq(Symbols)
          /\ BookOver(ctx.target, Symbols) /\ ContextOK(ctx)
      BY <3>2 DEF PipelineTypeOK, ContextOK, BookOver, IsBook, PricedSymbols
    <3>4. CalledOutcome(r, program[step], ctx, Symbols) /\ step \in 1..Len(program)
      BY <3>2, <3>3, NextCallFits DEF MayCall
    <3>5. WellFormed(program[step]) /\ StatesOK(program[step], states[step])
      BY <3>4, ProgramsFit DEF PipelineTypeOK
    <3>6. program[step].kind \notin Combinators
      BY DEF Combinators
    <3>7. WellFormedAlgo(program[step]) /\ StateOK(states[step][1])
      BY <3>5, <3>6 DEF WellFormed, StatesOK
    <3>8. r = [q EXCEPT !.s = <<q.s>>]
      BY <3>6 DEF Call, Combinators
    <3>9. step \in DOMAIN states
      BY <3>4 DEF PipelineTypeOK
    <3>10. /\ states'[step] = r.s /\ ctx' = r.c /\ r.status = "continue"
      <4>1. /\ states' = [states EXCEPT ![step] = r.s] /\ ctx' = r.c
            /\ pc' = CASE r.status = "continue" -> "algo"
                       [] r.status = "NaN" -> "NaN"
                       [] OTHER -> "record"
        BY <3>1
      <4>. HIDE DEF r
      <4>. QED  BY <3>9, <4>1
    <3>11. CallOutcome(q, ctx, Symbols)
      BY <3>3, <3>7, Calls DEF Drawing
    <3>12. q.c = r.c /\ q.status = r.status /\ r.s[1] = q.s
      <4>1. q = [s |-> q.s, c |-> q.c, status |-> q.status]
        BY <3>11 DEF CallOutcome
      <4>. HIDE DEF q, r
      <4>. QED  BY <3>8, <4>1
    <3>13. ctx'.prices = ctx.prices
      <4>. HIDE DEF q, r
      <4>. QED  BY <3>4, <3>10 DEF CalledOutcome, SameDate
    <3>14. q.status = "continue" /\ q.s.left = 0 /\ \A x \in Symbols : ctx.prices[x] > 0
      BY <3>10, <3>12, <3>13
    <3>15. \A x \in Symbols : Reached(q.s.target, q.c, x)
      BY <3>3, <3>7, <3>14, LastInstalment
    <3>. HIDE DEF q, r
    <3>. QED  BY <3>10, <3>12, <3>15
  <2>3. CASE RecordRow
    BY <2>3 DEF RecordRow, GradualEndsAtTarget
  <2>4. CASE EndOfData
    BY <2>4 DEF EndOfData, GradualEndsAtTarget
  <2>5. CASE Ended \/ UNCHANGED vars
    BY <2>5 DEF Ended, vars, GradualEndsAtTarget
  <2>. QED  BY <2>1, <2>2, <2>3, <2>4, <2>5 DEF Next
<1>. QED  BY <1>1, <1>2, PipelineTypeCorrect, PTL DEF Spec

-----------------------------------------------------------------------------
(* Schedules.                                                              *)

\* What a period scheduler remembers of a date.
PeriodKey(a, d) ==
  CASE a.kind = "RunMonthly" -> <<Calendar[d].year, Calendar[d].month>>
    [] a.kind = "RunWeekly" -> <<Calendar[d].isoyear, Calendar[d].week>>
    [] a.kind = "RunQuarterly" -> <<Calendar[d].year, (Calendar[d].month - 1) \div 3>>
    [] a.kind = "RunYearly" -> <<Calendar[d].year>>
    [] a.kind = "RunOnce" -> <<"ran">>

LEMMA CalendarSorted ==
  /\ Len(Calendar) \in Nat /\ DOMAIN Calendar = 1..Len(Calendar)
  /\ \A d \in 1..Len(Calendar) :
       /\ Calendar[d].year \in Nat /\ Calendar[d].month \in 1..12
       /\ Calendar[d].isoyear \in Nat /\ Calendar[d].week \in 1..53
       /\ \A e \in 1..d :
            /\ NotBefore(Calendar[d].year, Calendar[d].month, Calendar[e].year, Calendar[e].month)
            /\ NotBefore(Calendar[d].isoyear, Calendar[d].week, Calendar[e].isoyear, Calendar[e].week)
<1>. DEFINE U == [year : Nat, month : 1..12, isoyear : Nat, week : 1..53]
<1>1. Calendar \in Seq(U)
  BY PipelineAssumption
<1>2. \A x \in U : x.year \in Nat /\ x.month \in 1..12 /\ x.isoyear \in Nat /\ x.week \in 1..53
  OBVIOUS
<1>. HIDE DEF U
<1>3. /\ Len(Calendar) \in Nat /\ DOMAIN Calendar = 1..Len(Calendar)
      /\ \A d \in 1..Len(Calendar) : Calendar[d] \in U
  BY <1>1
<1>4. \A d \in 1..Len(Calendar) : \A e \in 1..d :
        /\ NotBefore(Calendar[d].year, Calendar[d].month, Calendar[e].year, Calendar[e].month)
        /\ NotBefore(Calendar[d].isoyear, Calendar[d].week, Calendar[e].isoyear, Calendar[e].week)
  BY <1>3, PipelineAssumption
<1>. QED  BY <1>2, <1>3, <1>4

\* A period that has ended does not come again: its dates are consecutive.
LEMMA PeriodsConsecutive ==
  ASSUME NEW a, a.kind \in PeriodSchedulers, NEW d \in 1..Len(Calendar), d > 1,
         NEW e \in 1..(d-1), PeriodKey(a, e) = PeriodKey(a, d)
  PROVE  PeriodKey(a, d - 1) = PeriodKey(a, d)
<1>. DEFINE C == Calendar[d]
            B == Calendar[d-1]
            A == Calendar[e]
<1>1. /\ d \in Nat /\ e \in Nat /\ d - 1 \in 1..Len(Calendar) /\ e \in 1..Len(Calendar)
      /\ e \in 1..(d-1) /\ d - 1 \in 1..d
  BY CalendarSorted
<1>2. /\ C.year \in Nat /\ C.month \in 1..12 /\ C.isoyear \in Nat /\ C.week \in 1..53
      /\ B.year \in Nat /\ B.month \in 1..12 /\ B.isoyear \in Nat /\ B.week \in 1..53
      /\ A.year \in Nat /\ A.month \in 1..12 /\ A.isoyear \in Nat /\ A.week \in 1..53
  BY <1>1, CalendarSorted
<1>3. /\ NotBefore(C.year, C.month, B.year, B.month) /\ NotBefore(B.year, B.month, A.year, A.month)
      /\ NotBefore(C.isoyear, C.week, B.isoyear, B.week)
      /\ NotBefore(B.isoyear, B.week, A.isoyear, A.week)
  BY <1>1, CalendarSorted
<1>. HIDE DEF A, B, C
<1>10. \A m \in 1..12 : m \in Nat
  OBVIOUS
<1>11. \A w \in 1..53 : w \in Nat
  OBVIOUS
<1>12. /\ A.month \in Nat /\ B.month \in Nat /\ C.month \in Nat
       /\ A.week \in Nat /\ B.week \in Nat /\ C.week \in Nat
  BY <1>2, <1>10, <1>11
<1>4. CASE a.kind = "RunMonthly"
  <2>1. <<A.year, A.month>> = <<C.year, C.month>>
    BY <1>4 DEF PeriodKey, A, C
  <2>2. A.year = C.year /\ A.month = C.month
    BY <2>1
  <2>3. B.year = C.year /\ B.month = C.month
    <3>1. A.year \in Nat /\ B.year \in Nat /\ C.year \in Nat
      BY <1>2
    <3>2. A.month \in Nat /\ B.month \in Nat /\ C.month \in Nat
      BY <1>12
    <3>3. /\ NotBefore(C.year, C.month, B.year, B.month)
          /\ NotBefore(B.year, B.month, A.year, A.month)
      BY <1>3
    <3>. QED  BY <2>2, <3>1, <3>2, <3>3 DEF NotBefore
  <2>. QED  BY <1>4, <2>3 DEF PeriodKey, B, C
<1>5. CASE a.kind = "RunWeekly"
  <2>1. <<A.isoyear, A.week>> = <<C.isoyear, C.week>>
    BY <1>5 DEF PeriodKey, A, C
  <2>2. A.isoyear = C.isoyear /\ A.week = C.week
    BY <2>1
  <2>3. B.isoyear = C.isoyear /\ B.week = C.week
    <3>1. A.isoyear \in Nat /\ B.isoyear \in Nat /\ C.isoyear \in Nat
      BY <1>2
    <3>2. A.week \in Nat /\ B.week \in Nat /\ C.week \in Nat
      BY <1>12
    <3>3. /\ NotBefore(C.isoyear, C.week, B.isoyear, B.week)
          /\ NotBefore(B.isoyear, B.week, A.isoyear, A.week)
      BY <1>3
    <3>. QED  BY <2>2, <3>1, <3>2, <3>3 DEF NotBefore
  <2>. QED  BY <1>5, <2>3 DEF PeriodKey, B, C
<1>6. CASE a.kind = "RunQuarterly"
  <2>1. <<A.year, (A.month - 1) \div 3>> = <<C.year, (C.month - 1) \div 3>>
    BY <1>6 DEF PeriodKey, A, C
  <2>2. A.year = C.year /\ (A.month - 1) \div 3 = (C.month - 1) \div 3
    BY <2>1
  <2>0. A.year = C.year
    BY <2>2
  <2>3. B.year = C.year /\ A.month <= B.month /\ B.month <= C.month
    <3>1. A.year \in Nat /\ B.year \in Nat /\ C.year \in Nat
      BY <1>2
    <3>2. /\ NotBefore(C.year, C.month, B.year, B.month)
          /\ NotBefore(B.year, B.month, A.year, A.month)
      BY <1>3
    <3>. QED  BY <1>12, <2>0, <3>1, <3>2 DEF NotBefore
  <2>4. \A i, j, k \in 1..12 : i <= j /\ j <= k /\ (i - 1) \div 3 = (k - 1) \div 3
                             => (j - 1) \div 3 = (k - 1) \div 3
    OBVIOUS
  <2>5. (B.month - 1) \div 3 = (C.month - 1) \div 3
    BY <1>2, <2>2, <2>3, <2>4
  <2>. QED  BY <1>6, <2>3, <2>5 DEF PeriodKey, B, C
<1>7. CASE a.kind = "RunYearly"
  <2>1. <<A.year>> = <<C.year>>
    BY <1>7 DEF PeriodKey, A, C
  <2>2. B.year = C.year
    BY <1>2, <1>3, <2>1 DEF NotBefore
  <2>. QED  BY <1>7, <2>2 DEF PeriodKey, B, C
<1>8. CASE a.kind = "RunOnce"
  BY <1>8 DEF PeriodKey
<1>. QED  BY <1>4, <1>5, <1>6, <1>7, <1>8 DEF PeriodSchedulers

\* Due says that no date before has the key.
LEMMA DueByKey ==
  ASSUME NEW a, a.kind \in PeriodSchedulers, NEW d \in 1..Len(Calendar)
  PROVE  Due(a, d) <=> \A e \in 1..(d-1) : PeriodKey(a, e) # PeriodKey(a, d)
<1>1. /\ d \in Nat /\ \A e \in 1..(d-1) : e \in 1..Len(Calendar)
  BY CalendarSorted
<1>2. CASE a.kind = "RunMonthly"
  BY <1>2 DEF Due, FirstWith, PeriodKey
<1>3. CASE a.kind = "RunWeekly"
  BY <1>3 DEF Due, FirstWith, PeriodKey
<1>4. CASE a.kind = "RunQuarterly"
  <2>1. \A m, n \in 1..12 : (m + 2) \div 3 = (n + 2) \div 3 <=> (m - 1) \div 3 = (n - 1) \div 3
    OBVIOUS
  <2>2. \A e \in 1..(d-1) : Calendar[e].month \in 1..12
    BY <1>1, CalendarSorted
  <2>3. Calendar[d].month \in 1..12
    BY CalendarSorted
  <2>4. Due(a, d) <=> \A e \in 1..(d-1) : <<Calendar[e].year, (Calendar[e].month + 2) \div 3>>
                                        # <<Calendar[d].year, (Calendar[d].month + 2) \div 3>>
    BY <1>4 DEF Due, FirstWith
  <2>5. \A e \in 1..(d-1) :
          PeriodKey(a, e) # PeriodKey(a, d) <=> <<Calendar[e].year, (Calendar[e].month - 1) \div 3>>
                                              # <<Calendar[d].year, (Calendar[d].month - 1) \div 3>>
    BY <1>4 DEF PeriodKey
  <2>. QED  BY <2>1, <2>2, <2>3, <2>4, <2>5
<1>5. CASE a.kind = "RunYearly"
  BY <1>5 DEF Due, FirstWith, PeriodKey
<1>6. CASE a.kind = "RunOnce"
  <2>1. Due(a, d) <=> d = 1
    BY <1>6 DEF Due
  <2>2. \A e \in 1..(d-1) : PeriodKey(a, e) = PeriodKey(a, d)
    BY <1>6 DEF PeriodKey
  <2>3. d = 1 <=> \A e \in 1..(d-1) : FALSE
    BY <1>1
  <2>. QED  BY <2>1, <2>2, <2>3
<1>. QED  BY <1>2, <1>3, <1>4, <1>5, <1>6 DEF PeriodSchedulers

\* A period scheduler compares the key of the date with the one it remembers.
LEMMA PeriodCall ==
  ASSUME NEW a, a.kind \in PeriodSchedulers, NEW s, NEW c, NEW draw
  PROVE  CallAlgo(a, s, c, draw) = OncePer(PeriodKey(a, c.day), s, c)
<1>1. CASE a.kind = "RunMonthly"
  BY <1>1 DEF CallAlgo, RunMonthly, PeriodKey, Today
<1>2. CASE a.kind = "RunWeekly"
  BY <1>2 DEF CallAlgo, RunWeekly, PeriodKey, Today
<1>3. CASE a.kind = "RunQuarterly"
  BY <1>3 DEF CallAlgo, RunQuarterly, PeriodKey, Today
<1>4. CASE a.kind = "RunYearly"
  BY <1>4 DEF CallAlgo, RunYearly, PeriodKey, Today
<1>5. CASE a.kind = "RunOnce"
  BY <1>5 DEF CallAlgo, RunOnce, PeriodKey
<1>. QED  BY <1>1, <1>2, <1>3, <1>4, <1>5 DEF PeriodSchedulers

\* No key is empty.
LEMMA KeyKnown ==
  ASSUME NEW a, a.kind \in PeriodSchedulers, NEW d
  PROVE  PeriodKey(a, d) # Nothing
<1>1. \A x, y : <<x, y>> # << >> /\ <<x>> # << >>
  OBVIOUS
<1>. QED  BY <1>1 DEF PeriodKey, PeriodSchedulers, Nothing

\* 1 more than a multiple leaves the remainder 1, and nothing else does.
LEMMA RemainderOne ==
  ASSUME NEW n \in Nat, n > 1, NEW d \in Nat, d > 0
  PROVE  d % n = 1 <=> \E i \in 0..d : d = 1 + i * n
<1>. DEFINE q == d \div n
            r == d % n
<1>1. d = n * q + r /\ r \in 0..(n-1) /\ q \in Nat
  OBVIOUS
<1>2. q <= n * q
  <2>1. q * 1 <= q * n
    BY <1>1, Widen
  <2>. HIDE DEF q
  <2>. QED  BY <1>1, <2>1
<1>. HIDE DEF q, r
<1>3. ASSUME r = 1 PROVE \E i \in 0..d : d = 1 + i * n
  <2>1. n * q \in Nat
    BY <1>1, ProductNat
  <2>2. q \in 0..d /\ d = 1 + q * n
    BY <1>1, <1>2, <1>3, <2>1
  <2>. QED  BY <2>2
<1>4. ASSUME NEW i \in 0..d, d = 1 + i * n PROVE r = 1
  <2>1. i \in Nat /\ i * n = n * i /\ n * i \in Nat /\ n * q \in Nat
    BY <1>1, ProductNat
  <2>2. CASE i = q
    BY <1>1, <1>4, <2>1, <2>2
  <2>3. CASE i >= q + 1
    <3>1. n * (q + 1) <= n * i
      BY <1>1, <2>1, <2>3, Widen
    <3>2. n * (q + 1) = n * q + n
      BY <1>1
    <3>. DEFINE x == n * i
                y == n * q
    <3>3. y + n <= x /\ d = 1 + x /\ d = y + r /\ x \in Nat /\ y \in Nat
      BY <1>1, <1>4, <2>1, <3>1, <3>2
    <3>. HIDE DEF x, y
    <3>. QED  BY <1>1, <3>3
  <2>4. CASE i + 1 <= q
    <3>1. n * (i + 1) <= n * q
      BY <1>1, <2>1, <2>4, Widen
    <3>2. n * (i + 1) = n * i + n
      BY <2>1
    <3>. DEFINE x == n * i
                y == n * q
    <3>3. x + n <= y /\ d = 1 + x /\ d = y + r /\ x \in Nat /\ y \in Nat
      BY <1>1, <1>4, <2>1, <3>1, <3>2
    <3>. HIDE DEF x, y
    <3>. QED  BY <1>1, <3>3
  <2>. QED  BY <1>1, <2>1, <2>2, <2>3, <2>4
<1>. QED  BY <1>3, <1>4 DEF r

\* What a scheduler remembers once it has been asked about the first m dates.
Remembers(a, s, m) ==
  /\ a.kind \in PeriodSchedulers => s.key = IF m = 0 THEN Nothing ELSE PeriodKey(a, m)
  /\ a.kind \in {"RunEveryNPeriods", "RunAfterDays"} => s.count = m

\* Asked about the next date, a scheduler answers what the calendar says.
LEMMA ScheduledCall ==
  ASSUME NEW a, a.kind \in Schedulers, WellFormedAlgo(a),
         a.kind = "RunEveryNPeriods" => a.n > 1,
         NEW s, StateOK(s), NEW c, NEW d \in 1..Len(Calendar), c.day = d,
         Remembers(a, s, d - 1), NEW draw
  PROVE  LET r == CallAlgo(a, s, c, draw)
         IN  /\ Remembers(a, r.s, d)
             /\ r.status = "continue" <=> Due(a, d)
<1>. DEFINE r == CallAlgo(a, s, c, draw)
<1>1. d \in Nat /\ d # 0 /\ (d - 1 = 0 <=> d = 1)
  BY CalendarSorted
<1>2. s = [key |-> s.key, count |-> s.count, peak |-> s.peak, target |-> s.target, left |-> s.left]
  BY DEF StateOK
<1>3. CASE a.kind \in PeriodSchedulers
  <2>. DEFINE key == PeriodKey(a, d)
  <2>1. r = OncePer(key, s, c)
    BY <1>3, PeriodCall
  <2>2. s.key = IF d = 1 THEN Nothing ELSE PeriodKey(a, d - 1)
    BY <1>1, <1>3 DEF Remembers
  <2>3. Due(a, d) <=> s.key # key
    <3>1. CASE d = 1
      <4>1. Due(a, d)
        BY <1>3, <3>1, DueByKey
      <4>. QED  BY <1>3, <2>2, <3>1, <4>1, KeyKnown
    <3>2. CASE d # 1
      <4>1. d > 1 /\ d - 1 \in 1..(d-1)
        BY <1>1, <3>2
      <4>2. s.key = key => ~ Due(a, d)
        BY <1>3, <2>2, <3>2, <4>1, DueByKey
      <4>3. s.key # key => Due(a, d)
        <5>1. ASSUME NEW e \in 1..(d-1), PeriodKey(a, e) = key PROVE s.key = key
          BY <1>3, <2>2, <3>2, <4>1, <5>1, PeriodsConsecutive
        <5>. QED  BY <1>3, <5>1, DueByKey
      <4>. QED  BY <4>2, <4>3
    <3>. QED  BY <3>1, <3>2
  <2>. HIDE DEF key
  <2>4. r.s.key = key /\ (r.status = "continue" <=> s.key # key)
    BY <1>2, <2>1 DEF OncePer, Skip, Continue
  <2>5. a.kind \notin {"RunEveryNPeriods", "RunAfterDays"}
    BY <1>3 DEF PeriodSchedulers
  <2>. HIDE DEF r
  <2>6. Remembers(a, r.s, d)
    BY <1>1, <1>3, <2>4, <2>5 DEF Remembers, key
  <2>. QED  BY <2>3, <2>4, <2>6 DEF r
<1>4. CASE a.kind \in {"RunEveryNPeriods", "RunAfterDays"}
  <2>. DEFINE t == [s EXCEPT !.count = s.count + 1]
  <2>1. s.count = d - 1 /\ t.count = d
    BY <1>1, <1>2, <1>4 DEF Remembers
  <2>2. s.count + 1 = d /\ a.kind \notin PeriodSchedulers
    BY <1>1, <1>4, <2>1 DEF PeriodSchedulers
  <2>3. CASE a.kind = "RunEveryNPeriods"
    <3>1. a.n \in Nat /\ a.n > 1
      BY <2>3 DEF WellFormedAlgo
    <3>2. r = IF d % a.n # 1 /\ d # 1 THEN Skip(t, c) ELSE Continue(t, c)
      BY <2>2, <2>3 DEF CallAlgo, RunEveryNPeriods
    <3>3. d % a.n = 1 <=> \E i \in 0..d : d = 1 + i * a.n
      <4>1. \A n, e \in Nat : n > 1 /\ e > 0 => (e % n = 1 <=> \E i \in 0..e : e = 1 + i * n)
        BY RemainderOne
      <4>2. d \in Nat /\ d > 0
        BY <1>1
      <4>. HIDE DEF t, r
      <4>. QED  BY <3>1, <4>1, <4>2
    <3>4. d = 1 => \E i \in 0..d : d = 1 + i * a.n
      <4>1. 0 \in 0..d /\ 1 = 1 + 0 * a.n
        BY <1>1, <3>1
      <4>. QED  BY <4>1
    <3>5. Due(a, d) <=> \E i \in 0..d : d = 1 + i * a.n
      BY <2>3 DEF Due
    <3>. HIDE DEF t
    <3>6. r.s = t /\ (r.status = "continue" <=> ~ (d % a.n # 1 /\ d # 1))
      BY <3>2 DEF Skip, Continue
    <3>. HIDE DEF r
    <3>. QED  BY <2>1, <2>2, <3>3, <3>4, <3>5, <3>6 DEF Remembers, r
  <2>4. CASE a.kind = "RunAfterDays"
    <3>1. r = IF d <= a.n THEN Skip(t, c) ELSE Continue(t, c)
      BY <2>1, <2>4 DEF CallAlgo, RunAfterDays
    <3>2. Due(a, d) <=> d > a.n
      BY <2>4 DEF Due
    <3>3. a.n \in Int
      BY <2>4 DEF WellFormedAlgo
    <3>. HIDE DEF t
    <3>4. r.s = t /\ (r.status = "continue" <=> ~ (d <= a.n))
      BY <3>1 DEF Skip, Continue
    <3>. HIDE DEF r
    <3>. QED  BY <1>1, <2>1, <2>2, <3>2, <3>3, <3>4 DEF Remembers, r
  <2>. QED  BY <1>4, <2>3, <2>4
<1>5. CASE a.kind \in {"RunDaily", "RunOnDate", "RunAfterDate"}
  <2>1. a.kind \notin PeriodSchedulers /\ a.kind \notin {"RunEveryNPeriods", "RunAfterDays"}
    BY <1>5 DEF PeriodSchedulers
  <2>2. r.status = "continue" <=> Due(a, d)
    <3>1. CASE a.kind = "RunDaily"
      BY <3>1 DEF CallAlgo, RunDaily, Continue, Due
    <3>2. CASE a.kind = "RunOnDate"
      BY <3>2 DEF CallAlgo, RunOnDate, Continue, Skip, Due
    <3>3. CASE a.kind = "RunAfterDate"
      <4>1. a.date \in Int
        BY <3>3 DEF WellFormedAlgo
      <4>2. r = IF d < a.date THEN Skip(s, c) ELSE Continue(s, c)
        BY <3>3 DEF CallAlgo, RunAfterDate
      <4>3. Due(a, d) <=> d >= a.date
        BY <3>3 DEF Due
      <4>4. r.status = "continue" <=> ~ (d < a.date)
        BY <4>2 DEF Skip, Continue
      <4>. HIDE DEF r
      <4>. QED  BY <1>1, <4>1, <4>3, <4>4
    <3>. QED  BY <1>5, <3>1, <3>2, <3>3
  <2>. QED  BY <2>1, <2>2 DEF Remembers
<1>. QED  BY <1>3, <1>4, <1>5 DEF Schedulers

\* What a call leaves: the state of the algo called, the others as they were,
\* and one more entry of the log.
LEMMA LoggedCall ==
  ASSUME PipelineTypeOK, CallNext
  PROVE  /\ step \in 1..Len(program) /\ ContextOK(ctx) /\ ctx.day = Len(prices)
         /\ Len(log) \in Nat /\ Len(log') = Len(log) + 1
         /\ \A i \in 1..Len(log) : log'[i] = log[i]
         /\ log'[Len(log) + 1].day = Len(prices) /\ log'[Len(log) + 1].step = step
         /\ \A k \in 1..Len(program) : k # step => states'[k] = states[k]
         /\ \E draw \in Draws(program[step], ctx) :
              LET r == Call(program[step], states[step], ctx, draw)
              IN  /\ states'[step] = r.s /\ log'[Len(log) + 1].status = r.status
                  /\ CalledOutcome(r, program[step], ctx, Symbols)
<1>1. pc = "algo" /\ step <= Len(program)
  BY DEF CallNext
<1>2. PICK draw \in Draws(program[step], ctx) :
        LET r == Call(program[step], states[step], ctx, draw)
        IN  /\ states' = [states EXCEPT ![step] = r.s]
            /\ log' = Append(log, [day |-> ctx.day, step |-> step, status |-> r.status])
  BY DEF CallNext
<1>. DEFINE r == Call(program[step], states[step], ctx, draw)
            Entry == [day : 1..Len(prices), step : 1..Len(program), status : Statuses]
            e == [day |-> ctx.day, step |-> step, status |-> r.status]
<1>3. /\ PricedSymbols(ctx) \subseteq Symbols /\ ctx.selected \in Seq(Symbols)
      /\ BookOver(ctx.target, Symbols) /\ ContextOK(ctx) /\ ctx.day = Len(prices)
  BY <1>1 DEF PipelineTypeOK, ContextOK, BookOver, IsBook, PricedSymbols
<1>4. CalledOutcome(r, program[step], ctx, Symbols) /\ step \in 1..Len(program)
  BY <1>1, <1>3, NextCallFits DEF MayCall
<1>5. states = [k \in 1..Len(program) |-> states[k]] /\ log \in Seq(Entry)
  BY DEF PipelineTypeOK
<1>6. states' = [states EXCEPT ![step] = r.s] /\ log' = Append(log, e)
  BY <1>2
<1>. HIDE DEF r
<1>7. /\ states'[step] = r.s
      /\ \A k \in 1..Len(program) : k # step => states'[k] = states[k]
  BY <1>4, <1>5, <1>6
<1>8. e.day = Len(prices) /\ e.step = step /\ e.status = r.status
  BY <1>3
<1>. DEFINE U == Entry \cup {e}
<1>9. log \in Seq(U) /\ e \in U
  BY <1>5, SeqWider
<1>. HIDE DEF U, e
<1>10. /\ Len(log) \in Nat /\ Len(log') = Len(log) + 1 /\ log'[Len(log) + 1] = e
       /\ \A i \in 1..Len(log) : log'[i] = log[i]
  BY <1>6, <1>9
<1>. QED  BY <1>3, <1>4, <1>7, <1>8, <1>10 DEF r

\* The dates on which the first algo has been asked.
AskedDates == IF pc = "algo" /\ step = 1 THEN Len(prices) - 1 ELSE Len(prices)

\* A scheduler at the head is asked on every date, in turn.
LEMMA AskedEveryDate ==
  ASSUME PipelineTypeOK, 1 \in 1..Len(program)
  PROVE  /\ Init => AskedDates = 0
         /\ OpenDate \/ RecordRow \/ EndOfData \/ Ended \/ UNCHANGED vars
              => AskedDates' = AskedDates /\ states' = states /\ log' = log
         /\ CallNext /\ step = 1 => AskedDates = Len(prices) - 1 /\ AskedDates' = Len(prices)
         /\ CallNext /\ step # 1 => AskedDates = Len(prices) /\ AskedDates' = Len(prices)
<1>1. Len(prices) \in Nat /\ Len(program) \in Nat /\ step \in Int
  BY ProgramsFit DEF PipelineTypeOK
<1>2. Init => AskedDates = 0
  BY DEF Init, AskedDates, Nothing
<1>3. OpenDate => AskedDates' = AskedDates /\ states' = states /\ log' = log
  <2>. SUFFICES ASSUME OpenDate PROVE AskedDates' = AskedDates
    BY DEF OpenDate
  <2>1. PICK p \in PriceRow : prices' = Append(prices, p)
    BY PipelineAssumption DEF OpenDate, PriceRow
  <2>2. prices \in Seq(PriceRow)
    BY DEF PipelineTypeOK
  <2>3. Len(prices') = Len(prices) + 1
    BY <2>1, <2>2
  <2>. QED  BY <1>1, <2>3 DEF OpenDate, AskedDates
<1>4. RecordRow => AskedDates' = AskedDates /\ states' = states /\ log' = log
  <2>. SUFFICES ASSUME RecordRow PROVE AskedDates' = AskedDates
    BY DEF RecordRow
  <2>1. ~ (pc = "algo" /\ step = 1)
    BY <1>1 DEF RecordRow, AlgosDone
  <2>2. pc' # "algo" /\ prices' = prices
    BY DEF RecordRow
  <2>. QED  BY <2>1, <2>2 DEF AskedDates
<1>5. EndOfData => AskedDates' = AskedDates /\ states' = states /\ log' = log
  BY DEF EndOfData, AskedDates
<1>6. Ended \/ UNCHANGED vars => AskedDates' = AskedDates /\ states' = states /\ log' = log
  BY DEF Ended, vars, AskedDates
<1>7. CallNext /\ step = 1 => AskedDates = Len(prices) - 1 /\ AskedDates' = Len(prices)
  BY <1>1 DEF CallNext, AskedDates
<1>8. CallNext /\ step # 1 => AskedDates = Len(prices) /\ AskedDates' = Len(prices)
  <2>. SUFFICES ASSUME CallNext, step # 1 PROVE AskedDates = Len(prices) /\ AskedDates' = Len(prices)
    OBVIOUS
  <2>1. step' = step + 1 /\ prices' = prices
    BY DEF CallNext
  <2>2. step \in 1..Len(program)
    BY LoggedCall
  <2>3. step' # 1
    BY <1>1, <2>1, <2>2
  <2>. QED  BY <2>1, <2>3 DEF AskedDates
<1>. QED  BY <1>2, <1>3, <1>4, <1>5, <1>6, <1>7, <1>8

\* The entries of the log are what At and Asked read.
LEMMA LogEntries ==
  ASSUME PipelineTypeOK
  PROVE  /\ DOMAIN log = 1..Len(log)
         /\ \A i \in 1..Len(log) :
              /\ log[i] = [day |-> log[i].day, step |-> log[i].step, status |-> log[i].status]
              /\ log[i].step = 1 => 1 \in 1..Len(program)
<1>. DEFINE Entry == [day : 1..Len(prices), step : 1..Len(program), status : Statuses]
<1>1. log \in Seq(Entry)
  BY DEF PipelineTypeOK
<1>2. \A x \in Entry : x = [day |-> x.day, step |-> x.step, status |-> x.status]
                       /\ x.step \in 1..Len(program)
  OBVIOUS
<1>. HIDE DEF Entry
<1>3. DOMAIN log = 1..Len(log) /\ \A i \in 1..Len(log) : log[i] \in Entry
  BY <1>1
<1>. QED  BY <1>2, <1>3

\* A scheduler at the head remembers the last date, and has answered for every
\* date as the calendar says.
ScheduleKept ==
  /\ 1 \in 1..Len(program) /\ program[1].kind \in Schedulers
  /\ program[1].kind = "RunEveryNPeriods" => program[1].n > 1
  => /\ Remembers(program[1], states[1][1], AskedDates)
     /\ \A i \in 1..Len(log) : log[i].step = 1 =>
          (log[i].status = "continue" <=> Due(program[1], log[i].day))

\* A scheduler at the head of a program sees one date at a time and remembers a key
\* or a count; it allows exactly the dates the whole calendar says.
THEOREM SchedulersMatchCalendarHolds == Spec => []SchedulersMatchCalendar
<1>1. Init /\ PipelineTypeOK => ScheduleKept
  <2>. SUFFICES ASSUME Init, PipelineTypeOK, 1 \in 1..Len(program), program[1].kind \in Schedulers
                PROVE  /\ Remembers(program[1], states[1][1], AskedDates)
                       /\ \A i \in 1..Len(log) : FALSE
    BY DEF ScheduleKept
  <2>1. states[1][1] = Fresh
    <3>1. 1 \in DOMAIN program
      BY ProgramsFit DEF Init
    <3>2. states[1] = StatesOf(program[1])
      BY <3>1 DEF Init
    <3>3. StatesOf(program[1]) = <<Fresh>>
      BY DEF StatesOf, Combinators, Schedulers, PeriodSchedulers
    <3>. QED  BY <3>2, <3>3
  <2>2. AskedDates = 0 /\ Len(log) = 0
    BY AskedEveryDate DEF Init, Nothing
  <2>. QED  BY <2>1, <2>2 DEF Remembers, Fresh
<1>2. PipelineTypeOK /\ ScheduleKept /\ [Next]_vars => ScheduleKept'
  <2>0. [Next]_vars => program' = program
    BY DEF Next, vars, OpenDate, CallNext, RecordRow, EndOfData, Ended
  <2>. SUFFICES ASSUME PipelineTypeOK, ScheduleKept, [Next]_vars,
                       1 \in 1..Len(program), program[1].kind \in Schedulers,
                       program[1].kind = "RunEveryNPeriods" => program[1].n > 1
                PROVE  /\ Remembers(program[1], states'[1][1], AskedDates')
                       /\ \A i \in 1..Len(log') : log'[i].step = 1 =>
                            (log'[i].status = "continue" <=> Due(program[1], log'[i].day))
    BY <2>0 DEF ScheduleKept
  <2>1. /\ Remembers(program[1], states[1][1], AskedDates)
        /\ \A i \in 1..Len(log) : log[i].step = 1 =>
             (log[i].status = "continue" <=> Due(program[1], log[i].day))
    BY DEF ScheduleKept
  <2>2. CASE OpenDate \/ RecordRow \/ EndOfData \/ Ended \/ UNCHANGED vars
    BY <2>1, <2>2, AskedEveryDate
  <2>3. CASE CallNext
    <3>. DEFINE e == log'[Len(log) + 1]
                d == Len(prices)
    <3>1. /\ Len(log) \in Nat /\ Len(log') = Len(log) + 1 /\ \A i \in 1..Len(log) : log'[i] = log[i]
          /\ e.day = d /\ e.step = step
      BY <2>3, LoggedCall
    <3>2. CASE step # 1
      <4>1. states'[1] = states[1] /\ AskedDates' = AskedDates
        BY <2>3, <3>2, LoggedCall, AskedEveryDate
      <4>2. ASSUME NEW i \in 1..Len(log'), log'[i].step = 1
            PROVE  log'[i].status = "continue" <=> Due(program[1], log'[i].day)
        <5>1. i \in 1..Len(log)
          BY <3>1, <3>2, <4>2
        <5>. QED  BY <2>1, <3>1, <4>2, <5>1
      <4>. QED  BY <2>1, <4>1, <4>2
    <3>3. CASE step = 1
      <4>1. PICK draw \in Draws(program[1], ctx) :
              LET r == Call(program[1], states[1], ctx, draw)
              IN  states'[1] = r.s /\ e.status = r.status /\ CalledOutcome(r, program[1], ctx, Symbols)
        BY <2>3, <3>3, LoggedCall
      <4>. DEFINE r == Call(program[1], states[1], ctx, draw)
                  q == CallAlgo(program[1], states[1][1], ctx, draw)
      <4>2. program[1].kind \notin Combinators
        BY DEF Combinators, Schedulers, PeriodSchedulers
      <4>3. WellFormedAlgo(program[1]) /\ StateOK(states[1][1])
        <5>1. WellFormed(program[1]) /\ StatesOK(program[1], states[1])
          BY ProgramsFit DEF PipelineTypeOK
        <5>. QED  BY <4>2, <5>1 DEF WellFormed, StatesOK
      <4>4. d \in 1..Len(Calendar) /\ ctx.day = d
        BY <2>3, LoggedCall DEF ContextOK
      <4>5. Remembers(program[1], states[1][1], d - 1)
        BY <2>1, <2>3, <3>3, AskedEveryDate
      <4>6. Remembers(program[1], q.s, d) /\ (q.status = "continue" <=> Due(program[1], d))
        <5>. HIDE DEF d
        <5>. QED  BY <4>3, <4>4, <4>5, ScheduledCall
      <4>7. r = [q EXCEPT !.s = <<q.s>>]
        BY <4>2 DEF Call, Combinators
      <4>8. r.s[1] = q.s /\ q.status = r.status
        <5>1. PricedSymbols(ctx) \subseteq Symbols /\ ContextOK(ctx) /\ ctx.selected \in Seq(Symbols)
              /\ BookOver(ctx.target, Symbols)
          BY <2>3, LoggedCall DEF ContextOK, BookOver, IsBook, PricedSymbols
        <5>2. CallOutcome(q, ctx, Symbols)
          <6>1. MayCall(program[1], Symbols) /\ program[1].kind \notin Drawing
            BY <5>1 DEF MayCall, Drawing, Schedulers, PeriodSchedulers
          <6>. QED  BY <4>3, <5>1, <6>1, Calls
        <5>3. q = [s |-> q.s, c |-> q.c, status |-> q.status]
          BY <5>2 DEF CallOutcome
        <5>. HIDE DEF q, r
        <5>. QED  BY <4>7, <5>3
      <4>9. states'[1] = r.s /\ e.status = r.status
        BY <4>1
      <4>10. AskedDates' = d
        BY <2>3, <3>3, AskedEveryDate
      <4>. HIDE DEF q, r, d, e
      <4>11. Remembers(program[1], states'[1][1], AskedDates')
        BY <4>6, <4>8, <4>9, <4>10
      <4>12. ASSUME NEW i \in 1..Len(log'), log'[i].step = 1
             PROVE  log'[i].status = "continue" <=> Due(program[1], log'[i].day)
        <5>1. CASE i \in 1..Len(log)
          BY <2>1, <3>1, <4>12, <5>1
        <5>2. CASE i = Len(log) + 1
          BY <3>1, <4>6, <4>8, <4>9, <5>2 DEF e
        <5>. QED  BY <3>1, <5>1, <5>2
      <4>. QED  BY <4>11, <4>12
    <3>. QED  BY <3>2, <3>3
  <2>. QED  BY <2>2, <2>3 DEF Next
<1>3. PipelineTypeOK /\ ScheduleKept => SchedulersMatchCalendar
  <2>. SUFFICES ASSUME PipelineTypeOK, ScheduleKept, NEW d \in 1..Len(prices),
                       program[1].kind \in Schedulers,
                       program[1].kind = "RunEveryNPeriods" => program[1].n > 1,
                       Asked(1, d)
                PROVE  At(1, d, "continue") <=> Due(program[1], d)
    BY DEF SchedulersMatchCalendar
  <2>4. DOMAIN log = 1..Len(log)
    BY LogEntries
  <2>5. PICK i \in 1..Len(log) : log[i].day = d /\ log[i].step = 1
    BY <2>4 DEF Asked
  <2>6. /\ 1 \in 1..Len(program)
        /\ log[i] = [day |-> log[i].day, step |-> log[i].step, status |-> log[i].status]
    BY <2>5, LogEntries
  <2>7. \A j \in 1..Len(log) : log[j].step = 1 =>
          (log[j].status = "continue" <=> Due(program[1], log[j].day))
    BY <2>6 DEF ScheduleKept
  <2>8. At(1, d, "continue") => Due(program[1], d)
    <3>. SUFFICES ASSUME At(1, d, "continue") PROVE Due(program[1], d)
      OBVIOUS
    <3>1. PICK j \in 1..Len(log) : log[j] = [day |-> d, step |-> 1, status |-> "continue"]
      BY <2>4 DEF At
    <3>2. log[j].day = d /\ log[j].step = 1 /\ log[j].status = "continue"
      BY <3>1
    <3>. QED  BY <2>7, <3>2
  <2>9. Due(program[1], d) => At(1, d, "continue")
    <3>. SUFFICES ASSUME Due(program[1], d) PROVE At(1, d, "continue")
      OBVIOUS
    <3>1. log[i].status = "continue"
      BY <2>5, <2>7
    <3>2. log[i] = [day |-> d, step |-> 1, status |-> "continue"]
      BY <2>5, <2>6, <3>1
    <3>. QED  BY <2>4, <3>2 DEF At
  <2>. QED  BY <2>8, <2>9
<1>. QED  BY <1>1, <1>2, <1>3, PipelineTypeCorrect, PTL DEF Spec

\* Something of a child of Or in its k first states, and of a child not yet asked.
Turn(a, ss, d, q, k) ==
  /\ \A i \in 1..k : a.algos[i].kind \in PeriodSchedulers =>
       q.s[i].key \in {ss[i].key, PeriodKey(a.algos[i], d)}
  /\ q.status = "skip_day" => \A i \in 1..k : a.algos[i].kind \in PeriodSchedulers =>
       ss[i].key = PeriodKey(a.algos[i], d)

\* The entries of a sequence of states after one is added.
LEMMA StateAdded ==
  ASSUME NEW k \in Nat, NEW q, q = [i \in 1..k |-> q[i]], NEW t
  PROVE  \A i \in 1..(k+1) : Append(q, t)[i] = IF i = k + 1 THEN t ELSE q[i]
<1>. DEFINE U == {q[i] : i \in 1..k} \cup {t}
<1>1. (\A i \in 1..k : q[i] \in U) /\ t \in U
  OBVIOUS
<1>. HIDE DEF U
<1>2. q \in Seq(U) /\ Len(q) = k
  BY <1>1, IsASeq
<1>. QED  BY <1>1, <1>2, Appended

\* Each turn of Or keeps what it says of its children.
LEMMA TurnKept ==
  ASSUME NEW a, NEW ss, NEW c, NEW draw, NEW k \in Nat, NEW acc, AskedOf(acc, k, c, Symbols),
         Turn(a, ss, c.day, acc, k)
  PROVE  Turn(a, ss, c.day, AskNext(acc, a.algos[k+1], ss[k+1], draw), k + 1)
<1>. DEFINE b == a.algos[k+1]
            s == ss[k+1]
            q == AskNext(acc, b, s, draw)
<1>1. /\ acc.s = [i \in 1..k |-> acc.s[i]] /\ acc.c.day = c.day
      /\ acc = [s |-> acc.s, c |-> acc.c, status |-> acc.status]
      /\ acc.status \in {"continue", "skip_day", "NaN"}
  BY DEF AskedOf, SameDate
<1>2. CASE acc.status = "skip_day"
  <2>. DEFINE r == CallAlgo(b, s, acc.c, draw)
  <2>1. /\ q.s = Append(acc.s, r.s)
        /\ q.status = IF r.status \in {"continue", "NaN"} THEN r.status ELSE "skip_day"
    BY <1>2 DEF AskNext, AskChild
  <2>2. \A i \in 1..(k+1) : q.s[i] = IF i = k + 1 THEN r.s ELSE acc.s[i]
    <3>. HIDE DEF r, q
    <3>. QED  BY <1>1, <2>1, StateAdded
  <2>3. b.kind \in PeriodSchedulers =>
          /\ r.s.key \in {s.key, PeriodKey(b, c.day)}
          /\ r.status # "continue" => s.key = PeriodKey(b, c.day)
    <3>. SUFFICES ASSUME b.kind \in PeriodSchedulers
                  PROVE  /\ r.s.key \in {s.key, PeriodKey(b, c.day)}
                         /\ r.status # "continue" => s.key = PeriodKey(b, c.day)
      OBVIOUS
    <3>. DEFINE key == PeriodKey(b, c.day)
                t == [s EXCEPT !.key = key]
    <3>1. r = IF s.key = key THEN Skip(s, acc.c) ELSE Continue(t, acc.c)
      <4>1. r = OncePer(PeriodKey(b, acc.c.day), s, acc.c)
        <5>. HIDE DEF b, s
        <5>. QED  BY PeriodCall
      <4>. HIDE DEF r, b, s
      <4>. QED  BY <1>1, <4>1 DEF OncePer
    <3>2. t.key = key \/ t.key = s.key
      OBVIOUS
    <3>. HIDE DEF r, t, key, s
    <3>. QED  BY <3>1, <3>2 DEF Skip, Continue, key
  <2>4. \A i \in 1..(k+1) : i = k + 1 \/ i \in 1..k
    OBVIOUS
  <2>. HIDE DEF r, q
  <2>5. ASSUME NEW i \in 1..(k+1), a.algos[i].kind \in PeriodSchedulers
        PROVE  q.s[i].key \in {ss[i].key, PeriodKey(a.algos[i], c.day)}
    BY <2>2, <2>3, <2>4, <2>5 DEF Turn
  <2>6. ASSUME q.status = "skip_day", NEW i \in 1..(k+1), a.algos[i].kind \in PeriodSchedulers
        PROVE  ss[i].key = PeriodKey(a.algos[i], c.day)
    BY <1>2, <2>1, <2>3, <2>4, <2>6 DEF Turn
  <2>. QED  BY <2>5, <2>6 DEF Turn, q
<1>3. CASE acc.status # "skip_day"
  <2>1. q = [acc EXCEPT !.s = Append(acc.s, s)]
    BY <1>3 DEF AskNext
  <2>2. q.s = Append(acc.s, s) /\ q.status = acc.status
    <3>. HIDE DEF q
    <3>. QED  BY <1>1, <2>1
  <2>3. \A i \in 1..(k+1) : q.s[i] = IF i = k + 1 THEN s ELSE acc.s[i]
    <3>. HIDE DEF q, s
    <3>. QED  BY <1>1, <2>2, StateAdded
  <2>4. \A i \in 1..(k+1) : i = k + 1 \/ i \in 1..k
    OBVIOUS
  <2>. HIDE DEF q
  <2>5. ASSUME NEW i \in 1..(k+1), a.algos[i].kind \in PeriodSchedulers
        PROVE  q.s[i].key \in {ss[i].key, PeriodKey(a.algos[i], c.day)}
    BY <2>3, <2>4, <2>5 DEF Turn
  <2>. QED  BY <1>3, <2>2, <2>5 DEF Turn, q
<1>. QED  BY <1>2, <1>3

\* On a date, Or asks a child whose period is new unless one before it continues
\* or loses the cash; a child that answers remembers the period.
LEMMA OrTurns ==
  ASSUME NEW a, WellFormed(a), a.kind = "Or", NEW ss, StatesOK(a, ss), NEW c, ContextOK(c),
         NEW draw
  PROVE  LET r == Or(a, ss, c, draw)
         IN  /\ Turn(a, ss, c.day, r, Len(a.algos))
             /\ r.status \in {"continue", "skip_day", "NaN"}
<1>. DEFINE n == Len(a.algos)
<1>1. a.kind \in Combinators
  BY DEF Combinators
<1>2. /\ n \in Nat /\ \A i \in 1..n : WellFormedAlgo(a.algos[i]) /\ a.algos[i].kind \notin Drawing
  BY <1>1, Zenon DEF WellFormed
<1>3. Len(ss) = n /\ \A i \in 1..n : StateOK(ss[i])
  BY <1>1 DEF StatesOK
<1>4. /\ PricedSymbols(c) \subseteq Symbols /\ c.selected \in Seq(Symbols)
      /\ BookOver(c.target, Symbols)
  BY DEF ContextOK, BookOver, IsBook, PricedSymbols
<1>. HIDE DEF n
<1>5. PICK h : /\ h[0] = Unasked(c)
               /\ \A k \in 1..n : h[k] = AskNext(h[k-1], a.algos[k], ss[k], draw)
               /\ Or(a, ss, c, draw) = h[n]
  <2>1. Len(ss) \in Nat
    BY <1>2, <1>3
  <2>0. InTurn(a, ss, c, draw)
    BY <2>1, AskedInTurn
  <2>2. PICK h : /\ h[0] = Unasked(c)
                 /\ \A k \in 1..Len(ss) : h[k] = AskNext(h[k-1], a.algos[k], ss[k], draw)
                 /\ Or(a, ss, c, draw) = h[Len(ss)]
    BY <2>0, Zenon DEF InTurn
  <2>3. Len(ss) = n
    BY <1>3
  <2>. QED  BY <2>2, <2>3, Zenon
<1>. DEFINE Good(k) == AskedOf(h[k], k, c, Symbols) /\ Turn(a, ss, c.day, h[k], k)
            B == {k \in 0..n : ~ Good(k)}
<1>6. Good(0)
  <2>1. /\ Unasked(c).s = Nothing /\ Unasked(c).c = c /\ Unasked(c).status = "skip_day"
        /\ Unasked(c) = [s |-> Unasked(c).s, c |-> Unasked(c).c, status |-> Unasked(c).status]
    BY DEF Unasked
  <2>2. Nothing = [i \in 1..0 |-> Nothing[i]] /\ 1..0 = {}
    BY DEF Nothing
  <2>3. AskedOf(Unasked(c), 0, c, Symbols)
    BY <1>4, <2>1, <2>2 DEF AskedOf, SameDate
  <2>4. Turn(a, ss, c.day, Unasked(c), 0)
    BY <2>2 DEF Turn
  <2>. QED  BY <1>5, <2>3, <2>4
<1>7. ASSUME NEW m \in 1..n, m - 1 \in 0..n, m - 1 \notin B PROVE m \notin B
  <2>1. m - 1 \in Nat /\ (m - 1) + 1 = m /\ Good(m-1)
    BY <1>2, <1>7
  <2>. DEFINE acc == h[m-1]
  <2>2. h[m] = AskNext(acc, a.algos[m], ss[m], draw)
    BY <1>5
  <2>3. Turn(a, ss, c.day, h[m], m)
    <3>1. Turn(a, ss, c.day, AskNext(acc, a.algos[(m-1)+1], ss[(m-1)+1], draw), (m - 1) + 1)
      <4>. HIDE DEF acc
      <4>1. AskedOf(acc, m - 1, c, Symbols) /\ Turn(a, ss, c.day, acc, m - 1)
        BY <2>1 DEF acc
      <4>. QED  BY <2>1, <4>1, TurnKept
    <3>. QED  BY <2>1, <2>2, <3>1
  <2>4. AskedOf(h[m], m, c, Symbols)
    <3>1. MayCall(a.algos[m], Symbols)
      BY DEF MayCall
    <3>2. WellFormedAlgo(a.algos[m]) /\ a.algos[m].kind \notin Drawing /\ StateOK(ss[m])
      BY <1>2, <1>3
    <3>3. AskedOf(acc, m - 1, c, Symbols)
      BY <2>1
    <3>. HIDE DEF acc
    <3>. QED  BY <1>4, <2>1, <2>2, <3>1, <3>2, <3>3, NextAsked
  <2>. QED  BY <2>3, <2>4
<1>8. B = {}
  <2>1. B \in SUBSET (0..n) /\ 0 \notin B
    BY <1>6
  <2>. HIDE DEF B
  <2>. QED  BY <1>2, <1>7, <2>1, FirstFailure
<1>9. Good(n)
  <2>1. n \in 0..n
    BY <1>2
  <2>. QED  BY <1>8, <2>1
<1>. QED  BY <1>5, <1>9 DEF AskedOf, n

\* What a period scheduler in an Or remembers, asked on some of the first m dates.
Remembered(a, s, m) ==
  a.kind \in PeriodSchedulers => s.key = Nothing \/ \E e \in 1..m : s.key = PeriodKey(a, e)

\* The children of an Or at the head remember no date to come, and the Or has
\* allowed every date that begins a period of one of them, unless cash was lost.
OrKept ==
  1 \in 1..Len(program) /\ program[1].kind = "Or" =>
    /\ \A i \in 1..Len(program[1].algos) :
         Remembered(program[1].algos[i], states[1][i], AskedDates)
    /\ \A i \in 1..Len(log) :
         /\ log[i].step = 1
         /\ \E j \in 1..Len(program[1].algos) :
              program[1].algos[j].kind \in PeriodSchedulers /\ Due(program[1].algos[j], log[i].day)
         => log[i].status \in {"continue", "NaN"}

\* The children of an Or are asked on some dates only, so they remember old
\* periods; still the Or allows every date that begins a period of a child, unless
\* a child before it loses the cash.
THEOREM OrMissesNoPeriodHolds == Spec => []OrMissesNoPeriod
<1>1. Init /\ PipelineTypeOK => OrKept
  <2>. SUFFICES ASSUME Init, PipelineTypeOK, 1 \in 1..Len(program), program[1].kind = "Or"
                PROVE  /\ \A i \in 1..Len(program[1].algos) : states[1][i].key = Nothing
                       /\ \A i \in 1..Len(log) : FALSE
    BY DEF OrKept, Remembered
  <2>1. states[1] = StatesOf(program[1]) /\ WellFormed(program[1])
    <3>1. 1 \in DOMAIN program /\ WellFormed(program[1])
      BY ProgramsFit DEF Init
    <3>. QED  BY <3>1 DEF Init
  <2>2. program[1].kind \in Combinators
    BY DEF Combinators
  <2>3. DOMAIN program[1].algos = 1..Len(program[1].algos)
    <3>1. program[1].algos = [i \in 1..Len(program[1].algos) |-> program[1].algos[i]]
      BY <2>1, <2>2, Zenon DEF WellFormed
    <3>. QED  BY <3>1, Zenon
  <2>4. states[1] = [i \in 1..Len(program[1].algos) |-> Fresh]
    BY <2>1, <2>2, <2>3 DEF StatesOf
  <2>5. Len(log) = 0
    BY DEF Init, Nothing
  <2>. QED  BY <2>4, <2>5 DEF Fresh
<1>2. PipelineTypeOK /\ OrKept /\ [Next]_vars => OrKept'
  <2>0. [Next]_vars => program' = program
    BY DEF Next, vars, OpenDate, CallNext, RecordRow, EndOfData, Ended
  <2>. DEFINE a == program[1]
              n == Len(a.algos)
              Begins(d) == \E j \in 1..n : a.algos[j].kind \in PeriodSchedulers /\ Due(a.algos[j], d)
  <2>. SUFFICES ASSUME PipelineTypeOK, OrKept, [Next]_vars, 1 \in 1..Len(program), a.kind = "Or"
                PROVE  /\ \A i \in 1..n : Remembered(a.algos[i], states'[1][i], AskedDates')
                       /\ \A i \in 1..Len(log') : log'[i].step = 1 /\ Begins(log'[i].day)
                            => log'[i].status \in {"continue", "NaN"}
    BY <2>0 DEF OrKept
  <2>1. /\ \A i \in 1..n : Remembered(a.algos[i], states[1][i], AskedDates)
        /\ \A i \in 1..Len(log) : log[i].step = 1 /\ Begins(log[i].day)
             => log[i].status \in {"continue", "NaN"}
    BY DEF OrKept
  <2>. HIDE DEF Begins
  <2>2. CASE OpenDate \/ RecordRow \/ EndOfData \/ Ended \/ UNCHANGED vars
    BY <2>1, <2>2, AskedEveryDate
  <2>3. CASE CallNext
    <3>. DEFINE e == log'[Len(log) + 1]
                d == Len(prices)
    <3>1. /\ Len(log) \in Nat /\ Len(log') = Len(log) + 1 /\ \A i \in 1..Len(log) : log'[i] = log[i]
          /\ e.day = d /\ e.step = step
      BY <2>3, LoggedCall
    <3>2. CASE step # 1
      <4>1. states'[1] = states[1] /\ AskedDates' = AskedDates
        BY <2>3, <3>2, LoggedCall, AskedEveryDate
      <4>2. ASSUME NEW i \in 1..Len(log'), log'[i].step = 1, Begins(log'[i].day)
            PROVE  log'[i].status \in {"continue", "NaN"}
        <5>1. i \in 1..Len(log)
          BY <3>1, <3>2, <4>2
        <5>. QED  BY <2>1, <3>1, <4>2, <5>1
      <4>. QED  BY <2>1, <4>1, <4>2
    <3>3. CASE step = 1
      <4>1. PICK draw \in Draws(a, ctx) :
              LET r == Call(a, states[1], ctx, draw)
              IN  states'[1] = r.s /\ e.status = r.status
        BY <2>3, <3>3, LoggedCall
      <4>. DEFINE r == Or(a, states[1], ctx, draw)
      <4>2. states'[1] = r.s /\ e.status = r.status
        BY <4>1 DEF Call
      <4>3. WellFormed(a) /\ StatesOK(a, states[1])
        BY ProgramsFit DEF PipelineTypeOK
      <4>4. d \in 1..Len(Calendar) /\ ctx.day = d /\ ContextOK(ctx)
        BY <2>3, LoggedCall DEF ContextOK
      <4>5. Turn(a, states[1], d, r, n) /\ r.status \in {"continue", "skip_day", "NaN"}
        <5>. HIDE DEF a, d
        <5>. QED  BY <4>3, <4>4, OrTurns DEF n
      <4>6. AskedDates = d - 1 /\ AskedDates' = d
        BY <2>3, <3>3, AskedEveryDate
      <4>. HIDE DEF r, d, e, a, n
      <4>7. d \in Nat /\ d > 0 /\ (\A j \in 1..(d-1) : j \in 1..d) /\ d \in 1..d
        BY <4>4, CalendarSorted
      <4>8. ASSUME NEW i \in 1..n PROVE Remembered(a.algos[i], states'[1][i], AskedDates')
        BY <2>1, <4>2, <4>5, <4>6, <4>7 DEF Remembered, Turn
      <4>9. Begins(d) => e.status \in {"continue", "NaN"}
        <5>. SUFFICES ASSUME NEW j \in 1..n, a.algos[j].kind \in PeriodSchedulers,
                             Due(a.algos[j], d)
                      PROVE  e.status \in {"continue", "NaN"}
          BY DEF Begins
        <5>1. \A i \in 1..(d-1) : PeriodKey(a.algos[j], i) # PeriodKey(a.algos[j], d)
          BY <4>4, DueByKey
        <5>2. states[1][j].key # PeriodKey(a.algos[j], d)
          BY <2>1, <4>6, <5>1, KeyKnown DEF Remembered
        <5>3. r.status # "skip_day"
          BY <4>5, <5>2 DEF Turn
        <5>. QED  BY <4>2, <4>5, <5>3
      <4>10. ASSUME NEW i \in 1..Len(log'), log'[i].step = 1, Begins(log'[i].day)
             PROVE  log'[i].status \in {"continue", "NaN"}
        <5>1. CASE i \in 1..Len(log)
          BY <2>1, <3>1, <4>10, <5>1
        <5>2. CASE i = Len(log) + 1
          BY <3>1, <4>9, <4>10, <5>2 DEF e
        <5>. QED  BY <3>1, <5>1, <5>2
      <4>. QED  BY <4>8, <4>10
    <3>. QED  BY <3>2, <3>3
  <2>. QED  BY <2>2, <2>3 DEF Next
<1>3. PipelineTypeOK /\ OrKept => OrMissesNoPeriod
  <2>. DEFINE a == program[1]
  <2>. SUFFICES ASSUME PipelineTypeOK, OrKept, NEW d \in 1..Len(prices), a.kind = "Or", Asked(1, d),
                       NEW j \in DOMAIN a.algos, a.algos[j].kind \in PeriodSchedulers,
                       Due(a.algos[j], d)
                PROVE  At(1, d, "continue") \/ At(1, d, "NaN")
    BY DEF OrMissesNoPeriod
  <2>1. PICK i \in DOMAIN log : log[i].day = d /\ log[i].step = 1
    BY DEF Asked
  <2>2. /\ i \in 1..Len(log) /\ 1 \in 1..Len(program)
        /\ log[i] = [day |-> log[i].day, step |-> log[i].step, status |-> log[i].status]
    BY <2>1, LogEntries
  <2>3. WellFormed(a)
    BY <2>2, ProgramsFit DEF PipelineTypeOK
  <2>4. DOMAIN a.algos = 1..Len(a.algos)
    <3>1. a.algos = [k \in 1..Len(a.algos) |-> a.algos[k]]
      BY <2>3, Zenon DEF WellFormed, Combinators
    <3>. QED  BY <3>1, Zenon
  <2>5. log[i].status \in {"continue", "NaN"}
    BY <2>1, <2>2, <2>4 DEF OrKept
  <2>. QED  BY <2>1, <2>2, <2>5 DEF At
<1>. QED  BY <1>1, <1>2, <1>3, PipelineTypeCorrect, PTL DEF Spec

-----------------------------------------------------------------------------
(* Books that are not overdrawn.                                           *)

\* No quantity or weight below zero; weights of no more than the whole.
NoneShort(f) == \A x \in DOMAIN f : f[x] >= 0
Long(w) == NoneShort(w) /\ WeightSum(w) <= ONE

LEMMA WeightTerms ==
  ASSUME NEW w, IsBook(w)
  PROVE  /\ NumSymbols \in Nat /\ IntTerms(w, NumSymbols)
         /\ WeightSum(w) = Total(w, NumSymbols) /\ WeightSum(w) \in Int
         /\ \A x \in 1..NumSymbols : Term(w, x) \in Int
         /\ NoneShort(w) => /\ WeightSum(w) \in Nat
                            /\ \A x \in 1..NumSymbols : Term(w, x) \in Nat
<1>1. NumSymbols \in Nat
  BY PipelineAssumption
<1>2. IntTerms(w, NumSymbols)
  BY DEF IntTerms, IsBook
<1>3. WeightSum(w) = Total(w, NumSymbols)
  BY DEF WeightSum
<1>4. Total(w, NumSymbols) \in Int /\ \A x \in 1..NumSymbols : Term(w, x) \in Int
  BY <1>1, <1>2, TermInt
<1>5. ASSUME NoneShort(w) PROVE \A x \in 1..NumSymbols : Term(w, x) >= 0
  BY <1>5 DEF NoneShort, Term
<1>6. ASSUME NoneShort(w) PROVE Total(w, NumSymbols) \in Nat
  BY <1>1, <1>2, <1>5, <1>6, TotalNotNegative
<1>7. ASSUME NoneShort(w) PROVE \A x \in 1..NumSymbols : Term(w, x) \in Nat
  BY <1>4, <1>5, <1>7
<1>. QED  BY <1>1, <1>2, <1>3, <1>4, <1>6, <1>7

\* Scaling rounds down, so the scaled weights are no more than their share.
LEMMA ScaledLong ==
  ASSUME NEW w, IsBook(w), NoneShort(w), NEW num \in Nat, NEW den \in Nat \ {0}
  PROVE  /\ IsBook(Scaled(w, num, den)) /\ NoneShort(Scaled(w, num, den))
         /\ DOMAIN Scaled(w, num, den) = DOMAIN w
         /\ \A x \in DOMAIN w : den * Scaled(w, num, den)[x] <= num * w[x]
         /\ den * WeightSum(Scaled(w, num, den)) <= num * WeightSum(w)
<1>. DEFINE v == Scaled(w, num, den)
<1>1. DOMAIN v = DOMAIN w /\ \A x \in DOMAIN w : v[x] = (w[x] * num) \div den
  BY DEF Scaled
<1>. HIDE DEF v
<1>2. ASSUME NEW x \in DOMAIN w
      PROVE  w[x] \in Nat /\ v[x] \in Nat /\ den * v[x] <= num * w[x]
  <2>1. w[x] \in Nat
    BY DEF IsBook, NoneShort
  <2>2. w[x] * num \in Nat /\ w[x] * num = num * w[x]
    BY <2>1, ProductNat
  <2>3. (w[x] * num) \div den \in Nat /\ den * ((w[x] * num) \div den) <= w[x] * num
    BY <2>2, AsManyAsPaid
  <2>. QED  BY <1>1, <2>1, <2>2, <2>3
<1>3. IsBook(v) /\ NoneShort(v)
  BY <1>1, <1>2 DEF IsBook, NoneShort
<1>4. \A x \in 1..NumSymbols : den * Term(v, x) <= num * Term(w, x)
  <2>1. den * 0 = 0 /\ num * 0 = 0
    OBVIOUS
  <2>. QED  BY <1>1, <1>2, <2>1 DEF Term
<1>5. den * Total(v, NumSymbols) <= num * Total(w, NumSymbols)
  <2>1. den \in Int /\ num \in Int
    OBVIOUS
  <2>2. /\ NumSymbols \in Nat /\ IntTerms(w, NumSymbols) /\ IntTerms(v, NumSymbols)
    BY <1>3, WeightTerms
  <2>. QED  BY <1>4, <2>1, <2>2, TotalShare
<1>6. den * WeightSum(v) <= num * WeightSum(w)
  BY <1>5 DEF WeightSum
<1>. QED  BY <1>1, <1>2, <1>3, <1>6 DEF v

LEMMA NormalisedLong ==
  ASSUME NEW w, IsBook(w), NoneShort(w), WeightSum(w) > 0
  PROVE  IsBook(Normalised(w)) /\ Long(Normalised(w))
<1>. DEFINE v == Scaled(w, ONE, WeightSum(w))
<1>1. ONE \in Nat /\ WeightSum(w) \in Nat \ {0}
  BY WeightTerms, PipelineAssumption
<1>2. IsBook(v) /\ NoneShort(v) /\ WeightSum(w) * WeightSum(v) <= ONE * WeightSum(w)
  BY <1>1, ScaledLong
<1>3. WeightSum(v) \in Int
  BY <1>2, WeightTerms
<1>4. ONE * WeightSum(w) = WeightSum(w) * ONE
  BY <1>1
<1>5. WeightSum(v) <= ONE
  BY <1>1, <1>2, <1>3, <1>4, Cancel
<1>6. Normalised(w) = v
  BY DEF Normalised, Scaled
<1>. QED  BY <1>2, <1>5, <1>6 DEF Long

\* Weights that are a part of others, symbol by symbol, are a part of their sum.
LEMMA SmallerLong ==
  ASSUME NEW v, IsBook(v), NEW w, IsBook(w), Long(w), NoneShort(v),
         \A x \in 1..NumSymbols : Term(v, x) <= Term(w, x)
  PROVE  Long(v)
<1>1. WeightSum(v) <= WeightSum(w)
  <2>1. /\ NumSymbols \in Nat /\ IntTerms(w, NumSymbols) /\ IntTerms(v, NumSymbols)
    BY WeightTerms
  <2>2. Total(v, NumSymbols) <= Total(w, NumSymbols)
    BY <2>1, TotalMonotone
  <2>. QED  BY <2>2 DEF WeightSum
<1>2. WeightSum(v) \in Int /\ WeightSum(w) \in Int /\ ONE \in Int
  BY WeightTerms, PipelineAssumption
<1>. QED  BY <1>1, <1>2 DEF Long

\* The same weight for each selected symbol: a symbol selected twice counts once.
LEMMA EqualWeights ==
  ASSUME NEW seq \in Seq(Symbols), NEW q \in Nat
  PROVE  LET w == [x \in ToSet(seq) |-> q]
         IN  IsBook(w) /\ NoneShort(w) /\ WeightSum(w) <= Len(seq) * q
<1>. DEFINE n == Len(seq)
            first(k) == {seq[i] : i \in 1..k}
            over(k) == [x \in first(k) |-> q]
            B == {k \in 0..n : ~ (WeightSum(over(k)) <= k * q)}
<1>1. n \in Nat /\ (\A i \in 1..n : seq[i] \in Symbols) /\ ToSet(seq) = first(n)
  BY DEF ToSet
<1>. HIDE DEF n
<1>2. ASSUME NEW k \in 0..n PROVE IsBook(over(k)) /\ NoneShort(over(k))
  <2>1. first(k) \subseteq Symbols
    BY <1>1
  <2>. QED  BY <2>1 DEF IsBook, NoneShort
<1>3. 0 \notin B
  <2>1. first(0) = {}
    OBVIOUS
  <2>2. DOMAIN over(0) = {} /\ NumSymbols \in Nat
    BY <2>1, PipelineAssumption
  <2>. HIDE DEF over
  <2>3. WeightSum(over(0)) = 0
    BY <2>2, EmptyTotal DEF WeightSum
  <2>. QED  BY <2>3
<1>4. ASSUME NEW m \in 1..n, m - 1 \in 0..n, m - 1 \notin B PROVE m \notin B
  <2>. DEFINE y == seq[m]
              one == [x \in {y} |-> q]
              f == over(m-1)
              g == over(m)
  <2>1. /\ m \in 0..n /\ y \in 1..NumSymbols /\ q \in Int /\ NumSymbols \in Nat
        /\ first(m) = first(m-1) \cup {y}
    <3>1. \A i \in 1..m : i \in 1..(m-1) \/ i = m
      OBVIOUS
    <3>2. \A i \in 1..(m-1) : i \in 1..m
      OBVIOUS
    <3>3. first(m) = first(m-1) \cup {y}
      BY <3>1, <3>2
    <3>. HIDE DEF first
    <3>. QED  BY <1>1, <3>3, PipelineAssumption DEF Symbols
  <2>2. DOMAIN one = {y} /\ one[y] = q /\ \A x \in {y} : one[x] = q
    OBVIOUS
  <2>3. DOMAIN f = first(m-1) /\ DOMAIN g = first(m)
        /\ (\A x \in first(m-1) : f[x] = q) /\ \A x \in first(m) : g[x] = q
    OBVIOUS
  <2>4. IsBook(f) /\ IsBook(g)
    BY <1>2, <1>4, <2>1
  <2>5. WeightSum(f) <= (m - 1) * q
    BY <1>4
  <2>. HIDE DEF one, f, g, y, first, over
  <2>6. Total(one, NumSymbols) = q /\ IntTerms(one, NumSymbols)
    BY <2>1, <2>2, TotalSingle
  <2>7. IntTerms(f, NumSymbols) /\ IntTerms(g, NumSymbols)
    BY <2>4, WeightTerms
  <2>8. \A x \in 1..NumSymbols : 1 * Term(g, x) <= 1 * Term(f, x) + 1 * Term(one, x)
    BY <2>1, <2>2, <2>3 DEF Term
  <2>9. 1 * Total(g, NumSymbols) <= 1 * Total(f, NumSymbols) + 1 * Total(one, NumSymbols)
    <3>1. 1 \in Int /\ NumSymbols \in Nat
      BY <2>1
    <3>. QED  BY <2>6, <2>7, <2>8, <3>1, TotalShares
  <2>10. Total(f, NumSymbols) \in Int /\ Total(g, NumSymbols) \in Int
    BY <2>1, <2>7, TermInt
  <2>11. WeightSum(g) <= WeightSum(f) + q
    BY <2>1, <2>6, <2>9, <2>10 DEF WeightSum
  <2>12. WeightSum(g) <= m * q
    <3>1. (m - 1) * q + q = m * q /\ (m - 1) * q \in Int /\ m * q \in Int
      BY <2>1
    <3>2. WeightSum(f) \in Int /\ WeightSum(g) \in Int
      BY <2>10 DEF WeightSum
    <3>. QED  BY <2>1, <2>5, <2>11, <3>1, <3>2
  <2>. QED  BY <2>12 DEF g
<1>5. B = {}
  <2>1. B \in SUBSET (0..n)
    OBVIOUS
  <2>. HIDE DEF B
  <2>. QED  BY <1>1, <1>3, <1>4, <2>1, FirstFailure
<1>6. n \in 0..n
  BY <1>1
<1>7. WeightSum(over(n)) <= n * q
  BY <1>5, <1>6
<1>8. IsBook(over(n)) /\ NoneShort(over(n))
  BY <1>2, <1>6
<1>9. [x \in ToSet(seq) |-> q] = over(n)
  BY <1>1
<1>. QED  BY <1>7, <1>8, <1>9 DEF n

\* A pass of a clip spreads no more than it cut.
LEMMA ClippedPassLong ==
  ASSUME NEW w, IsBook(w), NoneShort(w), NEW limit \in Nat
  PROVE  /\ IsBook(ClipPass(w, limit)) /\ NoneShort(ClipPass(w, limit))
         /\ WeightSum(ClipPass(w, limit)) <= WeightSum(w)
<1>. DEFINE over == {x \in DOMAIN w : w[x] > limit}
            rest == [x \in DOMAIN w \ over |-> w[x]]
            cut == [x \in over |-> limit]
            part == [x \in over |-> w[x] - limit]
            R == WeightSum(rest)
            excess == Total(part, NumSymbols)
            spread == Scaled(rest, R + excess, R)
            v == ClipPass(w, limit)
<1>1. IsBook(rest) /\ NoneShort(rest) /\ IsBook(cut) /\ NoneShort(cut) /\ IsBook(part) /\ NoneShort(part)
  BY DEF IsBook, NoneShort
<1>2. v = [x \in DOMAIN w |->
             IF x \in over THEN limit
             ELSE IF over # {} /\ R > 0 THEN (w[x] * (R + excess)) \div R ELSE w[x]]
  BY DEF ClipPass
<1>3. \A x \in 1..NumSymbols : Term(w, x) = (Term(cut, x) + Term(part, x)) + Term(rest, x)
  BY DEF Term, IsBook
<1>4. over \subseteq DOMAIN w /\ DOMAIN rest = DOMAIN w \ over /\ DOMAIN cut = over
      /\ (\A x \in over : w[x] > limit /\ cut[x] = limit)
      /\ \A x \in DOMAIN w \ over : rest[x] = w[x]
  OBVIOUS
<1>. HIDE DEF over, rest, cut, part
<1>5. R \in Nat /\ excess \in Nat
  BY <1>1, WeightTerms DEF WeightSum
<1>6. \A x \in DOMAIN w : w[x] \in Nat
  BY DEF IsBook, NoneShort
<1>. HIDE DEF R, excess
<1>7. CASE over # {} /\ R > 0
  <2>1. /\ IsBook(spread) /\ NoneShort(spread) /\ DOMAIN spread = DOMAIN w \ over
        /\ R * WeightSum(spread) <= (R + excess) * WeightSum(rest)
    <3>1. R \in Nat \ {0} /\ R + excess \in Nat
      BY <1>5, <1>7
    <3>. QED  BY <1>1, <1>4, <3>1, ScaledLong
  <2>2. WeightSum(spread) <= R + excess
    <3>1. R \in Nat \ {0} /\ R + excess \in Int /\ WeightSum(spread) \in Int
      BY <1>5, <1>7, <2>1, WeightTerms
    <3>2. (R + excess) * WeightSum(rest) = R * (R + excess)
      BY <1>5 DEF R
    <3>. QED  BY <2>1, <3>1, <3>2, Cancel
  <2>3. v = [x \in DOMAIN w |-> IF x \in over THEN cut[x] ELSE spread[x]]
    <3>1. \A x \in DOMAIN w \ over : spread[x] = (w[x] * (R + excess)) \div R
      BY <1>4 DEF Scaled
    <3>. HIDE DEF spread, v
    <3>. QED  BY <1>2, <1>4, <1>7, <3>1
  <2>. HIDE DEF spread
  <2>4. IsBook(v) /\ NoneShort(v) /\ \A x \in 1..NumSymbols : Term(v, x) = Term(cut, x) + Term(spread, x)
    <3>1. /\ DOMAIN v = DOMAIN w
          /\ \A x \in DOMAIN w : v[x] = IF x \in over THEN cut[x] ELSE spread[x]
      BY <2>3
    <3>2. /\ DOMAIN w \subseteq Symbols
          /\ \A x \in over : cut[x] \in Nat
          /\ \A x \in DOMAIN w \ over : spread[x] \in Nat
      BY <1>1, <1>4, <2>1 DEF IsBook, NoneShort
    <3>. HIDE DEF v
    <3>3. IsBook(v) /\ NoneShort(v)
      BY <3>1, <3>2 DEF IsBook, NoneShort
    <3>4. \A x \in 1..NumSymbols : Term(v, x) = Term(cut, x) + Term(spread, x)
      BY <1>4, <2>1, <3>1, <3>2 DEF Term
    <3>. QED  BY <3>3, <3>4
  <2>. HIDE DEF v
  <2>. DEFINE N == NumSymbols
              both == [x \in 1..N |-> Term(cut, x) + Term(part, x)]
  <2>5. /\ N \in Nat /\ IntTerms(w, N) /\ IntTerms(cut, N) /\ IntTerms(part, N) /\ IntTerms(rest, N)
        /\ IntTerms(spread, N) /\ IntTerms(v, N)
        /\ \A x \in 1..N : Term(cut, x) \in Int /\ Term(part, x) \in Int
    BY <1>1, <2>1, <2>4, WeightTerms
  <2>6. IntTerms(both, N) /\ \A x \in 1..N : Term(both, x) = Term(cut, x) + Term(part, x)
    <3>1. DOMAIN both = 1..N /\ \A x \in 1..N : both[x] = Term(cut, x) + Term(part, x)
      OBVIOUS
    <3>2. \A x \in 1..N : Term(cut, x) + Term(part, x) \in Int
      BY <2>5
    <3>. HIDE DEF both, N
    <3>3. \A x \in 1..N : Term(both, x) = both[x]
      BY <3>1, Zenon DEF Term
    <3>. QED  BY <3>1, <3>2, <3>3 DEF IntTerms
  <2>. HIDE DEF both, N
  <2>7. \A x \in 1..N : Term(w, x) = Term(both, x) + Term(rest, x)
    BY <1>3, <2>6 DEF N
  <2>8. /\ Total(v, N) = Total(cut, N) + Total(spread, N)
        /\ Total(both, N) = Total(cut, N) + Total(part, N)
        /\ Total(w, N) = Total(both, N) + Total(rest, N)
    BY <2>4, <2>5, <2>6, <2>7, TotalSum DEF N
  <2>9. /\ Total(cut, N) \in Int /\ Total(part, N) \in Int /\ Total(rest, N) \in Int
        /\ Total(spread, N) \in Int
    BY <2>5, TermInt
  <2>10. Total(spread, N) <= Total(rest, N) + Total(part, N)
    BY <2>2 DEF WeightSum, R, excess, N
  <2>11. Total(v, N) <= Total(w, N)
    BY <2>8, <2>9, <2>10
  <2>. QED  BY <2>4, <2>11 DEF WeightSum, N, v
<1>8. CASE ~ (over # {} /\ R > 0)
  <2>1. /\ DOMAIN v = DOMAIN w
        /\ \A x \in DOMAIN w : v[x] = IF x \in over THEN limit ELSE w[x]
    BY <1>2, <1>8
  <2>. HIDE DEF v
  <2>2. DOMAIN w \subseteq Symbols /\ \A x \in DOMAIN w : v[x] \in Nat /\ v[x] <= w[x]
    BY <1>4, <1>6, <2>1 DEF IsBook
  <2>3. IsBook(v) /\ NoneShort(v)
    BY <2>1, <2>2 DEF IsBook, NoneShort
  <2>4. \A x \in 1..NumSymbols : Term(v, x) <= Term(w, x)
    BY <2>1, <2>2 DEF Term
  <2>5. /\ NumSymbols \in Nat /\ IntTerms(w, NumSymbols) /\ IntTerms(v, NumSymbols)
    BY <2>3, WeightTerms
  <2>6. Total(v, NumSymbols) <= Total(w, NumSymbols)
    BY <2>4, <2>5, TotalMonotone
  <2>. QED  BY <2>3, <2>6 DEF WeightSum, v
<1>. QED  BY <1>7, <1>8

LEMMA ClippedLong ==
  ASSUME NEW w, IsBook(w), Long(w), NEW limit \in Nat
  PROVE  IsBook(Clipped(w, limit)) /\ Long(Clipped(w, limit))
<1>1. PICK s : /\ s[0] = w /\ \A k \in 1..10 : s[k] = ClipPass(s[k-1], limit)
               /\ Clipped(w, limit) = s[10]
  BY ClippedPasses
<1>. DEFINE Good(k) == IsBook(s[k]) /\ Long(s[k])
            B == {k \in 0..10 : ~ Good(k)}
<1>2. 0 \notin B
  BY <1>1
<1>3. ASSUME NEW m \in 1..10, m - 1 \in 0..10, m - 1 \notin B PROVE m \notin B
  <2>1. Good(m-1) /\ s[m] = ClipPass(s[m-1], limit)
    BY <1>1, <1>3
  <2>. DEFINE u == s[m-1]
              v == s[m]
  <2>2. IsBook(u) /\ NoneShort(u) /\ WeightSum(u) <= ONE /\ v = ClipPass(u, limit)
    BY <2>1 DEF Long
  <2>. HIDE DEF u, v
  <2>3. IsBook(v) /\ NoneShort(v) /\ WeightSum(v) <= WeightSum(u)
    BY <2>2, ClippedPassLong
  <2>4. WeightSum(u) \in Int /\ WeightSum(v) \in Int /\ ONE \in Int
    BY <2>2, <2>3, WeightTerms, PipelineAssumption
  <2>5. IsBook(v) /\ Long(v)
    BY <2>2, <2>3, <2>4 DEF Long
  <2>. QED  BY <2>5 DEF v
<1>4. B = {}
  <2>1. B \in SUBSET (0..10)
    OBVIOUS
  <2>. HIDE DEF B
  <2>. QED  BY <1>2, <1>3, <2>1, FirstFailure
<1>5. Good(10)
  <2>1. 10 \in 0..10
    OBVIOUS
  <2>. QED  BY <1>4, <2>1
<1>. QED  BY <1>1, <1>5

-----------------------------------------------------------------------------
(* Contexts that are not overdrawn.                                        *)

\* The books are paid for, out of a total that closings only leave behind.
Solvent(c) ==
  /\ c.cash >= 0 /\ NoneShort(c.positions) /\ Long(c.target)
  /\ c.cash + MarkedValue(c.positions, c.prices) <= c.total

\* A holding that is not short is worth nothing or more.
LEMMA MarkedNat ==
  ASSUME NEW q, IsBook(q), NoneShort(q), NEW p \in PriceRow
  PROVE  /\ \A x \in Symbols : Marked(q, p, x) \in Nat
         /\ MarkedValue(q, p) \in Nat
<1>1. \A x \in Symbols : p[x] \in Int /\ (p[x] # NaN => p[x] \in Nat)
  BY DEF PriceRow, NaN
<1>2. \A x \in DOMAIN q : x \in Symbols /\ q[x] \in Nat
  BY DEF IsBook, NoneShort
<1>3. \A x \in Symbols : Marked(q, p, x) \in Nat
  <2>1. ASSUME NEW x \in Symbols PROVE Marked(q, p, x) \in Nat
    <3>1. CASE x \in DOMAIN q /\ p[x] # NaN
      <4>1. q[x] * p[x] \in Nat
        BY <1>1, <1>2, <3>1, ProductNat
      <4>. QED  BY <3>1, <4>1 DEF Marked
    <3>2. CASE ~ (x \in DOMAIN q /\ p[x] # NaN)
      BY <3>2 DEF Marked
    <3>. QED  BY <3>1, <3>2
  <2>. QED  BY <2>1
<1>. DEFINE f == MarkedFunction(q, p)
<1>4. /\ NumSymbols \in Nat /\ IntTerms(f, NumSymbols)
      /\ \A x \in 1..NumSymbols : Term(f, x) = Marked(q, p, x)
      /\ MarkedValue(q, p) = Total(f, NumSymbols)
  BY MarkedTerms
<1>. HIDE DEF f
<1>5. \A x \in 1..NumSymbols : Term(f, x) >= 0
  BY <1>3, <1>4 DEF Symbols
<1>6. Total(f, NumSymbols) \in Nat
  BY <1>4, <1>5, TotalNotNegative
<1>. QED  BY <1>3, <1>4, <1>6

LEMMA MarkedSmaller ==
  ASSUME NEW q, IsBook(q), NEW r, IsBook(r), NEW p \in PriceRow,
         \A x \in Symbols : Marked(q, p, x) <= Marked(r, p, x)
  PROVE  MarkedValue(q, p) <= MarkedValue(r, p)
<1>. DEFINE f == MarkedFunction(q, p)
            g == MarkedFunction(r, p)
<1>1. /\ NumSymbols \in Nat /\ IntTerms(f, NumSymbols) /\ IntTerms(g, NumSymbols)
      /\ \A x \in 1..NumSymbols : Term(f, x) = Marked(q, p, x) /\ Term(g, x) = Marked(r, p, x)
      /\ MarkedValue(q, p) = Total(f, NumSymbols) /\ MarkedValue(r, p) = Total(g, NumSymbols)
  BY MarkedTerms
<1>. HIDE DEF f, g
<1>2. \A x \in 1..NumSymbols : Term(f, x) <= Term(g, x)
  BY <1>1 DEF Symbols
<1>3. Total(f, NumSymbols) <= Total(g, NumSymbols)
  BY <1>1, <1>2, TotalMonotone
<1>. QED  BY <1>1, <1>3

\* The shares of the capital that are held are no more than the whole.
LEMMA CurrentWeightsLong ==
  ASSUME NEW c, ContextOK(c), Solvent(c), c.total > 0, NEW S, S \subseteq Symbols,
         NEW w, w = [x \in S |-> CurrentWeight(c, x)]
  PROVE  IsBook(w) /\ Long(w)
<1>. DEFINE p == c.prices
            q == c.positions
            total == c.total
            m == MarkedValue(q, p)
<1>1. p \in PriceRow /\ IsBook(q) /\ NoneShort(q) /\ total \in Nat \ {0} /\ c.cash \in Int
      /\ c.cash >= 0 /\ c.cash + m <= total /\ ONE \in Nat \ {0}
  BY PipelineAssumption DEF ContextOK, Solvent
<1>2. m \in Nat /\ \A x \in Symbols : Marked(q, p, x) \in Nat
  BY <1>1, MarkedNat
<1>3. m <= total
  <2>. HIDE DEF m, total
  <2>. QED  BY <1>1, <1>2
<1>4. ASSUME NEW x \in Symbols
      PROVE  CurrentWeight(c, x) \in Nat /\ total * CurrentWeight(c, x) <= ONE * Marked(q, p, x)
  <2>1. CASE Priced(c, x)
    <3>. DEFINE held == Quantity(c, x) * p[x]
    <3>1. held = Marked(q, p, x)
      <4>1. CASE x \in DOMAIN q
        BY <2>1, <4>1 DEF Quantity, Marked, Priced
      <4>2. CASE x \notin DOMAIN q
        <5>1. p[x] \in Int
          BY <1>1 DEF PriceRow, NaN
        <5>2. 0 * p[x] = 0
          BY <5>1
        <5>. QED  BY <4>2, <5>2 DEF Quantity, Marked
      <4>. QED  BY <4>1, <4>2
    <3>2. CurrentWeight(c, x) = (held * ONE) \div total
      BY <2>1 DEF CurrentWeight
    <3>. HIDE DEF held, total
    <3>3. held \in Nat /\ held * ONE \in Nat /\ held * ONE = ONE * held
      <4>1. held \in Nat /\ ONE \in Nat
        BY <1>1, <1>2, <3>1
      <4>. QED  BY <4>1, ProductNat
    <3>4. (held * ONE) \div total \in Nat /\ total * ((held * ONE) \div total) <= held * ONE
      BY <1>1, <3>3, AsManyAsPaid
    <3>. QED  BY <3>1, <3>2, <3>3, <3>4
  <2>2. CASE ~ Priced(c, x)
    <3>1. CurrentWeight(c, x) = 0 /\ Marked(q, p, x) = 0
      BY <2>2 DEF CurrentWeight, Marked, Priced
    <3>. QED  BY <1>1, <3>1
  <2>. QED  BY <2>1, <2>2
<1>5. IsBook(w) /\ NoneShort(w)
  BY <1>4 DEF IsBook, NoneShort
<1>. DEFINE f == MarkedFunction(q, p)
<1>6. /\ NumSymbols \in Nat /\ IntTerms(f, NumSymbols) /\ m = Total(f, NumSymbols)
      /\ \A x \in 1..NumSymbols : Term(f, x) = Marked(q, p, x)
  BY <1>1, MarkedTerms
<1>7. IntTerms(w, NumSymbols) /\ WeightSum(w) = Total(w, NumSymbols) /\ WeightSum(w) \in Int
  BY <1>5, WeightTerms
<1>. HIDE DEF f, m, total
<1>8. \A x \in 1..NumSymbols : total * Term(w, x) <= ONE * Term(f, x)
  <2>1. ASSUME NEW x \in 1..NumSymbols PROVE total * Term(w, x) <= ONE * Term(f, x)
    <3>1. x \in Symbols /\ Term(f, x) = Marked(q, p, x)
      BY <1>6 DEF Symbols
    <3>2. CASE x \in S
      <4>1. Term(w, x) = CurrentWeight(c, x)
        BY <3>2 DEF Term
      <4>. QED  BY <1>4, <3>1, <4>1
    <3>3. CASE x \notin S
      <4>1. Term(w, x) = 0
        BY <3>3 DEF Term
      <4>2. total * 0 = 0 /\ ONE * Marked(q, p, x) \in Nat
        BY <1>1, <1>2, <3>1, ProductNat
      <4>. QED  BY <3>1, <4>1, <4>2
    <3>. QED  BY <3>2, <3>3
  <2>. QED  BY <2>1
<1>9. total * Total(w, NumSymbols) <= ONE * Total(f, NumSymbols)
  <2>1. total \in Int /\ ONE \in Int
    BY <1>1
  <2>. QED  BY <1>6, <1>7, <1>8, <2>1, TotalShare
<1>10. ONE * m <= total * ONE
  <2>1. ONE * m <= ONE * total
    BY <1>1, <1>2, <1>3, Widen
  <2>2. ONE * total = total * ONE
    BY <1>1
  <2>. QED  BY <2>1, <2>2
<1>11. total * WeightSum(w) <= total * ONE
  <2>1. total * WeightSum(w) \in Int /\ ONE * m \in Int /\ total * ONE \in Int
    BY <1>1, <1>2, <1>7
  <2>2. total * WeightSum(w) <= ONE * m
    BY <1>6, <1>7, <1>9
  <2>. QED  BY <1>10, <2>1, <2>2
<1>12. WeightSum(w) <= ONE
  <2>1. ONE \in Int
    BY <1>1
  <2>. QED  BY <1>1, <1>7, <1>11, <2>1, Cancel
<1>. QED  BY <1>5, <1>12 DEF Long

\* Moving part of the way between two sets of long weights, then to the sum of the
\* second, gives long weights.
LEMMA MovedLong ==
  ASSUME NEW w, IsBook(w), Long(w), NEW u, IsBook(u), Long(u), DOMAIN u = DOMAIN w,
         NEW v, IsBook(v), DOMAIN v = DOMAIN w,
         \A x \in DOMAIN w : v[x] >= 0 /\ (v[x] <= w[x] \/ v[x] <= u[x])
  PROVE  Long(IF WeightSum(v) > 0 /\ WeightSum(w) > 0
              THEN Scaled(v, WeightSum(w), WeightSum(v)) ELSE v)
<1>1. NoneShort(v) /\ NoneShort(w) /\ NoneShort(u) /\ WeightSum(w) <= ONE
  BY DEF NoneShort, Long
<1>2. WeightSum(v) \in Nat /\ WeightSum(w) \in Nat /\ ONE \in Nat
  BY <1>1, WeightTerms, PipelineAssumption
<1>3. CASE WeightSum(v) > 0 /\ WeightSum(w) > 0
  <2>. DEFINE n == WeightSum(w)
              d == WeightSum(v)
              y == Scaled(v, n, d)
  <2>1. n \in Nat /\ d \in Nat \ {0}
    BY <1>2, <1>3
  <2>. HIDE DEF n
  <2>2. IsBook(y) /\ NoneShort(y) /\ d * WeightSum(y) <= n * d
    BY <1>1, <2>1, ScaledLong
  <2>3. WeightSum(y) \in Int /\ n * d = d * n
    BY <2>1, <2>2, WeightTerms
  <2>. HIDE DEF y, d
  <2>4. WeightSum(y) <= n
    BY <2>1, <2>2, <2>3, Cancel
  <2>5. WeightSum(y) <= ONE
    BY <1>1, <1>2, <2>3, <2>4 DEF n
  <2>6. Long(y)
    BY <2>2, <2>5 DEF Long
  <2>. QED  BY <1>3, <2>6 DEF y, n, d
<1>4. CASE ~ (WeightSum(v) > 0)
  BY <1>1, <1>2, <1>4 DEF Long
<1>5. CASE ~ (WeightSum(w) > 0)
  <2>1. \A x \in 1..NumSymbols : Term(w, x) \in Nat /\ ~ (Term(w, x) > 0)
    <3>1. /\ NumSymbols \in Nat /\ IntTerms(w, NumSymbols)
          /\ \A x \in 1..NumSymbols : Term(w, x) \in Nat
      BY <1>1, WeightTerms
    <3>2. \A x \in 1..NumSymbols : Term(w, x) >= 0
      BY <3>1
    <3>3. ASSUME NEW x \in 1..NumSymbols, Term(w, x) > 0 PROVE FALSE
      <4>1. Total(w, NumSymbols) > 0
        BY <3>1, <3>2, <3>3, TotalPositive
      <4>. QED  BY <1>5, <4>1 DEF WeightSum
    <3>. QED  BY <3>1, <3>3
  <2>2. \A x \in DOMAIN w : x \in 1..NumSymbols /\ v[x] \in Nat /\ u[x] \in Nat /\ w[x] = 0
    <3>1. \A x \in DOMAIN w : x \in 1..NumSymbols /\ v[x] \in Nat /\ u[x] \in Nat
      BY <1>1 DEF IsBook, NoneShort, Symbols
    <3>2. \A x \in DOMAIN w : Term(w, x) = w[x]
      BY <3>1 DEF Term
    <3>. QED  BY <2>1, <3>1, <3>2
  <2>3. \A x \in DOMAIN w : v[x] <= u[x]
    BY <2>2
  <2>4. \A x \in 1..NumSymbols : Term(v, x) <= Term(u, x)
    BY <2>3 DEF Term
  <2>5. Long(v)
    BY <1>1, <2>4, SmallerLong
  <2>. QED  BY <1>5, <2>5
<1>. QED  BY <1>3, <1>4, <1>5

\* Weights that sum to the whole.
LEMMA WeightingsLong ==
  ASSUME NEW S, S \subseteq Symbols, NEW w \in Weightings(S)
  PROVE  Long(w)
<1>1. w \in [S -> 0..ONE] /\ WeightSum(w) = ONE /\ ONE \in Nat
  BY PipelineAssumption DEF Weightings
<1>2. NoneShort(w)
  BY <1>1 DEF NoneShort
<1>. QED  BY <1>1, <1>2 DEF Long

\* A weighting without leverage or hedge leaves long weights in the context.
LEMMA WeighsLong ==
  ASSUME NEW a, NEW s, NEW c, NEW draw, WellFormedAlgo(a), a.kind \in Weighing,
         a.kind \notin {"ScaleWeights", "HedgeRisks"}, LongOnly(a),
         ContextOK(c), Solvent(c), a.kind \in Drawing => draw \in Draws(a, c)
  PROVE  Long(CallAlgo(a, s, c, draw).c.target)
<1>1. /\ IsBook(c.target) /\ Long(c.target) /\ NoneShort(c.target) /\ c.total \in Int
      /\ c.selected \in Seq(Symbols) /\ Selected(c) \subseteq Symbols /\ ONE \in Nat \ {0}
      /\ c.day \in Nat /\ Len(c.selected) \in Nat
  BY PipelineAssumption DEF ContextOK, Solvent, Long, Selected, ToSet
<1>2. Long(Skip(s, c).c.target) /\ Long(Continue(s, c).c.target)
  BY <1>1 DEF Skip, Continue
<1>3. ASSUME NEW w, Long(w) PROVE Long(Continue(s, [c EXCEPT !.target = w]).c.target)
  <2>1. [c EXCEPT !.target = w].target = w
    BY DEF ContextOK
  <2>. QED  BY <1>3, <2>1 DEF Continue
<1>4. ASSUME NEW w, w = Nothing \/ Long(w) PROVE Long(Weigh(w, s, c).c.target)
  BY <1>2, <1>3, <1>4 DEF Weigh
<1>5. ASSUME NEW raw, IsBook(raw), NoneShort(raw),
             NEW r, \/ r = Skip(s, c)
                    \/ ~ (WeightSum(raw) <= 0) /\ r = Weigh(Normalised(raw), s, c)
      PROVE  Long(r.c.target)
  <2>1. CASE r = Skip(s, c)
    BY <1>2, <2>1
  <2>2. CASE ~ (WeightSum(raw) <= 0) /\ r = Weigh(Normalised(raw), s, c)
    <3>1. WeightSum(raw) \in Int
      BY <1>5, WeightTerms
    <3>2. WeightSum(raw) > 0
      BY <2>2, <3>1
    <3>3. Long(Normalised(raw))
      BY <1>5, <3>2, NormalisedLong
    <3>. QED  BY <1>4, <2>2, <3>3
  <2>. QED  BY <1>5, <2>1, <2>2
<1>6. CASE a.kind = "WeighSpecified"
  <2>. DEFINE raw == [x \in Selected(c) |-> IF x \in DOMAIN a.weights THEN a.weights[x] ELSE 0]
  <2>1. IsBook(raw) /\ NoneShort(raw)
    BY <1>1, <1>6 DEF IsBook, NoneShort, WellFormedAlgo, IntValued, LongOnly
  <2>. HIDE DEF raw
  <2>2. \/ CallAlgo(a, s, c, draw) = Skip(s, c)
        \/ ~ (WeightSum(raw) <= 0) /\ CallAlgo(a, s, c, draw) = Weigh(Normalised(raw), s, c)
    BY <1>6 DEF CallAlgo, WeighSpecified, raw
  <2>. QED  BY <1>5, <2>1, <2>2
<1>7. CASE a.kind = "WeighEqually"
  <2>. DEFINE n == Len(c.selected)
              q == ONE \div n
              w == [x \in ToSet(c.selected) |-> q]
  <2>1. CallAlgo(a, s, c, draw) = Weigh(w, s, c)
    BY <1>7 DEF CallAlgo, WeighEqually, Selected
  <2>2. CASE n = 0
    <3>1. c.selected = [i \in 1..0 |-> c.selected[i]]
      BY <1>1, <2>2
    <3>2. ToSet(c.selected) = {}
      BY <3>1 DEF ToSet
    <3>3. DOMAIN w = {} /\ NumSymbols \in Nat
      BY <3>2, PipelineAssumption
    <3>. HIDE DEF w
    <3>4. WeightSum(w) = 0
      BY <3>3, EmptyTotal DEF WeightSum
    <3>5. Long(w)
      BY <1>1, <3>3, <3>4 DEF Long, NoneShort
    <3>. QED  BY <1>4, <2>1, <3>5
  <2>3. CASE n # 0
    <3>1. n \in Nat \ {0} /\ ONE \in Nat
      BY <1>1, <2>3
    <3>. HIDE DEF n
    <3>2. q \in Nat /\ n * q <= ONE
      BY <3>1, AsManyAsPaid
    <3>. HIDE DEF q
    <3>3. IsBook(w) /\ NoneShort(w) /\ WeightSum(w) <= n * q
      BY <1>1, <3>2, EqualWeights DEF n
    <3>. HIDE DEF w
    <3>4. WeightSum(w) \in Int /\ n * q \in Int
      BY <3>1, <3>2, <3>3, WeightTerms
    <3>5. Long(w)
      BY <3>1, <3>2, <3>3, <3>4 DEF Long
    <3>. QED  BY <1>4, <2>1, <3>5
  <2>. QED  BY <2>2, <2>3
<1>8. CASE a.kind = "WeighTarget"
  <2>. DEFINE past == {d \in DOMAIN a.table : d <= c.day}
              day  == CHOOSE d \in past : \A e \in past : e <= d
              row  == a.table[day]
              raw  == [x \in Selected(c) \cap DOMAIN row |-> row[x]]
  <2>1. CASE past # {}
    <3>1. DOMAIN a.table \in SUBSET Nat /\ c.day \in Nat
      BY <1>1, <1>8 DEF WellFormedAlgo
    <3>2. day \in DOMAIN a.table
      BY <2>1, <3>1, LatestRow
    <3>. HIDE DEF day
    <3>3. IntValued(row) /\ \A x \in DOMAIN row : row[x] >= 0
      BY <1>8, <3>2 DEF WellFormedAlgo, LongOnly
    <3>. HIDE DEF row
    <3>4. IsBook(raw) /\ NoneShort(raw)
      BY <1>1, <3>3 DEF IsBook, NoneShort, IntValued
    <3>. HIDE DEF raw
    <3>5. \/ CallAlgo(a, s, c, draw) = Skip(s, c)
          \/ ~ (WeightSum(raw) <= 0) /\ CallAlgo(a, s, c, draw) = Weigh(Normalised(raw), s, c)
      BY <1>8 DEF CallAlgo, WeighTarget, raw, row, day
    <3>. QED  BY <1>5, <3>4, <3>5
  <2>2. CASE past = {}
    <3>1. CallAlgo(a, s, c, draw) = Skip(s, c)
      BY <1>8, <2>2 DEF CallAlgo, WeighTarget
    <3>. QED  BY <1>2, <3>1
  <2>. QED  BY <2>1, <2>2
<1>9. CASE a.kind \in {"WeighRandomly", "WeighMeanVar", "WeighERC"}
  <2>1. draw \in Draws(a, c)
    BY <1>9 DEF Drawing
  <2>2. draw \in Weightings(Selected(c)) \/ draw = Nothing
    BY <1>9, <2>1 DEF Draws, Combinators
  <2>3. draw = Nothing \/ Long(draw)
    BY <1>1, <2>2, WeightingsLong
  <2>4. \/ CallAlgo(a, s, c, draw) = Skip(s, c)
        \/ CallAlgo(a, s, c, draw) = Weigh(draw, s, c)
    BY <1>9 DEF CallAlgo, WeighRandomly, WeighMeanVar, WeighERC
  <2>. QED  BY <1>2, <1>4, <2>3, <2>4
<1>10. CASE a.kind = "WeighInvVol"
  <2>1. draw \in Draws(a, c)
    BY <1>10 DEF Drawing
  <2>2. draw = Nothing \/ \E S \in SUBSET Selected(c) : draw \in Weightings(S)
    BY <1>10, <2>1 DEF Draws, Combinators
  <2>3. draw = Nothing \/ Long(draw)
    <3>1. ASSUME NEW S \in SUBSET Selected(c), draw \in Weightings(S) PROVE Long(draw)
      BY <1>1, <3>1, WeightingsLong
    <3>. QED  BY <2>2, <3>1
  <2>4. CallAlgo(a, s, c, draw) = Weigh(draw, s, c)
    BY <1>10 DEF CallAlgo, WeighInvVol
  <2>. QED  BY <1>4, <2>3, <2>4
<1>11. CASE a.kind = "TargetVol"
  <2>1. draw \in Draws(a, c)
    BY <1>11 DEF Drawing
  <2>2. draw \in 1..ONE
    BY <1>11, <2>1 DEF Draws, Combinators
  <2>. DEFINE w == c.target
              v == Scaled(w, draw, ONE)
  <2>3. draw \in Nat /\ draw <= ONE /\ IsBook(w) /\ NoneShort(w) /\ WeightSum(w) <= ONE
    BY <1>1, <2>2 DEF Long
  <2>. HIDE DEF w
  <2>4. IsBook(v) /\ NoneShort(v) /\ ONE * WeightSum(v) <= draw * WeightSum(w)
    BY <1>1, <2>3, ScaledLong
  <2>5. WeightSum(v) \in Int /\ WeightSum(w) \in Nat
    BY <2>3, <2>4, WeightTerms
  <2>. HIDE DEF v
  <2>6. draw * WeightSum(w) <= ONE * WeightSum(w)
    <3>1. WeightSum(w) * draw <= WeightSum(w) * ONE
      BY <1>1, <2>3, <2>5, Widen
    <3>2. WeightSum(w) * draw = draw * WeightSum(w) /\ WeightSum(w) * ONE = ONE * WeightSum(w)
      BY <1>1, <2>3, <2>5
    <3>. QED  BY <3>1, <3>2
  <2>7. ONE * WeightSum(v) <= ONE * WeightSum(w)
    <3>1. ONE * WeightSum(v) \in Int /\ draw * WeightSum(w) \in Int /\ ONE * WeightSum(w) \in Int
      BY <1>1, <2>3, <2>5
    <3>. QED  BY <2>4, <2>6, <3>1
  <2>8. WeightSum(v) <= WeightSum(w)
    <3>1. WeightSum(w) \in Int
      BY <2>5
    <3>. QED  BY <1>1, <2>5, <2>7, <3>1, Cancel
  <2>9. Long(v)
    BY <1>1, <2>3, <2>4, <2>5, <2>8 DEF Long
  <2>10. \/ CallAlgo(a, s, c, draw) \in {Skip(s, c), Continue(s, c)}
         \/ CallAlgo(a, s, c, draw) = Continue(s, [c EXCEPT !.target = v])
    BY <1>11 DEF CallAlgo, TargetVol, v, w
  <2>. QED  BY <1>2, <1>3, <2>9, <2>10
<1>12. CASE a.kind = "LimitWeights"
  <2>1. a.limit \in Nat
    BY <1>12 DEF WellFormedAlgo, LongOnly
  <2>2. Long(Clipped(c.target, a.limit))
    BY <1>1, <2>1, ClippedLong
  <2>3. CallAlgo(a, s, c, draw) = Continue(s, [c EXCEPT !.target = Clipped(c.target, a.limit)])
    BY <1>12 DEF CallAlgo, LimitWeights, ContextOK
  <2>. QED  BY <1>3, <2>2, <2>3
<1>13. CASE a.kind = "LimitDeltas"
  <2>. DEFINE w == c.target
              now(x) == CurrentWeight(c, x)
              u == [x \in DOMAIN w |-> now(x)]
              v == [x \in DOMAIN w |-> now(x) + Bounded(w[x] - now(x), -a.limit, a.limit)]
              new == IF WeightSum(v) > 0 /\ WeightSum(w) > 0
                     THEN Scaled(v, WeightSum(w), WeightSum(v)) ELSE v
  <2>1. a.limit \in Nat
    BY <1>13 DEF WellFormedAlgo, LongOnly
  <2>2. ASSUME c.total > 0 PROVE Long(new)
    <3>1. IsBook(w) /\ Long(w) /\ DOMAIN w \subseteq Symbols
      BY <1>1 DEF IsBook
    <3>2. IsBook(u) /\ Long(u)
      <4>. HIDE DEF w
      <4>. QED  BY <2>2, <3>1, CurrentWeightsLong
    <3>3. ASSUME NEW i \in Nat, NEW j \in Nat, NEW l \in Nat
          PROVE  LET k == i + Bounded(j - i, -l, l)
                 IN  k \in Int /\ k >= 0 /\ (k <= j \/ k <= i)
      BY DEF Bounded
    <3>4. \A x \in DOMAIN w : w[x] \in Nat /\ now(x) \in Nat
      <4>1. \A x \in DOMAIN w : u[x] = now(x)
        OBVIOUS
      <4>2. DOMAIN u = DOMAIN w
        OBVIOUS
      <4>. HIDE DEF u, w, now
      <4>. QED  BY <3>1, <3>2, <4>1, <4>2 DEF IsBook, Long, NoneShort
    <3>5. \A x \in DOMAIN w : v[x] \in Int /\ v[x] >= 0 /\ (v[x] <= w[x] \/ v[x] <= u[x])
      <4>. HIDE DEF w, now
      <4>. QED  BY <2>1, <3>3, <3>4
    <3>6. DOMAIN u = DOMAIN w /\ DOMAIN v = DOMAIN w
      OBVIOUS
    <3>. HIDE DEF u, v, w
    <3>7. IsBook(v)
      BY <3>1, <3>5, <3>6 DEF IsBook
    <3>. QED  BY <3>1, <3>2, <3>5, <3>6, <3>7, MovedLong
  <2>3. \/ CallAlgo(a, s, c, draw) = Continue(s, c)
        \/ c.total > 0 /\ CallAlgo(a, s, c, draw) = Continue(s, [c EXCEPT !.target = new])
    BY <1>1, <1>13 DEF CallAlgo, LimitDeltas
  <2>. HIDE DEF new
  <2>. QED  BY <1>2, <1>3, <2>2, <2>3
<1>. QED
  BY <1>6, <1>7, <1>8, <1>9, <1>10, <1>11, <1>12, <1>13 DEF Weighing

\* Buying what the capital pays for leaves no debt.
LEMMA RebookedSolvent ==
  ASSUME NEW c, ContextOK(c), Solvent(c), NEW q, IsBook(q), NoneShort(q),
         MarkedValue(q, c.prices) <= c.total
  PROVE  Solvent(Rebooked(c, q))
<1>. DEFINE d == Rebooked(c, q)
            m == MarkedValue(q, c.prices)
<1>1. /\ ContextOK(d) /\ BookedContext(d, c) /\ d.positions = q /\ d.cash = c.total - m
      /\ d.total = c.total /\ d.prices = c.prices
  BY RebookedFits
<1>. HIDE DEF d
<1>2. d.target = c.target
  <2>1. Symbols \subseteq Symbols
    OBVIOUS
  <2>. QED  BY <1>1, <2>1, ContextsKept
<1>3. c.total \in Int /\ m \in Int
  BY MarkedTerms DEF ContextOK
<1>4. m <= c.total
  OBVIOUS
<1>5. MarkedValue(d.positions, d.prices) = m
  BY <1>1
<1>. HIDE DEF m
<1>6. d.cash >= 0 /\ d.cash + m <= d.total
  BY <1>1, <1>3, <1>4
<1>7. NoneShort(d.positions) /\ Long(d.target)
  BY <1>1, <1>2 DEF Solvent
<1>8. Solvent(d)
  BY <1>5, <1>6, <1>7 DEF Solvent
<1>. QED  BY <1>8 DEF d

\* Holdings that are dropped, paid or not, leave no debt.
LEMMA KeepingSolvent ==
  ASSUME NEW c, ContextOK(c), Solvent(c), NEW S, S \subseteq DOMAIN c.positions
  PROVE  Solvent(Keeping(c, S))
<1>. DEFINE q == c.positions
            p == c.prices
            w == [x \in S |-> q[x]]
            d == [c EXCEPT !.positions = w]
<1>1. IsBook(q) /\ NoneShort(q) /\ p \in PriceRow /\ c.cash \in Int /\ c.total \in Int
      /\ c.cash + MarkedValue(q, p) <= c.total
  BY DEF ContextOK, Solvent
<1>2. IsBook(w) /\ NoneShort(w) /\ DOMAIN w = S /\ \A x \in S : w[x] = q[x]
  BY <1>1 DEF IsBook, NoneShort
<1>. HIDE DEF w
<1>3. /\ d.positions = w /\ d.cash = c.cash /\ d.total = c.total /\ d.prices = p
      /\ d.target = c.target
  BY DEF ContextOK
<1>. HIDE DEF d
<1>4. \A x \in Symbols : Marked(w, p, x) <= Marked(q, p, x)
  <2>1. ASSUME NEW x \in Symbols PROVE Marked(w, p, x) <= Marked(q, p, x)
    <3>1. Marked(q, p, x) \in Nat
      BY <1>1, MarkedNat
    <3>2. Marked(w, p, x) = Marked(q, p, x) \/ Marked(w, p, x) = 0
      BY <1>2 DEF Marked
    <3>. QED  BY <3>1, <3>2
  <2>. QED  BY <2>1
<1>5. MarkedValue(w, p) <= MarkedValue(q, p) /\ MarkedValue(w, p) \in Int /\ MarkedValue(q, p) \in Int
  BY <1>1, <1>2, <1>4, MarkedSmaller, MarkedTerms
<1>6. c.cash + MarkedValue(w, p) <= c.total
  BY <1>1, <1>5
<1>7. Solvent(d)
  BY <1>2, <1>3, <1>6 DEF Solvent
<1>8. Keeping(c, S) = d
  BY DEF Keeping, d, w
<1>. QED  BY <1>7, <1>8

\* The capital behind books that are not overdrawn.
LEMMA SolventTotal ==
  ASSUME NEW c, ContextOK(c), Solvent(c)
  PROVE  /\ c.total \in Nat /\ c.cash \in Nat /\ c.prices \in PriceRow
         /\ IsBook(c.positions) /\ NoneShort(c.positions) /\ IsBook(c.target) /\ Long(c.target)
         /\ MarkedValue(c.positions, c.prices) \in Nat
         /\ MarkedValue(c.positions, c.prices) <= c.total
<1>. DEFINE m == MarkedValue(c.positions, c.prices)
<1>1. /\ c.total \in Int /\ c.cash \in Int /\ c.prices \in PriceRow /\ IsBook(c.positions)
      /\ IsBook(c.target)
  BY DEF ContextOK
<1>2. c.cash >= 0 /\ NoneShort(c.positions) /\ Long(c.target) /\ c.cash + m <= c.total
  BY DEF Solvent
<1>3. m \in Nat
  BY <1>1, <1>2, MarkedNat
<1>. HIDE DEF m
<1>4. c.total \in Nat /\ c.cash \in Nat /\ m <= c.total
  BY <1>1, <1>2, <1>3
<1>. QED  BY <1>1, <1>2, <1>3, <1>4 DEF m

\* Whole shares of long weights cost no more than the capital.
LEMMA SharesAffordable ==
  ASSUME NEW c, ContextOK(c), Solvent(c), NEW q, IsBook(q), NEW draw,
         \A x \in DOMAIN q : /\ x \in DOMAIN c.target /\ c.prices[x] > 0
                             /\ q[x] = Floored(c.total * c.target[x], ONE * c.prices[x],
                                               x \in DOMAIN draw)
  PROVE  NoneShort(q) /\ MarkedValue(q, c.prices) <= c.total
<1>. DEFINE p == c.prices
            w == c.target
            t == c.total
            N == NumSymbols
            f == MarkedFunction(q, p)
<1>1. t \in Nat /\ p \in PriceRow /\ IsBook(w) /\ NoneShort(w) /\ WeightSum(w) <= ONE
  BY SolventTotal DEF Long
<1>2. ONE \in Nat \ {0} /\ \A x \in Symbols : p[x] \in Int
  BY <1>1, PipelineAssumption DEF PriceRow, NaN
<1>3. ASSUME NEW x \in DOMAIN q
      PROVE  x \in Symbols /\ q[x] \in Nat /\ p[x] # NaN /\ ONE * (q[x] * p[x]) <= t * w[x]
  <2>1. w[x] \in Nat /\ x \in Symbols /\ p[x] \in Nat \ {0}
    BY <1>1, <1>2, <1>3 DEF IsBook, NoneShort
  <2>. DEFINE num == t * w[x]
              den == ONE * p[x]
  <2>2. q[x] = Floored(num, den, x \in DOMAIN draw)
    OBVIOUS
  <2>3. num \in Nat /\ den \in Nat \ {0}
    BY <1>1, <1>2, <2>1, ProductNat
  <2>4. ASSUME NEW i \in Nat, NEW j \in Nat, NEW k \in Nat PROVE i * (j * k) = (i * k) * j
    OBVIOUS
  <2>. HIDE DEF num, t, w, p
  <2>5. /\ Floored(num, den, x \in DOMAIN draw) \in Nat
        /\ den * Floored(num, den, x \in DOMAIN draw) <= num
    <3>1. num \in Int /\ num >= 0
      BY <2>3
    <3>. HIDE DEF den
    <3>. QED  BY <2>3, <3>1, FlooredQuotient
  <2>6. q[x] \in Nat /\ den * q[x] <= num
    BY <2>2, <2>5
  <2>7. ONE * (q[x] * p[x]) = den * q[x]
    BY <1>2, <2>1, <2>4, <2>6
  <2>. QED  BY <2>1, <2>6, <2>7 DEF num, NaN
<1>4. NoneShort(q)
  BY <1>3 DEF NoneShort
<1>5. /\ N \in Nat /\ IntTerms(f, N) /\ MarkedValue(q, p) = Total(f, N) /\ Total(f, N) \in Int
      /\ \A x \in 1..N : Term(f, x) = Marked(q, p, x)
  BY <1>1, MarkedTerms
<1>6. IntTerms(w, N) /\ WeightSum(w) = Total(w, N) /\ WeightSum(w) \in Int
      /\ \A x \in 1..N : Term(w, x) \in Nat
  BY <1>1, WeightTerms
<1>. HIDE DEF f, p, w, t
<1>7. ASSUME NEW x \in 1..N PROVE ONE * Term(f, x) <= t * Term(w, x)
  <2>1. CASE x \in DOMAIN q
    <3>1. Term(f, x) = q[x] * p[x]
      BY <1>3, <1>5, <2>1 DEF Marked
    <3>2. Term(w, x) = w[x]
      BY <2>1 DEF Term, w
    <3>. QED  BY <1>3, <2>1, <3>1, <3>2
  <2>2. CASE x \notin DOMAIN q
    <3>1. Term(f, x) = 0
      BY <1>5, <2>2 DEF Marked
    <3>2. t * Term(w, x) \in Nat /\ ONE * 0 = 0
      BY <1>1, <1>2, <1>6, ProductNat
    <3>. QED  BY <3>1, <3>2
  <2>. QED  BY <2>1, <2>2
<1>. HIDE DEF N
<1>8. ONE * Total(f, N) <= t * Total(w, N)
  <2>1. ONE \in Int /\ t \in Int
    BY <1>1, <1>2
  <2>. QED  BY <1>5, <1>6, <1>7, <2>1, TotalShare
<1>9. t * WeightSum(w) <= t * ONE /\ t * ONE = ONE * t
  <2>1. ONE \in Int
    BY <1>2
  <2>. QED  BY <1>1, <1>2, <1>6, <2>1, Widen
<1>10. ONE * Total(f, N) <= ONE * t
  <2>1. ONE * Total(f, N) \in Int /\ t * WeightSum(w) \in Int /\ ONE * t \in Int
    BY <1>1, <1>2, <1>5, <1>6
  <2>. QED  BY <1>6, <1>8, <1>9, <2>1
<1>11. Total(f, N) <= t
  <2>1. t \in Int
    BY <1>1
  <2>. QED  BY <1>2, <1>5, <1>10, <2>1, Cancel
<1>. QED  BY <1>4, <1>5, <1>11 DEF p, t

\* An instalment towards long weights costs no more than the capital.
LEMMA InstalmentAffordable ==
  ASSUME NEW c, ContextOK(c), Solvent(c), NEW w, IsBook(w), Long(w), NEW left \in Nat \ {0},
         NEW q, IsBook(q), NEW draw,
         \A x \in DOMAIN q :
           /\ c.prices[x] > 0
           /\ q[x] = Instalment(c, x, IF x \in DOMAIN w THEN w[x] ELSE 0, left, x \in DOMAIN draw)
  PROVE  NoneShort(q) /\ MarkedValue(q, c.prices) <= c.total
<1>. DEFINE p == c.prices
            b == c.positions
            t == c.total
            N == NumSymbols
            f == MarkedFunction(q, p)
            g == MarkedFunction(b, p)
            den == left * ONE
            part == ONE * (left - 1)
<1>1. t \in Nat /\ p \in PriceRow /\ IsBook(b) /\ NoneShort(b) /\ NoneShort(w) /\ WeightSum(w) <= ONE
      /\ MarkedValue(b, p) \in Nat /\ MarkedValue(b, p) <= t
  BY SolventTotal DEF Long
<1>2. ONE \in Nat \ {0} /\ \A x \in Symbols : p[x] \in Int
  BY <1>1, PipelineAssumption DEF PriceRow, NaN
<1>3. den \in Nat \ {0} /\ part \in Nat /\ left - 1 \in Nat
  <2>1. left \in Nat /\ ONE \in Nat /\ left - 1 \in Nat
    BY <1>2
  <2>2. left * ONE # 0
    BY <1>2
  <2>. QED  BY <2>1, <2>2, ProductNat
<1>4. part * t + t * ONE = den * t
  BY <1>1, <1>2
<1>5. \A x \in Symbols : Marked(b, p, x) \in Nat
  BY <1>1, MarkedNat
<1>6. /\ N \in Nat /\ IntTerms(w, N) /\ WeightSum(w) = Total(w, N) /\ WeightSum(w) \in Nat
      /\ \A x \in 1..N : Term(w, x) \in Nat
  BY <1>1, WeightTerms
<1>7. ASSUME NEW x \in DOMAIN q
      PROVE  /\ x \in Symbols /\ q[x] \in Nat /\ p[x] # NaN
             /\ den * (q[x] * p[x]) <= part * Marked(b, p, x) + t * Term(w, x)
  <2>. DEFINE aim == IF x \in DOMAIN w THEN w[x] ELSE 0
              k == p[x]
              h == Quantity(c, x)
              num == h * k * ONE * (left - 1) + t * aim
              unit == left * ONE * k
  <2>1. x \in Symbols /\ k \in Nat \ {0} /\ k # NaN
    BY <1>2, <1>7 DEF IsBook, NaN
  <2>2. q[x] = Floored(num, unit, x \in DOMAIN draw)
    BY <1>7 DEF Instalment
  <2>3. aim = Term(w, x) /\ aim \in Nat
    <3>1. x \in 1..N
      BY <2>1 DEF Symbols
    <3>. QED  BY <1>6, <3>1 DEF Term
  <2>4. h \in Nat /\ h * k = Marked(b, p, x)
    <3>1. h \in Nat
      BY <1>1 DEF Quantity, IsBook, NoneShort
    <3>2. 0 * k = 0
      BY <2>1
    <3>. QED  BY <2>1, <3>1, <3>2 DEF Quantity, Marked
  <2>. HIDE DEF aim, k, h, t
  <2>5. num = part * (h * k) + t * aim
    <3>1. ASSUME NEW i \in Nat, NEW j \in Nat, NEW l \in Nat PROVE i * j * l = (j * l) * i
      OBVIOUS
    <3>2. h * k \in Nat
      BY <2>1, <2>4, ProductNat
    <3>3. (h * k) * ONE * (left - 1) = (ONE * (left - 1)) * (h * k)
      BY <1>2, <1>3, <3>1, <3>2
    <3>. QED  BY <3>3
  <2>6. num \in Nat /\ unit \in Nat \ {0} /\ unit = den * k
    <3>1. h * k \in Nat /\ t * aim \in Nat
      BY <1>1, <2>1, <2>3, <2>4, ProductNat
    <3>2. part * (h * k) \in Nat
      BY <1>3, <3>1, ProductNat
    <3>3. den * k \in Nat /\ den * k # 0
      <4>. HIDE DEF den, part
      <4>1. den \in Nat /\ k \in Nat /\ den # 0 /\ k # 0
        BY <1>3, <2>1
      <4>. QED  BY <4>1, ProductNat
    <3>. HIDE DEF part, num
    <3>. QED  BY <2>5, <3>1, <3>2, <3>3
  <2>. HIDE DEF num, unit
  <2>7. /\ Floored(num, unit, x \in DOMAIN draw) \in Nat
        /\ unit * Floored(num, unit, x \in DOMAIN draw) <= num
    <3>1. num \in Int /\ num >= 0
      BY <2>6
    <3>. QED  BY <2>6, <3>1, FlooredQuotient
  <2>8. q[x] \in Nat /\ unit * q[x] <= num
    BY <2>2, <2>7
  <2>. HIDE DEF den, part
  <2>9. den * (q[x] * k) = unit * q[x]
    <3>1. ASSUME NEW i \in Nat, NEW j \in Nat, NEW l \in Nat PROVE i * (j * l) = (i * l) * j
      OBVIOUS
    <3>. QED  BY <1>3, <2>1, <2>6, <2>8, <3>1
  <2>. QED  BY <2>1, <2>3, <2>4, <2>5, <2>8, <2>9 DEF k
<1>8. NoneShort(q)
  BY <1>7 DEF NoneShort
<1>9. /\ IntTerms(f, N) /\ MarkedValue(q, p) = Total(f, N) /\ Total(f, N) \in Int
      /\ IntTerms(g, N) /\ MarkedValue(b, p) = Total(g, N)
      /\ \A x \in 1..N : Term(f, x) = Marked(q, p, x) /\ Term(g, x) = Marked(b, p, x)
  BY <1>1, MarkedTerms
<1>. HIDE DEF f, g, p, b, t, den, part
<1>10. ASSUME NEW x \in 1..N PROVE den * Term(f, x) <= part * Term(g, x) + t * Term(w, x)
  <2>0. x \in Symbols
    BY DEF Symbols
  <2>1. CASE x \in DOMAIN q
    <3>1. Term(f, x) = q[x] * p[x]
      BY <1>7, <1>9, <2>1 DEF Marked
    <3>. QED  BY <1>7, <1>9, <2>1, <3>1
  <2>2. CASE x \notin DOMAIN q
    <3>1. Term(f, x) = 0 /\ Term(g, x) \in Nat /\ Term(w, x) \in Nat
      BY <1>5, <1>6, <1>9, <2>0, <2>2 DEF Marked
    <3>2. part * Term(g, x) \in Nat /\ t * Term(w, x) \in Nat /\ den * 0 = 0
      BY <1>1, <1>3, <3>1, ProductNat
    <3>. QED  BY <3>1, <3>2
  <2>. QED  BY <2>1, <2>2
<1>. HIDE DEF N
<1>11. den * Total(f, N) <= part * Total(g, N) + t * Total(w, N)
  <2>1. den \in Int /\ part \in Int /\ t \in Int
    BY <1>1, <1>3
  <2>. QED  BY <1>6, <1>9, <1>10, <2>1, TotalShares
<1>12. part * Total(g, N) <= part * t /\ t * Total(w, N) <= t * ONE
  <2>1. Total(g, N) \in Int /\ t \in Int /\ Total(w, N) \in Int /\ ONE \in Int
    BY <1>1, <1>2, <1>6, <1>9
  <2>2. Total(g, N) <= t /\ Total(w, N) <= ONE
    BY <1>1, <1>6, <1>9
  <2>. QED  BY <1>1, <1>3, <2>1, <2>2, Widen
<1>13. den * Total(f, N) <= den * t
  <2>1. /\ den * Total(f, N) \in Int /\ part * Total(g, N) \in Int /\ t * Total(w, N) \in Int
        /\ part * t \in Int /\ t * ONE \in Int
    BY <1>1, <1>2, <1>3, <1>6, <1>9
  <2>2. den * Total(f, N) <= part * t + t * ONE
    BY <1>11, <1>12, <2>1
  <2>. QED  BY <1>4, <2>2
<1>14. Total(f, N) <= t
  <2>1. t \in Int
    BY <1>1
  <2>. QED  BY <1>3, <1>9, <1>13, <2>1, Cancel
<1>. QED  BY <1>8, <1>9, <1>14 DEF p, t

\* Of the algos that write the books, all but the blotter keep them paid for.
LEMMA BooksSolvent ==
  ASSUME NEW a, NEW s, NEW c, NEW draw, WellFormedAlgo(a), a.kind \in Booking,
         a.kind # "ReplayTransactions", StateOK(s), Long(s.target), ContextOK(c), Solvent(c)
  PROVE  LET r == CallAlgo(a, s, c, draw)
         IN  Solvent(r.c) /\ Long(r.s.target)
<1>. DEFINE Keeps(r) == Solvent(r.c) /\ Long(r.s.target)
<1>1. /\ c.total \in Nat /\ c.prices \in PriceRow /\ IsBook(c.target) /\ Long(c.target)
      /\ IsBook(c.positions) /\ ONE \in Nat \ {0}
      /\ \A x \in Symbols : c.prices[x] \in Int
  BY SolventTotal, PipelineAssumption DEF PriceRow, NaN
<1>2. ASSUME NEW t, Long(t.target), NEW d, Solvent(d)
      PROVE  Keeps(Skip(t, d)) /\ Keeps(Continue(t, d))
  BY <1>2 DEF Skip, Continue
<1>3. CASE a.kind = "CloseDead"
  <2>. DEFINE S == {x \in DOMAIN c.positions : Priced(c, x) /\ c.prices[x] > 0}
  <2>1. CallAlgo(a, s, c, draw) = Continue(s, Keeping(c, S))
    BY <1>3 DEF CallAlgo, CloseDead
  <2>2. S \subseteq DOMAIN c.positions
    OBVIOUS
  <2>. HIDE DEF S
  <2>3. Solvent(Keeping(c, S))
    BY <2>2, KeepingSolvent
  <2>. QED  BY <1>2, <2>1, <2>3
<1>4. CASE a.kind = "ClosePositionsAfterDates"
  <2>. DEFINE S == {x \in DOMAIN c.positions : ~(x \in DOMAIN a.schedule /\ c.day >= a.schedule[x])}
  <2>1. CallAlgo(a, s, c, draw) = Continue(s, Keeping(c, S))
    BY <1>4 DEF CallAlgo, ClosePositionsAfterDates
  <2>2. S \subseteq DOMAIN c.positions
    OBVIOUS
  <2>. HIDE DEF S
  <2>3. Solvent(Keeping(c, S))
    BY <2>2, KeepingSolvent
  <2>. QED  BY <1>2, <2>1, <2>3
<1>5. CASE a.kind = "Rebalance"
  <2>. DEFINE bought == {x \in DOMAIN c.target : c.prices[x] > 0}
              share(x) == Floored(c.total * c.target[x], ONE * c.prices[x], x \in DOMAIN draw)
              q == [x \in bought |-> share(x)]
  <2>1. ASSUME NEW x \in bought PROVE share(x) \in Int
    <3>1. c.target[x] \in Int /\ c.prices[x] \in Nat \ {0}
      BY <1>1, <2>1 DEF IsBook
    <3>2. c.total * c.target[x] \in Int /\ ONE * c.prices[x] \in Nat /\ ONE * c.prices[x] # 0
      BY <1>1, <3>1, ProductNat
    <3>. HIDE DEF q
    <3>. QED  BY <3>2, FlooredQuotient
  <2>2. IsBook(q)
    BY <1>1, <2>1 DEF IsBook
  <2>3. \A x \in DOMAIN q : /\ x \in DOMAIN c.target /\ c.prices[x] > 0
                            /\ q[x] = Floored(c.total * c.target[x], ONE * c.prices[x],
                                              x \in DOMAIN draw)
    OBVIOUS
  <2>4. \/ CallAlgo(a, s, c, draw) = Skip(s, c)
        \/ CallAlgo(a, s, c, draw) = [s |-> s, c |-> c, status |-> "NaN"]
        \/ CallAlgo(a, s, c, draw) = Continue(s, Rebooked(c, q))
    BY <1>5 DEF CallAlgo, Rebalance
  <2>. HIDE DEF q
  <2>5. NoneShort(q) /\ MarkedValue(q, c.prices) <= c.total
    BY <2>2, <2>3, SharesAffordable
  <2>6. Solvent(Rebooked(c, q))
    BY <2>2, <2>5, RebookedSolvent
  <2>7. Keeps([s |-> s, c |-> c, status |-> "NaN"])
    OBVIOUS
  <2>8. Keeps(Skip(s, c)) /\ Keeps(Continue(s, Rebooked(c, q)))
    BY <1>2, <2>6
  <2>. HIDE DEF Keeps
  <2>9. Keeps(CallAlgo(a, s, c, draw))
    BY <2>4, <2>7, <2>8
  <2>. QED  BY <2>9 DEF Keeps
<1>6. CASE a.kind = "RebalanceOverTime"
  <2>. DEFINE fresh  == c.target # Nothing /\ c.target # s.target
              target == IF fresh THEN c.target ELSE s.target
              left   == IF fresh THEN a.n ELSE s.left
              t      == [s EXCEPT !.target = target, !.left = left]
              u      == [t EXCEPT !.left = left - 1]
              qty(x) == Instalment(c, x, IF x \in DOMAIN target THEN target[x] ELSE 0, left, x \in DOMAIN draw)
              kept   == {x \in DOMAIN target \cup DOMAIN c.positions : c.prices[x] > 0 /\ qty(x) > 0}
              q      == [x \in kept |-> qty(x)]
  <2>1. IsBook(target) /\ Long(target) /\ left \in Int
    BY <1>1, <1>6 DEF WellFormedAlgo, StateOK
  <2>2. CallAlgo(a, s, c, draw) = IF left <= 0 \/ target = Nothing \/ c.total <= 0 THEN Skip(t, c)
                                  ELSE Continue(u, Rebooked(c, q))
    BY <1>6 DEF CallAlgo, RebalanceOverTime
  <2>. HIDE DEF fresh, target, left
  <2>3. t.target = target /\ u.target = target
    <3>1. s = [key |-> s.key, count |-> s.count, peak |-> s.peak, target |-> s.target, left |-> s.left]
      BY DEF StateOK
    <3>2. DOMAIN s = {"key", "count", "peak", "target", "left"}
      BY <3>1
    <3>. QED  BY <3>2
  <2>. HIDE DEF t, u
  <2>4. ASSUME ~ (left <= 0) PROVE Solvent(Rebooked(c, q))
    <3>1. left \in Nat \ {0}
      BY <2>1, <2>4
    <3>2. ASSUME NEW x \in kept
          PROVE  x \in Symbols /\ c.prices[x] > 0 /\ qty(x) \in Int
      <4>. DEFINE aim == IF x \in DOMAIN target THEN target[x] ELSE 0
                  num == Quantity(c, x) * c.prices[x] * ONE * (left - 1) + c.total * aim
                  den == left * ONE * c.prices[x]
      <4>1. x \in Symbols /\ c.prices[x] \in Nat \ {0} /\ aim \in Int /\ Quantity(c, x) \in Int
        BY <1>1, <2>1, <3>2 DEF IsBook, Quantity
      <4>2. num \in Int
        <5>. HIDE DEF aim
        <5>. QED  BY <1>1, <3>1, <4>1
      <4>3. den \in Nat \ {0}
        <5>1. left * ONE \in Nat /\ left * ONE # 0
          BY <1>1, <3>1, ProductNat
        <5>2. (left * ONE) * c.prices[x] \in Nat /\ (left * ONE) * c.prices[x] # 0
          BY <4>1, <5>1, ProductNat
        <5>. QED  BY <5>2
      <4>4. qty(x) = Floored(num, den, x \in DOMAIN draw)
        BY DEF Instalment
      <4>. HIDE DEF num, den, qty
      <4>5. qty(x) \in Int
        BY <4>2, <4>3, <4>4, FlooredQuotient
      <4>. QED  BY <3>2, <4>1, <4>5
    <3>3. DOMAIN q = kept /\ \A x \in kept : q[x] = qty(x)
      OBVIOUS
    <3>4. IsBook(q)
      <4>. HIDE DEF q, qty, kept
      <4>. QED  BY <3>2, <3>3 DEF IsBook
    <3>5. \A x \in DOMAIN q :
            /\ c.prices[x] > 0
            /\ q[x] = Instalment(c, x, IF x \in DOMAIN target THEN target[x] ELSE 0, left, x \in DOMAIN draw)
      OBVIOUS
    <3>. HIDE DEF q, qty, kept
    <3>6. NoneShort(q) /\ MarkedValue(q, c.prices) <= c.total
      BY <2>1, <3>1, <3>4, <3>5, InstalmentAffordable
    <3>. QED  BY <3>4, <3>6, RebookedSolvent
  <2>. HIDE DEF q
  <2>5. Keeps(Skip(t, c)) /\ (~ (left <= 0) => Keeps(Continue(u, Rebooked(c, q))))
    BY <1>2, <2>1, <2>3, <2>4
  <2>. HIDE DEF Keeps
  <2>6. Keeps(CallAlgo(a, s, c, draw))
    BY <2>2, <2>5
  <2>. QED  BY <2>6 DEF Keeps
<1>. QED  BY <1>3, <1>4, <1>5, <1>6 DEF Booking

Lends(a) ==
  a.kind \in {"Margin", "ScaleWeights", "HedgeRisks", "ReplayTransactions", "CapitalFlow"}

\* No algo overdraws the books or the targets but those that may lend or withdraw.
LEMMA CallsSolvent ==
  ASSUME NEW a, NEW s, NEW c, NEW draw, WellFormedAlgo(a), ~ Lends(a), LongOnly(a),
         StateOK(s), Long(s.target), ContextOK(c), Solvent(c),
         a.kind \in Drawing => draw \in Draws(a, c)
  PROVE  LET r == CallAlgo(a, s, c, draw)
         IN  Solvent(r.c) /\ Long(r.s.target)
<1>. DEFINE r == CallAlgo(a, s, c, draw)
            d == r.c
<1>1. a.kind \in UNION {Asking, Selecting, Weighing, Paying, Booking}
  BY DEF WellFormedAlgo
<1>2. /\ Symbols \subseteq Symbols /\ PricedSymbols(c) \subseteq Symbols
      /\ c.selected \in Seq(Symbols) /\ BookOver(c.target, Symbols)
  BY DEF ContextOK, BookOver, IsBook, PricedSymbols
<1>3. ASSUME SameDate(c, d), d.total = c.total, d.cash = c.cash, d.positions = c.positions,
             Long(d.target)
      PROVE  Solvent(d)
  <2>. HIDE DEF r
  <2>. QED  BY <1>3 DEF Solvent, SameDate
<1>4. CASE a.kind \in Asking
  <2>1. AskedOutcome(r, s, c)
    BY <1>4, Asks
  <2>. HIDE DEF r
  <2>2. r = [s |-> r.s, c |-> c, status |-> r.status] /\ r.s.target = s.target
    BY <2>1 DEF AskedOutcome
  <2>3. d = c
    BY <2>2
  <2>. QED  BY <2>2, <2>3 DEF r
<1>5. CASE a.kind \in Selecting
  <2>1. SelectedOutcome(r, s, c, Symbols)
    BY <1>2, <1>5, Selects DEF Drawing
  <2>. HIDE DEF r
  <2>2. /\ d = [c EXCEPT !.selected = d.selected] /\ d.selected \in Seq(Symbols) /\ r.s = s
    BY <2>1 DEF SelectedOutcome
  <2>3. /\ SameDate(c, d) /\ d.target = c.target
        /\ d.total = c.total /\ d.cash = c.cash /\ d.positions = c.positions
    BY <1>2, <2>2, ContextsKept
  <2>4. Long(d.target)
    BY <2>3 DEF Solvent
  <2>. QED  BY <1>3, <2>2, <2>3, <2>4 DEF r
<1>6. CASE a.kind \in Weighing
  <2>1. WeighedOutcome(r, s, c, Symbols)
    BY <1>2, <1>6, Weighs
  <2>2. Long(d.target)
    BY <1>6, WeighsLong DEF Lends
  <2>. HIDE DEF r
  <2>3. d = [c EXCEPT !.target = d.target] /\ BookOver(d.target, Symbols) /\ r.s = s
    BY <2>1 DEF WeighedOutcome
  <2>4. SameDate(c, d) /\ d.total = c.total /\ d.cash = c.cash /\ d.positions = c.positions
    BY <1>2, <2>3, ContextsKept
  <2>. QED  BY <1>3, <2>2, <2>3, <2>4 DEF r
<1>7. CASE a.kind \in Paying
  <2>1. a.kind = "CouponPayingPosition"
    BY <1>7 DEF Paying, Lends
  <2>2. PaidOutcome(r, s, c, Symbols)
    BY <1>2, <1>7, Pays
  <2>3. d \in {c, Credit(c, a.coupon)}
    BY <2>1 DEF CallAlgo, CouponPayingPosition, Continue, Stop
  <2>. HIDE DEF r
  <2>4. r.s.target = s.target
    BY <2>2 DEF PaidOutcome
  <2>5. Solvent(Credit(c, a.coupon))
    <3>. DEFINE e == Credit(c, a.coupon)
                m == MarkedValue(c.positions, c.prices)
    <3>1. a.coupon \in Nat
      BY <2>1 DEF WellFormedAlgo, LongOnly
    <3>2. /\ e.cash = c.cash + a.coupon /\ e.total = c.total + a.coupon
          /\ e.positions = c.positions /\ e.prices = c.prices /\ e.target = c.target
      BY DEF Credit, ContextOK
    <3>3. c.cash \in Nat /\ c.total \in Nat /\ m \in Nat /\ c.cash + m <= c.total
          /\ NoneShort(c.positions) /\ Long(c.target)
      BY SolventTotal DEF Solvent
    <3>4. MarkedValue(e.positions, e.prices) = m
      BY <3>2
    <3>. HIDE DEF e, m
    <3>5. e.cash >= 0 /\ e.cash + m <= e.total
      BY <3>1, <3>2, <3>3
    <3>6. Solvent(e)
      BY <3>2, <3>3, <3>4, <3>5 DEF Solvent
    <3>. QED  BY <3>6 DEF e
  <2>6. Solvent(d)
    BY <2>3, <2>5
  <2>. QED  BY <2>4, <2>6 DEF r
<1>8. CASE a.kind \in Booking
  <2>1. a.kind # "ReplayTransactions"
    BY DEF Lends
  <2>. QED  BY <1>8, <2>1, BooksSolvent
<1>. QED  BY <1>1, <1>4, <1>5, <1>6, <1>7, <1>8

\* What the children of an algo remember of targets is long.
LongTargets(q, k) == \A i \in 1..k : Long(q[i].target)

LEMMA ChildSolvent ==
  ASSUME NEW c, ContextOK(c), NEW k \in Nat, NEW acc, AskedOf(acc, k, c, Symbols),
         Solvent(acc.c), LongTargets(acc.s, k),
         NEW b, WellFormedAlgo(b), b.kind \notin Drawing, ~ Lends(b), LongOnly(b),
         NEW s, StateOK(s), NEW draw, Long(s.target)
  PROVE  LET r == AskChild(acc, b, s, draw)
         IN  Solvent(r.c) /\ LongTargets(r.s, k + 1)
<1>. DEFINE q == CallAlgo(b, s, acc.c, draw)
            r == AskChild(acc, b, s, draw)
<1>1. ContextOK(acc.c) /\ acc.s = [i \in 1..k |-> acc.s[i]]
  BY DEF AskedOf
<1>2. Solvent(q.c) /\ Long(q.s.target)
  BY <1>1, CallsSolvent
<1>3. r.s = Append(acc.s, q.s) /\ r.c = q.c
  BY DEF AskChild
<1>. HIDE DEF r, q
<1>4. \A i \in 1..(k+1) : r.s[i] = IF i = k + 1 THEN q.s ELSE acc.s[i]
  BY <1>1, <1>3, StateAdded
<1>5. \A i \in 1..(k+1) : i = k + 1 \/ i \in 1..k
  OBVIOUS
<1>6. Solvent(r.c) /\ LongTargets(r.s, k + 1)
  BY <1>2, <1>3, <1>4, <1>5 DEF LongTargets
<1>. QED  BY <1>6 DEF r

LEMMA NextSolvent ==
  ASSUME NEW c, ContextOK(c), NEW k \in Nat, NEW acc, AskedOf(acc, k, c, Symbols),
         Solvent(acc.c), LongTargets(acc.s, k),
         NEW b, WellFormedAlgo(b), b.kind \notin Drawing, ~ Lends(b), LongOnly(b),
         NEW s, StateOK(s), NEW draw, Long(s.target)
  PROVE  LET r == AskNext(acc, b, s, draw)
         IN  Solvent(r.c) /\ LongTargets(r.s, k + 1)
<1>. DEFINE r == AskNext(acc, b, s, draw)
<1>1. CASE acc.status = "skip_day"
  BY <1>1, ChildSolvent DEF AskNext
<1>2. CASE acc.status # "skip_day"
  <2>. DEFINE q == Append(acc.s, s)
  <2>1. acc.s = [i \in 1..k |-> acc.s[i]]
    BY DEF AskedOf
  <2>2. \A i \in 1..(k+1) : q[i] = IF i = k + 1 THEN s ELSE acc.s[i]
    BY <2>1, StateAdded
  <2>3. acc = [s |-> acc.s, c |-> acc.c, status |-> acc.status] /\ r = [acc EXCEPT !.s = q]
    BY <1>2 DEF AskNext, AskedOf
  <2>. HIDE DEF q, r
  <2>4. r.s = q /\ r.c = acc.c
    BY <2>3
  <2>5. \A i \in 1..(k+1) : i = k + 1 \/ i \in 1..k
    OBVIOUS
  <2>6. Solvent(r.c) /\ LongTargets(r.s, k + 1)
    BY <2>2, <2>4, <2>5 DEF LongTargets
  <2>. QED  BY <2>6 DEF r
<1>. QED  BY <1>1, <1>2

\* Nor does a combinator of such algos, whichever of them it asks.
LEMMA CallSolvent ==
  ASSUME NEW a, WellFormed(a), NEW ss, StatesOK(a, ss), LongTargets(ss, Len(ss)),
         NEW c, ContextOK(c), Solvent(c), NEW draw \in Draws(a, c),
         \A b \in Inside(a) : ~ Lends(b) /\ LongOnly(b)
  PROVE  LET r == Call(a, ss, c, draw)
         IN  Solvent(r.c) /\ LongTargets(r.s, Len(ss))
<1>. DEFINE r == Call(a, ss, c, draw)
<1>1. CASE a.kind \in Combinators
  <2>. DEFINE n == Len(a.algos)
  <2>1. /\ n \in Nat \ {0} /\ (a.kind # "Or" => n = 1)
        /\ \A i \in 1..n : WellFormedAlgo(a.algos[i]) /\ a.algos[i].kind \notin Drawing
    <3>1. /\ IF a.kind = "Or" THEN n \in Nat \ {0} ELSE n = 1
          /\ \A i \in 1..n : WellFormedAlgo(a.algos[i]) /\ a.algos[i].kind \notin Drawing
      BY <1>1, Zenon DEF WellFormed
    <3>. HIDE DEF n
    <3>. QED  BY <3>1
  <2>2. Len(ss) = n /\ \A i \in 1..n : StateOK(ss[i]) /\ Long(ss[i].target)
    BY <1>1 DEF StatesOK, LongTargets
  <2>3. \A i \in 1..n : ~ Lends(a.algos[i]) /\ LongOnly(a.algos[i])
    <3>1. a.algos = [i \in 1..n |-> a.algos[i]]
      BY <1>1 DEF WellFormed
    <3>2. DOMAIN a.algos = 1..n
      BY <3>1, Zenon
    <3>3. \A i \in 1..n : a.algos[i] \in Inside(a)
      BY <1>1, <3>2 DEF Inside
    <3>. QED  BY <3>3
  <2>4. /\ PricedSymbols(c) \subseteq Symbols /\ c.selected \in Seq(Symbols)
        /\ BookOver(c.target, Symbols) /\ Symbols \subseteq Symbols
    BY DEF ContextOK, BookOver, IsBook, PricedSymbols
  <2>5. /\ AskedOf(Unasked(c), 0, c, Symbols) /\ Solvent(Unasked(c).c)
        /\ LongTargets(Unasked(c).s, 0)
    <3>1. /\ Unasked(c).s = Nothing /\ Unasked(c).c = c /\ Unasked(c).status = "skip_day"
          /\ Unasked(c) = [s |-> Unasked(c).s, c |-> Unasked(c).c, status |-> Unasked(c).status]
      BY DEF Unasked
    <3>2. Nothing = [i \in 1..0 |-> Nothing[i]] /\ 1..0 = {}
      BY DEF Nothing
    <3>3. AskedOf(Unasked(c), 0, c, Symbols)
      BY <2>4, <3>1, <3>2 DEF AskedOf, SameDate
    <3>4. LongTargets(Unasked(c).s, 0)
      BY <3>2 DEF LongTargets
    <3>. QED  BY <3>1, <3>3, <3>4
  <2>. HIDE DEF n
  <2>6. 1 \in 1..n
    BY <2>1
  <2>7. CASE a.kind = "Or"
    <3>1. PICK h : /\ h[0] = Unasked(c)
                   /\ \A k \in 1..n : h[k] = AskNext(h[k-1], a.algos[k], ss[k], draw)
                   /\ Or(a, ss, c, draw) = h[n]
      <4>1. Len(ss) \in Nat
        BY <2>1, <2>2
      <4>0. InTurn(a, ss, c, draw)
        BY <4>1, AskedInTurn
      <4>2. PICK h : /\ h[0] = Unasked(c)
                     /\ \A k \in 1..Len(ss) : h[k] = AskNext(h[k-1], a.algos[k], ss[k], draw)
                     /\ Or(a, ss, c, draw) = h[Len(ss)]
        BY <4>0, Zenon DEF InTurn
      <4>3. Len(ss) = n
        BY <2>2
      <4>. QED  BY <4>2, <4>3, Zenon
    <3>. DEFINE Good(k) == /\ AskedOf(h[k], k, c, Symbols) /\ Solvent(h[k].c)
                           /\ LongTargets(h[k].s, k)
                B == {k \in 0..n : ~ Good(k)}
    <3>2. Good(0)
      BY <2>5, <3>1
    <3>3. ASSUME NEW m \in 1..n, m - 1 \in 0..n, m - 1 \notin B PROVE m \notin B
      <4>1. m - 1 \in Nat /\ (m - 1) + 1 = m /\ Good(m-1)
        BY <2>1, <3>3
      <4>. DEFINE acc == h[m-1]
      <4>2. h[m] = AskNext(acc, a.algos[m], ss[m], draw)
        BY <3>1
      <4>3. AskedOf(acc, m - 1, c, Symbols) /\ Solvent(acc.c) /\ LongTargets(acc.s, m - 1)
        BY <4>1
      <4>. HIDE DEF acc
      <4>4. MayCall(a.algos[m], Symbols)
        BY DEF MayCall
      <4>5. AskedOf(h[m], (m - 1) + 1, c, Symbols)
        BY <2>1, <2>2, <2>4, <4>1, <4>2, <4>3, <4>4, NextAsked
      <4>6. Solvent(h[m].c) /\ LongTargets(h[m].s, (m - 1) + 1)
        BY <2>1, <2>2, <2>3, <4>1, <4>2, <4>3, NextSolvent
      <4>. QED  BY <4>1, <4>5, <4>6
    <3>4. B = {}
      <4>1. B \in SUBSET (0..n) /\ 0 \notin B
        BY <3>2
      <4>. HIDE DEF B
      <4>. QED  BY <2>1, <3>3, <4>1, FirstFailure
    <3>5. Good(n)
      <4>1. n \in 0..n
        BY <2>1
      <4>. QED  BY <3>4, <4>1
    <3>6. r = h[n]
      BY <2>7, <3>1 DEF Call
    <3>. HIDE DEF r
    <3>7. Solvent(r.c) /\ LongTargets(r.s, Len(ss))
      BY <2>2, <3>5, <3>6
    <3>. QED  BY <3>7 DEF r
  <2>8. CASE a.kind = "Not"
    <3>. DEFINE q == CallAlgo(a.algos[1], ss[1], c, draw)
                t == <<q.s>>
    <3>1. Solvent(q.c) /\ Long(q.s.target)
      BY <2>1, <2>2, <2>3, <2>6, CallsSolvent
    <3>2. r.s = t /\ r.c = q.c
      BY <2>8 DEF Call, Not
    <3>. HIDE DEF r, q
    <3>3. 1..1 = {1} /\ t[1] = q.s
      OBVIOUS
    <3>4. Len(ss) = 1
      BY <2>1, <2>2, <2>8
    <3>. HIDE DEF t
    <3>5. Solvent(r.c) /\ LongTargets(r.s, Len(ss))
      BY <3>1, <3>2, <3>3, <3>4 DEF LongTargets
    <3>. QED  BY <3>5 DEF r
  <2>9. CASE a.kind = "Require"
    <3>1. r = AskChild(Unasked(c), a.algos[1], ss[1], draw)
      BY <2>9 DEF Call, Require
    <3>2. Len(ss) = 0 + 1 /\ 0 \in Nat
      BY <2>1, <2>2, <2>9
    <3>. HIDE DEF r
    <3>3. Solvent(r.c) /\ LongTargets(r.s, 0 + 1)
      BY <2>1, <2>2, <2>3, <2>5, <2>6, <3>1, <3>2, ChildSolvent
    <3>4. Solvent(r.c) /\ LongTargets(r.s, Len(ss))
      BY <3>2, <3>3
    <3>. QED  BY <3>4 DEF r
  <2>. QED  BY <1>1, <2>7, <2>8, <2>9 DEF Combinators
<1>2. CASE a.kind \notin Combinators
  <2>. DEFINE q == CallAlgo(a, ss[1], c, draw)
              t == <<q.s>>
  <2>1. WellFormedAlgo(a) /\ Inside(a) = {a} /\ Len(ss) = 1
    BY <1>2 DEF WellFormed, StatesOK, Inside
  <2>2. StateOK(ss[1]) /\ Long(ss[1].target)
    <3>1. 1 \in 1..1
      OBVIOUS
    <3>. QED  BY <2>1, <3>1 DEF StatesOK, LongTargets
  <2>3. Solvent(q.c) /\ Long(q.s.target)
    BY <2>1, <2>2, CallsSolvent
  <2>4. PricedSymbols(c) \subseteq Symbols /\ c.selected \in Seq(Symbols)
        /\ BookOver(c.target, Symbols) /\ Symbols \subseteq Symbols
    BY DEF ContextOK, BookOver, IsBook, PricedSymbols
  <2>5. CallOutcome(q, c, Symbols)
    BY <2>1, <2>2, <2>4, Calls
  <2>6. r = [q EXCEPT !.s = t]
    BY <1>2 DEF Call, Combinators
  <2>. HIDE DEF r, q
  <2>7. r.s = t /\ r.c = q.c
    BY <2>5, <2>6 DEF CallOutcome
  <2>8. 1..1 = {1} /\ t[1] = q.s
    OBVIOUS
  <2>. HIDE DEF t
  <2>9. Solvent(r.c) /\ LongTargets(r.s, Len(ss))
    BY <2>1, <2>3, <2>7, <2>8 DEF LongTargets
  <2>. QED  BY <2>9 DEF r
<1>. QED  BY <1>1, <1>2

\* Without leverage, blotter or withdrawals the books and the context are not
\* overdrawn, and every target a rebalance remembers is long.
Unlevered ==
  /\ ~ Uses({"Margin", "ScaleWeights", "HedgeRisks", "ReplayTransactions", "CapitalFlow"})
  /\ \A a \in Used : LongOnly(a)
PaidFor ==
  /\ cash >= 0 /\ NoneShort(positions) /\ ctx.cash >= 0
  /\ pc \in {"algo", "record"} => Solvent(ctx)
  /\ \A k \in 1..Len(program) : LongTargets(states[k], Len(states[k]))

LEMMA LongNothing == Long(Nothing) /\ NoneShort(Nothing)
<1>1. DOMAIN Nothing = {} /\ NumSymbols \in Nat /\ ONE \in Nat
  BY PipelineAssumption DEF Nothing
<1>2. WeightSum(Nothing) = 0
  BY <1>1, EmptyTotal DEF WeightSum
<1>. QED  BY <1>1, <1>2 DEF Long, NoneShort

\* A pipeline of long weights without leverage, blotter or withdrawals never
\* borrows: neither its books nor the context of a date go below zero cash,
\* whatever the prices, the program, its combinators and the draws.
THEOREM UnleveredCashNonNegativeHolds == Spec => []UnleveredCashNonNegative
<1>1. Init => PaidFor
  <2>. SUFFICES ASSUME Init PROVE PaidFor
    OBVIOUS
  <2>1. cash >= 0 /\ NoneShort(positions) /\ ctx.cash >= 0 /\ pc = "date"
    BY LongNothing, PipelineAssumption DEF Init, NoContext
  <2>2. ASSUME NEW k \in 1..Len(program) PROVE LongTargets(states[k], Len(states[k]))
    <3>. DEFINE a == program[k]
                ss == states[k]
                n == Len(a.algos)
    <3>1. /\ program \in Programs /\ DOMAIN program = 1..Len(program)
          /\ WellFormed(a) /\ StatesOK(a, StatesOf(a))
      BY ProgramsFit DEF Init
    <3>2. ss = StatesOf(a)
      BY <3>1 DEF Init
    <3>3. Long(Fresh.target)
      BY LongNothing DEF Fresh
    <3>4. CASE a.kind \in Combinators
      <4>1. a.algos = [i \in 1..n |-> a.algos[i]]
        BY <3>1, <3>4, Zenon DEF WellFormed
      <4>2. DOMAIN a.algos = 1..n
        BY <4>1, Zenon
      <4>3. ss = [i \in 1..n |-> Fresh]
        BY <3>2, <3>4, <4>2 DEF StatesOf
      <4>4. Len(ss) = n
        BY <3>1, <3>2, <3>4 DEF StatesOK
      <4>. HIDE DEF n
      <4>. QED  BY <3>3, <4>3, <4>4 DEF LongTargets
    <3>5. CASE a.kind \notin Combinators
      <4>1. ss = <<Fresh>>
        BY <3>2, <3>5 DEF StatesOf
      <4>2. Len(<<Fresh>>) = 1 /\ 1..1 = {1} /\ <<Fresh>>[1] = Fresh
        OBVIOUS
      <4>. QED  BY <3>3, <4>1, <4>2 DEF LongTargets
    <3>. QED  BY <3>4, <3>5
  <2>. QED  BY <2>1, <2>2 DEF PaidFor
<1>2. PipelineTypeOK /\ (Unlevered => PaidFor) /\ [Next]_vars => (Unlevered => PaidFor)'
  <2>0. [Next]_vars => program' = program
    BY DEF Next, vars, OpenDate, CallNext, RecordRow, EndOfData, Ended
  <2>. SUFFICES ASSUME PipelineTypeOK, Unlevered, PaidFor, [Next]_vars
                PROVE  PaidFor'
    BY <2>0 DEF Unlevered, Uses, Used
  <2>1. \A b \in Used : ~ Lends(b) /\ LongOnly(b)
    BY DEF Unlevered, Uses, Lends
  <2>2. /\ cash >= 0 /\ NoneShort(positions) /\ ctx.cash >= 0
        /\ pc \in {"algo", "record"} => Solvent(ctx)
        /\ \A k \in 1..Len(program) : LongTargets(states[k], Len(states[k]))
    BY DEF PaidFor
  <2>3. CASE OpenDate
    <3>1. PICK p \in PriceRow : ctx' = Context(p)
      BY <2>3, PipelineAssumption DEF OpenDate, PriceRow
    <3>2. /\ UNCHANGED <<program, states, cash, positions>>
          /\ Len(prices) < Len(Calendar)
      BY <2>3 DEF OpenDate
    <3>3. /\ Synced(ctx') /\ ctx'.cash = cash /\ ctx'.positions = positions
          /\ ctx'.target = Nothing /\ ContextOK(ctx')
      BY <3>1, <3>2, OpenedContext
    <3>4. Solvent(ctx')
      <4>. DEFINE c == ctx'
                  m == MarkedValue(c.positions, c.prices)
      <4>1. m \in Int /\ c.cash \in Int /\ c.total \in Int
        BY <3>3, MarkedTerms DEF ContextOK
      <4>2. c.total = c.cash + m
        BY <3>3 DEF Synced
      <4>. HIDE DEF m
      <4>3. c.cash + m <= c.total
        BY <4>1, <4>2
      <4>. QED  BY <2>2, <3>3, <4>3, LongNothing DEF Solvent, m
    <3>. QED  BY <2>2, <3>2, <3>3, <3>4 DEF PaidFor
  <2>4. CASE CallNext
    <3>1. PICK draw \in Draws(program[step], ctx) :
            LET r == Call(program[step], states[step], ctx, draw)
            IN  states' = [states EXCEPT ![step] = r.s] /\ ctx' = r.c
      BY <2>4 DEF CallNext
    <3>2. /\ pc = "algo" /\ step <= Len(program)
          /\ UNCHANGED <<program, prices, cash, positions, rows>>
      BY <2>4 DEF CallNext
    <3>. DEFINE a == program[step]
                ss == states[step]
                r == Call(a, ss, ctx, draw)
                n == Len(program)
    <3>3. /\ PricedSymbols(ctx) \subseteq Symbols /\ ctx.selected \in Seq(Symbols)
          /\ BookOver(ctx.target, Symbols) /\ Symbols \subseteq Symbols
      BY <3>2 DEF PipelineTypeOK, ContextOK, BookOver, IsBook, PricedSymbols
    <3>4. /\ CalledOutcome(r, a, ctx, Symbols) /\ step \in 1..n /\ Inside(a) \subseteq Used
          /\ ContextOK(ctx)
      <4>1. \A b \in Inside(a) : MayCall(b, Symbols)
        BY DEF MayCall
      <4>. QED  BY <3>2, <3>3, <4>1, NextCallFits
    <3>5. WellFormed(a) /\ StatesOK(a, ss) /\ states = [k \in 1..n |-> states[k]]
      BY <3>4, ProgramsFit DEF PipelineTypeOK
    <3>6. Solvent(ctx) /\ LongTargets(ss, Len(ss))
      BY <2>2, <3>2, <3>4
    <3>7. \A b \in Inside(a) : ~ Lends(b) /\ LongOnly(b)
      BY <2>1, <3>4
    <3>8. states' = [states EXCEPT ![step] = r.s] /\ ctx' = r.c /\ draw \in Draws(a, ctx)
      BY <3>1
    <3>. HIDE DEF a, ss
    <3>9. Solvent(r.c) /\ LongTargets(r.s, Len(ss))
      BY <3>4, <3>5, <3>6, <3>7, <3>8, CallSolvent
    <3>. HIDE DEF r
    <3>10. Len(r.s) = Len(ss)
      BY <3>4, <3>5 DEF CalledOutcome, StatesOK
    <3>11. \A k \in 1..n : states'[k] = IF k = step THEN r.s ELSE states[k]
      <4>. HIDE DEF n
      <4>1. DOMAIN states = 1..n
        BY <3>5, Zenon
      <4>. QED  BY <3>8, <4>1
    <3>12. \A k \in 1..n : LongTargets(states'[k], Len(states'[k]))
      BY <2>2, <3>9, <3>10, <3>11
    <3>13. ctx'.cash >= 0
      BY <3>8, <3>9 DEF Solvent
    <3>. QED  BY <2>2, <3>2, <3>8, <3>9, <3>12, <3>13 DEF PaidFor
  <2>5. CASE RecordRow
    <3>1. /\ pc \in {"algo", "record"} /\ cash' = ctx.cash /\ positions' = ctx.positions
          /\ pc' \notin {"algo", "record"} /\ UNCHANGED <<program, states, ctx>>
      BY <2>5 DEF RecordRow, AlgosDone
    <3>. QED  BY <2>2, <3>1 DEF PaidFor, Solvent
  <2>6. CASE EndOfData
    <3>1. pc' = "done" /\ UNCHANGED <<program, states, ctx, cash, positions>>
      BY <2>6 DEF EndOfData
    <3>. QED  BY <2>2, <3>1 DEF PaidFor
  <2>7. CASE Ended \/ UNCHANGED vars
    BY <2>2, <2>7 DEF Ended, vars, PaidFor
  <2>. QED  BY <2>3, <2>4, <2>5, <2>6, <2>7 DEF Next
<1>3. (Unlevered => PaidFor) => UnleveredCashNonNegative
  BY DEF Unlevered, PaidFor, UnleveredCashNonNegative
<1>. QED  BY <1>1, <1>2, <1>3, PipelineTypeCorrect, PTL DEF Spec
=============================================================================
