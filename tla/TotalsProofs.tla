---------------------------- MODULE TotalsProofs ----------------------------
(***************************************************************************)
(* What Totals!Total returns, for every index bound and every partial      *)
(* function: an integer, the value of its recursion, and how totals of     *)
(* related functions compare.  Induction is over the well-founded order of *)
(* the naturals, in its least-element form.                                *)
(***************************************************************************)
EXTENDS Totals, TLAPS, WellFoundedInduction

LessThan == {ss \in Nat \X Nat : ss[1] < ss[2]}

\* A non-empty set of naturals has a least element.
LEMMA LeastNatural ==
  ASSUME NEW T \in SUBSET Nat, T # {}
  PROVE  \E m \in T : \A k \in T : m <= k
<1>1. IsWellFoundedOn(LessThan, Nat)
  BY NatLessThanWellFounded, Zenon DEF OpToRel, LessThan
<1>2. PICK m \in T : \A k \in T : ~ (<<k, m>> \in LessThan)
  BY <1>1, WFMin, Zenon
<1>3. ASSUME NEW k \in T PROVE m <= k
  <2>1. ~ (<<k, m>> \in LessThan)  BY <1>2
  <2>2. k \in Nat /\ m \in Nat  BY <1>3
  <2>. QED  BY <2>1, <2>2 DEF LessThan
<1>. QED  BY <1>3

\* The term that index k adds to a total.
Term(f, k) == IF k \in DOMAIN f THEN f[k] ELSE 0

\* h holds the partial sums of f up to n.
Prefix(f, n, h) ==
  /\ h \in [0..n -> Int]
  /\ h = [k \in 0..n |-> IF k = 0 THEN 0 ELSE h[k-1] + Term(f, k)]

\* The partial sums of an integer-valued partial function exist.
LEMMA PrefixExists ==
  ASSUME NEW N \in Nat, NEW f, \A k \in 1..N : Term(f, k) \in Int
  PROVE  \E h : Prefix(f, N, h)
<1>. DEFINE T == {n \in 0..N : ~ \E h : Prefix(f, n, h)}
<1>. SUFFICES ASSUME T # {} PROVE FALSE
  OBVIOUS
<1>1. T \in SUBSET Nat
  OBVIOUS
<1>2. PICK n \in T : \A k \in T : n <= k
  BY <1>1, LeastNatural
<1>3. CASE n = 0
  <2>1. Prefix(f, 0, [k \in 0..0 |-> 0])
    BY DEF Prefix
  <2>. QED  BY <2>1, <1>2, <1>3
<1>4. CASE n # 0
  <2>1. n - 1 \in 0..N /\ ~ (n <= n - 1)
    BY <1>4, <1>2
  <2>2. PICK h : Prefix(f, n-1, h)
    BY <2>1, <1>2
  <2>. DEFINE g == [k \in 0..n |-> IF k = n THEN h[n-1] + Term(f, n) ELSE h[k]]
  <2>3. Term(f, n) \in Int
    BY <1>4, <1>2
  <2>4. /\ h \in [0..(n-1) -> Int]
        /\ \A k \in 0..(n-1) : h[k] = IF k = 0 THEN 0 ELSE h[k-1] + Term(f, k)
    BY <2>2 DEF Prefix
  <2>5. g \in [0..n -> Int]
    BY <2>3, <2>4, <1>4, <1>2
  <2>6. ASSUME NEW k \in 0..n
        PROVE  g[k] = IF k = 0 THEN 0 ELSE g[k-1] + Term(f, k)
    <3>1. CASE k = n
      <4>1. n - 1 \in 0..n /\ n - 1 # n /\ n \in 0..n
        BY <1>4, <1>2
      <4>2. g[n] = h[n-1] + Term(f, n) /\ g[n-1] = h[n-1]
        BY <4>1
      <4>. HIDE DEF g
      <4>. QED  BY <3>1, <4>2, <1>4
    <3>2. CASE k # n
      <4>1. k \in 0..(n-1) /\ (k # 0 => k - 1 \in 0..n /\ k - 1 # n)
        BY <3>2, <1>2
      <4>2. g[k] = h[k] /\ (k # 0 => g[k-1] = h[k-1])
        BY <3>2, <4>1
      <4>. HIDE DEF g
      <4>. QED  BY <2>4, <4>1, <4>2
    <3>. QED  BY <3>1, <3>2
  <2>7. Prefix(f, n, g)
    BY <2>5, <2>6 DEF Prefix
  <2>. QED  BY <2>7, <1>2
<1>. QED  BY <1>3, <1>4

\* Total is an integer and is the last of the partial sums.
LEMMA TotalIsPrefix ==
  ASSUME NEW N \in Nat, NEW f, \A k \in 1..N : Term(f, k) \in Int
  PROVE  \E h : Prefix(f, N, h) /\ Total(f, N) = h[N]
<1>. DEFINE P(s) == s = [k \in 0..N |-> IF k = 0 THEN 0 ELSE s[k-1] + Term(f, k)]
            s    == CHOOSE s : P(s)
<1>1. \E h : P(h)
  <2>1. PICK h : Prefix(f, N, h)
    BY PrefixExists
  <2>2. P(h)
    BY <2>1 DEF Prefix
  <2>. QED  BY <2>2
<1>2. P(s)
  BY <1>1, Zenon
<1>3. Total(f, N) = s[N]
  BY Zenon DEF Total, Term
<1>. HIDE DEF s
<1>. DEFINE B == {k \in 0..N : s[k] \notin Int}
<1>4. \A k \in 0..N : s[k] = IF k = 0 THEN 0 ELSE s[k-1] + Term(f, k)
  BY <1>2
<1>5. ASSUME B # {} PROVE FALSE
  <2>1. B \in SUBSET Nat
    OBVIOUS
  <2>2. PICK n \in B : \A k \in B : n <= k
    BY <1>5, <2>1, LeastNatural
  <2>. QED  BY <2>2, <1>4
<1>6. s \in [0..N -> Int]
  BY <1>2, <1>5
<1>. QED  BY <1>2, <1>3, <1>6 DEF Prefix

\* The total of an integer-valued partial function is an integer.
LEMMA TotalInt ==
  ASSUME NEW N \in Nat, NEW f, \A k \in 1..N : k \in DOMAIN f => f[k] \in Int
  PROVE  Total(f, N) \in Int
<1>1. \A k \in 1..N : Term(f, k) \in Int
  BY DEF Term
<1>. QED  BY <1>1, TotalIsPrefix DEF Prefix

-----------------------------------------------------------------------------
(* How totals compare.  Each lemma looks at the least bound at which it    *)
(* would fail, and takes one step back from it.                            *)

IntTerms(f, n) == \A k \in 1..n : k \in DOMAIN f => f[k] \in Int

LEMMA TermInt ==
  ASSUME NEW N \in Nat, NEW f, IntTerms(f, N)
  PROVE  /\ \A k \in 1..N : Term(f, k) \in Int
         /\ \A n \in 0..N : IntTerms(f, n) /\ Total(f, n) \in Int
<1>1. \A k \in 1..N : Term(f, k) \in Int
  BY DEF Term, IntTerms
<1>2. ASSUME NEW n \in 0..N PROVE IntTerms(f, n) /\ Total(f, n) \in Int
  <2>1. n \in Nat /\ \A k \in 1..n : k \in 1..N
    OBVIOUS
  <2>2. IntTerms(f, n)
    BY <2>1 DEF IntTerms
  <2>. QED  BY <2>1, <2>2, TotalInt DEF IntTerms
<1>. QED  BY <1>1, <1>2

\* A total of no terms, and of one more term.
LEMMA TotalRecursion ==
  ASSUME NEW N \in Nat, NEW f, IntTerms(f, N)
  PROVE  /\ Total(f, 0) = 0
         /\ \A n \in 1..N : Total(f, n) = Total(f, n-1) + Term(f, n)
<1>1. \A k \in 1..N : Term(f, k) \in Int
  BY TermInt
<1>2. ASSUME NEW n \in 0..N
      PROVE  \E h : Prefix(f, n, h) /\ Total(f, n) = h[n]
  <2>1. n \in Nat /\ \A k \in 1..n : Term(f, k) \in Int
    BY <1>1
  <2>. QED  BY <2>1, TotalIsPrefix
<1>3. Total(f, 0) = 0
  <2>1. PICK h : Prefix(f, 0, h) /\ Total(f, 0) = h[0]
    BY <1>2
  <2>. QED  BY <2>1 DEF Prefix
<1>4. ASSUME NEW n \in 1..N PROVE Total(f, n) = Total(f, n-1) + Term(f, n)
  <2>1. n - 1 \in 0..N /\ n \in 0..N
    OBVIOUS
  <2>2. PICK g : Prefix(f, n-1, g) /\ Total(f, n-1) = g[n-1]
    BY <1>2, <2>1
  <2>3. PICK h : Prefix(f, n, h) /\ Total(f, n) = h[n]
    BY <1>2, <2>1
  <2>4. /\ \A k \in 0..(n-1) : g[k] = IF k = 0 THEN 0 ELSE g[k-1] + Term(f, k)
        /\ \A k \in 0..n : h[k] = IF k = 0 THEN 0 ELSE h[k-1] + Term(f, k)
    BY <2>2, <2>3 DEF Prefix
  <2>. DEFINE B == {k \in 0..(n-1) : g[k] # h[k]}
  <2>5. ASSUME B # {} PROVE FALSE
    <3>1. B \in SUBSET Nat
      OBVIOUS
    <3>2. PICK m \in B : \A k \in B : m <= k
      BY <2>5, <3>1, LeastNatural
    <3>3. m # 0
      BY <2>4, <3>2
    <3>4. m - 1 \in 0..(n-1) /\ m \in 0..n /\ ~ (m <= m - 1)
      BY <3>2, <3>3
    <3>5. g[m-1] = h[m-1]
      BY <3>2, <3>4
    <3>. QED  BY <2>4, <3>2, <3>3, <3>4, <3>5
  <2>6. g[n-1] = h[n-1]
    BY <2>5
  <2>7. h[n] = h[n-1] + Term(f, n)
    BY <2>4
  <2>. QED  BY <2>2, <2>3, <2>6, <2>7
<1>. QED  BY <1>3, <1>4

\* The total of a sum is the sum of the totals.
LEMMA TotalSum ==
  ASSUME NEW N \in Nat, NEW f, NEW g, NEW h,
         IntTerms(f, N), IntTerms(g, N), IntTerms(h, N),
         \A k \in 1..N : Term(h, k) = Term(f, k) + Term(g, k)
  PROVE  Total(h, N) = Total(f, N) + Total(g, N)
<1>. DEFINE B == {n \in 0..N : Total(h, n) # Total(f, n) + Total(g, n)}
<1>1. ASSUME B # {} PROVE FALSE
  <2>1. B \in SUBSET Nat
    OBVIOUS
  <2>2. PICK n \in B : \A k \in B : n <= k
    BY <1>1, <2>1, LeastNatural
  <2>3. n # 0
    BY <2>2, TotalRecursion
  <2>4. n \in 1..N /\ n - 1 \in 0..N /\ ~ (n <= n - 1)
    BY <2>2, <2>3
  <2>5. Total(h, n-1) = Total(f, n-1) + Total(g, n-1)
    BY <2>2, <2>4
  <2>6. /\ Total(h, n) = Total(h, n-1) + Term(h, n)
        /\ Total(f, n) = Total(f, n-1) + Term(f, n)
        /\ Total(g, n) = Total(g, n-1) + Term(g, n)
    BY <2>4, TotalRecursion
  <2>7. /\ Total(f, n-1) \in Int /\ Total(g, n-1) \in Int
        /\ Term(f, n) \in Int /\ Term(g, n) \in Int
    BY <2>4, TermInt
  <2>8. Term(h, n) = Term(f, n) + Term(g, n)
    BY <2>4
  <2>9. Total(h, n) # Total(f, n) + Total(g, n)
    BY <2>2
  <2>. QED  BY <2>5, <2>6, <2>7, <2>8, <2>9
<1>. QED  BY <1>1

\* Equal terms have equal totals, and larger ones larger totals.
LEMMA TotalMonotone ==
  ASSUME NEW N \in Nat, NEW f, NEW g, IntTerms(f, N), IntTerms(g, N),
         \A k \in 1..N : Term(f, k) <= Term(g, k)
  PROVE  Total(f, N) <= Total(g, N)
<1>. DEFINE B == {n \in 0..N : ~ (Total(f, n) <= Total(g, n))}
<1>1. ASSUME B # {} PROVE FALSE
  <2>1. B \in SUBSET Nat
    OBVIOUS
  <2>2. PICK n \in B : \A k \in B : n <= k
    BY <1>1, <2>1, LeastNatural
  <2>3. n # 0
    BY <2>2, TotalRecursion
  <2>4. n \in 1..N /\ n - 1 \in 0..N /\ ~ (n <= n - 1)
    BY <2>2, <2>3
  <2>5. Total(f, n-1) <= Total(g, n-1)
    BY <2>2, <2>4
  <2>6. /\ Total(f, n) = Total(f, n-1) + Term(f, n)
        /\ Total(g, n) = Total(g, n-1) + Term(g, n)
    BY <2>4, TotalRecursion
  <2>7. /\ Total(f, n-1) \in Int /\ Total(g, n-1) \in Int
        /\ Term(f, n) \in Int /\ Term(g, n) \in Int
    BY <2>4, TermInt
  <2>8. Term(f, n) <= Term(g, n)
    BY <2>4
  <2>9. ~ (Total(f, n) <= Total(g, n))
    BY <2>2
  <2>. QED  BY <2>5, <2>6, <2>7, <2>8, <2>9
<1>. QED  BY <1>1

LEMMA TotalSame ==
  ASSUME NEW N \in Nat, NEW f, NEW g, IntTerms(f, N), IntTerms(g, N),
         \A k \in 1..N : Term(f, k) = Term(g, k)
  PROVE  Total(f, N) = Total(g, N)
<1>1. \A k \in 1..N : Term(f, k) \in Int /\ Term(g, k) \in Int
  BY TermInt
<1>2. Total(f, N) <= Total(g, N) /\ Total(g, N) <= Total(f, N)
  BY <1>1, TotalMonotone
<1>3. Total(f, N) \in Int /\ Total(g, N) \in Int
  BY TermInt
<1>. QED  BY <1>2, <1>3

\* A factor common to all terms is a factor of the total.
LEMMA TotalScaled ==
  ASSUME NEW N \in Nat, NEW f, NEW g, NEW c \in Int, IntTerms(f, N), IntTerms(g, N),
         \A k \in 1..N : Term(g, k) = c * Term(f, k)
  PROVE  Total(g, N) = c * Total(f, N)
<1>. DEFINE B == {n \in 0..N : Total(g, n) # c * Total(f, n)}
<1>1. ASSUME B # {} PROVE FALSE
  <2>1. B \in SUBSET Nat
    OBVIOUS
  <2>2. PICK n \in B : \A k \in B : n <= k
    BY <1>1, <2>1, LeastNatural
  <2>3. n # 0
    BY <2>2, TotalRecursion
  <2>4. n \in 1..N /\ n - 1 \in 0..N /\ ~ (n <= n - 1)
    BY <2>2, <2>3
  <2>5. Total(g, n-1) = c * Total(f, n-1)
    BY <2>2, <2>4
  <2>6. /\ Total(g, n) = Total(g, n-1) + Term(g, n)
        /\ Total(f, n) = Total(f, n-1) + Term(f, n)
    BY <2>4, TotalRecursion
  <2>7. Total(f, n-1) \in Int /\ Term(f, n) \in Int
    BY <2>4, TermInt
  <2>8. Term(g, n) = c * Term(f, n)
    BY <2>4
  <2>9. c * (Total(f, n-1) + Term(f, n)) = c * Total(f, n-1) + c * Term(f, n)
    <3>. DEFINE a == Total(f, n-1)
                b == Term(f, n)
    <3>1. a \in Int /\ b \in Int
      BY <2>7
    <3>. HIDE DEF a, b
    <3>2. c * (a + b) = c * a + c * b
      BY <3>1
    <3>. QED  BY <3>2 DEF a, b
  <2>10. Total(g, n) # c * Total(f, n)
    BY <2>2
  <2>. QED  BY <2>5, <2>6, <2>8, <2>9, <2>10
<1>. QED  BY <1>1

\* Terms of nothing add nothing.
LEMMA TotalPadded ==
  ASSUME NEW N \in Nat, NEW m \in 0..N, NEW f, IntTerms(f, N),
         \A k \in (m+1)..N : Term(f, k) = 0
  PROVE  Total(f, N) = Total(f, m)
<1>. DEFINE B == {n \in m..N : Total(f, n) # Total(f, m)}
<1>1. ASSUME B # {} PROVE FALSE
  <2>1. B \in SUBSET Nat
    OBVIOUS
  <2>2. PICK n \in B : \A k \in B : n <= k
    BY <1>1, <2>1, LeastNatural
  <2>3. n # m /\ Total(f, n) # Total(f, m)
    BY <2>2
  <2>4. n \in 1..N /\ n \in (m+1)..N /\ n - 1 \in m..N /\ ~ (n <= n - 1)
    BY <2>2, <2>3
  <2>5. Total(f, n-1) = Total(f, m)
    BY <2>2, <2>4
  <2>6. Total(f, n) = Total(f, n-1) + Term(f, n)
    BY <2>4, TotalRecursion
  <2>7. Term(f, n) = 0 /\ Total(f, n-1) \in Int
    BY <2>4, TermInt
  <2>. QED  BY <2>3, <2>5, <2>6, <2>7
<1>. QED  BY <1>1

LEMMA TotalNothing ==
  ASSUME NEW N \in Nat, NEW f, IntTerms(f, N), \A k \in 1..N : Term(f, k) = 0
  PROVE  Total(f, N) = 0
<1>1. Total(f, N) = Total(f, 0)
  BY TotalPadded
<1>. QED  BY <1>1, TotalRecursion

LEMMA EmptyTotal ==
  ASSUME NEW f, DOMAIN f = {}, NEW n \in Nat
  PROVE  Total(f, n) = 0
BY TotalNothing DEF IntTerms, Term

\* A total of as many ones.
LEMMA TotalOnes ==
  ASSUME NEW N \in Nat, NEW f, \A k \in 1..N : Term(f, k) = 1, IntTerms(f, N)
  PROVE  Total(f, N) = N
<1>. DEFINE B == {n \in 0..N : Total(f, n) # n}
<1>1. ASSUME B # {} PROVE FALSE
  <2>1. B \in SUBSET Nat
    OBVIOUS
  <2>2. PICK n \in B : \A k \in B : n <= k
    BY <1>1, <2>1, LeastNatural
  <2>3. Total(f, 0) = 0 /\ \A k \in 1..N : Total(f, k) = Total(f, k-1) + Term(f, k)
    BY TotalRecursion
  <2>4. n # 0
    BY <2>2, <2>3
  <2>5. n \in 1..N /\ n - 1 \in 0..N /\ ~ (n <= n - 1)
    BY <2>2, <2>4
  <2>6. Total(f, n - 1) = n - 1
    BY <2>2, <2>5
  <2>. QED  BY <2>2, <2>3, <2>5, <2>6
<1>. QED  BY <1>1

\* A total of terms that are not negative is not negative.
LEMMA TotalNotNegative ==
  ASSUME NEW N \in Nat, NEW f, IntTerms(f, N), \A k \in 1..N : Term(f, k) >= 0
  PROVE  Total(f, N) \in Nat
<1>. DEFINE none == [k \in {} |-> 0]
<1>1. IntTerms(none, N) /\ \A k \in 1..N : Term(none, k) = 0
  BY DEF IntTerms, Term
<1>. HIDE DEF none
<1>2. Total(none, N) = 0
  BY <1>1, TotalNothing
<1>3. Total(none, N) <= Total(f, N)
  BY <1>1, TotalMonotone
<1>4. Total(f, N) \in Int
  BY TermInt
<1>. QED  BY <1>2, <1>3, <1>4

\* A total of terms that are not negative, one of them positive, is positive.
LEMMA TotalPositive ==
  ASSUME NEW N \in Nat, NEW f, IntTerms(f, N),
         \A k \in 1..N : Term(f, k) >= 0,
         NEW m \in 1..N, Term(f, m) > 0
  PROVE  Total(f, N) > 0
<1>1. /\ Total(f, 0) = 0 /\ \A n \in 1..N : Total(f, n) = Total(f, n-1) + Term(f, n)
      /\ \A n \in 0..N : Total(f, n) \in Int
      /\ \A n \in 1..N : Term(f, n) \in Int
  BY TotalRecursion, TermInt
<1>. DEFINE fits(n) == Total(f, n) >= 0 /\ (n >= m => Total(f, n) > 0)
            B == {n \in 0..N : ~ fits(n)}
<1>2. ASSUME B # {} PROVE FALSE
  <2>1. B \in SUBSET Nat
    OBVIOUS
  <2>2. PICK n \in B : \A k \in B : n <= k
    BY <1>2, <2>1, LeastNatural
  <2>3. n # 0
    BY <2>2, <1>1
  <2>4. n \in 1..N /\ n - 1 \in 0..N /\ ~ (n <= n - 1)
    BY <2>2, <2>3
  <2>5. fits(n - 1)
    BY <2>2, <2>4
  <2>6. CASE n = m
    BY <2>2, <2>4, <2>5, <2>6, <1>1
  <2>7. CASE n # m
    BY <2>2, <2>4, <2>5, <2>7, <1>1
  <2>. QED  BY <2>6, <2>7
<1>3. N \in 0..N /\ N >= m
  OBVIOUS
<1>. QED  BY <1>2, <1>3

\* One more entry, at the next index, adds its value.
LEMMA TotalAdded ==
  ASSUME NEW n \in Nat, NEW f, NEW g, IntTerms(g, n + 1),
         DOMAIN f \subseteq 1..n, DOMAIN g = DOMAIN f \cup {n + 1},
         \A k \in DOMAIN f : g[k] = f[k]
  PROVE  /\ Total(g, n + 1) = Total(f, n) + g[n + 1]
         /\ Total(f, n) \in Int /\ g[n + 1] \in Int
<1>. DEFINE m == n + 1
<1>1. m \in Nat /\ m \in 1..m /\ n \in 0..m /\ m - 1 = n /\ n \in 0..n
        /\ \A k \in 1..n : k \in 1..m /\ k # m
  OBVIOUS
<1>. HIDE DEF m
<1>2. IntTerms(g, m) /\ DOMAIN g = DOMAIN f \cup {m}
  BY DEF m
<1>3. IntTerms(g, n)
  BY <1>1, <1>2, TermInt
<1>4. IntTerms(f, n)
  BY <1>1, <1>2 DEF IntTerms
<1>5. Total(g, m) = Total(g, n) + Term(g, m)
  BY <1>1, <1>2, TotalRecursion
<1>6. \A k \in 1..n : Term(g, k) = Term(f, k)
  BY <1>1, <1>2 DEF Term
<1>7. Total(g, n) = Total(f, n)
  BY <1>3, <1>4, <1>6, TotalSame
<1>8. Term(g, m) = g[m]
  BY <1>2 DEF Term
<1>9. Total(f, n) \in Int
  BY <1>1, <1>4, TermInt
<1>10. g[m] \in Int
  BY <1>1, <1>2 DEF IntTerms
<1>. QED  BY <1>5, <1>7, <1>8, <1>9, <1>10 DEF m

-----------------------------------------------------------------------------
(* Totals in proportion.                                                   *)

\* Terms that are bounded by shares of other terms add up to a total that is
\* bounded by the same shares of their totals.
LEMMA TotalShares ==
  ASSUME NEW N \in Nat, NEW f, NEW g, NEW h, IntTerms(f, N), IntTerms(g, N), IntTerms(h, N),
         NEW s \in Int, NEW t \in Int, NEW u \in Int,
         \A k \in 1..N : s * Term(g, k) <= t * Term(f, k) + u * Term(h, k)
  PROVE  s * Total(g, N) <= t * Total(f, N) + u * Total(h, N)
<1>. DEFINE sg == [k \in 1..N |-> s * Term(g, k)]
            tf == [k \in 1..N |-> t * Term(f, k)]
            uh == [k \in 1..N |-> u * Term(h, k)]
            up == [k \in 1..N |-> Term(tf, k) + Term(uh, k)]
<1>1. /\ \A k \in 1..N : Term(f, k) \in Int /\ Term(g, k) \in Int /\ Term(h, k) \in Int
      /\ Total(f, N) \in Int /\ Total(g, N) \in Int /\ Total(h, N) \in Int
  BY TermInt
<1>2. /\ \A k \in 1..N : Term(sg, k) = s * Term(g, k)
      /\ \A k \in 1..N : Term(tf, k) = t * Term(f, k)
      /\ \A k \in 1..N : Term(uh, k) = u * Term(h, k)
  BY Zenon DEF Term
<1>3. /\ \A k \in 1..N : s * Term(g, k) \in Int
      /\ \A k \in 1..N : t * Term(f, k) \in Int
      /\ \A k \in 1..N : u * Term(h, k) \in Int
  BY <1>1
<1>4. IntTerms(sg, N) /\ IntTerms(tf, N) /\ IntTerms(uh, N)
  <2>1. DOMAIN sg = 1..N /\ DOMAIN tf = 1..N /\ DOMAIN uh = 1..N
    OBVIOUS
  <2>2. \A k \in 1..N : /\ sg[k] = s * Term(g, k) /\ tf[k] = t * Term(f, k)
                        /\ uh[k] = u * Term(h, k)
    OBVIOUS
  <2>. HIDE DEF sg, tf, uh
  <2>. QED  BY <1>3, <2>1, <2>2 DEF IntTerms
<1>5. /\ Total(sg, N) = s * Total(g, N)
      /\ Total(tf, N) = t * Total(f, N)
      /\ Total(uh, N) = u * Total(h, N)
  <2>. HIDE DEF sg, tf, uh
  <2>. QED  BY <1>2, <1>4, TotalScaled
<1>. HIDE DEF sg, tf, uh
<1>6. \A k \in 1..N : Term(up, k) = Term(tf, k) + Term(uh, k)
  BY Zenon DEF Term
<1>7. \A k \in 1..N : Term(tf, k) + Term(uh, k) \in Int
  BY <1>2, <1>3
<1>8. IntTerms(up, N)
  <2>1. DOMAIN up = 1..N /\ \A k \in 1..N : up[k] = Term(tf, k) + Term(uh, k)
    OBVIOUS
  <2>. HIDE DEF up
  <2>. QED  BY <1>7, <2>1 DEF IntTerms
<1>. HIDE DEF up
<1>9. Total(up, N) = Total(tf, N) + Total(uh, N)
  BY <1>4, <1>6, <1>8, TotalSum
<1>10. \A k \in 1..N : Term(sg, k) <= Term(up, k)
  BY <1>2, <1>6
<1>11. Total(sg, N) <= Total(up, N)
  BY <1>4, <1>8, <1>10, TotalMonotone
<1>. QED  BY <1>5, <1>9, <1>11

\* The same of one function.
LEMMA TotalShare ==
  ASSUME NEW N \in Nat, NEW f, NEW g, IntTerms(f, N), IntTerms(g, N),
         NEW s \in Int, NEW t \in Int, \A k \in 1..N : s * Term(g, k) <= t * Term(f, k)
  PROVE  s * Total(g, N) <= t * Total(f, N)
<1>1. /\ \A k \in 1..N : Term(f, k) \in Int /\ Term(g, k) \in Int
      /\ Total(f, N) \in Int /\ Total(g, N) \in Int
  BY TermInt
<1>2. 0 \in Int /\ \A i \in Int : 0 * i = 0
  OBVIOUS
<1>3. \A k \in 1..N : t * Term(f, k) \in Int
  BY <1>1
<1>4. \A k \in 1..N : s * Term(g, k) <= t * Term(f, k) + 0 * Term(f, k)
  BY <1>1, <1>2, <1>3
<1>5. s * Total(g, N) <= t * Total(f, N) + 0 * Total(f, N)
  BY <1>2, <1>4, TotalShares
<1>6. t * Total(f, N) \in Int
  BY <1>1
<1>. QED  BY <1>1, <1>2, <1>5, <1>6

\* A total of one term.
LEMMA TotalSingle ==
  ASSUME NEW N \in Nat, NEW y \in 1..N, NEW f, DOMAIN f = {y}, f[y] \in Int
  PROVE  Total(f, N) = f[y] /\ IntTerms(f, N)
<1>1. IntTerms(f, N)
  BY DEF IntTerms
<1>2. y \in 0..N /\ y - 1 \in 0..N /\ y - 1 \in Nat /\ \A k \in 1..(y-1) : k # y /\ k \in 1..N
      /\ \A j \in (y+1)..N : j # y
  OBVIOUS
<1>3. Total(f, N) = Total(f, y)
  BY <1>1, <1>2, TotalPadded DEF Term
<1>4. Total(f, y) = Total(f, y-1) + Term(f, y)
  BY <1>1, TotalRecursion
<1>5. IntTerms(f, y-1)
  BY <1>1, <1>2, TermInt
<1>6. Total(f, y-1) = 0
  BY <1>2, <1>5, TotalNothing DEF Term
<1>. QED  BY <1>1, <1>3, <1>4, <1>6 DEF Term

-----------------------------------------------------------------------------
(* Products the provers have to be told about.                             *)

LEMMA ProductNat ==
  ASSUME NEW a \in Nat, NEW b \in Nat
  PROVE  a * b \in Nat
OBVIOUS

\* A common factor keeps the order, and can be taken away.
LEMMA Widen ==
  ASSUME NEW c \in Nat, NEW a \in Int, NEW b \in Int, a <= b
  PROVE  c * a <= c * b
<1>1. PICK k \in Nat : b = a + k
  <2>1. b - a \in Nat /\ b = a + (b - a)
    OBVIOUS
  <2>. QED  BY <2>1
<1>2. c * b = c * a + c * k /\ c * k \in Nat /\ c * a \in Int
  BY <1>1
<1>. QED  BY <1>2

LEMMA Cancel ==
  ASSUME NEW d \in Nat \ {0}, NEW a \in Int, NEW b \in Int, d * a <= d * b
  PROVE  a <= b
<1>1. ASSUME a > b PROVE FALSE
  <2>1. PICK k \in Nat \ {0} : a = b + k
    <3>1. a - b \in Nat \ {0} /\ a = b + (a - b)
      BY <1>1
    <3>. QED  BY <3>1
  <2>2. d * a = d * b + d * k /\ d * k > 0 /\ d * b \in Int
    BY <2>1
  <2>. QED  BY <2>2
<1>. QED  BY <1>1

\* As many units as money buys cost no more than the money.
LEMMA AsManyAsPaid ==
  ASSUME NEW money \in Nat, NEW unit \in Nat \ {0}
  PROVE  money \div unit \in Nat /\ unit * (money \div unit) <= money
<1>1. money = unit * (money \div unit) + (money % unit) /\ money % unit \in 0..(unit-1)
      /\ money \div unit \in Nat
  OBVIOUS
<1>. QED  BY <1>1
=============================================================================
