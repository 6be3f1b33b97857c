-------------------------- MODULE PortfolioProofs ---------------------------
(***************************************************************************)
(* Theorems about portfolios over one pool of engines, for every list of   *)
(* members, tree, growth and number of runs, with a raise anywhere.        *)
(***************************************************************************)
EXTENDS PortfolioProperties, TotalsProofs, FiniteSetTheorems, SequenceTheorems

-----------------------------------------------------------------------------
(* Shares.                                                                 *)

\* Sums of a sequence of integers.
LEMMA SumTerms ==
  ASSUME NEW n \in Nat, NEW s, DOMAIN s = 1..n, Len(s) = n, \A k \in 1..n : s[k] \in Int
  PROVE  /\ SumSeq(s) = Total(s, n) /\ IntTerms(s, n)
         /\ \A k \in 1..n : Term(s, k) = s[k]
         /\ SumSeq(s) \in Int
<1>1. IntTerms(s, n) /\ \A k \in 1..n : Term(s, k) = s[k]
  BY DEF IntTerms, Term
<1>2. SumSeq(s) = Total(s, n)
  BY DEF SumSeq
<1>3. n \in 0..n
  OBVIOUS
<1>. QED  BY <1>1, <1>2, <1>3, TermInt

\* A factor can be cancelled in a comparison.
LEMMA CancelFactor ==
  ASSUME NEW w \in Nat, w > 0, NEW a \in Int, NEW b \in Int, w * a < w * b
  PROVE  a < b
<1>1. ASSUME b <= a PROVE w * b <= w * a
  BY <1>1
<1>2. w * a \in Int /\ w * b \in Int
  OBVIOUS
<1>. QED  BY <1>1, <1>2

\* What a share lacks of its exact value is less than one unit.
LEMMA ShareBounds ==
  ASSUME NEW x \in Nat, NEW w \in Nat, w > 0
  PROVE  /\ x \div w \in Nat
         /\ w * (x \div w) <= x /\ x <= w * (x \div w) + (w - 1)
<1>1. x = w * (x \div w) + (x % w) /\ x % w \in 0..(w-1) /\ x \div w \in Nat
  OBVIOUS
<1>. QED  BY <1>1

\* Shares by weight add up to the capital but for less than a unit of each.
LEMMA SharesAddUp ==
  ASSUME NEW n \in Nat \ {0}, NEW C \in Nat, NEW w \in [1..n -> Nat],
         NEW m \in 1..n, w[m] > 0
  PROVE  /\ Total(w, n) \in Nat /\ Total(w, n) > 0
         /\ \A k \in 1..n : (C * w[k]) \div Total(w, n) \in Nat
         /\ C - Total([k \in 1..n |-> (C * w[k]) \div Total(w, n)], n) \in 0..(n-1)
<1>. DEFINE W == Total(w, n)
<1>1. IntTerms(w, n) /\ \A k \in 1..n : Term(w, k) = w[k]
  BY DEF IntTerms, Term
<1>2. W \in Int
  <2>1. n \in 0..n
    OBVIOUS
  <2>. QED  BY <1>1, <2>1, TermInt
<1>3. W > 0
  BY <1>1, TotalPositive
<1>. HIDE DEF W
<1>. DEFINE share == [k \in 1..n |-> (C * w[k]) \div W]
            exact == [k \in 1..n |-> C * w[k]]
            scaled == [k \in 1..n |-> W * share[k]]
            one == [k \in 1..n |-> 1]
            slack == [k \in 1..n |-> W - 1]
            above == [k \in 1..n |-> W * share[k] + (W - 1)]
<1>4. \A k \in 1..n : C * w[k] \in Nat
  OBVIOUS
<1>5. \A k \in 1..n : /\ share[k] \in Nat
                      /\ W * share[k] <= C * w[k]
                      /\ C * w[k] <= W * share[k] + (W - 1)
  <2>1. W \in Nat
    BY <1>2, <1>3
  <2>. QED  BY <1>3, <1>4, <2>1, ShareBounds
<1>. HIDE DEF share
<1>6. \A k \in 1..n : W * share[k] \in Int
  <2>1. \A a \in Int, b \in Int : a * b \in Int
    OBVIOUS
  <2>2. \A k \in 1..n : share[k] \in Int
    BY <1>5
  <2>. QED  BY <1>2, <2>1, <2>2
<1>7. /\ IntTerms(share, n) /\ IntTerms(exact, n) /\ IntTerms(scaled, n)
      /\ IntTerms(one, n) /\ IntTerms(slack, n) /\ IntTerms(above, n)
  <2>1. \A k \in 1..n : W * share[k] + (W - 1) \in Int
    BY <1>2, <1>6
  <2>2. IntTerms(share, n)
    BY <1>5 DEF IntTerms
  <2>3. IntTerms(exact, n) /\ IntTerms(one, n)
    BY <1>4 DEF IntTerms
  <2>4. IntTerms(scaled, n) /\ IntTerms(slack, n)
    BY <1>2, <1>6 DEF IntTerms
  <2>5. IntTerms(above, n)
    BY <2>1 DEF IntTerms
  <2>. QED  BY <2>2, <2>3, <2>4, <2>5
<1>8. DOMAIN share = 1..n
  BY DEF share
<1>9. \A k \in 1..n : /\ Term(share, k) = share[k] /\ Term(exact, k) = C * w[k]
                      /\ Term(scaled, k) = W * share[k] /\ Term(one, k) = 1
                      /\ Term(slack, k) = W - 1
                      /\ Term(above, k) = W * share[k] + (W - 1)
  BY <1>8 DEF Term
<1>. HIDE DEF exact, scaled, one, slack, above
<1>10. Total(exact, n) = C * W
  BY <1>1, <1>7, <1>9, TotalScaled DEF W
<1>11. Total(scaled, n) = W * Total(share, n)
  <2>1. \A k \in 1..n : Term(scaled, k) = W * Term(share, k)
    BY <1>9
  <2>. QED  BY <1>2, <1>7, <2>1, TotalScaled
<1>12. Total(slack, n) = (W - 1) * n
  <2>1. Total(one, n) = n
    BY <1>7, <1>9, TotalOnes
  <2>2. W - 1 \in Int /\ \A k \in 1..n : Term(slack, k) = (W - 1) * Term(one, k)
    BY <1>2, <1>9
  <2>. QED  BY <1>7, <2>1, <2>2, TotalScaled
<1>13. Total(above, n) = Total(scaled, n) + Total(slack, n)
  <2>1. \A k \in 1..n : Term(above, k) = Term(scaled, k) + Term(slack, k)
    BY <1>9
  <2>. QED  BY <1>7, <2>1, TotalSum
<1>14. Total(scaled, n) <= Total(exact, n) /\ Total(exact, n) <= Total(above, n)
  BY <1>5, <1>7, <1>9, TotalMonotone
<1>15. Total(share, n) \in Int
  <2>1. n \in 0..n
    OBVIOUS
  <2>. QED  BY <1>7, <2>1, TermInt
<1>. DEFINE S == Total(share, n)
<1>16. W * S <= C * W /\ C * W <= W * S + (W - 1) * n
  BY <1>10, <1>11, <1>12, <1>13, <1>14
<1>17. S \in Int /\ W \in Nat
  BY <1>2, <1>3, <1>15
<1>. HIDE DEF S
<1>18. C - S >= 0
  <2>1. W * S < W * (C + 1)
    <3>1. W * (C + 1) = C * W + W
      BY <1>17
    <3>2. W * S \in Int /\ C * W \in Int
      BY <1>17
    <3>. QED  BY <1>3, <1>16, <1>17, <3>1, <3>2
  <2>2. S < C + 1
    BY <1>3, <1>17, <2>1, CancelFactor
  <2>. QED  BY <1>17, <2>2
<1>19. C - S < n
  <2>1. W * (C - S) < W * n
    <3>1. W * (C - S) = C * W - W * S
      BY <1>17
    <3>2. (W - 1) * n = W * n - n
      BY <1>17
    <3>3. W * S \in Int /\ C * W \in Int /\ W * n \in Int
      BY <1>17
    <3>. QED  BY <1>16, <1>17, <3>1, <3>2, <3>3
  <2>. QED  BY <1>3, <1>17, <2>1, CancelFactor
<1>20. C - S \in 0..(n-1)
  BY <1>17, <1>18, <1>19
<1>21. \A k \in 1..n : (C * w[k]) \div W \in Nat
  BY <1>5 DEF share
<1>. QED  BY <1>3, <1>17, <1>20, <1>21 DEF S, share, W

-----------------------------------------------------------------------------
(* Members of a list.                                                      *)

DistinctNames == Distinct([k \in DOMAIN members |-> members[k].name])
DistinctEngines == Distinct([k \in DOMAIN members |-> members[k].engine])

\* What the list's member k makes of its share.
Share(k) == (InitialCapital * members[k].weight) \div TotalWeight
Made(k) == Balance(members[k].engine, Share(k))

LEMMA MemberFacts ==
  ASSUME members \in Members
  PROVE  /\ Len(members) \in Nat \ {0} /\ DOMAIN members = 1..Len(members)
         /\ \A k \in DOMAIN members :
              members[k].engine \in Engines /\ members[k].weight \in Nat
         /\ \E k \in DOMAIN members : members[k].weight > 0
<1>1. /\ members \in Seq(ToSet(members))
      /\ \A k \in DOMAIN members :
           members[k].engine \in Engines /\ members[k].weight \in Nat
      /\ \E k \in DOMAIN members : members[k].weight > 0
  BY PortfolioAssumption
<1>2. Len(members) \in Nat /\ DOMAIN members = 1..Len(members)
  BY <1>1, LenProperties
<1>. QED  BY <1>1, <1>2

\* The shares of a list lack less than a unit of capital per member.
LEMMA SharesOfList ==
  ASSUME members \in Members
  PROVE  /\ \A k \in DOMAIN members : Share(k) \in Nat
         /\ InitialCapital - SumSeq([k \in DOMAIN members |-> Share(k)])
              \in 0..(Len(members) - 1)
<1>. DEFINE n == Len(members)
            w == [k \in 1..n |-> members[k].weight]
            s == [k \in 1..n |-> Share(k)]
<1>1. /\ n \in Nat \ {0} /\ DOMAIN members = 1..n
      /\ \A k \in 1..n : members[k].weight \in Nat
      /\ \E k \in 1..n : members[k].weight > 0
  BY MemberFacts
<1>2. InitialCapital \in Nat
  BY PortfolioAssumption
<1>. HIDE DEF n
<1>3. w \in [1..n -> Nat] /\ DOMAIN w = 1..n /\ Len(w) = n
  BY <1>1
<1>4. PICK m \in 1..n : w[m] > 0
  BY <1>1
<1>5. TotalWeight = Total(w, n)
  <2>1. [k \in DOMAIN members |-> members[k].weight] = w
    BY <1>1
  <2>. QED  BY <1>3, <2>1 DEF TotalWeight, SumSeq
<1>6. s = [k \in 1..n |-> (InitialCapital * w[k]) \div Total(w, n)]
  BY <1>5 DEF Share
<1>7. /\ \A k \in 1..n : (InitialCapital * w[k]) \div Total(w, n) \in Nat
      /\ InitialCapital - Total([k \in 1..n |-> (InitialCapital * w[k]) \div Total(w, n)], n)
           \in 0..(n-1)
  <2>. HIDE DEF w
  <2>. QED  BY <1>1, <1>2, <1>3, <1>4, SharesAddUp
<1>8. \A k \in 1..n : Share(k) \in Nat
  BY <1>5, <1>7 DEF Share
<1>9. Len(s) = n /\ SumSeq(s) = Total(s, n)
  <2>1. Len(s) = n
    BY <1>1
  <2>. QED  BY <2>1 DEF SumSeq
<1>10. [k \in DOMAIN members |-> Share(k)] = s
  BY <1>1
<1>. QED  BY <1>1, <1>6, <1>7, <1>8, <1>9, <1>10 DEF n

\* A name of its own has the weight of its member.
LEMMA WeightByName ==
  ASSUME members \in Members, DistinctNames, NEW k \in DOMAIN members
  PROVE  CapitalShare(k) = Share(k)
<1>1. DOMAIN members = 1..Len(members) /\ Len(members) \in Nat
  BY MemberFacts
<1>. DEFINE I == {i \in 1..Len(members) : members[i].name = members[k].name}
<1>2. I = {k}
  BY <1>1 DEF DistinctNames, Distinct
<1>3. Max({k}) = k
  <2>1. k \in Int
    BY <1>1
  <2>. QED  BY <2>1 DEF Max
<1>4. Weight(members[k].name) = members[k].weight
  BY <1>2, <1>3 DEF Weight, SelectLastInSeq
<1>. QED  BY <1>4 DEF CapitalShare, Share

-----------------------------------------------------------------------------
(* Shares of a tree.                                                       *)

LEMMA TreeFacts ==
  ASSUME NEW t, IsTree(t)
  PROVE  /\ Len(t) \in Nat \ {0} /\ DOMAIN t = 1..Len(t)
         /\ \A n \in DOMAIN t :
              /\ t[n].weight \in Nat /\ t[n].parent \in Nat /\ t[n].parent < n
              /\ t[n].max \in Nat \cup {None} /\ t[n].engine \in Engines \cup {None}
              /\ t[n].parent = 0 <=> n = 1
              /\ n # 1 => t[n].parent \in DOMAIN t /\ t[t[n].parent].engine = None
<1>1. t \in Seq(TreeNode) /\ Len(t) > 0
  BY DEF IsTree
<1>2. Len(t) \in Nat \ {0} /\ DOMAIN t = 1..Len(t) /\ \A n \in DOMAIN t : t[n] \in TreeNode
  BY <1>1, LenProperties, ElementOfSeq
<1>3. ASSUME NEW n \in DOMAIN t
      PROVE  /\ t[n].weight \in Nat /\ t[n].parent \in Nat
             /\ t[n].max \in Nat \cup {None} /\ t[n].engine \in Engines \cup {None}
  BY <1>2 DEF TreeNode
<1>4. ASSUME NEW n \in DOMAIN t
      PROVE  /\ t[n].parent < n /\ (t[n].parent = 0 <=> n = 1)
             /\ n # 1 => t[t[n].parent].engine = None
  BY DEF IsTree
<1>5. ASSUME NEW n \in DOMAIN t, n # 1
      PROVE  t[n].parent \in DOMAIN t
  BY <1>2, <1>3, <1>4, <1>5
<1>. QED  BY <1>2, <1>3, <1>4, <1>5

\* What a node is asked for, of the shares of the nodes before it.
Asked(t, share, n) ==
  IF n = 1 THEN WHOLE
  ELSE IF share[t[n].parent] = None \/ ChildWeight(t, t[n].parent) <= 0 THEN None
  ELSE (share[t[n].parent] * t[n].weight) \div ChildWeight(t, t[n].parent)

\* The shares of the first nodes.
Handed(t, m, share) ==
  share = [n \in 1..m |-> Asked(t, share, n)]

\* The function that hands out shares is defined on every tree, since a parent
\* comes before its children.
LEMMA SharesExist ==
  ASSUME NEW t, IsTree(t)
  PROVE  \A m \in 0..Len(t) : \E share : Handed(t, m, share)
<1>. DEFINE B == {m \in 0..Len(t) : ~ \E share : Handed(t, m, share)}
<1>1. Len(t) \in Nat /\ \A n \in 1..Len(t) :
         t[n].parent \in Nat /\ t[n].parent < n /\ (t[n].parent = 0 <=> n = 1)
  BY TreeFacts
<1>2. ASSUME B # {} PROVE FALSE
  <2>1. B \in SUBSET Nat
    BY <1>1
  <2>2. PICK m \in B : \A k \in B : m <= k
    BY <1>2, <2>1, LeastNatural
  <2>3. m # 0
    <3>1. 1..0 = {}
      OBVIOUS
    <3>2. Handed(t, 0, [n \in {} |-> Asked(t, << >>, n)])
      BY <3>1, Zenon DEF Handed
    <3>. QED  BY <2>2, <3>2
  <2>4. m \in 1..Len(t) /\ m - 1 \in 0..Len(t) /\ ~ (m <= m - 1)
    BY <1>1, <2>2, <2>3
  <2>5. PICK s : Handed(t, m - 1, s)
    BY <2>2, <2>4
  <2>. DEFINE r == [n \in 1..m |-> IF n = m THEN Asked(t, s, m) ELSE s[n]]
  <2>6. ASSUME NEW n \in 1..m PROVE Asked(t, r, n) = Asked(t, s, n)
    <3>1. CASE n = 1
      BY <3>1 DEF Asked
    <3>2. CASE n # 1
      <4>1. n \in 1..Len(t)
        BY <1>1, <2>4
      <4>2. t[n].parent \in 1..m /\ t[n].parent # m
        BY <1>1, <2>4, <3>2, <4>1
      <4>3. r[t[n].parent] = s[t[n].parent]
        BY <4>2
      <4>. HIDE DEF r
      <4>. QED  BY <4>3 DEF Asked
    <3>. QED  BY <3>1, <3>2
  <2>7. ASSUME NEW n \in 1..m PROVE r[n] = Asked(t, s, n)
    <3>1. n = m \/ n \in 1..(m-1)
      BY <2>4
    <3>2. m \notin 1..(m-1)
      BY <2>4
    <3>. QED  BY <2>5, <3>1, <3>2 DEF Handed
  <2>8. Handed(t, m, r)
    <3>1. \A n \in 1..m : (IF n = m THEN Asked(t, s, m) ELSE s[n]) = Asked(t, r, n)
      BY <2>6, <2>7
    <3>2. r = [n \in 1..m |-> Asked(t, r, n)]
      BY <3>1, Zenon
    <3>. QED  BY <3>2, Zenon DEF Handed
  <2>. QED  BY <2>2, <2>8
<1>. QED  BY <1>2

LEMMA RequestedShares ==
  ASSUME NEW t, IsTree(t)
  PROVE  Handed(t, Len(t), Requested(t))
<1>. DEFINE P(s) == s = [n \in DOMAIN t |->
                          IF n = 1 THEN WHOLE
                          ELSE LET p == t[n].parent
                               IN  IF s[p] = None \/ ChildWeight(t, p) <= 0 THEN None
                                   ELSE (s[p] * t[n].weight) \div ChildWeight(t, p)]
<1>1. Len(t) \in Nat /\ DOMAIN t = 1..Len(t)
  BY TreeFacts
<1>2. PICK h : Handed(t, Len(t), h)
  BY <1>1, SharesExist
<1>3. P(h)
  BY <1>1, <1>2, Zenon DEF Handed, Asked
<1>4. P(CHOOSE s : P(s))
  BY <1>3, Zenon
<1>5. Requested(t) = CHOOSE s : P(s)
  BY Zenon DEF Requested
<1>6. P(Requested(t))
  BY <1>4, <1>5, Zenon
<1>. QED  BY <1>1, <1>6, Zenon DEF Handed, Asked

Weights(t, n) == [c \in Children(t, n) |-> t[c].weight]

LEMMA ChildWeights ==
  ASSUME NEW t, IsTree(t), NEW n
  PROVE  /\ ChildWeight(t, n) = Total(Weights(t, n), Len(t)) /\ ChildWeight(t, n) \in Nat
         /\ IntTerms(Weights(t, n), Len(t))
         /\ \A k \in 1..Len(t) :
              Term(Weights(t, n), k) = IF k \in Children(t, n) THEN t[k].weight ELSE 0
<1>. DEFINE N == Len(t)
<1>1. N \in Nat /\ DOMAIN t = 1..N /\ \A k \in 1..N : t[k].weight \in Nat
  BY TreeFacts
<1>2. Children(t, n) \subseteq 1..N
  BY <1>1 DEF Children
<1>. HIDE DEF N
<1>3. IntTerms(Weights(t, n), N)
  BY <1>1, <1>2 DEF IntTerms, Weights
<1>4. \A k \in 1..N : Term(Weights(t, n), k) = IF k \in Children(t, n) THEN t[k].weight ELSE 0
  BY DEF Term, Weights
<1>5. Total(Weights(t, n), N) \in Nat
  <2>1. \A k \in 1..N : Term(Weights(t, n), k) >= 0
    BY <1>1, <1>4
  <2>. QED  BY <1>1, <1>3, <2>1, TotalNotNegative
<1>6. ChildWeight(t, n) = Total(Weights(t, n), N)
  BY Zenon DEF ChildWeight, Weights, N
<1>. QED  BY <1>3, <1>4, <1>5, <1>6 DEF N

\* What a node is asked for, where None counts nothing.
Worth(t, n) == IF Requested(t)[n] = None THEN 0 ELSE Requested(t)[n]

LEMMA WorthOfNodes ==
  ASSUME NEW t, IsTree(t)
  PROVE  /\ Worth(t, 1) = WHOLE
         /\ \A n \in 1..Len(t) :
              /\ Requested(t)[n] \in Nat \cup {None} /\ Worth(t, n) \in Nat
              /\ n # 1 /\ ChildWeight(t, t[n].parent) <= 0 => Worth(t, n) = 0
              /\ n # 1 /\ ChildWeight(t, t[n].parent) > 0 =>
                   ChildWeight(t, t[n].parent) * Worth(t, n) <= Worth(t, t[n].parent) * t[n].weight
<1>. DEFINE N == Len(t)
            R == Requested(t)
            B == {n \in 1..N : R[n] \notin Nat \cup {None}}
<1>1. /\ N \in Nat \ {0}
      /\ \A n \in 1..N :
           /\ t[n].weight \in Nat /\ t[n].parent \in Nat /\ t[n].parent < n
           /\ n # 1 => t[n].parent \in 1..N
  BY TreeFacts
<1>2. \A n \in 1..N : R[n] = Asked(t, R, n)
  BY RequestedShares DEF Handed
<1>3. WHOLE \in Nat /\ None \notin Int
  BY PortfolioAssumption
<1>4. \A n : ChildWeight(t, n) \in Nat
  BY ChildWeights
<1>. HIDE DEF R, N
<1>5. ASSUME B # {} PROVE FALSE
  <2>1. B \in SUBSET Nat
    BY <1>1
  <2>2. PICK n \in B : \A k \in B : n <= k
    BY <1>5, <2>1, LeastNatural
  <2>3. n \in 1..N /\ R[n] \notin Nat \cup {None}
    BY <2>2
  <2>4. n # 1
    BY <1>2, <1>3, <2>3 DEF Asked
  <2>5. t[n].parent \in 1..N /\ ~ (n <= t[n].parent)
    BY <1>1, <2>3, <2>4
  <2>6. R[t[n].parent] \in Nat \cup {None}
    BY <2>2, <2>5
  <2>7. /\ R[t[n].parent] # None /\ ~ (ChildWeight(t, t[n].parent) <= 0)
        /\ R[n] = (R[t[n].parent] * t[n].weight) \div ChildWeight(t, t[n].parent)
    BY <1>2, <2>3, <2>4 DEF Asked
  <2>8. \A r \in Nat, w \in Nat, c \in Nat : c > 0 => (r * w) \div c \in Nat
    BY ProductNat, ShareBounds
  <2>9. R[n] \in Nat
    BY <1>1, <1>4, <2>3, <2>6, <2>7, <2>8
  <2>. QED  BY <2>3, <2>9
<1>6. \A n \in 1..N : R[n] \in Nat \cup {None}
  BY <1>5
<1>7. \A n : Worth(t, n) = IF R[n] = None THEN 0 ELSE R[n]
  BY DEF Worth, R
<1>8. \A n \in 1..N : Worth(t, n) \in Nat
  BY <1>6, <1>7
<1>9. Worth(t, 1) = WHOLE
  <2>1. R[1] = WHOLE
    BY <1>1, <1>2 DEF Asked
  <2>. QED  BY <1>3, <1>7, <2>1
<1>10. ASSUME NEW n \in 1..N, n # 1, ChildWeight(t, t[n].parent) <= 0
       PROVE  Worth(t, n) = 0
  <2>1. R[n] = None
    BY <1>2, <1>10 DEF Asked
  <2>. QED  BY <1>7, <2>1
<1>11. ASSUME NEW n \in 1..N, n # 1, ChildWeight(t, t[n].parent) > 0
       PROVE  ChildWeight(t, t[n].parent) * Worth(t, n) <= Worth(t, t[n].parent) * t[n].weight
  <2>. DEFINE p == t[n].parent
              c == ChildWeight(t, p)
              w == t[n].weight
  <2>1. p \in 1..N /\ c \in Nat /\ c > 0 /\ w \in Nat
    BY <1>1, <1>4, <1>11
  <2>2. R[n] = IF R[p] = None THEN None ELSE (R[p] * w) \div c
    <3>1. ~ (c <= 0)
      BY <2>1
    <3>. QED  BY <1>2, <1>11, <3>1 DEF Asked
  <2>. HIDE DEF p, c, w
  <2>3. CASE R[p] = None
    <3>1. Worth(t, n) = 0 /\ Worth(t, p) = 0
      BY <1>7, <2>2, <2>3
    <3>2. c * 0 <= 0 * w
      BY <2>1
    <3>. QED  BY <3>1, <3>2 DEF p, c, w
  <2>4. CASE R[p] # None
    <3>1. R[p] \in Nat /\ R[n] = (R[p] * w) \div c
      BY <1>6, <2>1, <2>2, <2>4
    <3>2. R[n] \in Nat /\ c * R[n] <= R[p] * w
      BY <2>1, <3>1, ProductNat, ShareBounds
    <3>3. Worth(t, n) = R[n] /\ Worth(t, p) = R[p]
      BY <1>3, <1>7, <2>4, <3>2
    <3>. QED  BY <3>2, <3>3 DEF p, c, w
  <2>. QED  BY <2>3, <2>4
<1>. QED  BY <1>6, <1>8, <1>9, <1>10, <1>11 DEF N, R

\* The children of a node are not asked for more than the node is.
Kids(t, n) == [c \in Children(t, n) |-> Worth(t, c)]

LEMMA KidsWorth ==
  ASSUME NEW t, IsTree(t), NEW n \in 1..Len(t)
  PROVE  /\ IntTerms(Kids(t, n), Len(t)) /\ Total(Kids(t, n), Len(t)) \in Int
         /\ \A k \in 1..Len(t) : Term(Kids(t, n), k) = IF k \in Children(t, n) THEN Worth(t, k) ELSE 0
         /\ Total(Kids(t, n), Len(t)) <= Worth(t, n)
<1>. DEFINE N == Len(t)
            K == Kids(t, n)
            W == Weights(t, n)
            c == ChildWeight(t, n)
            x == Worth(t, n)
<1>1. /\ N \in Nat /\ DOMAIN t = 1..N /\ t[1].parent = 0
      /\ \A k \in 1..N : t[k].weight \in Nat
  <2>1. 1 \in 1..N
    BY TreeFacts
  <2>. QED  BY <2>1, TreeFacts
<1>2. /\ \A k \in 1..N : Worth(t, k) \in Nat
      /\ x \in Nat
      /\ \A k \in Children(t, n) : /\ k \in 1..N
                                   /\ c <= 0 => Worth(t, k) = 0
                                   /\ c > 0 => c * Worth(t, k) <= x * t[k].weight
  <2>1. \A k \in Children(t, n) : k \in 1..N /\ t[k].parent = n
    BY <1>1 DEF Children
  <2>2. \A k \in Children(t, n) : k # 1
    BY <1>1, <2>1
  <2>. QED  BY <2>1, <2>2, WorthOfNodes
<1>3. /\ c = Total(W, N) /\ c \in Nat /\ IntTerms(W, N)
      /\ \A k \in 1..N : Term(W, k) = IF k \in Children(t, n) THEN t[k].weight ELSE 0
  BY ChildWeights
<1>4. /\ \A k \in 1..N : Term(K, k) = IF k \in Children(t, n) THEN Worth(t, k) ELSE 0
      /\ IntTerms(K, N)
  BY <1>2 DEF Kids, Term, IntTerms
<1>. HIDE DEF N, K, W, c, x
<1>5. Total(K, N) \in Int
  <2>1. N \in 0..N
    BY <1>1
  <2>. QED  BY <1>1, <1>4, <2>1, TermInt
<1>6. CASE c <= 0
  <2>1. \A k \in 1..N : Term(K, k) = 0
    BY <1>2, <1>4, <1>6
  <2>2. Total(K, N) = 0
    BY <1>1, <1>4, <2>1, TotalNothing
  <2>. QED  BY <1>2, <1>4, <1>5, <2>2 DEF N, K, x
<1>7. CASE c > 0
  <2>1. ASSUME NEW k \in 1..N PROVE c * Term(K, k) <= x * Term(W, k)
    <3>1. CASE k \in Children(t, n)
      BY <1>2, <1>3, <1>4, <1>7, <3>1
    <3>2. CASE k \notin Children(t, n)
      <4>1. c * 0 <= x * 0
        BY <1>2, <1>3
      <4>. QED  BY <1>3, <1>4, <3>2, <4>1
    <3>. QED  BY <3>1, <3>2
  <2>2. c * Total(K, N) <= x * Total(W, N)
    <3>1. \A k \in 1..N : c * Term(K, k) <= x * Term(W, k)
      BY <2>1
    <3>2. N \in Nat /\ c \in Int /\ x \in Int /\ IntTerms(W, N) /\ IntTerms(K, N)
      BY <1>1, <1>2, <1>3, <1>4
    <3>. QED  BY <3>1, <3>2, TotalShare
  <2>3. c * Total(K, N) <= c * x
    BY <1>2, <1>3, <1>5, <2>2
  <2>4. Total(K, N) <= x
    BY <1>2, <1>3, <1>5, <1>7, <2>3, Cancel
  <2>. QED  BY <1>4, <1>5, <2>4 DEF N, K, x
<1>. QED  BY <1>3, <1>6, <1>7

\* When the first m nodes have handed on what they were asked for, it is with the
\* leaves among them and with the nodes after them that they are parents of.
Holders(t, m) == {n \in DOMAIN t : t[n].parent <= m /\ (n > m \/ IsLeaf(t, n))}
HeldWorth(t, m) == [n \in Holders(t, m) |-> Worth(t, n)]

LEMMA HolderTerms ==
  ASSUME NEW t, IsTree(t), NEW m
  PROVE  /\ IntTerms(HeldWorth(t, m), Len(t)) /\ Total(HeldWorth(t, m), Len(t)) \in Int
         /\ \A k \in 1..Len(t) :
              Term(HeldWorth(t, m), k) = IF k \in Holders(t, m) THEN Worth(t, k) ELSE 0
<1>1. Len(t) \in Nat /\ Len(t) \in 0..Len(t) /\ \A k \in 1..Len(t) : Worth(t, k) \in Nat
  BY TreeFacts, WorthOfNodes
<1>2. \A k \in 1..Len(t) :
        Term(HeldWorth(t, m), k) = IF k \in Holders(t, m) THEN Worth(t, k) ELSE 0
  BY DEF HeldWorth, Term
<1>3. IntTerms(HeldWorth(t, m), Len(t))
  BY <1>1 DEF HeldWorth, IntTerms
<1>. QED  BY <1>1, <1>2, <1>3, TermInt

\* A leaf keeps what it was asked for, a branch hands it to its children.
LEMMA HandedOn ==
  ASSUME NEW t, IsTree(t), NEW m \in 1..Len(t)
  PROVE  Total(HeldWorth(t, m), Len(t)) <= Total(HeldWorth(t, m - 1), Len(t))
<1>. DEFINE N == Len(t)
            F == HeldWorth(t, m)
            G == HeldWorth(t, m - 1)
            K == Kids(t, m)
<1>1. /\ N \in Nat /\ m \in 1..N /\ DOMAIN t = 1..N
      /\ \A n \in 1..N : /\ t[n].parent \in Nat /\ t[n].parent < n
                         /\ n # 1 => t[t[n].parent].engine = None
                         /\ t[n].parent = 0 <=> n = 1
  BY TreeFacts
<1>2. /\ IntTerms(F, N) /\ Total(F, N) \in Int
      /\ \A k \in 1..N : Term(F, k) = IF k \in Holders(t, m) THEN Worth(t, k) ELSE 0
  BY HolderTerms
<1>3. /\ IntTerms(G, N) /\ Total(G, N) \in Int
      /\ \A k \in 1..N : Term(G, k) = IF k \in Holders(t, m - 1) THEN Worth(t, k) ELSE 0
  BY HolderTerms
<1>4. /\ IntTerms(K, N) /\ Total(K, N) \in Int /\ Total(K, N) <= Worth(t, m)
      /\ \A k \in 1..N : Term(K, k) = IF k \in Children(t, m) THEN Worth(t, k) ELSE 0
  BY KidsWorth
<1>5. \A k \in 1..N : Worth(t, k) \in Nat
  BY WorthOfNodes
<1>6. \A k \in 1..N :
        /\ k \in Holders(t, m) <=> t[k].parent <= m /\ (k > m \/ t[k].engine # None)
        /\ k \in Holders(t, m - 1) <=> t[k].parent <= m - 1 /\ (k > m - 1 \/ t[k].engine # None)
        /\ k \in Children(t, m) <=> t[k].parent = m
  BY <1>1 DEF Holders, Children, IsLeaf
<1>. HIDE DEF N, F, G, K
<1>7. CASE t[m].engine # None
  <2>1. \A k \in 1..N : t[k].parent # m
    BY <1>1, <1>7
  <2>2. \A k \in 1..N : k \in Holders(t, m) <=> k \in Holders(t, m - 1)
    <3>1. ASSUME NEW k \in 1..N PROVE k \in Holders(t, m) <=> k \in Holders(t, m - 1)
      <4>1. t[k].parent <= m <=> t[k].parent <= m - 1
        BY <1>1, <2>1
      <4>2. k > m - 1 <=> k > m \/ k = m
        BY <1>1
      <4>. QED  BY <1>6, <1>7, <4>1, <4>2
    <3>. QED  BY <3>1
  <2>3. \A k \in 1..N : Term(F, k) = Term(G, k)
    BY <1>2, <1>3, <2>2
  <2>4. Total(F, N) = Total(G, N)
    BY <1>1, <1>2, <1>3, <2>3, TotalSame
  <2>. QED  BY <1>2, <2>4 DEF N, F, G
<1>8. CASE t[m].engine = None
  <2>. DEFINE own == [k \in {m} |-> Worth(t, m)]
              both == [k \in 1..N |-> Term(G, k) + Term(K, k)]
  <2>1. /\ IntTerms(own, N) /\ Total(own, N) = Worth(t, m)
        /\ \A k \in 1..N : Term(own, k) = IF k = m THEN Worth(t, m) ELSE 0
    <3>1. DOMAIN own = {m} /\ own[m] = Worth(t, m) /\ own[m] \in Int
      BY <1>1, <1>5
    <3>2. \A k \in 1..N : Term(own, k) = IF k = m THEN Worth(t, m) ELSE 0
      BY <3>1 DEF Term
    <3>. HIDE DEF own
    <3>. QED  BY <1>1, <3>1, <3>2, TotalSingle
  <2>2. \A k \in 1..N : Term(F, k) \in Int /\ Term(G, k) \in Int /\ Term(K, k) \in Int
    BY <1>1, <1>2, <1>3, <1>4, TermInt
  <2>3. IntTerms(both, N) /\ \A k \in 1..N : Term(both, k) = Term(G, k) + Term(K, k)
    BY <2>2 DEF IntTerms, Term
  <2>. HIDE DEF own, both
  <2>4. ASSUME NEW k \in 1..N PROVE Term(both, k) = Term(F, k) + Term(own, k)
    <3>1. CASE k = m
      <4>1. k \notin Holders(t, m) /\ k \in Holders(t, m - 1) /\ k \notin Children(t, m)
        BY <1>1, <1>6, <1>8, <3>1
      <4>. QED  BY <1>2, <1>3, <1>4, <1>5, <2>1, <2>3, <3>1, <4>1
    <3>2. CASE k # m /\ t[k].parent = m
      <4>1. k \in Holders(t, m) /\ k \notin Holders(t, m - 1) /\ k \in Children(t, m)
        BY <1>1, <1>6, <3>2
      <4>. QED  BY <1>2, <1>3, <1>4, <1>5, <2>1, <2>3, <3>2, <4>1
    <3>3. CASE k # m /\ t[k].parent # m
      <4>1. k \in Holders(t, m) <=> k \in Holders(t, m - 1)
        <5>1. t[k].parent <= m <=> t[k].parent <= m - 1
          BY <1>1, <3>3
        <5>2. k > m - 1 <=> k > m
          BY <1>1, <3>3
        <5>. QED  BY <1>6, <5>1, <5>2
      <4>2. k \notin Children(t, m)
        BY <1>6, <3>3
      <4>. QED  BY <1>2, <1>3, <1>4, <1>5, <2>1, <2>3, <3>3, <4>1, <4>2
    <3>. QED  BY <3>1, <3>2, <3>3
  <2>5. Total(both, N) = Total(G, N) + Total(K, N)
    BY <1>1, <1>3, <1>4, <2>3, TotalSum
  <2>6. Total(both, N) = Total(F, N) + Total(own, N)
    BY <1>1, <1>2, <2>1, <2>3, <2>4, TotalSum
  <2>7. Total(F, N) <= Total(G, N)
    BY <1>1, <1>2, <1>3, <1>4, <1>5, <2>1, <2>5, <2>6
  <2>. QED  BY <2>7 DEF N, F, G
<1>. QED  BY <1>7, <1>8

LEMMA HoldersKeepWhole ==
  ASSUME NEW t, IsTree(t)
  PROVE  \A m \in 0..Len(t) : Total(HeldWorth(t, m), Len(t)) <= WHOLE
<1>. DEFINE N == Len(t)
            B == {m \in 0..N : ~ (Total(HeldWorth(t, m), N) <= WHOLE)}
<1>1. /\ N \in Nat /\ 1 \in 1..N /\ DOMAIN t = 1..N /\ WHOLE \in Int
      /\ \A n \in 1..N : t[n].parent \in Nat /\ (t[n].parent = 0 <=> n = 1)
  BY TreeFacts, PortfolioAssumption
<1>2. Total(HeldWorth(t, 0), N) = WHOLE
  <2>1. Holders(t, 0) = {1}
    BY <1>1 DEF Holders
  <2>2. DOMAIN HeldWorth(t, 0) = {1} /\ HeldWorth(t, 0)[1] = WHOLE
    BY <2>1, WorthOfNodes DEF HeldWorth
  <2>. HIDE DEF N
  <2>. QED  BY <1>1, <2>2, TotalSingle
<1>3. ASSUME B # {} PROVE FALSE
  <2>1. B \in SUBSET Nat
    BY <1>1
  <2>2. PICK m \in B : \A k \in B : m <= k
    BY <1>3, <2>1, LeastNatural
  <2>3. m \in 1..N /\ m - 1 \in 0..N /\ ~ (m <= m - 1)
    BY <1>1, <1>2, <2>2
  <2>4. Total(HeldWorth(t, m - 1), N) <= WHOLE
    BY <2>2, <2>3
  <2>5. Total(HeldWorth(t, m), N) <= Total(HeldWorth(t, m - 1), N)
    BY <2>3, HandedOn
  <2>6. Total(HeldWorth(t, m), N) \in Int /\ Total(HeldWorth(t, m - 1), N) \in Int
    BY HolderTerms
  <2>. HIDE DEF N
  <2>. QED  BY <1>1, <2>2, <2>4, <2>5, <2>6
<1>. QED  BY <1>3

\* A total of terms that are not negative is not below any of them.
LEMMA TermBelowTotal ==
  ASSUME NEW N \in Nat, NEW f, IntTerms(f, N), \A k \in 1..N : Term(f, k) >= 0,
         NEW m \in 1..N
  PROVE  Term(f, m) <= Total(f, N)
<1>. DEFINE own == [k \in {m} |-> Term(f, m)]
<1>1. \A k \in 1..N : Term(f, k) \in Int
  BY TermInt
<1>2. DOMAIN own = {m} /\ own[m] = Term(f, m) /\ own[m] \in Int
  BY <1>1
<1>3. \A k \in 1..N : Term(own, k) = IF k = m THEN Term(f, m) ELSE 0
  BY <1>2 DEF Term
<1>. HIDE DEF own
<1>4. Total(own, N) = Term(f, m) /\ IntTerms(own, N)
  BY <1>2, TotalSingle
<1>5. \A k \in 1..N : Term(own, k) <= Term(f, k)
  BY <1>1, <1>3
<1>6. Total(own, N) <= Total(f, N)
  BY <1>4, <1>5, TotalMonotone
<1>. QED  BY <1>4, <1>6

\* A total of ones counts.
LEMMA TotalCounts ==
  ASSUME NEW N \in Nat, NEW S \in SUBSET (1..N)
  PROVE  /\ Cardinality(S) \in Nat
         /\ IntTerms([k \in S |-> 1], N) /\ Total([k \in S |-> 1], N) = Cardinality(S)
         /\ \A k \in 1..N : Term([j \in S |-> 1], k) = IF k \in S THEN 1 ELSE 0
<1>. DEFINE one == [k \in S |-> 1]
            upto(n) == S \cap (1..n)
            B == {n \in 0..N : Total(one, n) # Cardinality(upto(n))}
<1>0. S \cap (1..N) = S /\ N \in 0..N
  <2>1. S \cap (1..N) = S
    BY Zenon
  <2>2. N \in 0..N
    OBVIOUS
  <2>. QED  BY <2>1, <2>2
<1>1. /\ IntTerms(one, N)
      /\ \A k \in 1..N : Term(one, k) = IF k \in S THEN 1 ELSE 0
  BY DEF IntTerms, Term
<1>. HIDE DEF one
<1>2. \A n \in 0..N : IsFiniteSet(upto(n)) /\ Cardinality(upto(n)) \in Nat
  <2>1. ASSUME NEW n \in 0..N PROVE IsFiniteSet(upto(n)) /\ Cardinality(upto(n)) \in Nat
    <3>1. IsFiniteSet(1..n)
      BY FS_Interval
    <3>. QED  BY <3>1, FS_Subset, FS_CardinalityType
  <2>. QED  BY <2>1
<1>3. ASSUME B # {} PROVE FALSE
  <2>1. B \in SUBSET Nat
    OBVIOUS
  <2>2. PICK n \in B : \A k \in B : n <= k
    BY <1>3, <2>1, LeastNatural
  <2>3. Total(one, 0) = 0 /\ \A k \in 1..N : Total(one, k) = Total(one, k-1) + Term(one, k)
    BY <1>1, TotalRecursion
  <2>4. n # 0
    <3>1. upto(0) = {}
      OBVIOUS
    <3>2. Cardinality(upto(0)) = 0
      BY <3>1, FS_EmptySet
    <3>. QED  BY <2>2, <2>3, <3>2
  <2>5. n \in 1..N /\ n - 1 \in 0..N /\ ~ (n <= n - 1)
    BY <2>2, <2>4
  <2>6. Total(one, n - 1) = Cardinality(upto(n - 1))
    BY <2>2, <2>5
  <2>7. CASE n \in S
    <3>1. upto(n) = upto(n - 1) \cup {n} /\ n \notin upto(n - 1)
      BY <2>5, <2>7
    <3>2. Cardinality(upto(n)) = Cardinality(upto(n - 1)) + 1
      BY <1>2, <2>5, <3>1, FS_AddElement
    <3>. QED  BY <1>1, <2>2, <2>3, <2>5, <2>6, <2>7, <3>2
  <2>8. CASE n \notin S
    <3>1. upto(n) = upto(n - 1)
      BY <2>5, <2>8
    <3>2. Cardinality(upto(n)) = Cardinality(upto(n - 1))
      BY <3>1
    <3>3. Total(one, n) = Total(one, n - 1) + 0 /\ Total(one, n - 1) \in Nat
      BY <1>1, <1>2, <2>3, <2>5, <2>6, <2>8
    <3>4. Total(one, n) # Cardinality(upto(n))
      BY <2>2
    <3>. HIDE DEF upto
    <3>. QED  BY <2>6, <3>2, <3>3, <3>4
  <2>. QED  BY <2>7, <2>8
<1>4. Total(one, N) = Cardinality(S)
  <2>1. upto(N) = S /\ N \in 0..N
    BY <1>0
  <2>2. Total(one, N) = Cardinality(upto(N))
    BY <1>3, <2>1
  <2>. QED  BY <2>1, <2>2
<1>5. Cardinality(S) \in Nat
  <2>1. upto(N) = S /\ N \in 0..N
    BY <1>0
  <2>. QED  BY <1>2, <2>1
<1>. QED  BY <1>1, <1>4, <1>5 DEF one

\* The leaves of a tree are not handed more than the whole.
LEMMA SharesOfTree ==
  ASSUME NEW t, IsTree(t)
  PROVE  /\ Leaves(t) \subseteq 1..Len(t)
         /\ LeafShares(t) \in [Leaves(t) -> 0..WHOLE]
         /\ IntTerms(LeafShares(t), Len(t))
         /\ Total(LeafShares(t), Len(t)) \in 0..WHOLE
<1>. DEFINE N == Len(t)
            L == LeafShares(t)
            F == HeldWorth(t, N)
<1>1. /\ N \in Nat /\ N \in 0..N /\ DOMAIN t = 1..N
      /\ \A n \in 1..N : /\ t[n].parent \in Nat /\ t[n].parent < n
                         /\ t[n].max \in Nat \cup {None}
  BY TreeFacts
<1>2. WHOLE \in Nat /\ None \notin Int
  BY PortfolioAssumption
<1>3. \A n \in 1..N : Requested(t)[n] \in Nat \cup {None} /\ Worth(t, n) \in Nat
  BY WorthOfNodes
<1>4. /\ IntTerms(F, N) /\ Total(F, N) \in Int /\ Total(F, N) <= WHOLE
      /\ \A k \in 1..N : Term(F, k) = IF k \in Holders(t, N) THEN Worth(t, k) ELSE 0
  BY <1>1, HolderTerms, HoldersKeepWhole
<1>. HIDE DEF N
<1>5. Leaves(t) \subseteq 1..N
  BY <1>1 DEF Leaves
<1>6. ASSUME NEW n \in Leaves(t)
      PROVE  /\ Applied(t, n) \in Nat /\ Applied(t, n) <= Worth(t, n)
             /\ n \in Holders(t, N)
  <2>1. n \in 1..N /\ IsLeaf(t, n) /\ Requested(t)[n] # None
    BY <1>5 DEF Leaves
  <2>2. Worth(t, n) = Requested(t)[n] /\ Requested(t)[n] \in Nat
    BY <1>3, <2>1 DEF Worth
  <2>3. Applied(t, n) \in Nat /\ Applied(t, n) <= Worth(t, n)
    BY <1>1, <2>1, <2>2 DEF Applied
  <2>4. n \in Holders(t, N)
    BY <1>1, <2>1 DEF Holders
  <2>. QED  BY <2>3, <2>4
<1>7. IntTerms(L, N) /\ \A k \in 1..N : Term(L, k) = IF k \in Leaves(t) THEN Applied(t, k) ELSE 0
  BY <1>6 DEF LeafShares, IntTerms, Term
<1>. HIDE DEF L, F
<1>8. \A k \in 1..N : Term(L, k) >= 0 /\ Term(L, k) <= Term(F, k)
  BY <1>3, <1>4, <1>6, <1>7
<1>9. Total(L, N) <= Total(F, N) /\ Total(L, N) \in Nat
  BY <1>1, <1>4, <1>7, <1>8, TotalMonotone, TotalNotNegative
<1>10. Total(L, N) \in 0..WHOLE
  BY <1>2, <1>4, <1>9
<1>11. ASSUME NEW n \in Leaves(t) PROVE Applied(t, n) \in 0..WHOLE
  <2>1. Term(L, n) <= Total(L, N)
    BY <1>1, <1>5, <1>7, <1>8, TermBelowTotal
  <2>2. Term(L, n) = Applied(t, n)
    BY <1>5, <1>7
  <2>. QED  BY <1>2, <1>6, <1>10, <2>1, <2>2
<1>12. L \in [Leaves(t) -> 0..WHOLE]
  BY <1>11 DEF L, LeafShares
<1>. QED  BY <1>5, <1>7, <1>10, <1>12 DEF L, N

\* Rounding is off by half a unit at most.
LEMMA RoundedNear ==
  ASSUME NEW x \in Nat, NEW w \in Nat, w > 0
  PROVE  /\ Rounded(x, w) \in Nat
         /\ 2 * (w * Rounded(x, w)) <= 2 * x + w /\ 2 * x <= 2 * (w * Rounded(x, w)) + w
<1>. DEFINE q == x \div w
            m == x % w
<1>1. x = w * q + m /\ m \in 0..(w-1) /\ q \in Nat
  OBVIOUS
<1>2. /\ Rounded(x, w) \in {q, q + 1}
      /\ Rounded(x, w) = q => 2 * m <= w
      /\ Rounded(x, w) = q + 1 => 2 * m >= w
  BY <1>1 DEF Rounded
<1>. HIDE DEF q, m
<1>3. w * q \in Nat /\ w * (q + 1) = w * q + w
  BY <1>1
<1>4. CASE Rounded(x, w) = q
  BY <1>1, <1>2, <1>3, <1>4
<1>5. CASE Rounded(x, w) = q + 1
  BY <1>1, <1>2, <1>3, <1>5
<1>. QED  BY <1>2, <1>4, <1>5

\* Capital rounded to a share of each leaf, and the capital of the share no leaf
\* has: half a unit per leaf is lost or gained, and less than one of the rest.
LEMMA HandedOut ==
  ASSUME NEW N \in Nat, NEW S \in SUBSET (1..N), NEW share \in [S -> Nat],
         NEW I \in Nat, NEW w \in Nat, w > 0, Total(share, N) \in 0..w,
         NEW caps, DOMAIN caps = S, \A k \in S : caps[k] = Rounded(I * share[k], w)
  PROVE  /\ Total(caps, N) \in Int /\ (I * (w - Total(share, N))) \div w \in Nat
         /\ 2 * ((Total(caps, N) + ((I * (w - Total(share, N))) \div w)) - I)
              \in -(Cardinality(S) + 1)..Cardinality(S)
<1>. DEFINE one == [k \in S |-> 1]
            A == Total(share, N)
            C == Total(caps, N)
            n == Cardinality(S)
            idle == (I * (w - A)) \div w
<1>1. /\ n \in Nat /\ IntTerms(one, N) /\ Total(one, N) = n
      /\ \A k \in 1..N : Term(one, k) = IF k \in S THEN 1 ELSE 0
  BY TotalCounts
<1>2. \A k \in S : /\ I * share[k] \in Nat /\ caps[k] \in Nat
                   /\ 2 * (w * caps[k]) <= 2 * (I * share[k]) + w
                   /\ 2 * (I * share[k]) <= 2 * (w * caps[k]) + w
  <2>1. ASSUME NEW k \in S
        PROVE  /\ I * share[k] \in Nat /\ caps[k] \in Nat
               /\ 2 * (w * caps[k]) <= 2 * (I * share[k]) + w
               /\ 2 * (I * share[k]) <= 2 * (w * caps[k]) + w
    <3>1. share[k] \in Nat
      OBVIOUS
    <3>2. I * share[k] \in Nat
      BY <3>1, ProductNat
    <3>3. caps[k] = Rounded(I * share[k], w)
      OBVIOUS
    <3>. QED  BY <3>2, <3>3, RoundedNear
  <2>. QED  BY <2>1
<1>3. /\ IntTerms(share, N) /\ IntTerms(caps, N)
      /\ \A k \in 1..N : /\ Term(share, k) = IF k \in S THEN share[k] ELSE 0
                         /\ Term(caps, k) = IF k \in S THEN caps[k] ELSE 0
  BY <1>2 DEF IntTerms, Term
<1>. HIDE DEF one, n
<1>4. A \in Nat /\ A <= w /\ C \in Int
  <2>1. N \in 0..N
    OBVIOUS
  <2>. QED  BY <1>3, <2>1, TermInt
<1>5. ASSUME NEW k \in 1..N
      PROVE  /\ (2 * w) * Term(caps, k) <= (2 * I) * Term(share, k) + w * Term(one, k)
             /\ (2 * I) * Term(share, k) <= (2 * w) * Term(caps, k) + w * Term(one, k)
  <2>1. CASE k \in S
    <3>1. share[k] \in Nat /\ caps[k] \in Nat
      BY <1>2, <2>1
    <3>2. (2 * w) * caps[k] = 2 * (w * caps[k]) /\ (2 * I) * share[k] = 2 * (I * share[k])
            /\ w * 1 = w
      BY <3>1
    <3>3. Term(caps, k) = caps[k] /\ Term(share, k) = share[k] /\ Term(one, k) = 1
      BY <1>1, <1>3, <2>1
    <3>. QED  BY <1>2, <2>1, <3>2, <3>3
  <2>2. CASE k \notin S
    <3>1. Term(caps, k) = 0 /\ Term(share, k) = 0 /\ Term(one, k) = 0
      BY <1>1, <1>3, <2>2
    <3>2. (2 * w) * 0 = 0 /\ (2 * I) * 0 = 0 /\ w * 0 = 0
      OBVIOUS
    <3>. QED  BY <3>1, <3>2
  <2>. QED  BY <2>1, <2>2
<1>6. /\ (2 * w) * C <= (2 * I) * A + w * n
      /\ (2 * I) * A <= (2 * w) * C + w * n
  <2>1. 2 * w \in Int /\ 2 * I \in Int /\ w \in Int
    OBVIOUS
  <2>2. (2 * w) * C <= (2 * I) * A + w * Total(one, N)
    BY <1>1, <1>3, <1>5, <2>1, TotalShares
  <2>3. (2 * I) * A <= (2 * w) * C + w * Total(one, N)
    BY <1>1, <1>3, <1>5, <2>1, TotalShares
  <2>. QED  BY <1>1, <2>2, <2>3
<1>. HIDE DEF A, C
<1>7. /\ I * (w - A) \in Nat /\ idle \in Nat
      /\ w * idle <= I * (w - A) /\ I * (w - A) <= w * idle + (w - 1)
  <2>1. w - A \in Nat
    BY <1>4
  <2>2. I * (w - A) \in Nat
    BY <2>1, ProductNat
  <2>. QED  BY <2>2, ShareBounds
<1>. HIDE DEF idle
<1>8. PICK wC \in Int, wD \in Int, IA \in Int, Iw \in Int, wn \in Int :
        wC = w * C /\ wD = w * idle /\ IA = I * A /\ Iw = I * w /\ wn = w * n
  BY <1>1, <1>4, <1>7
<1>9. 2 * wC <= 2 * IA + wn /\ 2 * IA <= 2 * wC + wn
  <2>1. (2 * w) * C = 2 * (w * C) /\ (2 * I) * A = 2 * (I * A)
    BY <1>4
  <2>. QED  BY <1>6, <1>8, <2>1
<1>10. wD <= Iw - IA /\ Iw - IA <= wD + (w - 1)
  <2>1. I * (w - A) = I * w - I * A
    BY <1>4
  <2>. QED  BY <1>7, <1>8, <2>1
<1>. DEFINE x == 2 * ((C + idle) - I)
<1>11. x \in Int /\ w * x = 2 * wC + 2 * wD - 2 * Iw
  <2>1. x \in Int
    BY <1>4, <1>7
  <2>2. w * x = 2 * (w * C) + 2 * (w * idle) - 2 * (I * w)
    BY <1>4, <1>7
  <2>. QED  BY <1>8, <2>1, <2>2
<1>. HIDE DEF x
<1>12. x <= n
  <2>1. w * x <= w * n
    BY <1>8, <1>9, <1>10, <1>11
  <2>. QED  BY <1>1, <1>11, <2>1, Cancel
<1>13. -(n + 2) < x
  <2>1. w * (-(n + 2)) = -(w * n) - 2 * w
    BY <1>1
  <2>2. w * (-(n + 2)) < w * x
    BY <1>8, <1>9, <1>10, <1>11, <2>1
  <2>3. -(n + 2) \in Int
    BY <1>1
  <2>. QED  BY <1>11, <2>2, <2>3, CancelFactor
<1>14. x \in -(n + 1)..n
  BY <1>1, <1>11, <1>12, <1>13
<1>. QED  BY <1>4, <1>7, <1>14 DEF x, A, C, n, idle

-----------------------------------------------------------------------------
(* Runs.                                                                   *)

\* Lists stay, the books have an entry per engine, and a run of the list is at a
\* member or at its end.
PlaceInv ==
  /\ members \in Members
  /\ DOMAIN capital = Engines /\ DOMAIN balance = Engines
  /\ DOMAIN sheet = {"multi", "tree"}
  /\ job = "multi" => at \in 1..(Len(members) + 1)

\* While the list runs, each engine that has had its turn holds what it made.
MadeSoFar ==
  job = "multi" /\ DistinctNames /\ DistinctEngines =>
    \A k \in DOMAIN members : k < at => balance[members[k].engine] = Made(k)

PortfolioInv == PlaceInv /\ MadeSoFar /\ MultiSheetIsSum /\ EnginesGivenBack

LEMMA InitPortfolio == Init => PortfolioInv
<1>. SUFFICES ASSUME Init PROVE PortfolioInv
  OBVIOUS
<1>1. PlaceInv
  BY PortfolioAssumption DEF Init, PlaceInv
<1>2. MadeSoFar /\ EnginesGivenBack
  BY DEF Init, MadeSoFar, EnginesGivenBack
<1>3. MultiSheetIsSum
  BY DEF Init, MultiSheetIsSum
<1>. QED  BY <1>1, <1>2, <1>3 DEF PortfolioInv

\* What the sheet of the list says depends on the list and the sheet alone.
LEMMA SheetKept ==
  ASSUME MultiSheetIsSum, members' = members, sheet'.multi = sheet.multi
  PROVE  MultiSheetIsSum'
<1>1. TotalWeight' = TotalWeight
  BY Zenon DEF TotalWeight
<1>. QED  BY <1>1 DEF MultiSheetIsSum

LEMMA MadeKept ==
  ASSUME members' = members
  PROVE  /\ \A k : Made(k)' = Made(k) /\ Share(k)' = Share(k)
         /\ DistinctNames' = DistinctNames /\ DistinctEngines' = DistinctEngines
<1>1. TotalWeight' = TotalWeight
  BY Zenon DEF TotalWeight
<1>2. \A k : Share(k)' = Share(k)
  BY <1>1, Zenon DEF Share
<1>3. \A k : Made(k)' = Made(k)
  BY <1>2, Zenon DEF Made
<1>4. DistinctNames' = DistinctNames /\ DistinctEngines' = DistinctEngines
  BY Zenon DEF DistinctNames, DistinctEngines
<1>. QED  BY <1>2, <1>3, <1>4

\* A member's run gives its engine its share, and what it makes of it.
LEMMA RunMemberKeeps ==
  ASSUME PortfolioInv, RunMember
  PROVE  PortfolioInv'
<1>. DEFINE e == members[at].engine
<1>1. /\ members \in Members /\ DOMAIN capital = Engines /\ DOMAIN balance = Engines
      /\ at \in 1..Len(members) /\ DOMAIN members = 1..Len(members) /\ Len(members) \in Nat
      /\ members' = members /\ sheet' = sheet /\ e \in Engines
      /\ DOMAIN sheet = {"multi", "tree"}
  <2>1. members \in Members
    BY DEF PortfolioInv, PlaceInv
  <2>. QED  BY <2>1, MemberFacts DEF PortfolioInv, PlaceInv, RunMember
<1>2. /\ capital' = [capital EXCEPT ![e] = CapitalShare(at)]
      /\ lent' = lent \cup {e}
      /\ \/ /\ balance' = [balance EXCEPT ![e] = Balance(e, CapitalShare(at))]
            /\ at' = at + 1 /\ job' = "multi"
         \/ job' = "none" /\ balance' = balance
  BY DEF RunMember
<1>3. PlaceInv'
  BY <1>1, <1>2 DEF PlaceInv
<1>4. EnginesGivenBack'
  BY <1>1, <1>2 DEF EnginesGivenBack, PortfolioInv
<1>5. MultiSheetIsSum'
  BY <1>1, SheetKept DEF PortfolioInv
<1>6. MadeSoFar'
  <2>. SUFFICES ASSUME job' = "multi", DistinctNames, DistinctEngines,
                       NEW k \in DOMAIN members, k < at'
                PROVE  balance'[members[k].engine] = Made(k)
    BY <1>1, MadeKept DEF MadeSoFar
  <2>1. balance' = [balance EXCEPT ![e] = Balance(e, CapitalShare(at))] /\ at' = at + 1
    BY <1>2
  <2>2. CASE k = at
    <3>1. CapitalShare(at) = Share(at)
      BY <1>1, WeightByName
    <3>2. balance'[e] = Balance(e, Share(at))
      BY <1>1, <2>1, <3>1
    <3>. QED  BY <2>2, <3>2, Zenon DEF Made
  <2>3. CASE k # at
    <3>1. members[k].engine # e
      BY <1>1, <2>3 DEF DistinctEngines, Distinct
    <3>2. k < at
      BY <1>1, <2>1, <2>3
    <3>3. balance[members[k].engine] = Made(k)
      BY <3>2 DEF PortfolioInv, MadeSoFar, RunMember
    <3>4. members[k].engine \in Engines
      BY <1>1, MemberFacts
    <3>. QED  BY <1>1, <2>1, <3>1, <3>3, <3>4
  <2>. QED  BY <2>2, <2>3
<1>. QED  BY <1>3, <1>4, <1>5, <1>6 DEF PortfolioInv

\* Columns with names of their own add up to the sum of what they have on a date.
LEMMA AddUpDistinct ==
  ASSUME NEW n, NEW cols, NEW d \in DatesOf(cols),
         \A j, k \in DOMAIN cols : j # k => cols[j].name # cols[k].name,
         \A k \in DOMAIN cols : At(cols[k], d) \in Int
  PROVE  AddUp(cols, n)[d] = Total([k \in DOMAIN cols |-> At(cols[k], d)], n)
<1>. DEFINE same(k) == {j \in DOMAIN cols : cols[j].name = cols[k].name}
<1>1. ASSUME NEW k \in DOMAIN cols
      PROVE  Cardinality(same(k)) * At(cols[k], d) = At(cols[k], d)
  <2>1. same(k) = {k}
    OBVIOUS
  <2>2. Cardinality(same(k)) = 1
    BY <2>1, FS_Singleton
  <2>. HIDE DEF same
  <2>. QED  BY <2>2
<1>2. [k \in DOMAIN cols |-> Cardinality(same(k)) * At(cols[k], d)]
        = [k \in DOMAIN cols |-> At(cols[k], d)]
  BY <1>1
<1>3. AddUp(cols, n)[d] = Total([k \in DOMAIN cols |-> Cardinality(same(k)) * At(cols[k], d)], n)
  BY DEF AddUp
<1>. QED  BY <1>2, <1>3

\* The sheet that is combined when the last member has run is the sum of what
\* all of them made.
LEMMA CombineMultiKeeps ==
  ASSUME PortfolioInv, CombineMulti
  PROVE  PortfolioInv'
<1>1. /\ members \in Members /\ DOMAIN sheet = {"multi", "tree"}
      /\ DOMAIN members = 1..Len(members) /\ Len(members) \in Nat /\ members' = members
      /\ job = "multi" /\ at = Len(members) + 1
  <2>1. members \in Members
    BY DEF PortfolioInv, PlaceInv
  <2>. QED  BY <2>1, MemberFacts DEF PortfolioInv, PlaceInv, CombineMulti
<1>2. sheet' = [sheet EXCEPT !.multi = AddUp(MemberColumns, Len(members))] /\ job' = "none"
      /\ UNCHANGED <<members, capital, balance, lent>>
  BY DEF CombineMulti
<1>3. PlaceInv' /\ MadeSoFar' /\ EnginesGivenBack'
  BY <1>1, <1>2 DEF PlaceInv, MadeSoFar, EnginesGivenBack, PortfolioInv
<1>4. ASSUME DistinctNames, DistinctEngines
      PROVE  \A d \in DOMAIN sheet'.multi :
               sheet'.multi[d] = SumSeq([k \in DOMAIN members |->
                                   IF d \in DOMAIN Made(k) THEN Made(k)[d] ELSE 0])
  <2>. DEFINE cols == [k \in DOMAIN members |-> Column(members[k].name, Made(k))]
              n == Len(members)
  <2>1. MemberColumns = cols
    BY <1>1, <1>4 DEF PortfolioInv, MadeSoFar, MemberColumns
  <2>2. DOMAIN cols = DOMAIN members
        /\ \A k \in DOMAIN members : cols[k].name = members[k].name /\ cols[k].values = Made(k)
    BY DEF Column
  <2>. HIDE DEF cols
  <2>3. sheet'.multi = AddUp(cols, n) /\ DOMAIN AddUp(cols, n) = DatesOf(cols)
    BY <1>1, <1>2, <2>1 DEF AddUp
  <2>4. ASSUME NEW k \in DOMAIN members, NEW d
        PROVE  /\ At(cols[k], d) \in Int
               /\ At(cols[k], d) = IF d \in DOMAIN Made(k) THEN Made(k)[d] ELSE 0
    <3>1. At(cols[k], d) = IF d \in DOMAIN Made(k) THEN Made(k)[d] ELSE 0
      BY <2>2 DEF At
    <3>2. CASE d \in DOMAIN Made(k)
      <4>1. Share(k) \in Nat /\ members[k].engine \in Engines
        BY <1>1, MemberFacts, SharesOfList
      <4>2. d \in DOMAIN Growth[members[k].engine]
              /\ Made(k)[d] = Share(k) * Growth[members[k].engine][d]
        BY <3>2 DEF Made, Balance
      <4>3. Growth[members[k].engine][d] \in Int
        BY <4>1, <4>2, PortfolioAssumption
      <4>. QED  BY <3>1, <3>2, <4>1, <4>2, <4>3
    <3>. QED  BY <3>1, <3>2
  <2>5. ASSUME NEW d \in DatesOf(cols)
        PROVE  sheet'.multi[d] = SumSeq([k \in DOMAIN members |->
                                   IF d \in DOMAIN Made(k) THEN Made(k)[d] ELSE 0])
    <3>. DEFINE terms == [k \in DOMAIN cols |-> At(cols[k], d)]
    <3>1. \A j, k \in DOMAIN cols : j # k => cols[j].name # cols[k].name
      BY <1>4, <2>2 DEF DistinctNames, Distinct
    <3>2. AddUp(cols, n)[d] = Total(terms, n)
      <4>. HIDE DEF n
      <4>. QED  BY <2>2, <2>4, <3>1, AddUpDistinct
    <3>3. terms = [k \in DOMAIN members |-> IF d \in DOMAIN Made(k) THEN Made(k)[d] ELSE 0]
      BY <2>2, <2>4
    <3>4. Len(terms) = n
      BY <1>1, <2>2
    <3>. QED  BY <2>3, <3>2, <3>3, <3>4 DEF SumSeq
  <2>6. DOMAIN sheet'.multi = DatesOf(cols)
    BY <2>3
  <2>. QED  BY <2>5, <2>6
<1>5. MultiSheetIsSum'
  <2>1. TotalWeight' = TotalWeight /\ DistinctNames' = DistinctNames
          /\ DistinctEngines' = DistinctEngines
    <3>1. TotalWeight' = TotalWeight
      BY <1>1, Zenon DEF TotalWeight
    <3>. QED  BY <1>1, <3>1, MadeKept
  <2>2. \A k : (InitialCapital * members[k].weight) \div TotalWeight = Share(k)
    BY DEF Share
  <2>. SUFFICES ASSUME DistinctNames, DistinctEngines
       PROVE  /\ InitialCapital - SumSeq([k \in DOMAIN members |-> Share(k)])
                   \in 0..(Len(members) - 1)
              /\ \A d \in DOMAIN sheet'.multi :
                   sheet'.multi[d] = SumSeq([k \in DOMAIN members |->
                                       IF d \in DOMAIN Made(k) THEN Made(k)[d] ELSE 0])
    BY <1>1, <2>1, Zenon
    DEF MultiSheetIsSum, DistinctNames, DistinctEngines, Share, Made
  <2>. QED  BY <1>1, <1>4, SharesOfList
<1>. QED  BY <1>3, <1>5 DEF PortfolioInv

\* The list and its sheet are out of reach of every other step.
LEMMA OthersKeep ==
  ASSUME PortfolioInv, members' = members, sheet'.multi = sheet.multi,
         DOMAIN sheet' = DOMAIN sheet, job # "multi", job' # "multi",
         DOMAIN capital' = DOMAIN capital, DOMAIN balance' = DOMAIN balance,
         lent \subseteq lent',
         \A x \in Engines : capital'[x] # capital[x] => x \in lent'
  PROVE  PortfolioInv'
<1>1. PlaceInv' /\ MadeSoFar' /\ EnginesGivenBack'
  BY DEF PortfolioInv, PlaceInv, MadeSoFar, EnginesGivenBack
<1>2. MultiSheetIsSum'
  BY SheetKept DEF PortfolioInv
<1>. QED  BY <1>1, <1>2 DEF PortfolioInv

LEMMA NextPortfolio == PortfolioInv /\ [Next]_vars => PortfolioInv'
<1>. SUFFICES ASSUME PortfolioInv, [Next]_vars PROVE PortfolioInv'
  OBVIOUS
<1>. USE DEF PlaceInv
<1>1. CASE UNCHANGED vars
  <2>1. UNCHANGED <<members, capital, balance, job, at, sheet, lent>>
    BY <1>1 DEF vars
  <2>2. PlaceInv' /\ EnginesGivenBack'
    BY <2>1 DEF PortfolioInv, EnginesGivenBack
  <2>3. MadeSoFar'
    BY <2>1, MadeKept DEF PortfolioInv, MadeSoFar
  <2>4. MultiSheetIsSum'
    BY <2>1, SheetKept DEF PortfolioInv
  <2>. QED  BY <2>2, <2>3, <2>4 DEF PortfolioInv
<1>2. CASE RunMulti
  <2>1. /\ job' = "multi" /\ at' = 1
        /\ UNCHANGED <<members, capital, balance, sheet, lent>>
    BY <1>2 DEF RunMulti
  <2>2. Len(members) \in Nat \ {0} /\ DOMAIN members = 1..Len(members)
    BY MemberFacts DEF PortfolioInv
  <2>3. PlaceInv' /\ EnginesGivenBack'
    BY <2>1, <2>2 DEF PortfolioInv, EnginesGivenBack
  <2>4. MadeSoFar'
    BY <2>1, <2>2 DEF MadeSoFar
  <2>5. MultiSheetIsSum'
    BY <2>1, SheetKept DEF PortfolioInv
  <2>. QED  BY <2>3, <2>4, <2>5 DEF PortfolioInv
<1>3. CASE RunMember
  BY <1>3, RunMemberKeeps
<1>4. CASE CombineMulti
  BY <1>4, CombineMultiKeeps
<1>5. CASE RunTree
  BY <1>5, OthersKeep DEF RunTree
<1>6. CASE RunLeaf
  <2>. DEFINE n == Min(LeavesToRun)
              e == tree[n].engine
              c == LeafCapital(allocs[n])
  <2>1. /\ job = "tree" /\ job' \in {"tree", "none"} /\ UNCHANGED <<members, sheet>>
        /\ \/ capital' = capital /\ lent' = lent /\ balance' = [balance EXCEPT ![e] = Balance(e, c)]
           \/ /\ capital' = [capital EXCEPT ![e] = c] /\ lent' = lent \cup {e}
              /\ balance' = balance
    BY <1>6 DEF RunLeaf, LeafRuns
  <2>. HIDE DEF e, c
  <2>. QED  BY <2>1, OthersKeep DEF PortfolioInv
<1>7. CASE CombineTree
  <2>. DEFINE t == [d \in DOMAIN AddUp(parts, Len(tree)) |->
                      AddUp(parts, Len(tree))[d] + ((InitialCapital * Unallocated(allocs)) \div WHOLE)]
  <2>1. /\ job = "tree" /\ job' = "none" /\ UNCHANGED <<members, capital, balance, lent>>
        /\ sheet' = [sheet EXCEPT !.tree = t]
    BY <1>7 DEF CombineTree
  <2>. HIDE DEF t
  <2>. QED  BY <2>1, OthersKeep DEF PortfolioInv
<1>8. ASSUME NEW e \in Engines, RunAlone(e) PROVE PortfolioInv'
  <2>1. /\ job = "none" /\ UNCHANGED <<members, capital, job, sheet, lent>>
        /\ balance' = [balance EXCEPT ![e] = Balance(e, capital[e])]
    BY <1>8 DEF RunAlone
  <2>. QED  BY <2>1, OthersKeep
<1>9. ASSUME NEW n, NEW l, SetMaxShare(n, l) PROVE PortfolioInv'
  BY <1>9, OthersKeep DEF SetMaxShare
<1>10. CASE Rest
  BY <1>1, <1>10 DEF Rest
<1>. QED  BY <1>1, <1>2, <1>3, <1>4, <1>5, <1>6, <1>7, <1>8, <1>9, <1>10 DEF Next

\* The invariant of the portfolios: where a run of the list is, and what the
\* engines that have had their turn hold.
THEOREM PortfolioInvariant == Spec => []PortfolioInv
  BY InitPortfolio, NextPortfolio, PTL DEF Spec

\* The sheet of a list is the sum of what its members made of their shares, and
\* the shares add up to the capital but for less than a unit per member.
THEOREM MultiSheetHolds == Spec => []MultiSheetIsSum
<1>1. PortfolioInv => MultiSheetIsSum
  BY DEF PortfolioInv
<1>. QED  BY <1>1, PortfolioInvariant, PTL

\* An engine that no list took and no run raised in has its own capital, at
\* every step, during the runs that borrow it as well.
THEOREM EnginesGivenBackHolds == Spec => []EnginesGivenBack
<1>1. PortfolioInv => EnginesGivenBack
  BY DEF PortfolioInv
<1>. QED  BY <1>1, PortfolioInvariant, PTL

-----------------------------------------------------------------------------
(* Runs of the tree.                                                       *)

\* While the tree runs, its limits stay, and each leaf that has had its turn has
\* kept what its engine made of its share.
TreeSoFar ==
  job = "tree" =>
    /\ allocs = LeafShares(tree) /\ DOMAIN parts \subseteq Leaves(tree)
    /\ \A n \in DOMAIN parts :
         parts[n] = Column(tree[n].name, Balance(tree[n].engine, LeafCapital(allocs[n])))

TreeInv ==
  /\ IsTree(tree) /\ DOMAIN sheet = {"multi", "tree"}
  /\ TreeSoFar /\ TreeSheetKeepsCapital

LEMMA InitTree == Init => TreeInv
<1>. SUFFICES ASSUME Init PROVE TreeInv
  OBVIOUS
<1>1. IsTree(tree)
  BY PortfolioAssumption DEF Init
<1>2. DOMAIN sheet = {"multi", "tree"} /\ TreeSoFar /\ TreeSheetKeepsCapital
  BY DEF Init, TreeSoFar, TreeSheetKeepsCapital
<1>. QED  BY <1>1, <1>2 DEF TreeInv

\* What the sheet of the tree says depends on the sheet and on the tree it was
\* made from alone.
LEMMA TreeSheetKept ==
  ASSUME TreeSheetKeepsCapital, made' = made, sheet'.tree = sheet.tree
  PROVE  TreeSheetKeepsCapital'
BY DEF TreeSheetKeepsCapital

LEMMA NoTreeRuns ==
  ASSUME TreeInv, IsTree(tree)', job' # "tree", made' = made, sheet'.tree = sheet.tree,
         DOMAIN sheet' = DOMAIN sheet
  PROVE  TreeInv'
<1>1. TreeSheetKeepsCapital'
  BY TreeSheetKept DEF TreeInv
<1>. QED  BY <1>1 DEF TreeInv, TreeSoFar

\* A limit leaves a tree a tree.
LEMMA LimitKeepsTree ==
  ASSUME NEW t, IsTree(t), NEW n \in DOMAIN t, NEW l \in Limits
  PROVE  IsTree([t EXCEPT ![n].max = l])
<1>. DEFINE u == [t EXCEPT ![n].max = l]
<1>1. /\ t \in Seq(TreeNode) /\ Len(t) > 0
      /\ \A k \in DOMAIN t : /\ t[k].parent < k /\ (t[k].parent = 0 <=> k = 1)
                             /\ k # 1 => t[t[k].parent].engine = None
  BY DEF IsTree
<1>2. /\ Len(t) \in Nat /\ DOMAIN t = 1..Len(t)
      /\ \A k \in DOMAIN t : t[k] \in TreeNode /\ (k # 1 => t[k].parent \in DOMAIN t)
  BY <1>1, TreeFacts, LenProperties, ElementOfSeq
<1>3. l \in Nat \cup {None}
  BY PortfolioAssumption
<1>4. [t[n] EXCEPT !.max = l] \in TreeNode
  BY <1>2, <1>3 DEF TreeNode
<1>5. u \in Seq(TreeNode) /\ Len(u) = Len(t) /\ DOMAIN u = DOMAIN t
  <2>1. u = [t EXCEPT ![n] = [t[n] EXCEPT !.max = l]]
    OBVIOUS
  <2>. QED  BY <1>1, <1>2, <1>4, <2>1, ExceptSeq
<1>6. \A k \in DOMAIN t : u[k].parent = t[k].parent /\ u[k].engine = t[k].engine
  BY <1>2 DEF TreeNode
<1>. HIDE DEF u
<1>7. IsTree(u)
  BY <1>1, <1>2, <1>5, <1>6 DEF IsTree
<1>. QED  BY <1>7 DEF u

\* A leaf that runs keeps what its engine makes of its share.
LEMMA RunLeafKeeps ==
  ASSUME TreeInv, RunLeaf
  PROVE  TreeInv'
<1>. DEFINE n == Min(LeavesToRun)
<1>1. /\ job = "tree" /\ LeavesToRun # {}
      /\ UNCHANGED <<tree, allocs, made, sheet>>
      /\ \/ LeafRuns(n) /\ job' = job
         \/ job' = "none"
  BY DEF RunLeaf
<1>2. IsTree(tree) /\ IsTree(tree)'
  BY <1>1 DEF TreeInv
<1>3. CASE job' = "none"
  BY <1>1, <1>2, <1>3, NoTreeRuns
<1>4. CASE LeafRuns(n) /\ job' = job
  <2>1. /\ allocs = LeafShares(tree) /\ DOMAIN parts \subseteq Leaves(tree)
        /\ \A k \in DOMAIN parts :
             parts[k] = Column(tree[k].name, Balance(tree[k].engine, LeafCapital(allocs[k])))
    BY <1>1 DEF TreeInv, TreeSoFar
  <2>2. n \in LeavesToRun
    <3>1. LeavesToRun \in SUBSET Nat
      <4>1. DOMAIN allocs = Leaves(tree) /\ Leaves(tree) \subseteq 1..Len(tree) /\ Len(tree) \in Nat
        BY <1>2, <2>1, SharesOfTree, TreeFacts DEF LeafShares
      <4>. QED  BY <4>1 DEF LeavesToRun
    <3>2. \E k \in LeavesToRun : \A j \in LeavesToRun : k <= j
      BY <1>1, <3>1, LeastNatural
    <3>. HIDE DEF n
    <3>3. n = CHOOSE k \in LeavesToRun : \A j \in LeavesToRun : k <= j
      BY DEF n, Min
    <3>. QED  BY <3>2, <3>3
  <2>3. n \in Leaves(tree)
    BY <2>1, <2>2 DEF LeavesToRun, LeafShares
  <2>4. parts' = [k \in DOMAIN parts \cup {n} |->
                   IF k = n THEN Column(tree[n].name, Balance(tree[n].engine, LeafCapital(allocs[n])))
                            ELSE parts[k]]
    BY <1>4 DEF LeafRuns
  <2>. HIDE DEF n
  <2>5. /\ DOMAIN parts' \subseteq Leaves(tree)
        /\ \A k \in DOMAIN parts' :
             parts'[k] = Column(tree[k].name, Balance(tree[k].engine, LeafCapital(allocs[k])))
    BY <2>1, <2>3, <2>4
  <2>6. TreeSoFar'
    <3>1. tree' = tree /\ allocs' = allocs
      BY <1>1
    <3>. QED  BY <2>1, <2>5, <3>1 DEF TreeSoFar
  <2>7. TreeSheetKeepsCapital'
    BY <1>1, TreeSheetKept DEF TreeInv
  <2>. QED  BY <1>1, <1>2, <2>6, <2>7 DEF TreeInv
<1>. QED  BY <1>1, <1>3, <1>4

\* When all leaves have run, the sheet is what they made of their shares and the
\* capital of the share that is left.
LEMMA CombineTreeKeeps ==
  ASSUME TreeInv, CombineTree
  PROVE  TreeInv'
<1>. DEFINE N == Len(tree)
            A == Total(allocs, N)
            idle == (InitialCapital * Unallocated(allocs)) \div WHOLE
            total == AddUp(parts, N)
            S == Leaves(tree)
<1>1. /\ job = "tree" /\ job' = "none" /\ LeavesToRun = {} /\ made' = tree /\ tree' = tree
      /\ sheet' = [sheet EXCEPT !.tree = [d \in DOMAIN total |-> total[d] + idle]]
  BY DEF CombineTree
<1>2. /\ IsTree(tree) /\ DOMAIN sheet = {"multi", "tree"}
      /\ allocs = LeafShares(tree) /\ DOMAIN parts \subseteq S
      /\ \A k \in DOMAIN parts :
           parts[k] = Column(tree[k].name, Balance(tree[k].engine, LeafCapital(allocs[k])))
  BY <1>1 DEF TreeInv, TreeSoFar
<1>3. DOMAIN parts = S
  BY <1>1, <1>2 DEF LeavesToRun, LeafShares
<1>4. /\ S \subseteq 1..N /\ allocs \in [S -> 0..WHOLE] /\ A \in 0..WHOLE /\ N \in Nat
  BY <1>2, SharesOfTree, TreeFacts
<1>5. InitialCapital \in Nat /\ WHOLE \in Nat /\ WHOLE > 0
  BY PortfolioAssumption
<1>6. idle = (InitialCapital * (WHOLE - A)) \div WHOLE
  <2>1. Unallocated(allocs) = WHOLE - A
    BY <1>4, <1>5 DEF Unallocated, Allocated
  <2>. QED  BY <2>1
<1>7. sheet'.tree = [d \in DatesOf(parts) |-> total[d] + idle] /\ DOMAIN sheet' = {"multi", "tree"}
  BY <1>1, <1>2 DEF AddUp
<1>. HIDE DEF total, idle
<1>8. ASSUME Distinct(LeafNames(tree)), NEW d \in DatesOf(parts),
             \A n \in S : LET e == tree[n].engine
                          IN  d \in DOMAIN Growth[e] /\ Growth[e][d] = 1
      PROVE  2 * (sheet'.tree[d] - InitialCapital) \in -(Cardinality(S) + 1)..Cardinality(S)
  <2>. DEFINE caps == [k \in S |-> LeafCapital(allocs[k])]
  <2>1. allocs \in [S -> Nat] /\ \A k \in S : allocs[k] \in Nat /\ InitialCapital * allocs[k] \in Nat
    <3>1. \A k \in S : allocs[k] \in Nat
      BY <1>4, <1>5
    <3>2. allocs \in [S -> Nat]
      BY <1>4, <3>1
    <3>. QED  BY <1>5, <3>1, <3>2, ProductNat
  <2>2. DOMAIN caps = S
        /\ \A k \in S : caps[k] = Rounded(InitialCapital * allocs[k], WHOLE) /\ caps[k] \in Nat
    <3>1. ASSUME NEW k \in S PROVE Rounded(InitialCapital * allocs[k], WHOLE) \in Nat
      <4>1. InitialCapital * allocs[k] \in Nat
        BY <2>1
      <4>. QED  BY <1>5, <4>1, RoundedNear
    <3>. QED  BY <3>1 DEF LeafCapital
  <2>3. ASSUME NEW k \in S PROVE At(parts[k], d) = caps[k]
    <3>1. /\ parts[k].values = Balance(tree[k].engine, LeafCapital(allocs[k]))
          /\ d \in DOMAIN Growth[tree[k].engine] /\ Growth[tree[k].engine][d] = 1
      BY <1>2, <1>3, <1>8 DEF Column
    <3>2. At(parts[k], d) = LeafCapital(allocs[k]) * 1
      BY <3>1 DEF At, Balance
    <3>3. caps[k] = LeafCapital(allocs[k]) /\ caps[k] \in Nat
      BY <2>2
    <3>. HIDE DEF caps
    <3>. QED  BY <3>2, <3>3
  <2>4. \A j, k \in DOMAIN parts : j # k => parts[j].name # parts[k].name
    <3>1. \A k \in S : parts[k].name = tree[k].name
      BY <1>2, <1>3 DEF Column
    <3>2. \A j, k \in S : j # k => tree[j].name # tree[k].name
      BY <1>8 DEF Distinct, LeafNames
    <3>. QED  BY <1>3, <3>1, <3>2
  <2>5. total[d] = Total([k \in DOMAIN parts |-> At(parts[k], d)], N)
    <3>1. \A k \in DOMAIN parts : At(parts[k], d) \in Int
      BY <1>3, <2>2, <2>3
    <3>. HIDE DEF N, caps
    <3>. QED  BY <1>8, <2>4, <3>1, AddUpDistinct DEF total
  <2>6. total[d] = Total(caps, N)
    <3>1. [k \in DOMAIN parts |-> At(parts[k], d)] = caps
      BY <1>3, <2>3
    <3>. QED  BY <2>5, <3>1
  <2>7. 2 * ((Total(caps, N) + ((InitialCapital * (WHOLE - A)) \div WHOLE)) - InitialCapital)
          \in -(Cardinality(S) + 1)..Cardinality(S)
    <3>. HIDE DEF caps, S
    <3>1. S \in SUBSET (1..N)
      BY <1>4
    <3>. HIDE DEF N
    <3>. QED  BY <1>4, <1>5, <2>1, <2>2, <3>1, HandedOut
  <2>8. sheet'.tree[d] = Total(caps, N) + idle
    BY <1>7, <1>8, <2>6
  <2>. DEFINE near(v) == 2 * (v - InitialCapital) \in -(Cardinality(S) + 1)..Cardinality(S)
              v == Total(caps, N) + ((InitialCapital * (WHOLE - A)) \div WHOLE)
  <2>9. near(v)
    BY <2>7
  <2>10. sheet'.tree[d] = v
    BY <1>6, <2>8, Zenon
  <2>. HIDE DEF near, v
  <2>11. near(sheet'.tree[d])
    BY <2>9, <2>10
  <2>. QED  BY <2>11 DEF near
<1>9. TreeSheetKeepsCapital'
  <2>1. DOMAIN sheet'.tree = DatesOf(parts)
    BY <1>7
  <2>. QED  BY <1>1, <1>8, <2>1 DEF TreeSheetKeepsCapital
<1>10. IsTree(tree)'
  BY <1>1, <1>2
<1>11. TreeSoFar'
  BY <1>1 DEF TreeSoFar
<1>. QED  BY <1>7, <1>9, <1>10, <1>11 DEF TreeInv

LEMMA NextTree == TreeInv /\ [Next]_vars => TreeInv'
<1>. SUFFICES ASSUME TreeInv, [Next]_vars PROVE TreeInv'
  OBVIOUS
<1>0. IsTree(tree) /\ DOMAIN sheet = {"multi", "tree"}
  BY DEF TreeInv
<1>1. CASE UNCHANGED vars
  <2>1. UNCHANGED <<tree, job, allocs, parts, sheet, made>>
    BY <1>1 DEF vars
  <2>2. TreeSoFar' /\ TreeSheetKeepsCapital'
    BY <2>1, TreeSheetKept DEF TreeInv, TreeSoFar
  <2>. QED  BY <1>0, <2>1, <2>2 DEF TreeInv
<1>2. CASE RunMulti
  BY <1>0, <1>2, NoTreeRuns DEF RunMulti
<1>3. CASE RunMember
  <2>1. UNCHANGED <<tree, made, sheet>> /\ job' \in {"multi", "none"}
    BY <1>3 DEF RunMember
  <2>. QED  BY <1>0, <2>1, NoTreeRuns
<1>4. CASE CombineMulti
  <2>1. UNCHANGED <<tree, made>> /\ job' = "none" /\ DOMAIN sheet' = DOMAIN sheet
          /\ sheet'.tree = sheet.tree
    BY <1>0, <1>4 DEF CombineMulti
  <2>. QED  BY <1>0, <2>1, NoTreeRuns
<1>5. CASE RunTree
  <2>1. /\ UNCHANGED <<tree, made, sheet>>
        /\ allocs' = LeafShares(tree) /\ parts' = << >>
    BY <1>5 DEF RunTree
  <2>2. TreeSoFar'
    BY <2>1 DEF TreeSoFar
  <2>3. TreeSheetKeepsCapital'
    BY <2>1, TreeSheetKept DEF TreeInv
  <2>. QED  BY <1>0, <2>1, <2>2, <2>3 DEF TreeInv
<1>6. CASE RunLeaf
  BY <1>6, RunLeafKeeps
<1>7. CASE CombineTree
  BY <1>7, CombineTreeKeeps
<1>8. ASSUME NEW e \in Engines, RunAlone(e) PROVE TreeInv'
  <2>1. UNCHANGED <<tree, made, sheet, job>> /\ job = "none"
    BY <1>8 DEF RunAlone
  <2>. QED  BY <1>0, <2>1, NoTreeRuns
<1>9. ASSUME NEW n \in DOMAIN tree, NEW l \in Limits, SetMaxShare(n, l) PROVE TreeInv'
  <2>1. UNCHANGED <<made, sheet, job>> /\ job = "none" /\ tree' = [tree EXCEPT ![n].max = l]
    BY <1>9 DEF SetMaxShare
  <2>2. IsTree(tree')
    BY <1>0, <2>1, LimitKeepsTree
  <2>. QED  BY <2>1, <2>2, NoTreeRuns
<1>10. CASE Rest
  BY <1>1, <1>10 DEF Rest
<1>. QED  BY <1>1, <1>2, <1>3, <1>4, <1>5, <1>6, <1>7, <1>8, <1>9, <1>10 DEF Next

\* The invariant of a run of the tree: what the leaves that have had their turn
\* made of shares that do not exceed the whole.
THEOREM TreeInvariant == Spec => []TreeInv
  BY InitTree, NextTree, PTL DEF Spec

\* Where no engine grows, the sheet of a tree is the initial capital but for half
\* a unit of rounding per leaf, with any weights, limits and shared engines.
THEOREM TreeSheetHolds == Spec => []TreeSheetKeepsCapital
<1>1. TreeInv => TreeSheetKeepsCapital
  BY DEF TreeInv
<1>. QED  BY <1>1, TreeInvariant, PTL

\* Books, places and shares are what the portfolios say they are; no leaf is
\* handed more than the whole.
THEOREM PortfolioTypeCorrect == Spec => []PortfolioTypeOK
<1>1. PortfolioInv /\ TreeInv => PortfolioTypeOK
  <2>. SUFFICES ASSUME PortfolioInv, TreeInv PROVE PortfolioTypeOK
    OBVIOUS
  <2>1. /\ members \in Members /\ IsTree(tree)
        /\ DOMAIN capital = Engines /\ DOMAIN balance = Engines /\ DOMAIN sheet = {"multi", "tree"}
        /\ job = "multi" => at \in 1..(Len(members) + 1)
    BY DEF PortfolioInv, PlaceInv, TreeInv
  <2>2. ASSUME job = "tree"
        PROVE  /\ allocs \in [Leaves(tree) -> 0..WHOLE] /\ DOMAIN parts \subseteq Leaves(tree)
               /\ \A n \in DOMAIN parts : parts[n].name = tree[n].name
    <3>1. allocs \in [Leaves(tree) -> 0..WHOLE]
      BY <2>1, <2>2, SharesOfTree DEF TreeInv, TreeSoFar
    <3>. QED  BY <2>2, <3>1 DEF TreeInv, TreeSoFar, Column
  <2>. QED  BY <2>1, <2>2 DEF PortfolioTypeOK
<1>. QED  BY <1>1, PortfolioInvariant, TreeInvariant, PTL
=============================================================================
