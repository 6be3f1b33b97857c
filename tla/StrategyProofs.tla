---------------------------- MODULE StrategyProofs ----------------------------
(***************************************************************************)
(* What a strategy enters and what its log says afterwards.                *)
(*                                                                         *)
(* Presets, for every chain, configuration, selector and fill model: an    *)
(* entry holds for every leg a row its filter admits, costs no more than   *)
(* its budget however it is filled, and shields the stock a covered call   *)
(* or a collar is written on.                                              *)
(*                                                                         *)
(* TradeLog, for every log the engine can write: the readers rebuild from  *)
(* the log alone the book that wrote it.                                   *)
(*                                                                         *)
(* The two specifications share no constant and no variable.               *)
(***************************************************************************)
EXTENDS Presets, TradeLog, TotalsProofs, FiniteSetTheorems, SequenceTheorems

-----------------------------------------------------------------------------
(* Presets: what an entry leaves.                                          *)

\* What an entry leaves: a row for every leg, admitted by that leg's filter, in
\* the quantity the budget pays at the quotes.
EntryInv ==
  position # << >> =>
    /\ position \in [DOMAIN legs -> Rows]
    /\ \A l \in DOMAIN legs : Admits(legs[l], position[l])
    /\ Cost("market", position) # 0 /\ qty = Quantity(position)

PresetsInv ==
  /\ cfg \in Configs /\ legs = Built
  /\ chain \in Seq(Rows)
  /\ EntryInv

-----------------------------------------------------------------------------
(* The legs.                                                               *)

LEMMA ConfigFacts ==
  ASSUME NEW c \in Configs
  PROVE  /\ c.preset \in Names /\ c.dir \in {"buy", "sell"}
         /\ c.otm \in Nat /\ c.putOtm \in Nat /\ c.tol \in Nat /\ c.budget \in Nat
BY PresetsAssumption DEF Config

LEMMA RowFacts ==
  ASSUME NEW r \in Rows
  PROVE  /\ r.strike \in Nat /\ r.delta \in Int /\ r.interest \in Nat
         /\ r.bid \in Nat /\ r.ask \in Nat /\ r.volume \in Nat
BY PresetsAssumption DEF Row

LEMMA SameInterval ==
  ASSUME NEW m \in Nat, NEW n \in Nat, 1..m = 1..n
  PROVE  m = n
<1>1. \A k \in Nat \ {0} : k <= m <=> k <= n
  <2>1. \A k \in Nat \ {0} : (k \in 1..m <=> k <= m) /\ (k \in 1..n <=> k <= n)
    OBVIOUS
  <2>. QED  BY <2>1, Zenon
<1>2. (m # 0 => m <= n) /\ (n # 0 => n <= m)
  BY <1>1
<1>. QED  BY <1>2

\* A strategy has at least one leg and at most four.
LEMMA BuiltLegs ==
  ASSUME cfg \in Configs
  PROVE  \E n \in 1..4 : DOMAIN Built = 1..n /\ Len(Built) = n
<1>1. cfg.preset \in Names
  BY ConfigFacts
<1>2. \A a : DOMAIN <<a>> = 1..1 /\ Len(<<a>>) = 1
  OBVIOUS
<1>3. \A a, b : DOMAIN <<a, b>> = 1..2 /\ Len(<<a, b>>) = 2
  OBVIOUS
<1>4. \A a, b, c : DOMAIN <<a, b, c>> = 1..3 /\ Len(<<a, b, c>>) = 3
  OBVIOUS
<1>5. \A a, b, c, d : DOMAIN <<a, b, c, d>> = 1..4 /\ Len(<<a, b, c, d>>) = 4
  OBVIOUS
<1>6. /\ DOMAIN DeepOtmPut = 1..1 /\ Len(DeepOtmPut) = 1
      /\ DOMAIN NearAtmPutProtection = 1..1 /\ Len(NearAtmPutProtection) = 1
      /\ DOMAIN CoveredCall = 1..1 /\ Len(CoveredCall) = 1
      /\ DOMAIN CashSecuredPut = 1..1 /\ Len(CashSecuredPut) = 1
  BY <1>2, Zenon DEF DeepOtmPut, NearAtmPutProtection, CoveredCall, CashSecuredPut
<1>7. /\ DOMAIN Strangle = 1..2 /\ Len(Strangle) = 2
      /\ DOMAIN Collar = 1..2 /\ Len(Collar) = 2
  BY <1>3, Zenon DEF Strangle, Collar
<1>8. DOMAIN Butterfly = 1..3 /\ Len(Butterfly) = 3
  BY <1>4, Zenon DEF Butterfly
<1>9. DOMAIN IronCondor = 1..4 /\ Len(IronCondor) = 4
  BY <1>5, Zenon DEF IronCondor
<1>10. Built \in {DeepOtmPut, NearAtmPutProtection, CoveredCall, CashSecuredPut,
                  Strangle, Collar, Butterfly, IronCondor}
  BY <1>1 DEF Built, Names
<1>. QED  BY <1>6, <1>7, <1>8, <1>9, <1>10

\* A position is a sequence of a row per leg.
LEMMA PositionShape ==
  ASSUME cfg \in Configs, legs = Built, NEW rows \in [DOMAIN legs -> Rows]
  PROVE  \E n \in 1..4 : DOMAIN rows = 1..n /\ Len(rows) = n /\ DOMAIN legs = 1..n
<1>1. PICK n \in 1..4 : DOMAIN legs = 1..n
  BY BuiltLegs
<1>2. rows \in Seq(Rows) /\ DOMAIN rows = 1..n
  BY <1>1
<1>3. Len(rows) = n
  BY <1>1, <1>2
<1>. QED  BY <1>1, <1>2, <1>3

-----------------------------------------------------------------------------
(* Candidates and their choice.                                            *)

\* The candidates of a leg come in a sequence of rows its filter admits.
LEMMA OrderedAreAdmitted ==
  ASSUME chain \in Seq(Rows), NEW leg, NEW s \in Orders(leg)
  PROVE  /\ s \in Seq(Rows)
         /\ \A i \in DOMAIN s : Admits(leg, s[i])
<1>. DEFINE S == { r \in ToSet(chain) : Admits(leg, r) }
<1>1. S \subseteq Rows
  BY DEF ToSet
<1>2. IsFiniteSet(S)
  <2>1. IsFiniteSet(DOMAIN chain)
    <3>1. DOMAIN chain = 1..Len(chain) /\ Len(chain) \in Nat
      OBVIOUS
    <3>. QED  BY <3>1, FS_Interval
  <2>2. chain \in Surjection(DOMAIN chain, ToSet(chain))
    BY DEF ToSet, Surjection
  <2>3. IsFiniteSet(ToSet(chain))
    BY <2>1, <2>2, FS_Surjection
  <2>. QED  BY <2>3, FS_Subset
<1>3. Cardinality(S) \in Nat
  BY <1>2, FS_CardinalityType
<1>4. s \in [1..Cardinality(S) -> S]
  BY Zenon DEF Orders, SetToSeqs
<1>5. \A r \in S : Admits(leg, r)
  OBVIOUS
<1>. HIDE DEF S
<1>6. s \in Seq(S) /\ \A i \in DOMAIN s : s[i] \in S
  BY <1>3, <1>4
<1>7. s \in Seq(Rows)
  BY <1>1, <1>3, <1>4
<1>. QED  BY <1>5, <1>6, <1>7

\* Of some rows the first of the best exists.
LEMMA FirstOfBest ==
  ASSUME NEW N \in Nat, NEW rows \in SUBSET (1..N), rows # {},
         NEW f, \A r \in rows : f[r] \in Int
  PROVE  \E r \in rows : \A q \in rows : f[r] < f[q] \/ (f[r] = f[q] /\ r <= q)
<1>. DEFINE UpTo(n) == { r \in rows : r <= n }
<1>1. \A r \in rows : r \in Nat /\ 1 <= r /\ r <= N
  OBVIOUS
<1>2. UpTo(0) = {} /\ UpTo(N) = rows
  <2>1. \A r \in rows : r <= N /\ ~ (r <= 0)
    BY <1>1
  <2>2. UpTo(0) = {}
    BY <2>1, Zenon
  <2>3. UpTo(N) = rows
    BY <2>1, Zenon
  <2>. QED  BY <2>2, <2>3
<1>3. ASSUME NEW n \in 1..N, n \notin rows PROVE UpTo(n) = UpTo(n - 1)
  <2>1. \A r \in rows : r <= n <=> r <= n - 1
    BY <1>1, <1>3
  <2>. QED  BY <2>1
<1>. DEFINE Best(n) == \E r \in UpTo(n) : \A q \in UpTo(n) :
                         f[r] < f[q] \/ (f[r] = f[q] /\ r <= q)
            Bad == { n \in 0..N : UpTo(n) # {} /\ ~ Best(n) }
<1>4. ASSUME Bad # {} PROVE FALSE
  <2>1. Bad \in SUBSET Nat
    OBVIOUS
  <2>2. PICK n \in Bad : \A k \in Bad : n <= k
    BY <1>4, <2>1, LeastNatural
  <2>3. n \in 0..N /\ UpTo(n) # {} /\ ~ Best(n) /\ n # 0
    <3>1. n \in 0..N /\ UpTo(n) # {} /\ ~ Best(n)
      BY Zenon
    <3>2. ASSUME n = 0 PROVE FALSE
      <4>1. UpTo(0) # {}
        BY <3>1, <3>2, Zenon
      <4>. QED  BY <1>2, <4>1
    <3>. QED  BY <3>1, <3>2, Zenon
  <2>4. n - 1 \in 0..N /\ n - 1 \notin Bad
    BY <2>2, <2>3
  <2>5. n \in rows
    <3>. SUFFICES ASSUME n \notin rows PROVE FALSE
      OBVIOUS
    <3>1. n \in 1..N
      BY <2>3
    <3>2. UpTo(n) = UpTo(n - 1)
      BY <1>3, <3>1, Zenon
    <3>3. UpTo(n - 1) # {} /\ ~ Best(n - 1)
      BY <2>3, <3>2, Zenon
    <3>. QED  BY <2>4, <3>3, Zenon
  <2>6. \A r \in UpTo(n) : r = n \/ r \in UpTo(n - 1)
    BY <2>3
  <2>7. CASE UpTo(n - 1) = {}
    <3>1. UpTo(n) = {n}
      BY <2>3, <2>5, <2>6, <2>7
    <3>. QED  BY <2>3, <2>5, <3>1
  <2>8. CASE Best(n - 1)
    <3>1. PICK r \in UpTo(n - 1) : \A q \in UpTo(n - 1) :
            f[r] < f[q] \/ (f[r] = f[q] /\ r <= q)
      BY <2>8
    <3>2. r \in UpTo(n) /\ n \in UpTo(n) /\ r < n
      BY <2>3, <2>5, <3>1
    <3>3. CASE f[n] < f[r]
      <4>1. \A q \in UpTo(n) : f[n] < f[q] \/ (f[n] = f[q] /\ n <= q)
        BY <2>3, <2>5, <2>6, <3>1, <3>3
      <4>. QED  BY <2>3, <3>2, <4>1
    <3>4. CASE ~ (f[n] < f[r])
      <4>1. \A q \in UpTo(n) : f[r] < f[q] \/ (f[r] = f[q] /\ r <= q)
        BY <2>3, <2>5, <2>6, <3>1, <3>2, <3>4
      <4>. QED  BY <2>3, <3>2, <4>1
    <3>. QED  BY <3>3, <3>4
  <2>. QED  BY <2>4, <2>7, <2>8
<1>5. N \in 0..N
  OBVIOUS
<1>6. Best(N)
  BY <1>2, <1>4, <1>5, Zenon
<1>. QED  BY <1>2, <1>6, Zenon

LEMMA BadnessInt ==
  ASSUME NEW row \in Rows
  PROVE  Badness(row) \in Int
<1>1. row.delta \in Int /\ row.interest \in Int /\ TargetDelta \in Int
  BY RowFacts, PresetsAssumption
<1>2. Magnitude(row.delta - TargetDelta) \in Int
  BY <1>1 DEF Magnitude
<1>. QED  BY <1>1, <1>2 DEF Badness

\* A selector takes one of the rows it is given.
LEMMA SelectedIsListed ==
  ASSUME NEW list \in Seq(Rows), NEW rows \in SUBSET (1..MaxRows), rows # {},
         \A r \in rows : r \in DOMAIN list
  PROVE  \E r \in rows : Select(list, rows) = list[r]
<1>. DEFINE f == [r \in rows |-> Badness(list[r])]
<1>1. \A r \in rows : f[r] \in Int
  BY BadnessInt
<1>2. \A r \in rows : f[r] = Badness(list[r])
  OBVIOUS
<1>. HIDE DEF f
<1>3. MaxRows \in Nat
  BY PresetsAssumption
<1>4. \E r \in rows : \A q \in rows : f[r] < f[q] \/ (f[r] = f[q] /\ r <= q)
  BY <1>1, <1>3, FirstOfBest
<1>5. \E r \in rows : \A q \in rows :
         \/ Badness(list[r]) < Badness(list[q])
         \/ Badness(list[r]) = Badness(list[q]) /\ r <= q
  BY <1>2, <1>4
<1>. QED  BY <1>5, Zenon DEF Select

\* What is chosen of some rows is for each leg a row its filter admits.
LEMMA ChoiceIsAdmitted ==
  ASSUME cfg \in Configs, legs = Built, chain \in Seq(Rows),
         NEW order \in [DOMAIN legs -> UNION { Orders(legs[l]) : l \in DOMAIN legs }],
         \A l \in DOMAIN legs : order[l] \in Orders(legs[l]),
         Selected(order) # << >>
  PROVE  /\ Selected(order) \in [DOMAIN legs -> Rows]
         /\ \A l \in DOMAIN legs : Admits(legs[l], Selected(order)[l])
<1>. DEFINE rows == AffordableRows(order)
<1>1. rows # {} /\ Selected(order) = [l \in DOMAIN legs |-> Select(order[l], rows)]
  BY DEF Selected
<1>2. rows \in SUBSET (1..MaxRows)
  BY DEF AffordableRows
<1>3. ASSUME NEW l \in DOMAIN legs
      PROVE  Select(order[l], rows) \in Rows /\ Admits(legs[l], Select(order[l], rows))
  <2>1. order[l] \in Seq(Rows) /\ \A i \in DOMAIN order[l] : Admits(legs[l], order[l][i])
    BY OrderedAreAdmitted
  <2>2. \A r \in rows : r \in DOMAIN order[l]
    <3>1. \A r \in rows : r \in 1..MaxRows /\ r <= Len(order[l])
      BY DEF AffordableRows
    <3>. QED  BY <2>1, <3>1, PresetsAssumption
  <2>. HIDE DEF rows
  <2>3. PICK r \in rows : Select(order[l], rows) = order[l][r]
    BY <1>1, <1>2, <2>1, <2>2, SelectedIsListed
  <2>. QED  BY <2>1, <2>2, <2>3
<1>. HIDE DEF rows
<1>. QED  BY <1>1, <1>3

-----------------------------------------------------------------------------
(* What an entry costs.                                                    *)

\* The mid of a quote, and a price between the mid and a side, is no worse than
\* the side.
LEMMA ThinFill ==
  ASSUME NEW full \in Nat \ {0}, NEW volume \in Nat, volume <= full,
         NEW bid \in Nat, NEW ask \in Nat, bid <= ask
  PROVE  /\ full * (bid + ask) <= 2 * full * ask
         /\ full * (bid + ask) >= 2 * full * bid
         /\ full * (bid + ask) + volume * (2 * ask - bid - ask) <= 2 * full * ask
         /\ full * (bid + ask) + volume * (2 * bid - bid - ask) >= 2 * full * bid
<1>. DEFINE d == ask - bid
<1>1. d \in Nat /\ ask = bid + d
  OBVIOUS
<1>2. volume * d <= full * d
  <2>1. PICK k \in Nat : full = volume + k
    <3>1. full - volume \in Nat /\ full = volume + (full - volume)
      OBVIOUS
    <3>. QED  BY <3>1
  <2>2. full * d = volume * d + k * d /\ k * d \in Nat /\ volume * d \in Nat
    BY <1>1, <2>1
  <2>. QED  BY <2>2
<1>3. /\ full * (bid + ask) = 2 * full * bid + full * d
      /\ 2 * full * ask = 2 * full * bid + 2 * (full * d)
      /\ volume * (2 * ask - bid - ask) = volume * d
      /\ volume * (2 * bid - bid - ask) = -(volume * d)
  BY <1>1
<1>4. full * d \in Nat /\ volume * d \in Nat /\ 2 * full * bid \in Nat
  BY <1>1
<1>. QED  BY <1>2, <1>3, <1>4

\* No fill model is worse than the quote of its side.
LEMMA FillWithinQuote ==
  ASSUME NEW row \in Rows, row.bid <= row.ask,
         NEW fill \in {"market", "mid", "volume"}, NEW dir
  PROVE  /\ FillPrice(fill, row, dir) \in Int
         /\ FillPrice("market", row, dir) \in Int
         /\ dir = "buy" => FillPrice(fill, row, dir) <= FillPrice("market", row, dir)
         /\ dir # "buy" => FillPrice(fill, row, dir) >= FillPrice("market", row, dir)
<1>. DEFINE side == IF dir = "buy" THEN row.ask ELSE row.bid
            mid  == FullVolume * (row.bid + row.ask)
            thin == mid + row.volume * (2 * side - row.bid - row.ask)
<1>1. /\ row.bid \in Nat /\ row.ask \in Nat /\ row.bid <= row.ask /\ row.volume \in Nat
      /\ FullVolume \in Nat \ {0}
  BY RowFacts, PresetsAssumption
<1>2. FillPrice("market", row, dir) = 2 * FullVolume * side
  BY DEF FillPrice, Scale
<1>3. \/ FillPrice(fill, row, dir) = 2 * FullVolume * side
      \/ FillPrice(fill, row, dir) = mid
      \/ row.volume <= FullVolume /\ FillPrice(fill, row, dir) = thin
  BY <1>1 DEF FillPrice, Scale
<1>4. 2 * FullVolume * side \in Int /\ mid \in Int /\ thin \in Int
  <2>1. side \in Int
    BY <1>1
  <2>. HIDE DEF side
  <2>2. row.volume * (2 * side - row.bid - row.ask) \in Int /\ mid \in Int
    BY <1>1, <2>1
  <2>. HIDE DEF mid
  <2>. QED  BY <1>1, <2>1, <2>2
<1>5. mid <= 2 * FullVolume * row.ask /\ mid >= 2 * FullVolume * row.bid
  BY <1>1, ThinFill
<1>6. CASE dir = "buy"
  <2>1. side = row.ask
    BY <1>6
  <2>2. row.volume <= FullVolume => thin <= 2 * FullVolume * side
    BY <1>1, <2>1, ThinFill
  <2>3. mid <= 2 * FullVolume * side
    BY <1>5, <2>1
  <2>. HIDE DEF side, mid, thin
  <2>. QED  BY <1>2, <1>3, <1>4, <1>6, <2>2, <2>3
<1>7. CASE dir # "buy"
  <2>1. side = row.bid
    BY <1>7
  <2>2. row.volume <= FullVolume => thin >= 2 * FullVolume * side
    BY <1>1, <2>1, ThinFill
  <2>3. mid >= 2 * FullVolume * side
    BY <1>5, <2>1
  <2>. HIDE DEF side, mid, thin
  <2>. QED  BY <1>2, <1>3, <1>4, <1>7, <2>2, <2>3
<1>. QED  BY <1>6, <1>7

\* A position costs no more than the quotes say, however it is filled.
LEMMA CostWithinQuotes ==
  ASSUME cfg \in Configs, legs = Built, NEW rows \in [DOMAIN legs -> Rows],
         \A l \in DOMAIN rows : rows[l].bid <= rows[l].ask,
         NEW fill \in {"market", "mid", "volume"}
  PROVE  /\ Cost(fill, rows) \in Int /\ Cost("market", rows) \in Int
         /\ Cost(fill, rows) <= Cost("market", rows)
<1>. DEFINE term(m) == [l \in DOMAIN rows |->
                          Sign(legs[l].dir) * FillPrice(m, rows[l], legs[l].dir)]
<1>1. PICK n \in 1..4 : DOMAIN rows = 1..n /\ Len(rows) = n /\ DOMAIN legs = 1..n
  BY PositionShape
<1>2. Cost(fill, rows) = Total(term(fill), n) /\ Cost("market", rows) = Total(term("market"), n)
  BY <1>1 DEF Cost
<1>3. ASSUME NEW l \in 1..n
      PROVE  /\ term(fill)[l] \in Int /\ term("market")[l] \in Int
             /\ term(fill)[l] <= term("market")[l]
  <2>1. rows[l] \in Rows /\ rows[l].bid <= rows[l].ask
    BY <1>1
  <2>. DEFINE dir == legs[l].dir
              price(m) == FillPrice(m, rows[l], dir)
  <2>2. /\ price(fill) \in Int /\ price("market") \in Int
        /\ dir = "buy" => price(fill) <= price("market")
        /\ dir # "buy" => price(fill) >= price("market")
    BY <2>1, FillWithinQuote
  <2>3. term(fill)[l] = Sign(dir) * price(fill) /\ term("market")[l] = Sign(dir) * price("market")
    BY <1>1
  <2>4. Sign(dir) = IF dir = "buy" THEN 1 ELSE -1
    BY DEF Sign
  <2>. HIDE DEF dir, price, term
  <2>. QED  BY <2>2, <2>3, <2>4
<1>4. DOMAIN term(fill) = 1..n /\ DOMAIN term("market") = 1..n
  BY <1>1
<1>. HIDE DEF term
<1>5. \A m \in {fill, "market"} : IntTerms(term(m), n)
  BY <1>3, <1>4 DEF IntTerms
<1>6. \A k \in 1..n : Term(term(fill), k) <= Term(term("market"), k)
  BY <1>3, <1>4 DEF Term
<1>7. Total(term(fill), n) \in Int /\ Total(term("market"), n) \in Int
  BY <1>1, <1>5, TotalInt DEF IntTerms
<1>8. Total(term(fill), n) <= Total(term("market"), n)
  BY <1>5, <1>6, TotalMonotone
<1>. QED  BY <1>2, <1>7, <1>8

\* A cost below the one a quantity was taken for, paid in that quantity.
LEMMA PaidWithin ==
  ASSUME NEW cost \in Int, NEW quoted \in Int, NEW n \in Nat, NEW money \in Nat,
         cost <= quoted, quoted >= 0 => quoted * n <= money
  PROVE  cost * n <= money
<1>1. PICK k \in Nat : quoted = cost + k
  <2>1. quoted - cost \in Nat /\ quoted = cost + (quoted - cost)
    OBVIOUS
  <2>. QED  BY <2>1
<1>2. k * n \in Nat /\ quoted * n = cost * n + k * n
  BY <1>1
<1>3. CASE quoted >= 0
  BY <1>2, <1>3
<1>4. CASE quoted < 0
  <2>1. PICK j \in Nat : quoted = -j
    <3>1. -quoted \in Nat /\ quoted = -(-quoted)
      BY <1>4
    <3>. QED  BY <3>1
  <2>2. quoted * n = -(j * n) /\ j * n \in Nat
    BY <2>1
  <2>. QED  BY <1>2, <2>2
<1>. QED  BY <1>3, <1>4

-----------------------------------------------------------------------------
(* The inductive invariant.                                                *)

LEMMA InitPresets == Init => PresetsInv
<1>. SUFFICES ASSUME Init PROVE PresetsInv
  OBVIOUS
<1>1. << >> \in Seq(Rows)
  OBVIOUS
<1>. QED  BY <1>1 DEF Init, PresetsInv, EntryInv

\* The legs depend on the configuration only.
LEMMA BuiltKept ==
  ASSUME UNCHANGED cfg
  PROVE  Built' = Built
BY DEF Built, DeepOtmPut, NearAtmPutProtection, Strangle, IronCondor, CoveredCall,
   CashSecuredPut, Collar, Butterfly, Leg, Above, Below, BelowBy

LEMMA QuoteKeeps ==
  ASSUME PresetsInv, Quote
  PROVE  PresetsInv'
<1>1. UNCHANGED <<cfg, legs, position, qty>>
  BY DEF Quote
<1>2. chain' \in Seq(Rows)
  <2>1. PICK r \in Rows : chain' = Append(chain, r)
    BY DEF Quote
  <2>. QED  BY <2>1 DEF PresetsInv
<1>3. Built' = Built
  BY <1>1, BuiltKept
<1>4. EntryInv'
  BY <1>1, Zenon DEF PresetsInv, EntryInv, Cost, Quantity
<1>. QED  BY <1>1, <1>2, <1>3, <1>4 DEF PresetsInv

LEMMA EnterKeeps ==
  ASSUME PresetsInv, Enter
  PROVE  PresetsInv'
<1>1. UNCHANGED <<cfg, legs, chain>>
  BY DEF Enter
<1>2. PICK order \in [DOMAIN legs -> UNION { Orders(legs[l]) : l \in DOMAIN legs }] :
        /\ \A l \in DOMAIN legs : order[l] \in Orders(legs[l])
        /\ LET rows == Selected(order)
               buys == rows # << >> /\ Cost("market", rows) # 0 /\ Quantity(rows) > 0
           IN  /\ position' = IF buys THEN rows ELSE << >>
               /\ qty' = IF buys THEN Quantity(rows) ELSE 0
  BY DEF Enter
<1>3. Built' = Built
  BY <1>1, BuiltKept
<1>4. ASSUME position' # << >>
      PROVE  /\ position' \in [DOMAIN legs -> Rows]
             /\ \A l \in DOMAIN legs : Admits(legs[l], position'[l])
             /\ Cost("market", position') # 0 /\ qty' = Quantity(position')
  <2>. DEFINE rows == Selected(order)
  <2>1. position' = rows /\ rows # << >> /\ Cost("market", rows) # 0 /\ qty' = Quantity(rows)
    BY <1>2, <1>4
  <2>2. /\ rows \in [DOMAIN legs -> Rows]
        /\ \A l \in DOMAIN legs : Admits(legs[l], rows[l])
    BY <1>2, <2>1, ChoiceIsAdmitted DEF PresetsInv
  <2>. HIDE DEF rows
  <2>. QED  BY <2>1, <2>2
<1>5. EntryInv'
  BY <1>1, <1>4, Zenon DEF EntryInv, Cost, Quantity
<1>. QED  BY <1>1, <1>3, <1>5 DEF PresetsInv

LEMMA NextPresets == PresetsInv /\ [Next]_vars => PresetsInv'
<1>. SUFFICES ASSUME PresetsInv, [Next]_vars PROVE PresetsInv'
  OBVIOUS
<1>1. CASE UNCHANGED vars
  <2>1. UNCHANGED <<cfg, legs, chain, position, qty>>
    BY <1>1 DEF vars
  <2>2. Built' = Built
    BY <2>1, BuiltKept
  <2>3. EntryInv'
    BY <2>1, Zenon DEF PresetsInv, EntryInv, Cost, Quantity
  <2>. QED  BY <2>1, <2>2, <2>3 DEF PresetsInv
<1>. QED  BY <1>1, QuoteKeeps, EnterKeeps DEF Next, Rest

\* What an entry holds is, for every leg, a row that leg's filter admits, in the
\* quantity the budget pays at the quotes.
THEOREM PresetsInvariant == Spec => []PresetsInv
  BY InitPresets, NextPresets, PTL DEF Spec

-----------------------------------------------------------------------------
(* The properties.                                                         *)

\* No entry costs more than its budget or than its quotes, although it is sized
\* before it is priced, as long as none of its quotes is crossed.
THEOREM DebitHolds == Spec => []DebitWithinBudget
<1>1. ASSUME PresetsInv, position # << >>,
             \A l \in DOMAIN position : position[l].bid <= position[l].ask
      PROVE  /\ Cost(cfg.fill, position) * qty <= Scale * cfg.budget
             /\ Cost(cfg.fill, position) <= Cost("market", position)
  <2>. DEFINE cost   == Cost(cfg.fill, position)
              quoted == Cost("market", position)
              money  == Scale * cfg.budget
  <2>1. cfg \in Configs /\ legs = Built /\ position \in [DOMAIN legs -> Rows]
    BY <1>1 DEF PresetsInv, EntryInv
  <2>2. cfg.fill \in {"market", "mid", "volume"}
    BY <2>1, PresetsAssumption DEF Config
  <2>3. cost \in Int /\ quoted \in Int /\ cost <= quoted
    BY <1>1, <2>1, <2>2, CostWithinQuotes
  <2>4. money \in Nat
    <3>1. FullVolume \in Nat /\ cfg.budget \in Nat
      BY <2>1, ConfigFacts, PresetsAssumption
    <3>. QED  BY <3>1 DEF Scale
  <2>5. quoted # 0 /\ qty = money \div Magnitude(quoted)
    BY <1>1 DEF PresetsInv, EntryInv, Quantity
  <2>. HIDE DEF cost, quoted, money
  <2>6. Magnitude(quoted) \in Nat \ {0} /\ (quoted >= 0 => Magnitude(quoted) = quoted)
    BY <2>3, <2>5 DEF Magnitude
  <2>7. qty \in Nat /\ Magnitude(quoted) * qty <= money
    BY <2>4, <2>5, <2>6, AsManyAsPaid
  <2>8. quoted >= 0 => quoted * qty <= money
    BY <2>6, <2>7
  <2>9. cost * qty <= money
    BY <2>3, <2>4, <2>7, <2>8, PaidWithin
  <2>. QED  BY <2>3, <2>9 DEF cost, quoted, money
<1>2. PresetsInv => DebitWithinBudget
  BY <1>1 DEF DebitWithinBudget
<1>. QED  BY <1>2, PresetsInvariant, PTL

LEMMA TotalOfOne ==
  ASSUME NEW f, DOMAIN f = 1..1, f[1] \in Int
  PROVE  Total(f, 1) = f[1]
<1>1. IntTerms(f, 1)
  BY DEF IntTerms
<1>2. Total(f, 0) = 0 /\ Total(f, 1) = Total(f, 0) + Term(f, 1)
  <2>1. \A n \in 1..1 : Total(f, n) = Total(f, n-1) + Term(f, n)
    BY <1>1, TotalRecursion
  <2>2. Total(f, 0) = 0
    BY <1>1, TotalRecursion
  <2>. QED  BY <2>1, <2>2
<1>. QED  BY <1>2 DEF Term

LEMMA TotalOfTwo ==
  ASSUME NEW f, DOMAIN f = 1..2, f[1] \in Int, f[2] \in Int
  PROVE  Total(f, 2) = f[1] + f[2]
<1>1. IntTerms(f, 2)
  BY DEF IntTerms
<1>2. /\ Total(f, 0) = 0 /\ Total(f, 1) = Total(f, 0) + Term(f, 1)
      /\ Total(f, 2) = Total(f, 1) + Term(f, 2)
  <2>1. \A n \in 1..2 : Total(f, n) = Total(f, n-1) + Term(f, n)
    BY <1>1, TotalRecursion
  <2>2. Total(f, 0) = 0
    BY <1>1, TotalRecursion
  <2>. QED  BY <2>1, <2>2
<1>. QED  BY <1>2 DEF Term

\* Stock under a sold call is worth no more than the call's strike.
LEMMA CallCaps ==
  ASSUME NEW call \in Rows, call.type = "call", NEW spot \in Nat
  PROVE  /\ Intrinsic(call, spot) \in Nat
         /\ spot - Intrinsic(call, spot) <= call.strike
         /\ spot <= call.strike => Intrinsic(call, spot) = 0
         /\ spot > call.strike => spot - Intrinsic(call, spot) = call.strike
BY RowFacts DEF Intrinsic

\* Stock under a bought put is worth no less than the put's strike.
LEMMA PutFloors ==
  ASSUME NEW put \in Rows, put.type = "put", NEW spot \in Nat
  PROVE  /\ Intrinsic(put, spot) \in Nat
         /\ spot + Intrinsic(put, spot) >= put.strike
         /\ spot >= put.strike => Intrinsic(put, spot) = 0
         /\ spot < put.strike => spot + Intrinsic(put, spot) = put.strike
BY RowFacts DEF Intrinsic

\* The put's band ends where the call's begins, or before.
LEMMA BandsApart ==
  ASSUME NEW spot \in Nat, NEW call \in Nat, NEW put \in Nat,
         NEW lo \in Int, NEW hi \in Int, hi <= lo,
         lo * spot <= 100 * call, 100 * put <= hi * spot
  PROVE  put <= call
<1>1. PICK k \in Nat : lo = hi + k
  <2>1. lo - hi \in Nat /\ lo = hi + (lo - hi)
    OBVIOUS
  <2>. QED  BY <2>1
<1>2. lo * spot = hi * spot + k * spot /\ k * spot \in Nat /\ hi * spot \in Int
  BY <1>1
<1>. QED  BY <1>2

LEMMA CoveredCallCaps ==
  ASSUME PresetsInv, position # << >>, cfg.preset = "covered_call", NEW spot \in Nat
  PROVE  spot + Payoff(spot) <= position[1].strike
<1>1. legs = << Leg("call", "sell", Above(cfg.otm), Unsorted) >>
  BY DEF PresetsInv, Built, CoveredCall
<1>2. /\ DOMAIN legs = 1..1
      /\ legs[1].dir = "sell" /\ legs[1].type = "call"
  BY <1>1 DEF Leg
<1>3. position \in [1..1 -> Rows] /\ Admits(legs[1], position[1])
  BY <1>2 DEF PresetsInv, EntryInv
<1>4. position[1] \in Rows /\ position[1].type = "call" /\ Len(position) = 1
  <2>1. position \in Seq(Rows)
    BY <1>3
  <2>. QED  BY <1>2, <1>3, <2>1 DEF Admits, BaseEntryFilter
<1>. DEFINE in == Intrinsic(position[1], spot)
            pay == [l \in DOMAIN position |->
                      Sign(legs[l].dir) * Intrinsic(position[l], spot)]
<1>5. in \in Nat /\ spot - in <= position[1].strike
  BY <1>4, CallCaps
<1>6. pay[1] = -in /\ DOMAIN pay = 1..1
  <2>1. Sign(legs[1].dir) = -1
    BY <1>2 DEF Sign
  <2>2. pay[1] = Sign(legs[1].dir) * in /\ DOMAIN pay = 1..1
    BY <1>3
  <2>. HIDE DEF pay, in
  <2>. QED  BY <1>5, <2>1, <2>2
<1>7. Payoff(spot) = Total(pay, 1)
  BY <1>4 DEF Payoff
<1>. HIDE DEF pay, in
<1>8. Payoff(spot) = -in
  BY <1>5, <1>6, <1>7, TotalOfOne
<1>9. position[1].strike \in Nat
  BY <1>4, RowFacts
<1>. QED  BY <1>5, <1>8, <1>9

LEMMA CollarBounds ==
  ASSUME PresetsInv, position # << >>, cfg.preset = "collar",
         cfg.otm + cfg.putOtm >= 2 * cfg.tol, NEW spot \in Nat
  PROVE  spot + Payoff(spot) \in position[2].strike..position[1].strike
<1>1. legs = << Leg("call", "sell", Above(cfg.otm), Unsorted),
                Leg("put", "buy", Below(cfg.putOtm), Unsorted) >>
  BY DEF PresetsInv, Built, Collar
<1>2. /\ DOMAIN legs = 1..2
      /\ legs[1] = Leg("call", "sell", Above(cfg.otm), Unsorted)
      /\ legs[2] = Leg("put", "buy", Below(cfg.putOtm), Unsorted)
  BY <1>1
<1>3. /\ legs[1].dir = "sell" /\ legs[1].type = "call" /\ Above(cfg.otm) \subseteq legs[1].entry
      /\ legs[2].dir = "buy" /\ legs[2].type = "put" /\ Below(cfg.putOtm) \subseteq legs[2].entry
  BY <1>2 DEF Leg
<1>. DEFINE call == position[1]
            put  == position[2]
<1>4. /\ position \in [1..2 -> Rows] /\ Len(position) = 2
      /\ Admits(legs[1], call) /\ Admits(legs[2], put)
  <2>1. position \in [1..2 -> Rows] /\ Admits(legs[1], call) /\ Admits(legs[2], put)
    BY <1>2 DEF PresetsInv, EntryInv
  <2>2. Len(position) = 2
    <3>1. PICK n \in 1..4 : DOMAIN position = 1..n /\ Len(position) = n /\ DOMAIN legs = 1..n
      BY PositionShape DEF PresetsInv, EntryInv
    <3>2. n \in Nat /\ 1..n = 1..2
      BY <1>2, <3>1
    <3>3. n = 2
      BY <3>2, SameInterval
    <3>. QED  BY <3>1, <3>3, Zenon
  <2>. QED  BY <2>1, <2>2
<1>5. /\ call \in Rows /\ call.type = "call" /\ call.strike \in Nat
      /\ put \in Rows /\ put.type = "put" /\ put.strike \in Nat
  BY <1>3, <1>4, RowFacts DEF Admits, BaseEntryFilter
<1>6. put.strike <= call.strike
  <2>. DEFINE lo == 100 + cfg.otm - cfg.tol
              hi == 100 - cfg.putOtm + cfg.tol
  <2>1. cfg.otm \in Nat /\ cfg.putOtm \in Nat /\ cfg.tol \in Nat /\ Spot \in Nat
    BY ConfigFacts, PresetsAssumption DEF PresetsInv
  <2>2. lo * Spot <= 100 * call.strike
    <3>1. Cond("strike", <<lo, 100 + cfg.otm + cfg.tol>>) \in legs[1].entry
      BY <1>3 DEF Above
    <3>2. Holds(call, Cond("strike", <<lo, 100 + cfg.otm + cfg.tol>>))
      BY <1>4, <3>1 DEF Admits
    <3>. QED  BY <3>2 DEF Holds, Cond
  <2>3. 100 * put.strike <= hi * Spot
    <3>1. Cond("strike", <<100 - cfg.putOtm - cfg.tol, hi>>) \in legs[2].entry
      BY <1>3 DEF Below, BelowBy
    <3>2. Holds(put, Cond("strike", <<100 - cfg.putOtm - cfg.tol, hi>>))
      BY <1>4, <3>1 DEF Admits
    <3>. QED  BY <3>2 DEF Holds, Cond
  <2>4. lo \in Int /\ hi \in Int /\ hi <= lo
    <3>. DEFINE x == cfg.otm
                y == cfg.putOtm
                z == cfg.tol
    <3>1. x \in Nat /\ y \in Nat /\ z \in Nat /\ x + y >= 2 * z
      BY <2>1
    <3>2. lo = 100 + x - z /\ hi = 100 - y + z
      OBVIOUS
    <3>. HIDE DEF x, y, z, lo, hi
    <3>. QED  BY <3>1, <3>2
  <2>5. Spot \in Nat /\ call.strike \in Nat /\ put.strike \in Nat
    BY <1>5, <2>1
  <2>. HIDE DEF lo, hi, call, put
  <2>. QED  BY <2>2, <2>3, <2>4, <2>5, BandsApart
<1>. DEFINE owed == Intrinsic(call, spot)
            paid == Intrinsic(put, spot)
            pay  == [l \in DOMAIN position |->
                       Sign(legs[l].dir) * Intrinsic(position[l], spot)]
<1>7. /\ owed \in Nat /\ (spot <= call.strike => owed = 0)
      /\ (spot > call.strike => spot - owed = call.strike)
  BY <1>5, CallCaps
<1>8. /\ paid \in Nat /\ (spot >= put.strike => paid = 0)
      /\ (spot < put.strike => spot + paid = put.strike)
  BY <1>5, PutFloors
<1>9. pay[1] = -owed /\ pay[2] = paid /\ DOMAIN pay = 1..2
  <2>1. Sign(legs[1].dir) = -1 /\ Sign(legs[2].dir) = 1
    BY <1>3 DEF Sign
  <2>2. /\ pay[1] = Sign(legs[1].dir) * owed /\ pay[2] = Sign(legs[2].dir) * paid
        /\ DOMAIN pay = 1..2
    BY <1>4
  <2>. HIDE DEF pay, owed, paid
  <2>. QED  BY <1>7, <1>8, <2>1, <2>2
<1>10. Payoff(spot) = Total(pay, 2)
  BY <1>4 DEF Payoff
<1>. HIDE DEF pay, owed, paid
<1>11. Payoff(spot) = paid - owed
  BY <1>7, <1>8, <1>9, <1>10, TotalOfTwo
<1>. QED  BY <1>5, <1>6, <1>7, <1>8, <1>11

\* The stock a covered call or a collar is written on is worth at expiry what
\* the strikes say, wherever it ends.
THEOREM StockShielded == Spec => []StockIsShielded
<1>1. ASSUME PresetsInv PROVE StockIsShielded
  <2>1. \A spot \in 0..2 * Spot : spot \in Nat
    BY PresetsAssumption
  <2>. QED  BY <1>1, <2>1, CoveredCallCaps, CollarBounds DEF StockIsShielded
<1>2. PresetsInv => StockIsShielded
  BY <1>1
<1>. QED  BY <1>2, PresetsInvariant, PTL

-----------------------------------------------------------------------------
(* The invariant of the trade log.                                         *)

\* The rows of the contract of row k before it.
Sooner(K, k) == {j \in Of(K, log[k].contract) : j < k}

\* Exit row x sold the position that entry row e opened: the contract has no row
\* in between, and as many exits before x as entries before e.
Closes(e, x) ==
  /\ e \in EntryRows /\ x \in ExitRows /\ e < x
  /\ log[e].contract = log[x].contract /\ log[e].qty = log[x].qty
  /\ log[e].date < log[x].date
  /\ \A k \in DOMAIN log : e < k /\ k < x => log[k].contract # log[e].contract
  /\ Cardinality(Sooner(EntryRows, e)) = Cardinality(Sooner(ExitRows, x))
EntryOf(x) == CHOOSE e \in EntryRows : Closes(e, x)
ExitOf(e) == CHOOSE x \in ExitRows : Closes(e, x)

\* Rows are written in the order of their dates, the exits of a date first.
DatedInv ==
  /\ \A j, k \in DOMAIN log : j <= k => log[j].date <= log[k].date
  /\ \A k \in DOMAIN log : log[k].date <= day
  /\ stage = "exits" => \A k \in EntryRows : log[k].date < day
  /\ stage = "entries" => day <= LastDay

\* A leg is entered and exited with the orders of its direction; a bought one
\* costs money and its sale brings some.
OrdersInv ==
  /\ \A k \in EntryRows : log[k].order = EntryOrder /\ (direction = "BUY" => log[k].cost >= 0)
  /\ \A k \in ExitRows : log[k].order = ExitOrder /\ (direction = "BUY" => log[k].cost <= 0)

\* Each exit closes an entry, each entry that is not held was closed, and a
\* contract is entered again on a later date only.
MatchedInv ==
  /\ \A x \in ExitRows : \E e \in EntryRows : Closes(e, x)
  /\ \A e \in EntryRows : e \notin Range(book) <=> \E x \in ExitRows : Closes(e, x)
  /\ \A d, e \in EntryRows : d < e /\ log[d].contract = log[e].contract => log[d].date < log[e].date
  /\ \A c \in DOMAIN book : \A k \in Of(DOMAIN log, c) : k <= book[c]

CountedInv ==
  /\ \A c \in Contracts : Cardinality(Of(EntryRows, c))
                            = Cardinality(Of(ExitRows, c)) + IF c \in DOMAIN book THEN 1 ELSE 0
  /\ Cardinality(EntryRows \ Range(book)) = Cardinality(ExitRows)

\* A day ended with the positions entered by then and not yet sold.
EndsInv ==
  \A d \in 1..Len(ends) :
    Range(ends[d]) = {e \in EntryRows :
      log[e].date <= d /\ \A x \in ExitRows : Closes(e, x) => d < log[x].date}

\* What round trips made is cash, or still in the positions; by exit and by entry.
AccountedInv ==
  /\ LogTotal([x \in ExitRows |-> -Dollars(x) - Dollars(EntryOf(x))]) = LogCash + Basis(book)
  /\ LogTotal([e \in EntryRows \ Range(book) |-> -Dollars(e) - Dollars(ExitOf(e))])
       = LogCash + Basis(book)

LogInv ==
  TradeLogTypeOK /\ DatedInv /\ OrdersInv /\ MatchedInv /\ CountedInv /\ EndsInv /\ AccountedInv

-----------------------------------------------------------------------------
(* The log.                                                                *)

LEMMA LogFacts ==
  ASSUME TradeLogTypeOK
  PROVE  /\ Len(log) \in Nat /\ DOMAIN log = 1..Len(log) /\ day \in Nat /\ LastDay \in Nat
         /\ \A k \in DOMAIN log :
              /\ k \in Nat /\ log[k] \in LogRows /\ log[k].date \in Nat /\ log[k].contract \in Contracts
              /\ log[k].cost \in Int /\ log[k].qty \in Nat \ {0}
         /\ EntryRows \subseteq DOMAIN log /\ ExitRows \subseteq DOMAIN log
         /\ EntryRows \cup ExitRows = DOMAIN log /\ EntryRows \cap ExitRows = {}
         /\ Range(book) \subseteq EntryRows /\ Len(ends) = day - 1
<1>1. /\ log \in Seq(LogRows) /\ day \in 1..(LastDay + 1) /\ Len(ends) = day - 1
      /\ \A c \in DOMAIN book : book[c] \in Of(EntryRows, c)
  BY DEF TradeLogTypeOK
<1>2. Len(log) \in Nat /\ DOMAIN log = 1..Len(log) /\ \A k \in DOMAIN log : log[k] \in LogRows
  BY <1>1
<1>3. \A r \in LogRows : /\ r.date \in 1..LastDay /\ r.contract \in Contracts
                         /\ r.cost \in Int /\ r.qty \in Nat \ {0}
  BY DEF LogRows
<1>4. LastDay \in Nat /\ day \in Nat /\ \A d \in 1..LastDay : d \in Nat
  BY <1>1, TradeLogAssumption
<1>5. \A k \in DOMAIN log : k \in Nat
  BY <1>2
<1>6. Range(book) \subseteq EntryRows
  BY <1>1 DEF Of, Range
<1>7. /\ EntryRows \subseteq DOMAIN log /\ ExitRows \subseteq DOMAIN log
      /\ EntryRows \cup ExitRows = DOMAIN log /\ EntryRows \cap ExitRows = {}
  BY DEF EntryRows, ExitRows
<1>8. \A k \in DOMAIN log :
        /\ log[k].date \in Nat /\ log[k].contract \in Contracts
        /\ log[k].cost \in Int /\ log[k].qty \in Nat \ {0}
  BY <1>2, <1>3, <1>4
<1>. QED  BY <1>1, <1>2, <1>4, <1>5, <1>6, <1>7, <1>8

\* Sets of rows are finite; what a row costs is an integer.
LEMMA RowSets ==
  ASSUME TradeLogTypeOK
  PROVE  /\ \A K \in SUBSET DOMAIN log : IsFiniteSet(K) /\ Cardinality(K) \in Nat
         /\ \A k \in DOMAIN log : Dollars(k) \in Int
<1>1. /\ Len(log) \in Nat /\ DOMAIN log = 1..Len(log)
      /\ \A k \in DOMAIN log : log[k].cost \in Int /\ log[k].qty \in Nat \ {0}
  BY LogFacts
<1>2. IsFiniteSet(DOMAIN log)
  BY <1>1, FS_Interval
<1>3. \A K \in SUBSET DOMAIN log : IsFiniteSet(K) /\ Cardinality(K) \in Nat
  BY <1>2, FS_Subset, FS_CardinalityType
<1>4. ASSUME NEW k \in DOMAIN log PROVE Dollars(k) \in Int
  <2>1. log[k].cost \in Int /\ log[k].qty \in Int
    BY <1>1
  <2>. QED  BY <2>1 DEF Dollars
<1>. QED  BY <1>3, <1>4

\* An entry has one exit and an exit one entry.
LEMMA ClosesOnce ==
  ASSUME TradeLogTypeOK, NEW e, NEW x, Closes(e, x)
  PROVE  /\ \A d : Closes(d, x) => d = e
         /\ \A y : Closes(e, y) => y = x
         /\ EntryOf(x) = e /\ ExitOf(e) = x
         /\ e \in EntryRows /\ x \in ExitRows /\ e \in DOMAIN log /\ x \in DOMAIN log
<1>1. /\ \A k \in DOMAIN log : k \in Nat
      /\ EntryRows \subseteq DOMAIN log /\ ExitRows \subseteq DOMAIN log
  BY LogFacts
<1>2. ASSUME NEW d, Closes(d, x) PROVE d = e
  BY <1>1, <1>2 DEF Closes
<1>3. ASSUME NEW y, Closes(e, y) PROVE y = x
  <2>1. /\ e < x /\ x \in DOMAIN log /\ log[e].contract = log[x].contract
        /\ \A k \in DOMAIN log : e < k /\ k < x => log[k].contract # log[e].contract
    BY <1>1 DEF Closes
  <2>2. /\ e < y /\ y \in DOMAIN log /\ log[e].contract = log[y].contract
        /\ \A k \in DOMAIN log : e < k /\ k < y => log[k].contract # log[e].contract
    BY <1>1, <1>3 DEF Closes
  <2>3. ~ (x < y) /\ ~ (y < x)
    BY <2>1, <2>2
  <2>. QED  BY <1>1, <2>1, <2>2, <2>3
<1>4. e \in EntryRows /\ x \in ExitRows
  BY DEF Closes
<1>5. EntryOf(x) = e
  BY <1>2, <1>4 DEF EntryOf
<1>6. ExitOf(e) = x
  BY <1>3, <1>4 DEF ExitOf
<1>. QED  BY <1>1, <1>2, <1>3, <1>4, <1>5, <1>6

-----------------------------------------------------------------------------
(* A row more.                                                             *)

LEMMA Appended ==
  ASSUME TradeLogTypeOK, NEW r \in LogRows, log' = Append(log, r)
  PROVE  /\ Len(log)' = Len(log) + 1 /\ (DOMAIN log)' = 1..(Len(log) + 1)
         /\ (DOMAIN log)' = DOMAIN log \cup {Len(log) + 1} /\ Len(log) + 1 \notin DOMAIN log
         /\ log' \in Seq(LogRows) /\ log'[Len(log) + 1] = r
         /\ \A k \in DOMAIN log : log'[k] = log[k]
         /\ r.order \in {"BTO", "STO"} =>
              EntryRows' = EntryRows \cup {Len(log) + 1} /\ ExitRows' = ExitRows
         /\ r.order \notin {"BTO", "STO"} =>
              EntryRows' = EntryRows /\ ExitRows' = ExitRows \cup {Len(log) + 1}
<1>. DEFINE n == Len(log)
<1>1. n \in Nat /\ DOMAIN log = 1..n /\ log \in Seq(LogRows)
  BY LogFacts DEF TradeLogTypeOK
<1>2. /\ Len(log)' = n + 1 /\ (DOMAIN log)' = 1..(n + 1)
      /\ log' \in Seq(LogRows) /\ log'[n + 1] = r /\ \A k \in 1..n : log'[k] = log[k]
  BY <1>1
<1>3. 1..(n + 1) = 1..n \cup {n + 1} /\ n + 1 \notin 1..n
  BY <1>1
<1>. HIDE DEF n
<1>4. /\ EntryRows' = {k \in DOMAIN log \cup {n + 1} : log'[k].order \in {"BTO", "STO"}}
      /\ ExitRows' = (DOMAIN log \cup {n + 1}) \ EntryRows'
  BY <1>1, <1>2, <1>3 DEF EntryRows, ExitRows
<1>5. CASE r.order \in {"BTO", "STO"}
  <2>1. EntryRows' = EntryRows \cup {n + 1}
    BY <1>1, <1>2, <1>4, <1>5 DEF EntryRows
  <2>2. ExitRows' = ExitRows
    BY <1>1, <1>3, <1>4, <2>1 DEF ExitRows
  <2>. QED  BY <1>1, <1>2, <1>3, <1>5, <2>1, <2>2 DEF n
<1>6. CASE r.order \notin {"BTO", "STO"}
  <2>1. EntryRows' = EntryRows
    BY <1>1, <1>2, <1>4, <1>6 DEF EntryRows
  <2>2. ExitRows' = ExitRows \cup {n + 1}
    <3>1. n + 1 \notin EntryRows
      BY <1>1, <1>3 DEF EntryRows
    <3>. QED  BY <1>4, <2>1, <3>1 DEF ExitRows
  <2>. QED  BY <1>1, <1>2, <1>3, <1>6, <2>1, <2>2 DEF n
<1>. QED  BY <1>5, <1>6

\* What was said of earlier rows still holds of them.
LEMMA EarlierRows ==
  ASSUME TradeLogTypeOK, NEW r \in LogRows, log' = Append(log, r)
  PROVE  /\ \A k \in DOMAIN log : Dollars(k)' = Dollars(k)
         /\ \A e, x \in DOMAIN log : Closes(e, x)' <=> Closes(e, x)
         /\ \A c : /\ Of(EntryRows, c)' = IF r.order \in {"BTO", "STO"} /\ r.contract = c
                                          THEN Of(EntryRows, c) \cup {Len(log) + 1}
                                          ELSE Of(EntryRows, c)
                   /\ Of(ExitRows, c)' = IF r.order \notin {"BTO", "STO"} /\ r.contract = c
                                         THEN Of(ExitRows, c) \cup {Len(log) + 1}
                                         ELSE Of(ExitRows, c)
         /\ \A m : m = Len(log) + 1 => \A x \in DOMAIN log : ~ Closes(m, x)'
<1>. DEFINE n == Len(log)
<1>1. /\ n \in Nat /\ DOMAIN log = 1..n /\ \A k \in DOMAIN log : k \in Nat /\ k < n + 1
      /\ EntryRows \subseteq DOMAIN log /\ ExitRows \subseteq DOMAIN log
  BY LogFacts
<1>2. /\ (DOMAIN log)' = DOMAIN log \cup {n + 1} /\ n + 1 \notin DOMAIN log
      /\ log'[n + 1] = r /\ \A k \in DOMAIN log : log'[k] = log[k]
      /\ r.order \in {"BTO", "STO"} => EntryRows' = EntryRows \cup {n + 1} /\ ExitRows' = ExitRows
      /\ r.order \notin {"BTO", "STO"} => EntryRows' = EntryRows /\ ExitRows' = ExitRows \cup {n + 1}
  BY Appended
<1>. HIDE DEF n
<1>3. \A k \in DOMAIN log : Dollars(k)' = Dollars(k)
  BY <1>2 DEF Dollars
<1>4. ASSUME NEW k \in DOMAIN log
      PROVE  Sooner(EntryRows, k)' = Sooner(EntryRows, k) /\ Sooner(ExitRows, k)' = Sooner(ExitRows, k)
  <2>1. ~ (n + 1 < k) /\ log'[k] = log[k]
    BY <1>1, <1>2
  <2>. QED  BY <1>1, <1>2, <2>1 DEF Sooner, Of
<1>5. ASSUME NEW e \in DOMAIN log, NEW x \in DOMAIN log
      PROVE  Closes(e, x)' <=> Closes(e, x)
  <2>1. /\ Sooner(EntryRows, e)' = Sooner(EntryRows, e) /\ Sooner(ExitRows, x)' = Sooner(ExitRows, x)
        /\ e \in EntryRows' <=> e \in EntryRows
        /\ x \in ExitRows' <=> x \in ExitRows
        /\ log'[e] = log[e] /\ log'[x] = log[x]
    BY <1>2, <1>4
  <2>2. (\A k \in DOMAIN log : e < k /\ k < x => log[k].contract # log[e].contract)'
          <=> \A k \in DOMAIN log : e < k /\ k < x => log[k].contract # log[e].contract
    <3>1. ~ (n + 1 < x)
      BY <1>1
    <3>. QED  BY <1>2, <2>1, <3>1
  <2>. QED  BY <2>1, <2>2 DEF Closes
<1>6. ASSUME NEW c
      PROVE  /\ Of(EntryRows, c)' = IF r.order \in {"BTO", "STO"} /\ r.contract = c
                                    THEN Of(EntryRows, c) \cup {n + 1} ELSE Of(EntryRows, c)
             /\ Of(ExitRows, c)' = IF r.order \notin {"BTO", "STO"} /\ r.contract = c
                                   THEN Of(ExitRows, c) \cup {n + 1} ELSE Of(ExitRows, c)
  <2>1. \A k \in EntryRows \cup ExitRows : log'[k] = log[k]
    BY <1>1, <1>2
  <2>. QED  BY <1>2, <2>1 DEF Of
<1>7. ASSUME NEW m, m = n + 1 PROVE \A x \in DOMAIN log : ~ Closes(m, x)'
  <2>1. \A x \in DOMAIN log : Closes(m, x)' => m < x
    BY DEF Closes
  <2>2. \A x \in DOMAIN log : ~ (m < x)
    BY <1>1, <1>7
  <2>. QED  BY <2>1, <2>2
<1>. QED  BY <1>3, <1>5, <1>6, <1>7 DEF n

-----------------------------------------------------------------------------
(* Sums over rows.                                                         *)

Adds(f, g, y) ==
  /\ y \notin DOMAIN f /\ DOMAIN g = DOMAIN f \cup {y}
  /\ (\A k \in DOMAIN f : g[k] = f[k]) /\ g[y] \in Int

\* A term more.
LEMMA TotalWith ==
  ASSUME NEW N \in Nat, NEW f, IntTerms(f, N), NEW y \in 1..N, NEW g, Adds(f, g, y)
  PROVE  Total(g, N) = Total(f, N) + g[y] /\ IntTerms(g, N) /\ Total(f, N) \in Int
<1>0. /\ y \notin DOMAIN f /\ DOMAIN g = DOMAIN f \cup {y}
      /\ (\A k \in DOMAIN f : g[k] = f[k]) /\ g[y] \in Int
  BY DEF Adds
<1>. USE <1>0
<1>. DEFINE s == [k \in {y} |-> g[y]]
<1>1. DOMAIN s = {y} /\ s[y] = g[y]
  OBVIOUS
<1>. HIDE DEF s
<1>2. Total(s, N) = g[y] /\ IntTerms(s, N)
  BY <1>1, TotalSingle
<1>3. IntTerms(g, N)
  BY DEF IntTerms
<1>4. \A k \in 1..N : Term(f, k) \in Int /\ Term(s, k) \in Int
  BY <1>2 DEF IntTerms, Term
<1>5. \A k \in 1..N : Term(g, k) = Term(f, k) + Term(s, k)
  <2>1. ASSUME NEW k \in 1..N PROVE Term(g, k) = Term(f, k) + Term(s, k)
    <3>1. CASE k = y
      <4>1. Term(f, k) = 0 /\ Term(g, k) = g[y] /\ Term(s, k) = g[y]
        BY <1>1, <3>1 DEF Term
      <4>. QED  BY <4>1
    <3>2. CASE k # y
      <4>1. Term(s, k) = 0 /\ Term(g, k) = Term(f, k)
        BY <1>1, <3>2 DEF Term
      <4>. QED  BY <1>4, <4>1
    <3>. QED  BY <3>1, <3>2
  <2>. QED  BY <2>1
<1>6. Total(g, N) = Total(f, N) + Total(s, N)
  BY <1>2, <1>3, <1>5, TotalSum
<1>7. Total(f, N) \in Int
  BY TotalInt DEF IntTerms
<1>. QED  BY <1>2, <1>3, <1>6, <1>7

\* The total of a log does not count rows to come.
LEMMA TotalLonger ==
  ASSUME NEW n \in Nat, NEW f, IntTerms(f, n), DOMAIN f \subseteq 1..n
  PROVE  Total(f, n + 1) = Total(f, n) /\ IntTerms(f, n + 1) /\ Total(f, n) \in Int
<1>1. n + 1 \in Nat /\ n \in 0..(n + 1) /\ 1..n \subseteq 1..(n + 1)
  OBVIOUS
<1>2. IntTerms(f, n + 1)
  BY DEF IntTerms
<1>3. \A k \in (n + 1)..(n + 1) : Term(f, k) = 0
  <2>1. \A k \in (n + 1)..(n + 1) : k \notin 1..n
    OBVIOUS
  <2>. QED  BY <2>1 DEF Term
<1>4. Total(f, n + 1) = Total(f, n)
  BY <1>1, <1>2, <1>3, TotalPadded
<1>5. Total(f, n) \in Int
  BY TotalInt DEF IntTerms
<1>. QED  BY <1>2, <1>4, <1>5

\* The sums over a log are sums of integers.
LEMMA RowSums ==
  ASSUME TradeLogTypeOK, NEW f, DOMAIN f \subseteq DOMAIN log, \A k \in DOMAIN f : f[k] \in Int
  PROVE  IntTerms(f, Len(log)) /\ LogTotal(f) \in Int
<1>1. Len(log) \in Nat
  BY LogFacts
<1>2. IntTerms(f, Len(log))
  BY DEF IntTerms
<1>. QED  BY <1>1, <1>2, TotalInt DEF IntTerms, LogTotal

-----------------------------------------------------------------------------
(* A position sold.                                                        *)

\* Row r is written at x, and sells what c was entered for at e.
Sells(c, r, e, x) ==
  /\ c \in DOMAIN book /\ e = book[c] /\ e \in Of(EntryRows, c) /\ e \in DOMAIN log
  /\ r \in LogRows /\ log' = Append(log, r) /\ x = Len(log) + 1 /\ x \notin DOMAIN log
  /\ r.contract = c /\ r.date = day /\ r.qty = log[e].qty
  /\ r.order = ExitOrder /\ r.order \notin {"BTO", "STO"} /\ (direction = "BUY" => r.cost <= 0)
  /\ DOMAIN book' = DOMAIN book \ {c} /\ \A b \in DOMAIN book' : book'[b] = book[b]
  /\ Range(book') = Range(book) \ {e}
  /\ EntryRows' = EntryRows /\ ExitRows' = ExitRows \cup {x}
  /\ (DOMAIN log)' = DOMAIN log \cup {x} /\ Len(log)' = x
  /\ log'[x] = r /\ \A k \in DOMAIN log : log'[k] = log[k]
  /\ Closes(e, x)' /\ \A d \in DOMAIN log : Closes(d, x)' => d = e

LEMMA ExitFacts ==
  ASSUME LogInv, LogExit
  PROVE  \E c, r, e, x : Sells(c, r, e, x)
<1>0. TradeLogTypeOK /\ DatedInv /\ OrdersInv /\ MatchedInv /\ CountedInv
  BY DEF LogInv
<1>1. PICK c \in DOMAIN book, p \in ExitPrices :
        /\ stage = "exits" /\ day <= LastDay
        /\ log' = Append(log, LogRow(ExitOrder, c, -EntryCost(p), log[book[c]].qty))
        /\ book' = Restrict(book, DOMAIN book \ {c})
        /\ UNCHANGED <<direction, day, stage, ends>>
  BY DEF LogExit
<1>2. PICK e : e = book[c]
  OBVIOUS
<1>3. PICK r : r = LogRow(ExitOrder, c, -EntryCost(p), log[e].qty)
  OBVIOUS
<1>4. PICK x : x = Len(log) + 1
  OBVIOUS
<1>5. c \in Contracts /\ e \in Of(EntryRows, c) /\ direction \in {"BUY", "SELL"} /\ p \in Nat
      /\ day \in 1..(LastDay + 1)
  BY <1>0, <1>2, TradeLogAssumption DEF TradeLogTypeOK
<1>6. e \in DOMAIN log /\ e \in EntryRows /\ log[e].contract = c /\ log[e].qty \in Nat \ {0}
  BY <1>0, <1>5, LogFacts DEF Of
<1>7. /\ r.contract = c /\ r.date = day /\ r.qty = log[e].qty /\ r.order = ExitOrder
      /\ r.cost = -EntryCost(p)
      /\ r = [date |-> day, order |-> ExitOrder, contract |-> c, cost |-> -EntryCost(p), qty |-> log[e].qty]
  BY <1>3 DEF LogRow
<1>8. EntryCost(p) \in Int /\ (direction = "BUY" => -EntryCost(p) <= 0)
      /\ ExitOrder \in {"STC", "BTC"}
  BY <1>5 DEF EntryCost, ExitOrder
<1>9. r \in LogRows /\ r.order \notin {"BTO", "STO"}
  <2>1. day \in 1..LastDay
    BY <1>1, <1>5, TradeLogAssumption
  <2>2. -EntryCost(p) \in Int /\ ExitOrder \in {"BTO", "STO", "STC", "BTC"}
    BY <1>8
  <2>. QED  BY <1>5, <1>6, <1>7, <1>8, <2>1, <2>2 DEF LogRows
<1>10. log' = Append(log, r)
  BY <1>1, <1>2, <1>3
<1>11. /\ EntryRows' = EntryRows /\ ExitRows' = ExitRows \cup {x}
       /\ (DOMAIN log)' = DOMAIN log \cup {x} /\ Len(log)' = x /\ x \notin DOMAIN log
       /\ log'[x] = r /\ \A k \in DOMAIN log : log'[k] = log[k]
  BY <1>0, <1>4, <1>9, <1>10, Appended
<1>12. DOMAIN book' = DOMAIN book \ {c} /\ \A b \in DOMAIN book' : book'[b] = book[b]
  BY <1>1 DEF Restrict
<1>13. Range(book') = Range(book) \ {e}
  <2>1. \A b \in DOMAIN book : book[b] = e => b = c
    BY <1>0, <1>5 DEF TradeLogTypeOK, Of
  <2>. QED  BY <1>2, <1>12, <2>1 DEF Range
<1>14. Of(EntryRows, c)' = Of(EntryRows, c) /\ Of(ExitRows, c)' = Of(ExitRows, c) \cup {x}
  BY <1>0, <1>4, <1>7, <1>9, <1>10, EarlierRows
<1>15. \A k \in DOMAIN log : k \in Nat /\ k < x
  BY <1>0, <1>4, LogFacts
<1>16. \A k \in Of(DOMAIN log, c) : k <= e
  BY <1>0, <1>2 DEF MatchedInv
<1>17. Closes(e, x)'
  <2>1. log[e].date < day
    BY <1>0, <1>1, <1>6 DEF DatedInv
  <2>2. \A k \in (DOMAIN log)' : e < k /\ k < x => log'[k].contract # log'[e].contract
    <3>1. ASSUME NEW k \in DOMAIN log \cup {x}, e < k, k < x PROVE log'[k].contract # log'[e].contract
      <4>1. k \in DOMAIN log /\ ~ (k <= e)
        BY <1>6, <1>15, <3>1, <1>4, <1>0, LogFacts
      <4>. QED  BY <1>6, <1>11, <1>16, <4>1 DEF Of
    <3>. QED  BY <1>11, <3>1
  <2>3. Sooner(EntryRows, e)' = Of(EntryRows, c) \ {e} /\ Sooner(ExitRows, x)' = Of(ExitRows, c)
    <3>1. \A k \in Of(EntryRows, c) : k < e <=> k # e
      <4>1. Of(EntryRows, c) \subseteq Of(DOMAIN log, c)
        BY <1>0, LogFacts DEF Of
      <4>. QED  BY <1>6, <1>15, <1>16, <4>1 DEF Of
    <3>2. \A k \in Of(ExitRows, c) : k < x
      BY <1>0, <1>15, LogFacts DEF Of
    <3>3. Sooner(EntryRows, e)' = {j \in Of(EntryRows, c)' : j < e}
      BY <1>6, <1>11 DEF Sooner, Of
    <3>4. Sooner(ExitRows, x)' = {j \in Of(ExitRows, c)' : j < x}
      BY <1>7, <1>11 DEF Sooner, Of
    <3>5. ~ (x < x)
      BY <1>4, <1>0, LogFacts
    <3>. QED  BY <1>14, <3>1, <3>2, <3>3, <3>4, <3>5
  <2>4. Cardinality(Of(EntryRows, c) \ {e}) = Cardinality(Of(ExitRows, c))
    <3>1. Of(EntryRows, c) \in SUBSET DOMAIN log /\ Of(ExitRows, c) \in SUBSET DOMAIN log
      BY <1>0, LogFacts DEF Of
    <3>2. /\ IsFiniteSet(Of(EntryRows, c)) /\ Cardinality(Of(EntryRows, c)) \in Nat
          /\ Cardinality(Of(ExitRows, c)) \in Nat
      BY <1>0, <3>1, RowSets
    <3>3. Cardinality(Of(EntryRows, c) \ {e}) = Cardinality(Of(EntryRows, c)) - 1
      BY <1>5, <3>2, FS_RemoveElement
    <3>4. Cardinality(Of(EntryRows, c)) = Cardinality(Of(ExitRows, c)) + 1
      BY <1>0, <1>5 DEF CountedInv
    <3>. QED  BY <3>2, <3>3, <3>4
  <2>5. e < x
    BY <1>6, <1>15
  <2>. QED  BY <1>6, <1>7, <1>11, <2>1, <2>2, <2>3, <2>4, <2>5 DEF Closes
<1>18. ASSUME NEW d \in DOMAIN log, Closes(d, x)' PROVE d = e
  <2>1. /\ d \in EntryRows /\ d < x /\ log[d].contract = c
        /\ \A k \in DOMAIN log : d < k /\ k < x => log[k].contract # c
    BY <1>7, <1>11, <1>18 DEF Closes
  <2>2. d <= e /\ ~ (d < e)
    BY <1>6, <1>15, <1>16, <1>18, <2>1 DEF Of
  <2>. QED  BY <1>6, <1>15, <1>18, <2>2
<1>19. Sells(c, r, e, x)
  BY <1>2, <1>4, <1>5, <1>6, <1>7, <1>8, <1>9, <1>10, <1>11, <1>12, <1>13, <1>17, <1>18 DEF Sells
<1>. QED  BY <1>19

LEMMA ExitTypes ==
  ASSUME LogInv, LogExit
  PROVE  TradeLogTypeOK' /\ DatedInv' /\ OrdersInv'
<1>0. TradeLogTypeOK /\ DatedInv /\ OrdersInv
  BY DEF LogInv
<1>1. PICK c, r, e, x : Sells(c, r, e, x)
  BY ExitFacts
<1>2. /\ stage = "exits" /\ day <= LastDay
      /\ direction' = direction /\ day' = day /\ stage' = stage /\ ends' = ends
  BY DEF LogExit
<1>3. \A k \in DOMAIN log : log[k].date <= day /\ k < x /\ k \in Nat /\ log[k].date \in Nat
  BY <1>0, <1>1, LogFacts DEF DatedInv, Sells
<1>4. TradeLogTypeOK'
  <2>1. log' \in Seq(LogRows)
    BY <1>0, <1>1 DEF Sells, TradeLogTypeOK
  <2>2. DOMAIN book' \subseteq Contracts /\ \A b \in DOMAIN book' : book'[b] \in Of(EntryRows, b)'
    <3>1. \A b \in DOMAIN book : b \in Contracts /\ book[b] \in EntryRows /\ log[book[b]].contract = b
      BY <1>0 DEF TradeLogTypeOK, Of
    <3>2. \A k \in EntryRows : k \in EntryRows' /\ log'[k] = log[k]
      BY <1>0, <1>1, LogFacts DEF Sells
    <3>3. \A b \in DOMAIN book' : b \in DOMAIN book /\ book'[b] = book[b]
      BY <1>1 DEF Sells
    <3>. QED  BY <3>1, <3>2, <3>3 DEF Of
  <2>. QED  BY <1>0, <1>2, <2>1, <2>2 DEF TradeLogTypeOK
<1>5. DatedInv'
  <2>1. \A j, k \in (DOMAIN log)' : j <= k => log'[j].date <= log'[k].date
    <3>1. ASSUME NEW j \in DOMAIN log, NEW k \in DOMAIN log, j <= k
          PROVE  log'[j].date <= log'[k].date
      BY <1>0, <1>1, <3>1 DEF DatedInv, Sells
    <3>2. ASSUME NEW j \in DOMAIN log PROVE log'[j].date <= log'[x].date /\ ~ (x <= j)
      <4>1. log'[j] = log[j] /\ log'[x].date = day /\ x \in Nat
        BY <1>0, <1>1, LogFacts DEF Sells
      <4>. QED  BY <1>3, <4>1
    <3>3. log'[x].date <= log'[x].date
      BY <1>0, <1>1, LogFacts DEF Sells
    <3>4. (DOMAIN log)' = DOMAIN log \cup {x}
      BY <1>1 DEF Sells
    <3>. QED  BY <3>1, <3>2, <3>3, <3>4
  <2>2. \A k \in (DOMAIN log)' : log'[k].date <= day
    <3>1. day <= day
      BY <1>0, LogFacts
    <3>. QED  BY <1>1, <1>3, <3>1 DEF Sells
  <2>3. \A k \in EntryRows' : log'[k].date < day
    BY <1>0, <1>1, <1>2, LogFacts DEF DatedInv, Sells
  <2>. QED  BY <1>2, <2>1, <2>2, <2>3 DEF DatedInv
<1>6. OrdersInv'
  <2>1. EntryOrder' = EntryOrder /\ ExitOrder' = ExitOrder
    BY <1>2 DEF EntryOrder, ExitOrder
  <2>2. ASSUME NEW k \in EntryRows'
        PROVE  log'[k].order = EntryOrder /\ (direction = "BUY" => log'[k].cost >= 0)
    BY <1>0, <1>1, LogFacts DEF OrdersInv, Sells
  <2>3. ASSUME NEW k \in ExitRows'
        PROVE  log'[k].order = ExitOrder /\ (direction = "BUY" => log'[k].cost <= 0)
    BY <1>0, <1>1, LogFacts DEF OrdersInv, Sells
  <2>. QED  BY <1>2, <2>1, <2>2, <2>3 DEF OrdersInv
<1>. QED  BY <1>4, <1>5, <1>6

LEMMA ExitMatches ==
  ASSUME LogInv, LogExit
  PROVE  MatchedInv' /\ CountedInv' /\ EndsInv'
<1>0. TradeLogTypeOK /\ DatedInv /\ MatchedInv /\ CountedInv /\ EndsInv
  BY DEF LogInv
<1>1. PICK c, r, e, x : Sells(c, r, e, x)
  BY ExitFacts
<1>2. /\ direction' = direction /\ day' = day /\ stage' = stage /\ ends' = ends
  BY DEF LogExit
<1>3. /\ c \in DOMAIN book /\ e \in EntryRows /\ e \in DOMAIN log /\ x \notin DOMAIN log
      /\ log[e].contract = c /\ x = Len(log) + 1
      /\ DOMAIN book' = DOMAIN book \ {c} /\ (\A b \in DOMAIN book' : book'[b] = book[b])
      /\ Range(book') = Range(book) \ {e} /\ e \in Range(book)
      /\ EntryRows' = EntryRows /\ ExitRows' = ExitRows \cup {x}
      /\ log'[x].date = day /\ log'[x].contract = c
      /\ (\A k \in DOMAIN log : log'[k] = log[k])
      /\ (DOMAIN log)' = DOMAIN log \cup {x}
  BY <1>1 DEF Sells, Of, Range
<1>4. /\ Closes(e, x)' /\ \A d \in DOMAIN log : Closes(d, x)' => d = e
  BY <1>1 DEF Sells
<1>5. EntryRows \subseteq DOMAIN log /\ ExitRows \subseteq DOMAIN log
  BY <1>0, LogFacts
<1>6. /\ \A d, y \in DOMAIN log : Closes(d, y)' <=> Closes(d, y)
      /\ \A b : b = c => /\ Of(EntryRows, b)' = Of(EntryRows, b)
                          /\ Of(ExitRows, b)' = Of(ExitRows, b) \cup {x}
      /\ \A b : b # c => Of(EntryRows, b)' = Of(EntryRows, b) /\ Of(ExitRows, b)' = Of(ExitRows, b)
  <2>1. /\ r \in LogRows /\ log' = Append(log, r) /\ x = Len(log) + 1
        /\ r.contract = c /\ r.order \notin {"BTO", "STO"}
    BY <1>1 DEF Sells
  <2>2. /\ \A d, y \in DOMAIN log : Closes(d, y)' <=> Closes(d, y)
        /\ \A b : /\ Of(EntryRows, b)' = Of(EntryRows, b)
                  /\ Of(ExitRows, b)' = IF r.contract = b THEN Of(ExitRows, b) \cup {x}
                                                          ELSE Of(ExitRows, b)
    BY <1>0, <2>1, EarlierRows
  <2>. QED  BY <2>1, <2>2
<1>7. MatchedInv'
  <2>1. \A y \in ExitRows' : \E d \in EntryRows' : Closes(d, y)'
    BY <1>0, <1>3, <1>4, <1>5, <1>6 DEF MatchedInv
  <2>2. ASSUME NEW d \in EntryRows'
        PROVE  d \notin Range(book') <=> \E y \in ExitRows' : Closes(d, y)'
    <3>1. CASE d = e
      BY <1>3, <1>4, <3>1
    <3>2. CASE d # e
      <4>1. d \in EntryRows /\ d \in DOMAIN log
        BY <1>3, <1>5
      <4>2. d \notin Range(book') <=> d \notin Range(book)
        BY <1>3, <3>2
      <4>3. d \notin Range(book) <=> \E y \in ExitRows : Closes(d, y)
        BY <1>0, <4>1 DEF MatchedInv
      <4>4. (\E y \in ExitRows' : Closes(d, y)') <=> \E y \in ExitRows : Closes(d, y)
        BY <1>3, <1>4, <1>5, <1>6, <3>2, <4>1
      <4>. QED  BY <4>2, <4>3, <4>4
    <3>. QED  BY <3>1, <3>2
  <2>3. \A d, f \in EntryRows' :
          d < f /\ log'[d].contract = log'[f].contract => log'[d].date < log'[f].date
    BY <1>0, <1>3, <1>5 DEF MatchedInv
  <2>4. ASSUME NEW b \in DOMAIN book', NEW k \in Of(DOMAIN log, b)' PROVE k <= book'[b]
    <3>1. k \in Of(DOMAIN log, b) /\ b \in DOMAIN book /\ book'[b] = book[b]
      BY <1>3 DEF Of
    <3>. QED  BY <1>0, <3>1 DEF MatchedInv
  <2>. QED  BY <2>1, <2>2, <2>3, <2>4 DEF MatchedInv
<1>8. CountedInv'
  <2>1. ASSUME NEW b \in Contracts
        PROVE  Cardinality(Of(EntryRows, b)') =
                 Cardinality(Of(ExitRows, b)') + IF b \in DOMAIN book' THEN 1 ELSE 0
    <3>1. CASE b # c
      <4>1. Of(EntryRows, b)' = Of(EntryRows, b) /\ Of(ExitRows, b)' = Of(ExitRows, b)
        BY <1>6, <3>1
      <4>2. b \in DOMAIN book' <=> b \in DOMAIN book
        BY <1>3, <3>1
      <4>. QED  BY <1>0, <4>1, <4>2 DEF CountedInv
    <3>2. CASE b = c
      <4>1. Of(ExitRows, c) \in SUBSET DOMAIN log /\ x \notin Of(ExitRows, c)
        BY <1>3, <1>5 DEF Of
      <4>2. /\ IsFiniteSet(Of(ExitRows, c)) /\ Cardinality(Of(ExitRows, c)) \in Nat
        BY <1>0, <4>1, RowSets
      <4>3. Cardinality(Of(ExitRows, c) \cup {x}) = Cardinality(Of(ExitRows, c)) + 1
        BY <4>1, <4>2, FS_AddElement
      <4>4. Cardinality(Of(EntryRows, c)) = Cardinality(Of(ExitRows, c)) + 1
        BY <1>0, <1>3, <3>2 DEF CountedInv
      <4>5. Of(EntryRows, b)' = Of(EntryRows, c) /\ Of(ExitRows, b)' = Of(ExitRows, c) \cup {x}
        BY <1>6, <3>2
      <4>6. b \notin DOMAIN book'
        BY <1>3, <3>2
      <4>. QED  BY <4>2, <4>3, <4>4, <4>5, <4>6
    <3>. QED  BY <3>1, <3>2
  <2>2. Cardinality((EntryRows \ Range(book))') = Cardinality(ExitRows')
    <3>. DEFINE F == EntryRows \ Range(book)
    <3>1. F \in SUBSET DOMAIN log /\ ExitRows \in SUBSET DOMAIN log /\ e \notin F /\ x \notin ExitRows
      BY <1>3, <1>5
    <3>2. (EntryRows \ Range(book))' = F \cup {e} /\ ExitRows' = ExitRows \cup {x}
      BY <1>3
    <3>3. Cardinality(F) = Cardinality(ExitRows)
      BY <1>0 DEF CountedInv
    <3>. HIDE DEF F
    <3>4. IsFiniteSet(F) /\ IsFiniteSet(ExitRows)
      BY <1>0, <3>1, RowSets
    <3>5. Cardinality(F \cup {e}) = Cardinality(F) + 1 /\ Cardinality(ExitRows \cup {x}) = Cardinality(ExitRows) + 1
      BY <3>1, <3>4, FS_AddElement
    <3>. QED  BY <3>2, <3>3, <3>5
  <2>. QED  BY <2>1, <2>2 DEF CountedInv
<1>9. EndsInv'
  <2>1. ASSUME NEW d \in 1..Len(ends)
        PROVE  Range(ends[d]) = {f \in EntryRows' :
                 log'[f].date <= d /\ \A y \in ExitRows' : Closes(f, y)' => d < log'[y].date}
    <3>1. d < day
      BY <1>0, LogFacts
    <3>2. \A f \in EntryRows : (\A y \in ExitRows' : Closes(f, y)' => d < log'[y].date)
                                 <=> \A y \in ExitRows : Closes(f, y) => d < log[y].date
      BY <1>3, <1>5, <1>6, <3>1
    <3>3. \A f \in EntryRows : log'[f] = log[f]
      BY <1>3, <1>5
    <3>4. Range(ends[d]) = {f \in EntryRows :
                 log[f].date <= d /\ \A y \in ExitRows : Closes(f, y) => d < log[y].date}
      BY <1>0 DEF EndsInv
    <3>. QED  BY <1>3, <3>2, <3>3, <3>4
  <2>. QED  BY <1>2, <2>1 DEF EndsInv
<1>. QED  BY <1>7, <1>8, <1>9

\* Exits stay paired with their entries.
LEMMA PairsKept ==
  ASSUME TradeLogTypeOK, MatchedInv, NEW r \in LogRows, log' = Append(log, r)
  PROVE  /\ \A y \in ExitRows :
              /\ EntryOf(y) \in EntryRows /\ Closes(EntryOf(y), y)
              /\ EntryOf(y)' = EntryOf(y) /\ Dollars(EntryOf(y))' = Dollars(EntryOf(y))
         /\ \A d \in EntryRows \ Range(book) :
              /\ ExitOf(d) \in ExitRows /\ Closes(d, ExitOf(d))
              /\ ExitOf(d)' = ExitOf(d) /\ Dollars(ExitOf(d))' = Dollars(ExitOf(d))
<1>1. PICK x : x = Len(log) + 1
  OBVIOUS
<1>2. /\ EntryRows \subseteq EntryRows' /\ EntryRows' \subseteq EntryRows \cup {x}
      /\ ExitRows \subseteq ExitRows' /\ ExitRows' \subseteq ExitRows \cup {x}
      /\ (DOMAIN log)' = DOMAIN log \cup {x}
      /\ \A k \in DOMAIN log : log'[k] = log[k]
  BY <1>1, Appended
<1>3. /\ \A e, y \in DOMAIN log : Closes(e, y)' <=> Closes(e, y)
      /\ \A y \in DOMAIN log : ~ Closes(x, y)'
      /\ \A k \in DOMAIN log : Dollars(k)' = Dollars(k)
  BY <1>1, EarlierRows
<1>4. /\ EntryRows \subseteq DOMAIN log /\ ExitRows \subseteq DOMAIN log
      /\ \A k \in DOMAIN log : k \in Nat /\ k < x
  BY <1>1, LogFacts
<1>5. ASSUME NEW y \in ExitRows
      PROVE  /\ EntryOf(y) \in EntryRows /\ Closes(EntryOf(y), y)
             /\ EntryOf(y)' = EntryOf(y) /\ Dollars(EntryOf(y))' = Dollars(EntryOf(y))
  <2>1. PICK e \in EntryRows : Closes(e, y)
    BY DEF MatchedInv
  <2>2. EntryOf(y) = e /\ \A d : Closes(d, y) => d = e
    BY <2>1, ClosesOnce
  <2>3. e \in EntryRows' /\ Closes(e, y)' /\ \A d \in EntryRows' : Closes(d, y)' => d = e
    BY <1>2, <1>3, <1>4, <2>1, <2>2
  <2>4. EntryOf(y)' = e
    BY <2>3 DEF EntryOf
  <2>5. Dollars(e)' = Dollars(e)
    BY <1>3, <1>4
  <2>6. Dollars(EntryOf(y))' = Dollars(e)'
    BY <2>4 DEF Dollars
  <2>. QED  BY <2>1, <2>2, <2>4, <2>5, <2>6
<1>6. ASSUME NEW d \in EntryRows \ Range(book)
      PROVE  /\ ExitOf(d) \in ExitRows /\ Closes(d, ExitOf(d))
             /\ ExitOf(d)' = ExitOf(d) /\ Dollars(ExitOf(d))' = Dollars(ExitOf(d))
  <2>1. PICK y \in ExitRows : Closes(d, y)
    BY DEF MatchedInv
  <2>2. ExitOf(d) = y /\ \A z : Closes(d, z) => z = y
    BY <2>1, ClosesOnce
  <2>3. y \in ExitRows' /\ Closes(d, y)'
    BY <1>2, <1>3, <1>4, <2>1
  <2>4. ~ Closes(d, x)'
    <3>1. ASSUME Closes(d, x)' PROVE FALSE
      <4>1. \A k \in (DOMAIN log)' : d < k /\ k < x => log'[k].contract # log'[d].contract
        BY <3>1 DEF Closes
      <4>2. d < y /\ log'[d].contract = log'[y].contract
        BY <2>3 DEF Closes
      <4>. QED  BY <1>2, <1>4, <4>1, <4>2
    <3>. QED  BY <3>1
  <2>5. \A z \in ExitRows' : Closes(d, z)' => z = y
    BY <1>2, <1>3, <1>4, <2>2, <2>4
  <2>6. ExitOf(d)' = y
    BY <2>3, <2>5 DEF ExitOf
  <2>7. Dollars(y)' = Dollars(y)
    BY <1>3, <1>4
  <2>8. Dollars(ExitOf(d))' = Dollars(y)'
    BY <2>6 DEF Dollars
  <2>. QED  BY <2>1, <2>2, <2>6, <2>7, <2>8
<1>. QED  BY <1>5, <1>6

LEMMA ExitAccounts ==
  ASSUME LogInv, LogExit
  PROVE  AccountedInv'
<1>0. TradeLogTypeOK /\ MatchedInv /\ AccountedInv
  BY DEF LogInv
<1>1. PICK c, r, e, x : Sells(c, r, e, x)
  BY ExitFacts
<1>2. /\ r \in LogRows /\ log' = Append(log, r) /\ x = Len(log) + 1 /\ x \notin DOMAIN log
      /\ e \in DOMAIN log /\ e \in EntryRows /\ e \in Range(book)
      /\ Range(book') = Range(book) \ {e} /\ EntryRows' = EntryRows /\ ExitRows' = ExitRows \cup {x}
      /\ (DOMAIN log)' = DOMAIN log \cup {x} /\ Len(log)' = x
      /\ log'[x] = r /\ Closes(e, x)' /\ \A d \in DOMAIN log : Closes(d, x)' => d = e
  BY <1>1 DEF Sells, Of, Range
<1>3. /\ \A k \in DOMAIN log : Dollars(k)' = Dollars(k)
      /\ \A d, y \in DOMAIN log : Closes(d, y)' <=> Closes(d, y)
  BY <1>0, <1>2, EarlierRows
<1>4. /\ \A y \in ExitRows : EntryOf(y) \in EntryRows /\ Dollars(EntryOf(y))' = Dollars(EntryOf(y))
      /\ \A d \in EntryRows \ Range(book) : ExitOf(d) \in ExitRows /\ Dollars(ExitOf(d))' = Dollars(ExitOf(d))
  BY <1>0, <1>2, PairsKept
<1>5. /\ EntryRows \subseteq DOMAIN log /\ ExitRows \subseteq DOMAIN log /\ Range(book) \subseteq EntryRows
      /\ Len(log) \in Nat /\ DOMAIN log = 1..Len(log)
  BY <1>0, LogFacts
<1>6. EntryOf(x)' = e /\ ExitOf(e)' = x
  <2>1. EntryOf(x)' = e
    BY <1>2, <1>5 DEF EntryOf
  <2>2. \A y \in ExitRows : ~ Closes(e, y)
    BY <1>0, <1>2 DEF MatchedInv
  <2>3. \A y \in ExitRows' : Closes(e, y)' => y = x
    BY <1>2, <1>3, <1>5, <2>2
  <2>4. ExitOf(e)' = x
    BY <1>2, <2>3 DEF ExitOf
  <2>. QED  BY <2>1, <2>4
<1>7. PICK D : D = r.cost * r.qty
  OBVIOUS
<1>8. PICK E : E = Dollars(e)
  OBVIOUS
<1>9. /\ D \in Int /\ E \in Int /\ \A k \in DOMAIN log : Dollars(k) \in Int
      /\ Dollars(x)' = D /\ Dollars(EntryOf(x))' = E /\ Dollars(e)' = E /\ Dollars(ExitOf(e))' = D
  <2>1. \A k \in DOMAIN log : Dollars(k) \in Int
    BY <1>0, RowSets
  <2>2. D \in Int
    <3>1. r.cost \in Int /\ r.qty \in Int
      BY <1>2 DEF LogRows
    <3>. QED  BY <1>7, <3>1
  <2>3. Dollars(x)' = D
    BY <1>2, <1>7 DEF Dollars
  <2>4. Dollars(e)' = E
    BY <1>2, <1>3, <1>8
  <2>5. Dollars(EntryOf(x))' = Dollars(e)' /\ Dollars(ExitOf(e))' = Dollars(x)'
    BY <1>6 DEF Dollars
  <2>. QED  BY <1>2, <1>8, <2>1, <2>2, <2>3, <2>4, <2>5
<1>10. x \in Nat /\ x \in 1..x /\ e \in 1..x /\ DOMAIN log \subseteq 1..x
  BY <1>2, <1>5
<1>. DEFINE f == [y \in ExitRows |-> -Dollars(y) - Dollars(EntryOf(y))]
            ff == [y \in ExitRows' |-> (-Dollars(y))' - Dollars(EntryOf(y))']
            g == [d \in EntryRows \ Range(book) |-> -Dollars(d) - Dollars(ExitOf(d))]
            gg == [d \in EntryRows' \ Range(book') |-> (-Dollars(d))' - Dollars(ExitOf(d))']
            h == [k \in DOMAIN log |-> -Dollars(k)]
            hh == [k \in (DOMAIN log)' |-> (-Dollars(k))']
            b == [k \in Range(book) |-> Dollars(k)]
            bb == [k \in Range(book') |-> Dollars(k)']
<1>11. Total(f, Len(log)) = Total(h, Len(log)) + Total(b, Len(log))
       /\ Total(g, Len(log)) = Total(h, Len(log)) + Total(b, Len(log))
  BY <1>0 DEF AccountedInv, LogTotal, LogCash, Basis
<1>12. /\ DOMAIN f = ExitRows /\ DOMAIN ff = DOMAIN f \cup {x}
       /\ \A y \in DOMAIN f : f[y] \in Int /\ ff[y] = f[y]
       /\ ff[x] = -D - E
  <2>1. \A y \in ExitRows : Dollars(y) \in Int /\ Dollars(EntryOf(y)) \in Int
    BY <1>4, <1>5, <1>9
  <2>2. \A y \in ExitRows : Dollars(y)' = Dollars(y) /\ Dollars(EntryOf(y))' = Dollars(EntryOf(y))
    BY <1>3, <1>4, <1>5
  <2>. QED  BY <1>2, <1>9, <2>1, <2>2
<1>13. /\ DOMAIN g = EntryRows \ Range(book) /\ DOMAIN gg = DOMAIN g \cup {e}
       /\ \A d \in DOMAIN g : g[d] \in Int /\ gg[d] = g[d]
       /\ gg[e] = -E - D
  <2>1. \A d \in EntryRows \ Range(book) : Dollars(d) \in Int /\ Dollars(ExitOf(d)) \in Int
    BY <1>4, <1>5, <1>9
  <2>2. \A d \in EntryRows \ Range(book) : Dollars(d)' = Dollars(d) /\ Dollars(ExitOf(d))' = Dollars(ExitOf(d))
    BY <1>3, <1>4, <1>5
  <2>. QED  BY <1>2, <1>9, <2>1, <2>2
<1>14. /\ DOMAIN h = DOMAIN log /\ DOMAIN hh = DOMAIN h \cup {x}
       /\ \A k \in DOMAIN h : h[k] \in Int /\ hh[k] = h[k]
       /\ hh[x] = -D
  BY <1>2, <1>3, <1>9
<1>15. /\ DOMAIN b = Range(book) /\ DOMAIN b = DOMAIN bb \cup {e} /\ e \notin DOMAIN bb
       /\ \A k \in DOMAIN bb : bb[k] \in Int /\ b[k] = bb[k]
       /\ b[e] = E
  BY <1>2, <1>3, <1>5, <1>8, <1>9
<1>. HIDE DEF f, ff, g, gg, h, hh, b, bb
<1>16. \A k \in DOMAIN b : b[k] \in Int
  BY <1>9, <1>15
<1>17. /\ IntTerms(f, Len(log)) /\ IntTerms(g, Len(log)) /\ IntTerms(h, Len(log)) /\ IntTerms(b, Len(log))
       /\ IntTerms(bb, x)
  BY <1>12, <1>13, <1>14, <1>15, <1>16 DEF IntTerms
<1>18. /\ Total(f, x) = Total(f, Len(log)) /\ IntTerms(f, x) /\ Total(f, x) \in Int
       /\ Total(g, x) = Total(g, Len(log)) /\ IntTerms(g, x) /\ Total(g, x) \in Int
       /\ Total(h, x) = Total(h, Len(log)) /\ IntTerms(h, x) /\ Total(h, x) \in Int
       /\ Total(b, x) = Total(b, Len(log)) /\ IntTerms(b, x) /\ Total(b, x) \in Int
  <2>1. /\ DOMAIN f \subseteq 1..Len(log) /\ DOMAIN g \subseteq 1..Len(log)
        /\ DOMAIN h \subseteq 1..Len(log) /\ DOMAIN b \subseteq 1..Len(log)
    BY <1>5, <1>12, <1>13, <1>14, <1>15
  <2>. QED  BY <1>2, <1>5, <1>17, <2>1, TotalLonger
<1>19. Total(ff, x) = Total(f, x) + (-D - E)
  <2>1. Adds(f, ff, x)
    BY <1>2, <1>5, <1>9, <1>12 DEF Adds
  <2>2. Total(ff, x) = Total(f, x) + ff[x]
    BY <1>10, <1>18, <2>1, TotalWith
  <2>. QED  BY <1>12, <2>2
<1>20. Total(gg, x) = Total(g, x) + (-E - D)
  <2>1. Adds(g, gg, e)
    BY <1>2, <1>9, <1>13 DEF Adds
  <2>2. Total(gg, x) = Total(g, x) + gg[e]
    BY <1>10, <1>18, <2>1, TotalWith
  <2>. QED  BY <1>13, <2>2
<1>21. Total(hh, x) = Total(h, x) + (-D)
  <2>1. Adds(h, hh, x)
    BY <1>2, <1>9, <1>14 DEF Adds
  <2>2. Total(hh, x) = Total(h, x) + hh[x]
    BY <1>10, <1>18, <2>1, TotalWith
  <2>. QED  BY <1>14, <2>2
<1>22. Total(b, x) = Total(bb, x) + E /\ Total(bb, x) \in Int
  <2>1. Adds(bb, b, e)
    BY <1>9, <1>15 DEF Adds
  <2>2. Total(b, x) = Total(bb, x) + b[e] /\ Total(bb, x) \in Int
    BY <1>10, <1>17, <2>1, TotalWith
  <2>. QED  BY <1>15, <2>2
<1>23. Total(ff, x) = Total(hh, x) + Total(bb, x) /\ Total(gg, x) = Total(hh, x) + Total(bb, x)
  BY <1>9, <1>11, <1>18, <1>19, <1>20, <1>21, <1>22
<1>24. /\ LogTotal([y \in ExitRows |-> -Dollars(y) - Dollars(EntryOf(y))])' = Total(ff, x)
       /\ LogTotal([d \in EntryRows \ Range(book) |-> -Dollars(d) - Dollars(ExitOf(d))])' = Total(gg, x)
       /\ LogCash' = Total(hh, x) /\ Basis(book)' = Total(bb, x)
  BY <1>2 DEF LogTotal, LogCash, Basis, ff, gg, hh, bb
<1>. QED  BY <1>23, <1>24 DEF AccountedInv

-----------------------------------------------------------------------------
(* A position entered.                                                     *)

\* Row r is written at x, and c is held by it.
Buys(c, r, x) ==
  /\ c \in Contracts \ DOMAIN book
  /\ r \in LogRows /\ log' = Append(log, r) /\ x = Len(log) + 1 /\ x \notin DOMAIN log
  /\ r.contract = c /\ r.date = day
  /\ r.order = EntryOrder /\ r.order \in {"BTO", "STO"} /\ (direction = "BUY" => r.cost >= 0)
  /\ DOMAIN book' = DOMAIN book \cup {c} /\ book'[c] = x /\ \A b \in DOMAIN book : book'[b] = book[b]
  /\ Range(book') = Range(book) \cup {x}
  /\ EntryRows' = EntryRows \cup {x} /\ ExitRows' = ExitRows
  /\ (DOMAIN log)' = DOMAIN log \cup {x} /\ Len(log)' = x
  /\ log'[x] = r /\ \A k \in DOMAIN log : log'[k] = log[k]

LEMMA EntryFacts ==
  ASSUME LogInv, LogEntry
  PROVE  \E c, r, x : Buys(c, r, x)
<1>0. TradeLogTypeOK /\ DatedInv
  BY DEF LogInv
<1>1. PICK c \in Contracts \ DOMAIN book, lot \in Lots :
        /\ stage = "entries"
        /\ log' = Append(log, LogRow(EntryOrder, c, EntryCost(lot.price), lot.qty))
        /\ book' = [x \in DOMAIN book \cup {c} |-> IF x = c THEN Len(log) + 1 ELSE book[x]]
  BY DEF LogEntry
<1>2. PICK r : r = LogRow(EntryOrder, c, EntryCost(lot.price), lot.qty)
  OBVIOUS
<1>3. PICK x : x = Len(log) + 1
  OBVIOUS
<1>4. lot.price \in Nat /\ lot.qty \in Nat \ {0} /\ day \in 1..(LastDay + 1) /\ day <= LastDay
  BY <1>0, <1>1, TradeLogAssumption DEF TradeLogTypeOK, DatedInv
<1>5. /\ r.contract = c /\ r.date = day /\ r.order = EntryOrder /\ r.cost = EntryCost(lot.price)
      /\ r = [date |-> day, order |-> EntryOrder, contract |-> c, cost |-> EntryCost(lot.price), qty |-> lot.qty]
  BY <1>2 DEF LogRow
<1>6. /\ EntryCost(lot.price) \in Int /\ (direction = "BUY" => EntryCost(lot.price) >= 0)
      /\ EntryOrder \in {"BTO", "STO"}
  BY <1>4 DEF EntryCost, EntryOrder
<1>7. r \in LogRows
  <2>1. day \in 1..LastDay
    BY <1>4, TradeLogAssumption
  <2>2. EntryOrder \in {"BTO", "STO", "STC", "BTC"} /\ c \in Contracts
    BY <1>6
  <2>. QED  BY <1>4, <1>5, <1>6, <2>1, <2>2 DEF LogRows
<1>8. log' = Append(log, r)
  BY <1>1, <1>2
<1>9. /\ EntryRows' = EntryRows \cup {x} /\ ExitRows' = ExitRows
      /\ (DOMAIN log)' = DOMAIN log \cup {x} /\ Len(log)' = x /\ x \notin DOMAIN log
      /\ log'[x] = r /\ \A k \in DOMAIN log : log'[k] = log[k]
  BY <1>0, <1>3, <1>5, <1>6, <1>7, <1>8, Appended
<1>10. /\ DOMAIN book' = DOMAIN book \cup {c} /\ book'[c] = x
       /\ \A b \in DOMAIN book : book'[b] = book[b]
  BY <1>1, <1>3
<1>11. Range(book') = Range(book) \cup {x}
  BY <1>10 DEF Range
<1>12. Buys(c, r, x)
  BY <1>1, <1>3, <1>5, <1>6, <1>7, <1>8, <1>9, <1>10, <1>11 DEF Buys
<1>. QED  BY <1>12

LEMMA EntryTypes ==
  ASSUME LogInv, LogEntry
  PROVE  TradeLogTypeOK' /\ DatedInv' /\ OrdersInv'
<1>0. TradeLogTypeOK /\ DatedInv /\ OrdersInv
  BY DEF LogInv
<1>1. PICK c, r, x : Buys(c, r, x)
  BY EntryFacts
<1>2. /\ stage = "entries"
      /\ direction' = direction /\ day' = day /\ stage' = stage /\ ends' = ends
  BY DEF LogEntry
<1>3. \A k \in DOMAIN log : log[k].date <= day /\ k < x /\ k \in Nat /\ log[k].date \in Nat
  BY <1>0, <1>1, LogFacts DEF DatedInv, Buys
<1>4. TradeLogTypeOK'
  <2>1. log' \in Seq(LogRows)
    BY <1>0, <1>1 DEF Buys, TradeLogTypeOK
  <2>2. DOMAIN book' \subseteq Contracts /\ \A b \in DOMAIN book' : book'[b] \in Of(EntryRows, b)'
    <3>1. \A b \in DOMAIN book : b \in Contracts /\ book[b] \in EntryRows /\ log[book[b]].contract = b
      BY <1>0 DEF TradeLogTypeOK, Of
    <3>2. \A k \in EntryRows : k \in EntryRows' /\ log'[k] = log[k]
      BY <1>0, <1>1, LogFacts DEF Buys
    <3>3. /\ \A b \in DOMAIN book' : b = c \/ (b \in DOMAIN book /\ book'[b] = book[b])
          /\ book'[c] = x /\ c \in Contracts /\ x \in EntryRows' /\ log'[x].contract = c
      BY <1>1 DEF Buys
    <3>. QED  BY <3>1, <3>2, <3>3 DEF Of
  <2>. QED  BY <1>0, <1>2, <2>1, <2>2 DEF TradeLogTypeOK
<1>5. DatedInv'
  <2>1. \A j, k \in (DOMAIN log)' : j <= k => log'[j].date <= log'[k].date
    <3>1. ASSUME NEW j \in DOMAIN log, NEW k \in DOMAIN log, j <= k
          PROVE  log'[j].date <= log'[k].date
      BY <1>0, <1>1, <3>1 DEF DatedInv, Buys
    <3>2. ASSUME NEW j \in DOMAIN log PROVE log'[j].date <= log'[x].date /\ ~ (x <= j)
      <4>1. log'[j] = log[j] /\ log'[x].date = day /\ x \in Nat
        BY <1>0, <1>1, LogFacts DEF Buys
      <4>. QED  BY <1>3, <4>1
    <3>3. log'[x].date <= log'[x].date
      BY <1>0, <1>1, LogFacts DEF Buys
    <3>4. (DOMAIN log)' = DOMAIN log \cup {x}
      BY <1>1 DEF Buys
    <3>. QED  BY <3>1, <3>2, <3>3, <3>4
  <2>2. \A k \in (DOMAIN log)' : log'[k].date <= day
    <3>1. day <= day
      BY <1>0, LogFacts
    <3>. QED  BY <1>1, <1>3, <3>1 DEF Buys
  <2>. QED  BY <1>0, <1>2, <2>1, <2>2 DEF DatedInv
<1>6. OrdersInv'
  <2>1. EntryOrder' = EntryOrder /\ ExitOrder' = ExitOrder
    BY <1>2 DEF EntryOrder, ExitOrder
  <2>2. ASSUME NEW k \in EntryRows'
        PROVE  log'[k].order = EntryOrder /\ (direction = "BUY" => log'[k].cost >= 0)
    BY <1>0, <1>1, LogFacts DEF OrdersInv, Buys
  <2>3. ASSUME NEW k \in ExitRows'
        PROVE  log'[k].order = ExitOrder /\ (direction = "BUY" => log'[k].cost <= 0)
    BY <1>0, <1>1, LogFacts DEF OrdersInv, Buys
  <2>. QED  BY <1>2, <2>1, <2>2, <2>3 DEF OrdersInv
<1>. QED  BY <1>4, <1>5, <1>6

LEMMA EntryMatches ==
  ASSUME LogInv, LogEntry
  PROVE  MatchedInv' /\ CountedInv' /\ EndsInv'
<1>0. TradeLogTypeOK /\ DatedInv /\ MatchedInv /\ CountedInv /\ EndsInv
  BY DEF LogInv
<1>1. PICK c, r, x : Buys(c, r, x)
  BY EntryFacts
<1>2. /\ direction' = direction /\ day' = day /\ stage' = stage /\ ends' = ends
  BY DEF LogEntry
<1>3. /\ c \in Contracts \ DOMAIN book /\ x \notin DOMAIN log /\ x = Len(log) + 1
      /\ DOMAIN book' = DOMAIN book \cup {c} /\ book'[c] = x
      /\ (\A b \in DOMAIN book : book'[b] = book[b])
      /\ Range(book') = Range(book) \cup {x}
      /\ EntryRows' = EntryRows \cup {x} /\ ExitRows' = ExitRows
      /\ log'[x].date = day /\ log'[x].contract = c
      /\ (\A k \in DOMAIN log : log'[k] = log[k])
      /\ (DOMAIN log)' = DOMAIN log \cup {x}
  BY <1>1 DEF Buys
<1>4. /\ EntryRows \subseteq DOMAIN log /\ ExitRows \subseteq DOMAIN log /\ Range(book) \subseteq EntryRows
      /\ \A k \in DOMAIN log : k \in Nat /\ k < x /\ k <= x /\ log[k].date \in Nat
      /\ day \in Nat /\ x \in Nat /\ x <= x
  BY <1>0, <1>3, LogFacts
<1>5. /\ \A d, y \in DOMAIN log : Closes(d, y)' <=> Closes(d, y)
      /\ \A y \in DOMAIN log : ~ Closes(x, y)'
      /\ \A b : b = c => /\ Of(ExitRows, b)' = Of(ExitRows, b)
                         /\ Of(EntryRows, b)' = Of(EntryRows, b) \cup {x}
      /\ \A b : b # c => Of(EntryRows, b)' = Of(EntryRows, b) /\ Of(ExitRows, b)' = Of(ExitRows, b)
  BY <1>0, <1>1, EarlierRows DEF Buys
<1>6. ASSUME NEW d \in EntryRows, log[d].contract = c PROVE log[d].date < day
  <2>1. d \notin Range(book)
    BY <1>0, <1>3, <1>6 DEF TradeLogTypeOK, Of, Range
  <2>2. PICK y \in ExitRows : Closes(d, y)
    BY <1>0, <2>1 DEF MatchedInv
  <2>3. log[d].date < log[y].date /\ log[y].date <= day
    BY <1>0, <1>4, <2>2 DEF Closes, DatedInv
  <2>. QED  BY <1>4, <2>3
<1>7. MatchedInv'
  <2>1. \A y \in ExitRows' : \E d \in EntryRows' : Closes(d, y)'
    BY <1>0, <1>3, <1>4, <1>5 DEF MatchedInv
  <2>2. ASSUME NEW d \in EntryRows'
        PROVE  d \notin Range(book') <=> \E y \in ExitRows' : Closes(d, y)'
    <3>1. CASE d = x
      BY <1>3, <1>4, <1>5, <3>1
    <3>2. CASE d # x
      <4>1. d \in EntryRows /\ d \in DOMAIN log
        BY <1>3, <1>4, <3>2
      <4>2. d \notin Range(book') <=> d \notin Range(book)
        BY <1>3, <3>2
      <4>3. d \notin Range(book) <=> \E y \in ExitRows : Closes(d, y)
        BY <1>0, <4>1 DEF MatchedInv
      <4>4. (\E y \in ExitRows' : Closes(d, y)') <=> \E y \in ExitRows : Closes(d, y)
        BY <1>3, <1>4, <1>5, <4>1
      <4>. QED  BY <4>2, <4>3, <4>4
    <3>. QED  BY <3>1, <3>2
  <2>3. ASSUME NEW d \in EntryRows', NEW f \in EntryRows', d < f, log'[d].contract = log'[f].contract
        PROVE  log'[d].date < log'[f].date
    <3>1. d # x
      BY <1>3, <1>4, <2>3
    <3>2. CASE f = x
      BY <1>3, <1>4, <1>6, <2>3, <3>1, <3>2
    <3>3. CASE f # x
      BY <1>0, <1>3, <1>4, <2>3, <3>1, <3>3 DEF MatchedInv
    <3>. QED  BY <3>2, <3>3
  <2>4. ASSUME NEW b \in DOMAIN book', NEW k \in Of(DOMAIN log, b)' PROVE k <= book'[b]
    <3>1. k \in DOMAIN log \cup {x} /\ log'[k].contract = b
      BY <1>3 DEF Of
    <3>2. CASE b = c
      BY <1>3, <1>4, <3>1, <3>2
    <3>3. CASE b # c
      <4>1. k \in Of(DOMAIN log, b) /\ b \in DOMAIN book /\ book'[b] = book[b]
        BY <1>3, <3>1, <3>3 DEF Of
      <4>. QED  BY <1>0, <4>1 DEF MatchedInv
    <3>. QED  BY <3>2, <3>3
  <2>. QED  BY <2>1, <2>2, <2>3, <2>4 DEF MatchedInv
<1>8. CountedInv'
  <2>1. ASSUME NEW b \in Contracts
        PROVE  Cardinality(Of(EntryRows, b)') =
                 Cardinality(Of(ExitRows, b)') + IF b \in DOMAIN book' THEN 1 ELSE 0
    <3>1. CASE b # c
      BY <1>0, <1>3, <1>5, <3>1 DEF CountedInv
    <3>2. CASE b = c
      <4>1. Of(EntryRows, c) \in SUBSET DOMAIN log /\ x \notin Of(EntryRows, c)
            /\ Of(ExitRows, c) \in SUBSET DOMAIN log
        BY <1>3, <1>4 DEF Of
      <4>2. /\ IsFiniteSet(Of(EntryRows, c)) /\ Cardinality(Of(EntryRows, c)) \in Nat
            /\ Cardinality(Of(ExitRows, c)) \in Nat
        BY <1>0, <4>1, RowSets
      <4>3. Cardinality(Of(EntryRows, c) \cup {x}) = Cardinality(Of(EntryRows, c)) + 1
        BY <4>1, <4>2, FS_AddElement
      <4>4. Cardinality(Of(EntryRows, c)) = Cardinality(Of(ExitRows, c)) + 0
        BY <1>0, <1>3, <3>2 DEF CountedInv
      <4>5. Of(EntryRows, b)' = Of(EntryRows, c) \cup {x} /\ Of(ExitRows, b)' = Of(ExitRows, c)
        BY <1>5, <3>2
      <4>6. b \in DOMAIN book'
        BY <1>3, <3>2
      <4>. QED  BY <4>2, <4>3, <4>4, <4>5, <4>6
    <3>. QED  BY <3>1, <3>2
  <2>2. (EntryRows \ Range(book))' = EntryRows \ Range(book)
    BY <1>3, <1>4
  <2>. QED  BY <1>0, <1>3, <2>1, <2>2 DEF CountedInv
<1>9. EndsInv'
  <2>1. ASSUME NEW d \in 1..Len(ends)
        PROVE  Range(ends[d]) = {f \in EntryRows' :
                 log'[f].date <= d /\ \A y \in ExitRows' : Closes(f, y)' => d < log'[y].date}
    <3>1. d < day /\ d \in Nat
      BY <1>0, LogFacts
    <3>2. \A f \in EntryRows : (\A y \in ExitRows' : Closes(f, y)' => d < log'[y].date)
                                 <=> \A y \in ExitRows : Closes(f, y) => d < log[y].date
      BY <1>3, <1>4, <1>5
    <3>3. (\A f \in EntryRows : log'[f] = log[f]) /\ ~ (log'[x].date <= d)
      BY <1>3, <1>4, <3>1
    <3>4. Range(ends[d]) = {f \in EntryRows :
                 log[f].date <= d /\ \A y \in ExitRows : Closes(f, y) => d < log[y].date}
      BY <1>0 DEF EndsInv
    <3>. QED  BY <1>3, <3>2, <3>3, <3>4
  <2>. QED  BY <1>2, <2>1 DEF EndsInv
<1>. QED  BY <1>7, <1>8, <1>9

LEMMA EntryAccounts ==
  ASSUME LogInv, LogEntry
  PROVE  AccountedInv'
<1>0. TradeLogTypeOK /\ MatchedInv /\ AccountedInv
  BY DEF LogInv
<1>1. PICK c, r, x : Buys(c, r, x)
  BY EntryFacts
<1>2. /\ r \in LogRows /\ log' = Append(log, r) /\ x = Len(log) + 1 /\ x \notin DOMAIN log
      /\ Range(book') = Range(book) \cup {x} /\ EntryRows' = EntryRows \cup {x} /\ ExitRows' = ExitRows
      /\ (DOMAIN log)' = DOMAIN log \cup {x} /\ Len(log)' = x /\ log'[x] = r
  BY <1>1 DEF Buys
<1>3. \A k \in DOMAIN log : Dollars(k)' = Dollars(k)
  BY <1>0, <1>2, EarlierRows
<1>4. /\ \A y \in ExitRows : EntryOf(y) \in EntryRows /\ Dollars(EntryOf(y))' = Dollars(EntryOf(y))
      /\ \A d \in EntryRows \ Range(book) : ExitOf(d) \in ExitRows /\ Dollars(ExitOf(d))' = Dollars(ExitOf(d))
  BY <1>0, <1>2, PairsKept
<1>5. /\ EntryRows \subseteq DOMAIN log /\ ExitRows \subseteq DOMAIN log /\ Range(book) \subseteq EntryRows
      /\ Len(log) \in Nat /\ DOMAIN log = 1..Len(log)
  BY <1>0, LogFacts
<1>7. PICK D : D = r.cost * r.qty
  OBVIOUS
<1>9. D \in Int /\ (\A k \in DOMAIN log : Dollars(k) \in Int) /\ Dollars(x)' = D
  <2>1. \A k \in DOMAIN log : Dollars(k) \in Int
    BY <1>0, RowSets
  <2>2. D \in Int
    <3>1. r.cost \in Int /\ r.qty \in Int
      BY <1>2 DEF LogRows
    <3>. QED  BY <1>7, <3>1
  <2>3. Dollars(x)' = D
    BY <1>2, <1>7 DEF Dollars
  <2>. QED  BY <2>1, <2>2, <2>3
<1>10. x \in Nat /\ x \in 1..x
  BY <1>2, <1>5
<1>. DEFINE f == [y \in ExitRows |-> -Dollars(y) - Dollars(EntryOf(y))]
            ff == [y \in ExitRows' |-> (-Dollars(y))' - Dollars(EntryOf(y))']
            g == [d \in EntryRows \ Range(book) |-> -Dollars(d) - Dollars(ExitOf(d))]
            gg == [d \in EntryRows' \ Range(book') |-> (-Dollars(d))' - Dollars(ExitOf(d))']
            h == [k \in DOMAIN log |-> -Dollars(k)]
            hh == [k \in (DOMAIN log)' |-> (-Dollars(k))']
            b == [k \in Range(book) |-> Dollars(k)]
            bb == [k \in Range(book') |-> Dollars(k)']
<1>11. Total(f, Len(log)) = Total(h, Len(log)) + Total(b, Len(log))
       /\ Total(g, Len(log)) = Total(h, Len(log)) + Total(b, Len(log))
  BY <1>0 DEF AccountedInv, LogTotal, LogCash, Basis
<1>12. ff = f /\ DOMAIN f \subseteq DOMAIN log /\ \A y \in DOMAIN f : f[y] \in Int
  <2>1. \A y \in ExitRows : Dollars(y) \in Int /\ Dollars(EntryOf(y)) \in Int
    BY <1>4, <1>5, <1>9
  <2>2. \A y \in ExitRows : Dollars(y)' = Dollars(y) /\ Dollars(EntryOf(y))' = Dollars(EntryOf(y))
    BY <1>3, <1>4, <1>5
  <2>. QED  BY <1>2, <1>5, <2>1, <2>2
<1>13. gg = g /\ DOMAIN g \subseteq DOMAIN log /\ \A d \in DOMAIN g : g[d] \in Int
  <2>1. \A d \in EntryRows \ Range(book) : Dollars(d) \in Int /\ Dollars(ExitOf(d)) \in Int
    BY <1>4, <1>5, <1>9
  <2>2. \A d \in EntryRows \ Range(book) : Dollars(d)' = Dollars(d) /\ Dollars(ExitOf(d))' = Dollars(ExitOf(d))
    BY <1>3, <1>4, <1>5
  <2>3. EntryRows' \ Range(book') = EntryRows \ Range(book)
    BY <1>2, <1>5
  <2>. QED  BY <1>5, <2>1, <2>2, <2>3
<1>14. Adds(h, hh, x) /\ hh[x] = -D /\ DOMAIN h = DOMAIN log /\ \A k \in DOMAIN h : h[k] \in Int
  BY <1>2, <1>3, <1>9 DEF Adds
<1>15. Adds(b, bb, x) /\ bb[x] = D /\ DOMAIN b \subseteq DOMAIN log /\ \A k \in DOMAIN b : b[k] \in Int
  BY <1>2, <1>3, <1>5, <1>9 DEF Adds
<1>. HIDE DEF f, ff, g, gg, h, hh, b, bb
<1>17. /\ IntTerms(f, Len(log)) /\ IntTerms(g, Len(log)) /\ IntTerms(h, Len(log)) /\ IntTerms(b, Len(log))
  BY <1>12, <1>13, <1>14, <1>15 DEF IntTerms
<1>18. /\ Total(f, x) = Total(f, Len(log)) /\ Total(g, x) = Total(g, Len(log))
       /\ Total(h, x) = Total(h, Len(log)) /\ IntTerms(h, x) /\ Total(h, x) \in Int
       /\ Total(b, x) = Total(b, Len(log)) /\ IntTerms(b, x) /\ Total(b, x) \in Int
  <2>1. ASSUME NEW s \in {f, g, h, b}
        PROVE  Total(s, x) = Total(s, Len(log)) /\ IntTerms(s, x) /\ Total(s, x) \in Int
    <3>1. IntTerms(s, Len(log)) /\ DOMAIN s \subseteq 1..Len(log) /\ Len(log) \in Nat
      BY <1>5, <1>12, <1>13, <1>14, <1>15, <1>17
    <3>. QED  BY <1>2, <3>1, TotalLonger
  <2>. QED  BY <2>1
<1>21. Total(hh, x) = Total(h, x) + hh[x]
  BY <1>10, <1>14, <1>18, TotalWith
<1>22. Total(bb, x) = Total(b, x) + bb[x]
  BY <1>10, <1>15, <1>18, TotalWith
<1>23. Total(ff, x) = Total(hh, x) + Total(bb, x) /\ Total(gg, x) = Total(hh, x) + Total(bb, x)
  <2>1. Total(hh, x) + Total(bb, x) = Total(h, x) + Total(b, x)
    BY <1>9, <1>14, <1>15, <1>18, <1>21, <1>22
  <2>. QED  BY <1>11, <1>12, <1>13, <1>18, <2>1
<1>24. /\ LogTotal([y \in ExitRows |-> -Dollars(y) - Dollars(EntryOf(y))])' = Total(ff, x)
       /\ LogTotal([d \in EntryRows \ Range(book) |-> -Dollars(d) - Dollars(ExitOf(d))])' = Total(gg, x)
       /\ LogCash' = Total(hh, x) /\ Basis(book)' = Total(bb, x)
  BY <1>2 DEF LogTotal, LogCash, Basis, ff, gg, hh, bb
<1>. QED  BY <1>23, <1>24 DEF AccountedInv

-----------------------------------------------------------------------------
(* The invariant holds.                                                    *)

\* What is said of the log and the book alone.
LEMMA SameLog ==
  ASSUME OrdersInv, MatchedInv, CountedInv, AccountedInv, UNCHANGED <<direction, log, book>>
  PROVE  /\ OrdersInv' /\ MatchedInv' /\ CountedInv' /\ AccountedInv'
         /\ EntryRows' = EntryRows /\ ExitRows' = ExitRows
         /\ \A e, x : Closes(e, x)' <=> Closes(e, x)
<1>1. log' = log /\ book' = book /\ direction' = direction
  OBVIOUS
<1>2. EntryRows' = EntryRows /\ ExitRows' = ExitRows
  BY <1>1 DEF EntryRows, ExitRows
<1>3. \A c : Of(EntryRows, c)' = Of(EntryRows, c) /\ Of(ExitRows, c)' = Of(ExitRows, c)
             /\ Of(DOMAIN log, c)' = Of(DOMAIN log, c)
  BY <1>1, <1>2 DEF Of
<1>4. \A k : Sooner(EntryRows, k)' = Sooner(EntryRows, k) /\ Sooner(ExitRows, k)' = Sooner(ExitRows, k)
  BY <1>1, <1>2 DEF Sooner, Of
<1>5. \A e, x : Closes(e, x)' <=> Closes(e, x)
  BY <1>1, <1>2, <1>4 DEF Closes
<1>6. \A x : EntryOf(x)' = EntryOf(x) /\ ExitOf(x)' = ExitOf(x)
  BY <1>2, <1>5 DEF EntryOf, ExitOf
<1>7. \A k : Dollars(k)' = Dollars(k)
  BY <1>1 DEF Dollars
<1>8. OrdersInv'
  BY <1>1, <1>2 DEF OrdersInv, EntryOrder, ExitOrder
<1>9. MatchedInv'
  BY <1>1, <1>2, <1>3, <1>5 DEF MatchedInv
<1>10. CountedInv'
  BY <1>1, <1>2, <1>3 DEF CountedInv
<1>11. AccountedInv'
  <2>1. \A x \in ExitRows : Dollars(EntryOf(x))' = Dollars(EntryOf(x))
    BY <1>1, <1>6 DEF Dollars
  <2>2. \A e \in EntryRows : Dollars(ExitOf(e))' = Dollars(ExitOf(e))
    BY <1>1, <1>6 DEF Dollars
  <2>3. /\ LogTotal([x \in ExitRows |-> -Dollars(x) - Dollars(EntryOf(x))])'
             = LogTotal([x \in ExitRows |-> -Dollars(x) - Dollars(EntryOf(x))])
        /\ LogTotal([e \in EntryRows \ Range(book) |-> -Dollars(e) - Dollars(ExitOf(e))])'
             = LogTotal([e \in EntryRows \ Range(book) |-> -Dollars(e) - Dollars(ExitOf(e))])
    BY <1>1, <1>2, <1>7, <2>1, <2>2 DEF LogTotal
  <2>4. LogCash' = LogCash /\ Basis(book)' = Basis(book)
    BY <1>1, <1>7 DEF LogTotal, LogCash, Basis
  <2>. QED  BY <2>3, <2>4 DEF AccountedInv
<1>. QED  BY <1>2, <1>5, <1>8, <1>9, <1>10, <1>11

LEMMA LogStart ==
  ASSUME LogInit
  PROVE  LogInv
<1>1. /\ direction \in Directions /\ day = 1 /\ stage = "exits"
      /\ log = << >> /\ book = << >> /\ ends = << >>
  BY DEF LogInit
<1>2. /\ DOMAIN log = {} /\ Len(log) = 0 /\ DOMAIN book = {} /\ Len(ends) = 0 /\ Range(book) = {}
      /\ Range(ends) = {} /\ 1..Len(ends) = {}
  BY <1>1 DEF Range
<1>3. EntryRows = {} /\ ExitRows = {} /\ \A c : Of(EntryRows, c) = {} /\ Of(ExitRows, c) = {}
  BY <1>2 DEF EntryRows, ExitRows, Of
<1>4. TradeLogTypeOK
  BY <1>1, <1>2, TradeLogAssumption DEF TradeLogTypeOK
<1>5. DatedInv /\ OrdersInv
  BY <1>1, <1>2, <1>3 DEF DatedInv, OrdersInv
<1>6. MatchedInv /\ EndsInv
  BY <1>2, <1>3 DEF MatchedInv, EndsInv
<1>7. CountedInv
  <2>1. Cardinality({}) = 0 /\ EntryRows \ Range(book) = {}
    BY <1>3, FS_EmptySet
  <2>2. \A c : Cardinality(Of(EntryRows, c)) = 0 /\ Cardinality(Of(ExitRows, c)) = 0 /\ c \notin DOMAIN book
    BY <1>2, <1>3, <2>1
  <2>3. Cardinality(EntryRows \ Range(book)) = 0 /\ Cardinality(ExitRows) = 0
    BY <1>3, <2>1
  <2>4. \A c \in Contracts : Cardinality(Of(EntryRows, c))
                            = Cardinality(Of(ExitRows, c)) + IF c \in DOMAIN book THEN 1 ELSE 0
    BY <2>2
  <2>. QED  BY <2>3, <2>4 DEF CountedInv
<1>8. AccountedInv
  <2>1. ASSUME NEW f, DOMAIN f = {} PROVE LogTotal(f) = 0
    <3>1. Total(f, 0) = 0
      BY <2>1, EmptyTotal
    <3>. QED  BY <1>2, <3>1 DEF LogTotal
  <2>2. LogCash = 0 /\ Basis(book) = 0
    BY <1>2, <2>1 DEF LogCash, Basis
  <2>3. /\ LogTotal([x \in ExitRows |-> -Dollars(x) - Dollars(EntryOf(x))]) = 0
        /\ LogTotal([e \in EntryRows \ Range(book) |-> -Dollars(e) - Dollars(ExitOf(e))]) = 0
    BY <1>3, <2>1
  <2>. QED  BY <2>2, <2>3 DEF AccountedInv
<1>. QED  BY <1>4, <1>5, <1>6, <1>7, <1>8 DEF LogInv

LEMMA DayEnds ==
  ASSUME LogInv, EndDay
  PROVE  LogInv'
<1>0. /\ TradeLogTypeOK /\ DatedInv /\ OrdersInv /\ MatchedInv /\ CountedInv /\ EndsInv /\ AccountedInv
  BY DEF LogInv
<1>1. /\ stage = "entries" /\ ends' = Append(ends, book) /\ day' = day + 1 /\ stage' = "exits"
      /\ direction' = direction /\ log' = log /\ book' = book
  BY DEF EndDay
<1>2. /\ EntryRows' = EntryRows /\ ExitRows' = ExitRows /\ \A e, x : Closes(e, x)' <=> Closes(e, x)
      /\ OrdersInv' /\ MatchedInv' /\ CountedInv' /\ AccountedInv'
  BY <1>0, <1>1, SameLog
<1>3. /\ day \in Nat /\ LastDay \in Nat /\ day >= 1 /\ day <= LastDay /\ Len(ends) = day - 1
      /\ \A k \in DOMAIN log : log[k].date \in Nat /\ log[k].date <= day
      /\ EntryRows \subseteq DOMAIN log /\ ExitRows \subseteq DOMAIN log
  BY <1>0, <1>1, LogFacts DEF DatedInv, TradeLogTypeOK
<1>4. /\ Len(ends') = day /\ ends'[day] = book /\ \A d \in 1..Len(ends) : ends'[d] = ends[d]
      /\ ends' \in Seq(Range(ends'))
  <2>1. ends \in Seq(Range(ends)) /\ Len(ends) \in Nat
    BY <1>0, <1>3 DEF TradeLogTypeOK
  <2>2. ends \in Seq(Range(ends) \cup {book})
    BY <2>1
  <2>3. /\ Len(ends') = Len(ends) + 1 /\ ends'[Len(ends) + 1] = book
        /\ \A d \in 1..Len(ends) : ends'[d] = ends[d]
        /\ ends' \in Seq(Range(ends) \cup {book})
    BY <1>1, <2>2
  <2>4. DOMAIN ends' = 1..Len(ends') /\ ends' = [d \in 1..Len(ends') |-> ends'[d]] /\ Len(ends') \in Nat
    BY <2>3
  <2>5. \A d \in 1..Len(ends') : ends'[d] \in Range(ends')
    BY <2>4 DEF Range
  <2>6. ends' \in Seq(Range(ends'))
    BY <2>4, <2>5
  <2>. QED  BY <1>3, <2>3, <2>6
<1>5. TradeLogTypeOK'
  <2>1. \A c \in DOMAIN book' : book'[c] \in Of(EntryRows, c)'
    BY <1>0, <1>1, <1>2 DEF TradeLogTypeOK, Of
  <2>2. day' \in 1..(LastDay + 1) /\ Len(ends') = day' - 1
    BY <1>1, <1>3, <1>4
  <2>. QED  BY <1>0, <1>1, <1>4, <2>1, <2>2 DEF TradeLogTypeOK
<1>6. DatedInv'
  <2>1. \A k \in DOMAIN log : log[k].date < day + 1 /\ log[k].date <= day + 1
    BY <1>3
  <2>. QED  BY <1>0, <1>1, <1>2, <1>3, <2>1 DEF DatedInv
<1>7. EndsInv'
  <2>1. ASSUME NEW d \in 1..Len(ends')
        PROVE  Range(ends'[d]) = {e \in EntryRows :
                 log[e].date <= d /\ \A x \in ExitRows : Closes(e, x) => d < log[x].date}
    <3>1. CASE d = day
      <4>1. \A x \in ExitRows : ~ (day < log[x].date)
        BY <1>3
      <4>2. \A e \in EntryRows : e \in Range(book) <=> ~ \E x \in ExitRows : Closes(e, x)
        BY <1>0 DEF MatchedInv
      <4>3. Range(book) \subseteq EntryRows
        BY <1>0, LogFacts
      <4>. QED  BY <1>3, <1>4, <3>1, <4>1, <4>2, <4>3
    <3>2. CASE d # day
      <4>1. d \in 1..Len(ends)
        BY <1>3, <1>4, <3>2
      <4>. QED  BY <1>0, <1>4, <4>1 DEF EndsInv
    <3>. QED  BY <3>1, <3>2
  <2>. QED  BY <1>1, <1>2, <2>1 DEF EndsInv
<1>. QED  BY <1>2, <1>5, <1>6, <1>7 DEF LogInv

LEMMA LogStep ==
  ASSUME LogInv, [LogNext]_logVars
  PROVE  LogInv'
<1>1. CASE LogExit
  BY <1>1, ExitTypes, ExitMatches, ExitAccounts DEF LogInv
<1>2. CASE ExitsDone
  <2>1. /\ stage' = "entries" /\ day <= LastDay /\ direction' = direction /\ day' = day
        /\ log' = log /\ book' = book /\ ends' = ends
    BY <1>2 DEF ExitsDone
  <2>2. /\ EntryRows' = EntryRows /\ ExitRows' = ExitRows /\ \A e, x : Closes(e, x)' <=> Closes(e, x)
        /\ OrdersInv' /\ MatchedInv' /\ CountedInv' /\ AccountedInv'
    BY <2>1, SameLog DEF LogInv
  <2>3. TradeLogTypeOK'
    BY <2>1, <2>2 DEF LogInv, TradeLogTypeOK, Of
  <2>4. DatedInv'
    BY <2>1, <2>2 DEF LogInv, DatedInv
  <2>5. EndsInv'
    BY <2>1, <2>2 DEF LogInv, EndsInv
  <2>. QED  BY <2>2, <2>3, <2>4, <2>5 DEF LogInv
<1>3. CASE LogEntry
  BY <1>3, EntryTypes, EntryMatches, EntryAccounts DEF LogInv
<1>4. CASE EndDay
  BY <1>4, DayEnds
<1>5. CASE UNCHANGED logVars
  <2>1. /\ direction' = direction /\ day' = day /\ stage' = stage
        /\ log' = log /\ book' = book /\ ends' = ends
    BY <1>5 DEF logVars
  <2>2. /\ EntryRows' = EntryRows /\ ExitRows' = ExitRows /\ \A e, x : Closes(e, x)' <=> Closes(e, x)
        /\ OrdersInv' /\ MatchedInv' /\ CountedInv' /\ AccountedInv'
    BY <2>1, SameLog DEF LogInv
  <2>3. TradeLogTypeOK'
    BY <2>1, <2>2 DEF LogInv, TradeLogTypeOK, Of
  <2>4. DatedInv' /\ EndsInv'
    BY <2>1, <2>2 DEF LogInv, DatedInv, EndsInv
  <2>. QED  BY <2>2, <2>3, <2>4 DEF LogInv
<1>6. CASE Over
  BY <1>5, <1>6 DEF Over
<1>. QED  BY <1>1, <1>2, <1>3, <1>4, <1>5, <1>6 DEF LogNext

\* Whatever contracts, dates, lots and prices there are, rows are written in the
\* order of their dates, the book names the entries of what it holds, every exit
\* closed one entry, and what the round trips made is cash or still in positions.
THEOREM LogInvariant == LogSpec => []LogInv
<1>1. LogInit => LogInv
  BY LogStart
<1>2. LogInv /\ [LogNext]_logVars => LogInv'
  BY LogStep
<1>. QED  BY <1>1, <1>2, PTL DEF LogSpec

-----------------------------------------------------------------------------
(* What the readers make of the log.                                       *)

\* The rows of a bought leg.
LEMMA BoughtLeg ==
  ASSUME LogInv, direction = "BUY"
  PROVE  /\ BoughtRows = EntryRows /\ SoldRows = ExitRows
         /\ \A c : SoldToClose(c) = Of(ExitRows, c)
<1>0. TradeLogTypeOK /\ OrdersInv
  BY DEF LogInv
<1>1. /\ EntryRows \subseteq DOMAIN log /\ ExitRows \subseteq DOMAIN log
      /\ EntryRows \cup ExitRows = DOMAIN log /\ EntryRows \cap ExitRows = {}
  BY <1>0, LogFacts
<1>2. /\ \A k \in EntryRows : log[k].order = "BTO"
      /\ \A k \in ExitRows : log[k].order = "STC"
  BY <1>0 DEF OrdersInv, EntryOrder, ExitOrder
<1>3. BoughtRows = EntryRows
  BY <1>1, <1>2 DEF BoughtRows
<1>4. SoldRows = ExitRows
  BY <1>1, <1>3 DEF SoldRows
<1>5. \A c : SoldToClose(c) = Of(ExitRows, c)
  BY <1>1, <1>2 DEF SoldToClose, Of
<1>. QED  BY <1>3, <1>4, <1>5

\* Sorted by date, with the rows of one date in any order.
SortsByDate(sort) ==
  /\ \A j, k \in DOMAIN log : log[j].date < log[k].date => <<j, k>> \in sort /\ <<k, j>> \notin sort
  /\ \A k \in DOMAIN log : <<k, k>> \notin sort

LEMMA BothSort ==
  ASSUME LogInv, NEW sort \in Sorts
  PROVE  SortsByDate(sort)
<1>0. TradeLogTypeOK /\ DatedInv
  BY DEF LogInv
<1>1. \A k \in DOMAIN log : k \in Nat /\ log[k].date \in Nat
  BY <1>0, LogFacts
<1>2. CASE sort = AsWritten
  <2>1. ASSUME NEW j \in DOMAIN log, NEW k \in DOMAIN log, log[j].date < log[k].date
        PROVE  j < k
    <3>1. ~ (k <= j)
      BY <1>0, <1>1, <2>1 DEF DatedInv
    <3>. QED  BY <1>1, <3>1
  <2>2. \A j, k \in DOMAIN log : <<j, k>> \in sort <=> j < k
    BY <1>2 DEF AsWritten, RowPairs
  <2>. QED  BY <1>1, <2>1, <2>2 DEF SortsByDate
<1>3. CASE sort = EntriesFirst
  <2>1. \A j, k \in DOMAIN log :
          <<j, k>> \in sort <=>
            \/ log[j].date < log[k].date
            \/ /\ log[j].date = log[k].date
               /\ \/ j \in EntryRows /\ k \in ExitRows
                  \/ (j \in EntryRows <=> k \in EntryRows) /\ j < k
    BY <1>3 DEF EntriesFirst, RowPairs
  <2>2. EntryRows \cap ExitRows = {}
    BY <1>0, LogFacts
  <2>. QED  BY <1>1, <2>1, <2>2 DEF SortsByDate
<1>. QED  BY <1>2, <1>3 DEF Sorts

\* FIFO pairs an exit with the entry of the position it closed: a contract is never
\* held twice, so its entries and its exits alternate.
LEMMA PairedIsClosed ==
  ASSUME LogInv, direction = "BUY", NEW sort, SortsByDate(sort), NEW x \in ExitRows
  PROVE  /\ Paired(sort, x) = EntryOf(x) /\ EntryOf(x) \in EntryRows /\ Closes(EntryOf(x), x)
<1>0. TradeLogTypeOK /\ DatedInv /\ MatchedInv
  BY DEF LogInv
<1>1. PICK e \in EntryRows : Closes(e, x)
  BY <1>0 DEF MatchedInv
<1>2. EntryOf(x) = e
  BY <1>0, <1>1, ClosesOnce
<1>3. /\ EntryRows \subseteq DOMAIN log /\ ExitRows \subseteq DOMAIN log /\ EntryRows \cap ExitRows = {}
      /\ \A k \in DOMAIN log : k \in Nat /\ log[k].date \in Nat
  BY <1>0, LogFacts
<1>4. PICK c : c = log[x].contract
  OBVIOUS
<1>5. /\ e < x /\ log[e].contract = c /\ log[e].date < log[x].date /\ e \in Of(EntryRows, c)
      /\ \A k \in DOMAIN log : e < k /\ k < x => log[k].contract # c
      /\ Cardinality(Sooner(EntryRows, e)) = Cardinality(Sooner(ExitRows, x))
  BY <1>1, <1>4 DEF Closes, Of
<1>. DEFINE B == Of(EntryRows, c)
            S == Of(ExitRows, c)
            bought == Before(sort, B, x)
            sold == Before(sort, S, x)
<1>6. /\ \A k \in B : k \in EntryRows /\ k \in DOMAIN log /\ log[k].contract = c
      /\ \A k \in S : k \in ExitRows /\ k \in DOMAIN log /\ log[k].contract = c
  BY <1>3 DEF Of
<1>. HIDE DEF B, S
\* Entries of a contract have dates of their own.
<1>7. ASSUME NEW j \in B, NEW k \in B PROVE <<j, k>> \in sort <=> j < k
  <2>1. \A d, f \in B : d < f => log[d].date < log[f].date
    BY <1>0, <1>6 DEF MatchedInv
  <2>2. CASE j < k
    BY <1>6, <2>1, <2>2 DEF SortsByDate
  <2>3. CASE k < j
    BY <1>3, <1>6, <2>1, <2>3 DEF SortsByDate
  <2>4. CASE j = k
    BY <1>3, <1>6, <2>4 DEF SortsByDate
  <2>. QED  BY <1>3, <1>6, <2>2, <2>3, <2>4
\* So have the exits: each has an entry after the one before.
<1>8. ASSUME NEW y \in ExitRows, NEW z \in ExitRows, log[y].contract = log[z].contract, y < z
      PROVE  log[y].date < log[z].date
  <2>1. PICK d \in EntryRows : Closes(d, z)
    BY <1>0 DEF MatchedInv
  <2>2. y \in DOMAIN log /\ z \in DOMAIN log /\ d \in DOMAIN log /\ d # y
    BY <1>3
  <2>3. /\ log[d].contract = log[z].contract /\ log[d].date < log[z].date
        /\ \A k \in DOMAIN log : d < k /\ k < z => log[k].contract # log[d].contract
    BY <2>1 DEF Closes
  <2>4. y <= d
    BY <1>3, <1>8, <2>2, <2>3
  <2>5. log[y].date <= log[d].date
    BY <1>0, <2>2, <2>4 DEF DatedInv
  <2>. QED  BY <1>3, <2>2, <2>3, <2>5
<1>9. sold = Sooner(ExitRows, x)
  <2>1. ASSUME NEW y \in S PROVE <<y, x>> \in sort <=> y < x
    <3>0. y \in DOMAIN log /\ x \in DOMAIN log /\ log[y].contract = log[x].contract /\ y \in ExitRows
      BY <1>3, <1>4, <1>6, <2>1
    <3>1. CASE y < x
      BY <1>8, <3>0, <3>1 DEF SortsByDate
    <3>2. CASE x < y
      <4>1. log[x].date < log[y].date
        BY <1>8, <3>0, <3>2
      <4>2. <<y, x>> \notin sort
        BY <3>0, <4>1 DEF SortsByDate
      <4>3. ~ (y < x)
        BY <1>3, <3>0, <3>2
      <4>. QED  BY <4>2, <4>3
    <3>3. CASE y = x
      BY <1>3, <3>0, <3>3 DEF SortsByDate
    <3>. QED  BY <1>3, <3>0, <3>1, <3>2, <3>3
  <2>2. Sooner(ExitRows, x) = {y \in S : y < x}
    BY <1>4 DEF Sooner, S
  <2>. QED  BY <2>1, <2>2 DEF Before
<1>10. ASSUME NEW j \in B, j <= e PROVE j \in bought
  <2>1. log[j].date <= log[e].date
    BY <1>0, <1>3, <1>5, <1>6, <1>10 DEF DatedInv
  <2>2. log[j].date < log[x].date
    BY <1>3, <1>5, <1>6, <2>1
  <2>. QED  BY <1>3, <1>6, <2>2 DEF SortsByDate, Before
<1>11. \A k \in B : Before(sort, bought, k) = {j \in bought : j < k}
  BY <1>7 DEF Before
<1>12. e \in B /\ e \in bought /\ bought \subseteq B
  <2>1. e \in B /\ e <= e
    BY <1>3, <1>5 DEF B
  <2>. QED  BY <1>10, <2>1 DEF Before
<1>13. Before(sort, bought, e) = Sooner(EntryRows, e)
  <2>1. Sooner(EntryRows, e) = {j \in B : j < e}
    BY <1>5 DEF Sooner, B
  <2>2. \A j \in B : j < e => j <= e
    BY <1>3, <1>6, <1>12
  <2>. QED  BY <1>10, <1>11, <1>12, <2>1, <2>2
\* No other entry comes after as many.
<1>14. ASSUME NEW d \in bought, Cardinality(Before(sort, bought, d)) = Cardinality(sold)
       PROVE  d = e
  <2>0. d \in B /\ d \in Nat /\ e \in Nat
    BY <1>3, <1>6, <1>12, <1>14
  <2>1. Cardinality(Before(sort, bought, d)) = Cardinality(Before(sort, bought, e))
    BY <1>5, <1>9, <1>13, <1>14
  <2>2. bought \in SUBSET DOMAIN log
    BY <1>6, <1>12
  <2>3. \A k \in B : IsFiniteSet(Before(sort, bought, k))
    <3>1. \A k \in B : Before(sort, bought, k) \in SUBSET DOMAIN log
      BY <2>2 DEF Before
    <3>. QED  BY <1>0, <3>1, RowSets
  <2>4. CASE d < e
    <3>1. Before(sort, bought, d) \subseteq Before(sort, bought, e)
      <4>1. \A j \in bought : j < d => j < e
        BY <1>3, <1>6, <1>12, <2>0, <2>4
      <4>. QED  BY <1>11, <1>12, <2>0, <4>1
    <3>2. d \in Before(sort, bought, e) /\ d \notin Before(sort, bought, d)
      BY <1>11, <1>12, <1>14, <2>0, <2>4
    <3>. QED  BY <1>12, <2>0, <2>1, <2>3, <3>1, <3>2, FS_Subset
  <2>5. CASE e < d
    <3>1. Before(sort, bought, e) \subseteq Before(sort, bought, d)
      <4>1. \A j \in bought : j < e => j < d
        BY <1>3, <1>6, <1>12, <2>0, <2>5
      <4>. QED  BY <1>11, <1>12, <2>0, <4>1
    <3>2. e \in Before(sort, bought, d) /\ e \notin Before(sort, bought, e)
      BY <1>11, <1>12, <2>0, <2>5
    <3>. QED  BY <1>12, <2>0, <2>1, <2>3, <3>1, <3>2, FS_Subset
  <2>. QED  BY <2>0, <2>4, <2>5
<1>15. Cardinality(Before(sort, bought, e)) = Cardinality(sold)
  BY <1>5, <1>9, <1>13
<1>16. Paired(sort, x) = CHOOSE d \in bought : Cardinality(Before(sort, bought, d)) = Cardinality(sold)
  BY <1>4, BoughtLeg DEF Paired, B, S
<1>. HIDE DEF bought, sold
<1>17. Paired(sort, x) = e
  BY <1>12, <1>14, <1>15, <1>16
<1>. QED  BY <1>1, <1>2, <1>17

\* The FIFO columns of write_trade_log hold of every log, for both sorts.
LEMMA FifoOfLog ==
  ASSUME LogInv
  PROVE  FifoAccountsForCash
<1>. SUFFICES ASSUME direction = "BUY", NEW sort \in Sorts
              PROVE  LET b == Booked(sort)
                     IN  /\ \A k \in DOMAIN b : /\ b[k].holdingDays > 0
                                                /\ log[k].qty = log[b[k].entry].qty
                         /\ LogTotal([k \in DOMAIN b |-> b[k].pnl]) = LogCash + Basis(book)
  BY DEF FifoAccountsForCash
<1>. DEFINE b == Booked(sort)
<1>0. TradeLogTypeOK /\ AccountedInv
  BY DEF LogInv
<1>1. \A x \in ExitRows : /\ Paired(sort, x) = EntryOf(x) /\ EntryOf(x) \in EntryRows
                          /\ Closes(EntryOf(x), x)
  BY BothSort, PairedIsClosed
<1>2. /\ \A k \in DOMAIN log : log[k].date \in Nat
      /\ EntryRows \subseteq DOMAIN log /\ ExitRows \subseteq DOMAIN log
  BY <1>0, LogFacts
<1>3. DOMAIN b = ExitRows
      /\ \A k \in ExitRows : /\ b[k].entry = EntryOf(k)
                             /\ b[k].holdingDays = log[k].date - log[EntryOf(k)].date
                             /\ b[k].pnl = -Dollars(k) - Dollars(EntryOf(k))
  BY <1>1, BoughtLeg DEF Booked
<1>. HIDE DEF b
<1>4. ASSUME NEW k \in DOMAIN b
      PROVE  b[k].holdingDays > 0 /\ log[k].qty = log[b[k].entry].qty
  <2>1. log[EntryOf(k)].date < log[k].date /\ log[EntryOf(k)].qty = log[k].qty
    BY <1>1, <1>3 DEF Closes
  <2>2. log[EntryOf(k)].date \in Nat /\ log[k].date \in Nat
    BY <1>1, <1>2, <1>3
  <2>. QED  BY <1>3, <2>1, <2>2
<1>5. LogTotal([k \in DOMAIN b |-> b[k].pnl]) = LogCash + Basis(book)
  <2>1. [k \in DOMAIN b |-> b[k].pnl] = [x \in ExitRows |-> -Dollars(x) - Dollars(EntryOf(x))]
    BY <1>3
  <2>. QED  BY <1>0, <2>1 DEF AccountedInv
<1>. QED  BY <1>4, <1>5 DEF b

\* The margin column is rebuilt from the pairs, and finds the book of every day.
LEMMA MarginOfLog ==
  ASSUME LogInv
  PROVE  MarginIsOpenBasis
<1>. SUFFICES ASSUME direction = "BUY", NEW sort \in Sorts, NEW d \in 1..Len(ends)
              PROVE  Borrowed(sort, d) = Basis(ends[d])
  BY DEF MarginIsOpenBasis
<1>0. TradeLogTypeOK /\ EndsInv
  BY DEF LogInv
<1>1. \A x \in ExitRows : Paired(sort, x) = EntryOf(x) /\ Closes(EntryOf(x), x)
  BY BothSort, PairedIsClosed
<1>2. \A e \in EntryRows : \A x \in ExitRows : Paired(sort, x) = e <=> Closes(e, x)
  BY <1>0, <1>1, ClosesOnce
<1>3. BoughtRows = EntryRows /\ SoldRows = ExitRows
  BY BoughtLeg
<1>. DEFINE exitsOf(e) == {k \in SoldRows : Paired(sort, k) = e}
            on == {e \in BoughtRows : /\ log[e].date <= d
                                      /\ \A k \in exitsOf(e) : d < log[k].date}
<1>4. on = Range(ends[d])
  BY <1>0, <1>2, <1>3 DEF EndsInv
<1>5. Borrowed(sort, d) = LogTotal([e \in on |-> Dollars(e)])
  BY DEF Borrowed
<1>. HIDE DEF on
<1>. QED  BY <1>4, <1>5 DEF Basis

\* The rows of a contract entered once.
RoundTrip(e, c) ==
  /\ Of(EntryRows, c) = {e} /\ Min(Of(EntryRows, c)) = e
  /\ \A x \in ExitRows : Closes(e, x) => Of(ExitRows, c) = {x} /\ Min(Of(ExitRows, c)) = x
  /\ Of(ExitRows, c) = {} <=> ~ \E x \in ExitRows : Closes(e, x)

LEMMA OneRoundTrip ==
  ASSUME LogInv, EnteredOnce, NEW e \in EntryRows, NEW c, c = log[e].contract
  PROVE  RoundTrip(e, c)
<1>0. TradeLogTypeOK /\ MatchedInv
  BY DEF LogInv
<1>1. /\ EntryRows \subseteq DOMAIN log /\ ExitRows \subseteq DOMAIN log
      /\ \A k \in DOMAIN log : k \in Nat
  BY <1>0, LogFacts
<1>2. Of(EntryRows, c) = {e}
  BY DEF EnteredOnce, Of
<1>3. \A x \in Of(ExitRows, c) : Closes(e, x)
  <2>1. ASSUME NEW x \in ExitRows, log[x].contract = c PROVE Closes(e, x)
    <3>1. PICK f \in EntryRows : Closes(f, x)
      BY <1>0 DEF MatchedInv
    <3>2. f \in Of(EntryRows, c)
      BY <2>1, <3>1 DEF Closes, Of
    <3>. QED  BY <1>2, <3>1, <3>2
  <2>. QED  BY <2>1 DEF Of
<1>4. \A x \in ExitRows : Closes(e, x) => x \in Of(ExitRows, c)
  BY DEF Closes, Of
<1>5. \A x \in ExitRows : Closes(e, x) => Of(ExitRows, c) = {x}
  BY <1>0, <1>3, <1>4, ClosesOnce
<1>6. \A k \in DOMAIN log : Min({k}) = k
  BY <1>1 DEF Min
<1>7. Of(ExitRows, c) = {} <=> ~ \E x \in ExitRows : Closes(e, x)
  BY <1>3, <1>4 DEF Of
<1>. QED  BY <1>1, <1>2, <1>5, <1>6, <1>7 DEF RoundTrip

\* The coverage of contracts entered once is that of the books.
LEMMA CoverageOfLog ==
  ASSUME LogInv
  PROVE  CoverageMatchesOnceEntered
<1>. SUFFICES ASSUME direction = "BUY", EnteredOnce
              PROVE  Uncovered = {d \in 1..Len(ends) : DOMAIN ends[d] = {}}
  BY DEF CoverageMatchesOnceEntered
<1>0. TradeLogTypeOK /\ DatedInv /\ MatchedInv /\ EndsInv
  BY DEF LogInv
<1>1. BoughtRows = EntryRows /\ \A c : SoldToClose(c) = Of(ExitRows, c)
  BY BoughtLeg
<1>2. /\ EntryRows \subseteq DOMAIN log /\ ExitRows \subseteq DOMAIN log
      /\ \A k \in DOMAIN log : k \in Nat /\ log[k].date \in Nat /\ log[k].contract \in Contracts
  BY <1>0, LogFacts
<1>3. ASSUME NEW e \in EntryRows, NEW c, c = log[e].contract
      PROVE  RoundTrip(e, c)
  BY <1>3, OneRoundTrip
<1>4. ASSUME NEW d \in 1..Len(ends), NEW c \in Contracts
      PROVE  OpenOn(c, d) <=> \E e \in Range(ends[d]) : log[e].contract = c
  <2>0. d \in Nat
    BY <1>0, LogFacts
  <2>1. Range(ends[d]) = {e \in EntryRows :
          log[e].date <= d /\ \A x \in ExitRows : Closes(e, x) => d < log[x].date}
    BY <1>0 DEF EndsInv
  <2>2. OpenOn(c, d) <=> /\ Of(EntryRows, c) # {} /\ d >= log[Min(Of(EntryRows, c))].date
                         /\ Of(ExitRows, c) = {} \/ d < log[Min(Of(ExitRows, c))].date
    BY <1>1 DEF OpenOn
  <2>3. CASE Of(EntryRows, c) = {}
    BY <2>1, <2>2, <2>3 DEF Of
  <2>4. CASE Of(EntryRows, c) # {}
    <3>1. PICK e \in EntryRows : log[e].contract = c
      BY <2>4 DEF Of
    <3>2. /\ Of(EntryRows, c) = {e} /\ Min(Of(EntryRows, c)) = e
          /\ \A x \in ExitRows : Closes(e, x) => Of(ExitRows, c) = {x} /\ Min(Of(ExitRows, c)) = x
          /\ Of(ExitRows, c) = {} <=> ~ \E x \in ExitRows : Closes(e, x)
      BY <1>3, <3>1 DEF RoundTrip
    <3>3. (\E f \in Range(ends[d]) : log[f].contract = c) <=> e \in Range(ends[d])
      BY <2>1, <3>1, <3>2 DEF Of
    <3>4. d >= log[e].date <=> log[e].date <= d
      BY <1>2, <2>0
    <3>5. (Of(ExitRows, c) = {} \/ d < log[Min(Of(ExitRows, c))].date)
            <=> \A x \in ExitRows : Closes(e, x) => d < log[x].date
      <4>1. CASE \E x \in ExitRows : Closes(e, x)
        BY <1>0, <3>2, <4>1, ClosesOnce
      <4>2. CASE ~ \E x \in ExitRows : Closes(e, x)
        BY <3>2, <4>2
      <4>. QED  BY <4>1, <4>2
    <3>. QED  BY <2>1, <2>2, <3>2, <3>3, <3>4, <3>5
  <2>. QED  BY <2>3, <2>4
<1>5. \A d \in 1..Len(ends) : (\A c \in Contracts : ~ OpenOn(c, d)) <=> DOMAIN ends[d] = {}
  <2>1. ASSUME NEW d \in 1..Len(ends)
        PROVE  (\A c \in Contracts : ~ OpenOn(c, d)) <=> DOMAIN ends[d] = {}
    <3>1. Range(ends[d]) \subseteq EntryRows
      BY <1>0 DEF EndsInv
    <3>2. \A e \in Range(ends[d]) : log[e].contract \in Contracts
      BY <1>2, <3>1
    <3>3. (\A c \in Contracts : ~ OpenOn(c, d)) <=> Range(ends[d]) = {}
      BY <1>4, <3>2
    <3>4. Range(ends[d]) = {} <=> DOMAIN ends[d] = {}
      BY DEF Range
    <3>. QED  BY <3>3, <3>4
  <2>. QED  BY <2>1
<1>. QED  BY <1>5 DEF Uncovered

\* While no contract was entered twice, TradeLog pairs what the positions were.
LEMMA TripsOfLog ==
  ASSUME LogInv
  PROVE  RoundTripsComplete
<1>. DEFINE trades == FromLegacyTradeLog
<1>. SUFFICES ASSUME EnteredOnce
     PROVE  /\ Cardinality(DOMAIN trades) = Cardinality(ExitRows)
            /\ \A x \in ExitRows : \E k \in DOMAIN trades :
                 /\ trades[k].contract = log[x].contract /\ trades[k].exit = log[x].date
                 /\ trades[k].qty = log[x].qty
            /\ direction = "BUY" =>
                 /\ LogTotal([k \in DOMAIN trades |-> GrossPnl(trades[k])]) = LogCash + Basis(book)
                 /\ Wins("members") = Cardinality(Winners(trades)) /\ Losses("members") >= 0
  BY DEF RoundTripsComplete
<1>0. TradeLogTypeOK /\ OrdersInv /\ MatchedInv /\ CountedInv /\ AccountedInv
  BY DEF LogInv
<1>1. /\ EntryRows \subseteq DOMAIN log /\ ExitRows \subseteq DOMAIN log
      /\ \A k \in DOMAIN log : log[k].cost \in Int /\ log[k].qty \in Nat \ {0}
  BY <1>0, LogFacts
<1>2. \A e \in EntryRows : \A c : c = log[e].contract => RoundTrip(e, c)
  BY OneRoundTrip
<1>3. Closed = EntryRows \ Range(book)
  BY <1>0, <1>2 DEF MatchedInv, Closed, RoundTrip
<1>4. ASSUME NEW k \in Closed
      PROVE  /\ ExitOf(k) \in ExitRows /\ Closes(k, ExitOf(k))
             /\ \A c : c = log[k].contract => FirstEntry(c) = k /\ FirstExit(c) = ExitOf(k)
  <2>1. k \in EntryRows /\ k \notin Range(book)
    BY <1>3, <1>4
  <2>2. PICK x \in ExitRows : Closes(k, x)
    BY <1>0, <2>1 DEF MatchedInv
  <2>3. ExitOf(k) = x
    BY <1>0, <2>2, ClosesOnce
  <2>. QED  BY <1>2, <2>1, <2>2, <2>3 DEF RoundTrip, FirstEntry, FirstExit
<1>5. DOMAIN trades = Closed /\ \A k \in Closed : trades[k] = Trade(log[k], log[ExitOf(k)])
  BY <1>4 DEF FromLegacyTradeLog
<1>. HIDE DEF trades
<1>6. Cardinality(DOMAIN trades) = Cardinality(ExitRows)
  BY <1>0, <1>3, <1>5 DEF CountedInv
<1>7. ASSUME NEW x \in ExitRows
      PROVE  \E k \in DOMAIN trades :
               /\ trades[k].contract = log[x].contract /\ trades[k].exit = log[x].date
               /\ trades[k].qty = log[x].qty
  <2>1. PICK k \in EntryRows : Closes(k, x)
    BY <1>0 DEF MatchedInv
  <2>2. k \in Closed /\ ExitOf(k) = x
    BY <1>0, <1>3, <2>1, ClosesOnce DEF MatchedInv
  <2>3. /\ trades[k].contract = log[k].contract /\ trades[k].exit = log[x].date
        /\ trades[k].qty = log[k].qty
    BY <1>5, <2>2 DEF Trade
  <2>4. log[k].contract = log[x].contract /\ log[k].qty = log[x].qty
    BY <2>1 DEF Closes
  <2>. QED  BY <1>5, <2>2, <2>3, <2>4
<1>8. ASSUME direction = "BUY"
      PROVE  /\ LogTotal([k \in DOMAIN trades |-> GrossPnl(trades[k])]) = LogCash + Basis(book)
             /\ Wins("members") = Cardinality(Winners(trades)) /\ Losses("members") >= 0
  <2>. DEFINE costs == RoundTripCosts("members")
  <2>a. SummaryEntries("members") = EntryRows /\ SummaryExits("members") = ExitRows
    BY DEF SummaryEntries, SummaryExits, ExitRows
  <2>b. costs = [k \in Closed |-> LET c == log[k].contract
                                  IN  Dollars(FirstEntry(c)) + Dollars(FirstExit(c))]
    BY <2>a DEF RoundTripCosts, Closed, FirstEntry, FirstExit
  <2>. HIDE DEF costs
  <2>1. ASSUME NEW k \in Closed
        PROVE  /\ GrossPnl(trades[k]) = -Dollars(k) - Dollars(ExitOf(k))
               /\ costs[k] = Dollars(k) + Dollars(ExitOf(k))
               /\ Dollars(k) \in Int /\ Dollars(ExitOf(k)) \in Int
    <3>1. /\ k \in EntryRows /\ k \in DOMAIN log /\ ExitOf(k) \in DOMAIN log
          /\ log[ExitOf(k)].qty = log[k].qty
          /\ log[k].cost >= 0 /\ log[ExitOf(k)].cost <= 0
      BY <1>0, <1>1, <1>3, <1>4, <1>8 DEF Closes, OrdersInv
    <3>2. PICK a, z, q : a = log[k].cost /\ z = log[ExitOf(k)].cost /\ q = log[k].qty
      OBVIOUS
    <3>3. a \in Int /\ z \in Int /\ q \in Int /\ a >= 0 /\ z <= 0
      BY <1>1, <3>1, <3>2
    <3>4. Magnitude(a) = a /\ Magnitude(z) = -z
      BY <3>3 DEF Magnitude
    <3>5. GrossPnl(trades[k]) = (-z - a) * q
      BY <1>5, <3>2, <3>4 DEF Trade, GrossPnl
    <3>6. Dollars(k) = a * q /\ Dollars(ExitOf(k)) = z * q
      BY <3>1, <3>2 DEF Dollars
    <3>7. (-z - a) * q = -(a * q) - z * q /\ a * q \in Int /\ z * q \in Int
      BY <3>3
    <3>8. costs[k] = Dollars(k) + Dollars(ExitOf(k))
      BY <1>4, <2>b
    <3>. QED  BY <3>5, <3>6, <3>7, <3>8
  <2>2. LogTotal([k \in DOMAIN trades |-> GrossPnl(trades[k])]) = LogCash + Basis(book)
    <3>1. [k \in DOMAIN trades |-> GrossPnl(trades[k])]
            = [e \in EntryRows \ Range(book) |-> -Dollars(e) - Dollars(ExitOf(e))]
      BY <1>3, <1>5, <2>1
    <3>. QED  BY <1>0, <3>1 DEF AccountedInv
  <2>3. {k \in DOMAIN costs : costs[k] < 0} = Winners(trades)
    <3>1. \A k \in Closed : costs[k] < 0 <=> GrossPnl(trades[k]) > 0
      BY <2>1
    <3>2. DOMAIN costs = Closed
      BY <2>b
    <3>. QED  BY <1>5, <3>1, <3>2 DEF Winners
  <2>4. Wins("members") = Cardinality(Winners(trades))
    BY <2>3 DEF Wins, costs
  <2>5. Losses("members") >= 0
    <3>1. Closed \in SUBSET DOMAIN log /\ Winners(trades) \subseteq Closed
          /\ ExitRows \in SUBSET DOMAIN log
      BY <1>1, <1>3, <1>5 DEF Winners
    <3>2. IsFiniteSet(Closed) /\ Cardinality(Closed) \in Nat /\ Cardinality(ExitRows) \in Nat
      BY <1>0, <3>1, RowSets
    <3>3. Cardinality(Winners(trades)) <= Cardinality(Closed) /\ Cardinality(Winners(trades)) \in Nat
      BY <3>1, <3>2, FS_Subset, FS_CardinalityType
    <3>. QED  BY <1>5, <1>6, <2>a, <2>4, <3>2, <3>3 DEF Losses
  <2>. QED  BY <2>2, <2>4, <2>5
<1>. QED  BY <1>6, <1>7, <1>8

-----------------------------------------------------------------------------
(* The theorems.                                                           *)

\* FIFO pairing of write_trade_log (myrun.py) pairs each exit with the entry of the
\* very position it sold, and the P&L it books and the basis still open account for
\* every dollar of the log: for every log the engine can write, and whether the
\* sort puts the exits or the entries of one date first.
THEOREM FifoHolds == LogSpec => []FifoAccountsForCash
<1>1. LogInv => FifoAccountsForCash
  BY FifoOfLog
<1>. QED  BY <1>1, LogInvariant, PTL

\* The margin balance of myrun.py, rebuilt from the log alone, is on every day the
\* basis of the positions the engine held when that day ended.
THEOREM MarginHolds == LogSpec => []MarginIsOpenBasis
<1>1. LogInv => MarginIsOpenBasis
  BY MarginOfLog
<1>. QED  BY <1>1, LogInvariant, PTL

\* TradeLog.from_legacy_trade_log, which pairs first entries with first exits, is
\* complete while no contract is entered twice, and the summary counts as many wins
\* from the log as it has winners.
THEOREM RoundTripsHold == LogSpec => []RoundTripsComplete
<1>1. LogInv => RoundTripsComplete
  BY TripsOfLog
<1>. QED  BY <1>1, LogInvariant, PTL

\* The coverage of myrun.py, from the first BTO and the first STC of a contract,
\* finds the days that ended without a position, while no contract is entered
\* twice.
THEOREM CoverageHolds == LogSpec => []CoverageMatchesOnceEntered
<1>1. LogInv => CoverageMatchesOnceEntered
  BY CoverageOfLog
<1>. QED  BY <1>1, LogInvariant, PTL
=============================================================================
