--------------------------- MODULE ConvexityProofs ---------------------------
(***************************************************************************)
(* The monthly put overlay, for every stock and put file: the months add   *)
(* up, the curve has the rows of the stock file at the shares of their     *)
(* months, and what is bought is what was scored.                          *)
(***************************************************************************)
EXTENDS ConvexityProperties, TotalsProofs, FiniteSetTheorems, SequenceTheorems

Prices    == { p \in Nat \ {0} : Unit % p = 0 }
Ratios    == Nat \X Nat
Puts      == { p \in [strike : Nat, expires : Nat, ask : Nat, contracts : Nat, row : Nat] :
                 p.ask > 0 /\ p.contracts > 0 }
Months    == [date : Nat \ {0}, shares : Int, price : Prices, value : Int, cost : Nat,
              exit : Nat, pnl : Int, ratio : Ratios, strike : Nat]
Balances  == [date : Nat, balance : Int]

FilesInv == \E f \in Files : stock = f.stock /\ puts = f.puts

ConvexityTypes ==
  /\ FilesInv
  /\ rebal \in Nat /\ si \in 0..Len(stock) + 1
  /\ shares \in Int
  /\ position \in Seq(Puts) /\ Len(position) <= 1
  /\ records \in Seq(Months)
  /\ daily \in Seq(Balances)
  /\ done \in BOOLEAN

\* Every month has one record, and the last one is of the month at hand.
MonthsInv ==
  /\ rebal # 0 => Runs /\ rebal \in RebalanceDates
  /\ rebal = 0 => records = << >> /\ si = 0 /\ daily = << >>
  /\ rebal # 0 => records # << >> /\ records[Len(records)].date = rebal
  /\ \A m, n \in DOMAIN records : m < n => Month(records[m].date) < Month(records[n].date)

\* The rows written are those before the next rebalance date; at the top of the
\* monthly loop that date is the next row's, and inside it the row at hand, or
\* the one before, is of the month.
RowsBefore == \A k \in 1..Len(daily), e \in Later(rebal) : stock[k].date < e
AtTop ==
  si = 0 /\ Runs =>
    \/ Len(daily) = Len(stock) /\ Later(rebal) = {}
    \/ /\ Len(daily) < Len(stock)
       /\ stock[Len(daily) + 1].date \in Later(rebal)
       /\ \A e \in Later(rebal) : stock[Len(daily) + 1].date <= e
InMonth ==
  si # 0 =>
    /\ Len(daily) = si - 1
    /\ \/ si <= Len(stock) /\ stock[si].date = rebal
       \/ si > 1 /\ stock[si - 1].date >= rebal /\ Month(stock[si - 1].date) = Month(rebal)
RowsInv ==
  /\ Len(daily) <= Len(stock)
  /\ RowsBefore /\ AtTop /\ InMonth
  /\ done /\ Runs => si = 0 /\ Later(rebal) = {}

\* The last record is what the loop carries into the next month.
CarryInv ==
  /\ records = << >> => position = << >>
  /\ records # << >> => /\ records[Len(records)].shares = shares
                        /\ records[Len(records)].cost = Cost(position)

First == Shares(Capital, stock[1].price)
NoPutIn(m) == \A n \in 1..m : records[n].cost = 0

\* Until a put is bought, the shares are those the first price bought.
SharesInv ==
  /\ records = << >> /\ Runs => shares = First
  /\ \A m \in DOMAIN records : NoPutIn(m) => records[m].shares = First

\* A row is valued at the shares of its month's record.
ValuedBy(k, m) ==
  /\ Month(records[m].date) = Month(stock[k].date)
  /\ daily[k] = [date |-> stock[k].date, balance |-> records[m].shares * stock[k].price]
CurveInv == \A k \in DOMAIN daily : \E m \in DOMAIN records : ValuedBy(k, m)

ConvexityInv ==
  /\ ConvexityTypes /\ MonthsInv /\ RowsInv
  /\ CarryInv /\ SharesInv /\ CurveInv
  /\ MonthsAddUp /\ BoughtAsScored

-----------------------------------------------------------------------------
(* What the operators return.                                              *)

LEMMA SeqOfNothing == SetToSeq({}) = << >>
<1>1. Cardinality({}) = 0
  BY FS_EmptySet
<1>2. << >> \in [1..0 -> {}] /\ \A f \in [1..0 -> {}] : f = << >>
  OBVIOUS
<1>3. IsInjective(<< >>)
  BY DEF IsInjective
<1>4. SetToSeq({}) \in [1..0 -> {}]
  BY <1>1, <1>2, <1>3 DEF SetToSeq
<1>. QED  BY <1>2, <1>4

LEMMA SeqOfOne ==
  ASSUME NEW x
  PROVE  SetToSeq({x}) = <<x>>
<1>1. Cardinality({x}) = 1
  BY FS_Singleton
<1>2. <<x>> \in [1..1 -> {x}] /\ \A f \in [1..1 -> {x}] : f = <<x>>
  OBVIOUS
<1>3. IsInjective(<<x>>)
  BY DEF IsInjective
<1>4. SetToSeq({x}) \in [1..1 -> {x}]
  BY <1>1, <1>2, <1>3 DEF SetToSeq
<1>. QED  BY <1>2, <1>4

LEMMA FileFacts ==
  ASSUME FilesInv
  PROVE  /\ stock \in Seq(StockRows) /\ Len(stock) \in Nat /\ DOMAIN stock = 1..Len(stock)
         /\ \A k \in 1..Len(stock) : /\ stock[k].date \in Nat /\ stock[k].date > 0
                                     /\ stock[k].price \in Prices
         /\ \A i, j \in 1..Len(stock) : i <= j => stock[i].date <= stock[j].date
         /\ \A d \in DOMAIN puts : puts[d] \in Seq(Quotes)
<1>1. PICK f \in Files : stock = f.stock /\ puts = f.puts
  BY DEF FilesInv
<1>2. /\ stock \in Seq(StockRows) /\ Sorted(stock)
      /\ \A k \in DOMAIN stock : Unit % stock[k].price = 0
      /\ \A d \in DOMAIN puts : puts[d] \in Seq(Quotes)
  BY <1>1, ConvexityAssumption
<1>3. Len(stock) \in Nat /\ DOMAIN stock = 1..Len(stock)
  BY <1>2, LenProperties
<1>4. \A k \in 1..Len(stock) : stock[k] \in StockRows
  BY <1>2, <1>3, ElementOfSeq
<1>5. \A k \in 1..Len(stock) : /\ stock[k].date \in Nat /\ stock[k].date > 0
                               /\ stock[k].price \in Prices
  BY <1>2, <1>3, <1>4 DEF StockRows, Prices
<1>6. \A i, j \in 1..Len(stock) : i <= j => stock[i].date <= stock[j].date
  <2>. SUFFICES ASSUME NEW i \in 1..Len(stock), NEW j \in 1..Len(stock), i <= j
                PROVE  stock[i].date <= stock[j].date
    OBVIOUS
  <2>1. CASE i < j
    BY <1>2, <1>3, <2>1 DEF Sorted
  <2>2. CASE i = j
    BY <1>5, <2>2
  <2>. QED  BY <1>3, <2>1, <2>2
<1>. QED  BY <1>2, <1>3, <1>5, <1>6

LEMMA QuoteFields ==
  ASSUME FilesInv, NEW d
  PROVE  /\ Chain(d) \in Seq(Quotes)
         /\ Chain(d) # << >> => d \in DOMAIN puts
         /\ \A i \in DOMAIN Chain(d) :
              /\ i \in Nat /\ Chain(d)[i] \in Quotes
              /\ Chain(d)[i].strike \in Nat /\ Chain(d)[i].expires \in Nat
              /\ Chain(d)[i].delta \in Int /\ Chain(d)[i].ask \in Nat
              /\ Chain(d)[i].bid \in Nat /\ Chain(d)[i].underlying \in Nat
<1>1. Chain(d) \in Seq(Quotes) /\ (Chain(d) # << >> => d \in DOMAIN puts)
  <2>1. CASE d \in DOMAIN puts
    BY <2>1, FileFacts DEF Chain
  <2>2. CASE d \notin DOMAIN puts
    BY <2>2, EmptySeq DEF Chain
  <2>. QED  BY <2>1, <2>2
<1>2. ASSUME NEW i \in DOMAIN Chain(d)
      PROVE  i \in Nat /\ Chain(d)[i] \in Quotes
  BY <1>1
<1>. QED  BY <1>1, <1>2 DEF Quotes

\* A date has one target put at most.
LEMMA OneTarget ==
  ASSUME FilesInv, NEW d, NEW i \in TargetPuts(d), NEW j \in TargetPuts(d)
  PROVE  i = j
<1>. DEFINE chain == Chain(d)
<1>1. /\ i \in DOMAIN chain /\ j \in DOMAIN chain
      /\ Eligible(chain[i], d) /\ Eligible(chain[j], d)
  BY DEF TargetPuts
<1>2. /\ \/ Distance(chain[i]) < Distance(chain[j])
         \/ Distance(chain[i]) = Distance(chain[j]) /\ i <= j
      /\ \/ Distance(chain[j]) < Distance(chain[i])
         \/ Distance(chain[j]) = Distance(chain[i]) /\ j <= i
  BY <1>1 DEF TargetPuts
<1>3. \A k \in DOMAIN chain : k \in Nat /\ Distance(chain[k]) \in Int
  BY QuoteFields, ConvexityAssumption DEF Distance
<1>. HIDE DEF chain
<1>. QED  BY <1>1, <1>2, <1>3

LEMMA TargetFacts ==
  ASSUME FilesInv, NEW d, NEW i \in TargetPuts(d)
  PROVE  /\ i \in DOMAIN Chain(d) /\ i \in Nat
         /\ Chain(d)[i].ask \in Nat /\ Chain(d)[i].ask > 0
         /\ Chain(d)[i].strike \in Nat /\ Chain(d)[i].expires \in Nat
         /\ TargetPuts(d) = {i}
<1>1. i \in DOMAIN Chain(d) /\ Chain(d)[i].ask > 0
  BY DEF TargetPuts, Eligible
<1>2. TargetPuts(d) = {i}
  BY OneTarget
<1>. QED  BY <1>1, <1>2, QuoteFields

LEMMA DivFacts ==
  ASSUME NEW b \in Nat, NEW a \in Nat, a > 0
  PROVE  /\ b \div a \in Nat
         /\ a * (b \div a) <= b
         /\ b \div a = 0 => b < a
<1>1. b \div a \in Int /\ b % a \in 0..a-1 /\ b = (a * (b \div a)) + (b % a)
  OBVIOUS
<1>. DEFINE q == b \div a
            r == b % a
            m == a * q
<1>2. q \in Int /\ r \in 0..a-1 /\ b = m + r /\ m = a * q
  BY <1>1
<1>3. m \in Int
  BY <1>2
<1>4. q >= 0
  <2>. HIDE DEF q, r, m
  <2>1. ASSUME q <= -1 PROVE FALSE
    <3>1. m <= -a
      BY <1>2, <2>1
    <3>. QED  BY <1>2, <1>3, <3>1
  <2>. QED  BY <2>1, <1>2
<1>. HIDE DEF q, r, m
<1>5. q \in Nat /\ m <= b
  BY <1>2, <1>3, <1>4
<1>6. q = 0 => b < a
  BY <1>2, <1>3
<1>. QED  BY <1>5, <1>6 DEF q, m

LEMMA MinOf ==
  ASSUME NEW S \in SUBSET Nat, S # {}
  PROVE  Min(S) \in S /\ \A x \in S : Min(S) <= x
<1>1. \E m \in S : \A x \in S : m <= x
  BY LeastNatural
<1>. QED  BY <1>1 DEF Min

LEMMA CostFacts ==
  ASSUME NEW pos \in Seq(Puts), Len(pos) <= 1
  PROVE  /\ Cost(pos) \in Nat
         /\ pos = << >> => Cost(pos) = 0
         /\ pos # << >> => Cost(pos) = pos[1].ask * pos[1].contracts /\ Cost(pos) > 0
<1>. DEFINE f == [i \in DOMAIN pos |-> pos[i].ask * pos[i].contracts]
<1>1. CASE pos = << >>
  <2>1. Len(pos) = 0 /\ DOMAIN f = {}
    BY <1>1
  <2>. HIDE DEF f
  <2>2. Total(f, 0) = 0
    BY <2>1, EmptyTotal
  <2>3. Cost(pos) = Total(f, 0)
    BY <2>1 DEF Cost, f
  <2>. QED  BY <1>1, <2>2, <2>3
<1>2. CASE pos # << >>
  <2>1. Len(pos) = 1 /\ DOMAIN pos = {1} /\ pos[1] \in Puts
    BY <1>2
  <2>2. f[1] = pos[1].ask * pos[1].contracts /\ DOMAIN f = {1}
    BY <2>1
  <2>3. /\ pos[1].ask \in Nat /\ pos[1].contracts \in Nat
        /\ pos[1].ask > 0 /\ pos[1].contracts > 0
    BY <2>1 DEF Puts
  <2>4. ASSUME NEW a \in Nat, NEW c \in Nat, a > 0, c > 0 PROVE a * c \in Nat /\ a * c > 0
    BY <2>4
  <2>5. f[1] \in Nat /\ f[1] > 0
    BY <2>2, <2>3, <2>4
  <2>. HIDE DEF f
  <2>6. IntTerms(f, 1) /\ Term(f, 1) = f[1]
    BY <2>2, <2>5 DEF IntTerms, Term
  <2>7. Total(f, 0) = 0 /\ \A n \in 1..1 : Total(f, n) = Total(f, n-1) + Term(f, n)
    BY <2>6, TotalRecursion
  <2>8. Total(f, 1) = f[1]
    BY <2>5, <2>6, <2>7
  <2>9. Cost(pos) = f[1]
    BY <2>1, <2>8 DEF Cost, f
  <2>. QED  BY <1>2, <2>2, <2>5, <2>9
<1>. QED  BY <1>1, <1>2

\* What the budget opens is the target put, if it pays for one contract.
LEMMA OpenedFacts ==
  ASSUME FilesInv, NEW d
  PROVE  /\ Opened(d) \in Seq(Puts) /\ Len(Opened(d)) <= 1
         /\ Opened(d) = << >> => \A i \in TargetPuts(d) : Budget < Chain(d)[i].ask
         /\ Opened(d) # << >> =>
              \E i \in TargetPuts(d) :
                /\ Opened(d)[1].row = i
                /\ Opened(d)[1].strike = Chain(d)[i].strike
                /\ Opened(d)[1].ask = Chain(d)[i].ask
                /\ Chain(d)[i].ask * Opened(d)[1].contracts <= Budget
<1>. DEFINE open(i) == [strike |-> Chain(d)[i].strike, expires |-> Chain(d)[i].expires,
                        ask |-> Chain(d)[i].ask, contracts |-> Budget \div Chain(d)[i].ask,
                        row |-> i]
            found == { p \in { open(i) : i \in TargetPuts(d) } : p.contracts > 0 }
<1>1. Opened(d) = SetToSeq(found)
  BY DEF Opened, OpenedFrom
<1>2. ASSUME NEW i \in TargetPuts(d)
      PROVE  /\ open(i).contracts \in Nat
             /\ open(i).contracts = 0 => Budget < Chain(d)[i].ask
             /\ Chain(d)[i].ask * open(i).contracts <= Budget
             /\ open(i).contracts > 0 => open(i) \in Puts
  <2>1. /\ Budget \div Chain(d)[i].ask \in Nat
        /\ Chain(d)[i].ask * (Budget \div Chain(d)[i].ask) <= Budget
        /\ Budget \div Chain(d)[i].ask = 0 => Budget < Chain(d)[i].ask
    BY TargetFacts, DivFacts, ConvexityAssumption
  <2>. QED  BY <2>1, TargetFacts DEF Puts
<1>3. CASE \A i \in TargetPuts(d) : open(i).contracts = 0
  <2>1. found = {}
    BY <1>3
  <2>2. Opened(d) = << >>
    BY <1>1, <2>1, SeqOfNothing
  <2>3. \A i \in TargetPuts(d) : Budget < Chain(d)[i].ask
    BY <1>2, <1>3
  <2>4. << >> \in Seq(Puts) /\ Len(<< >>) = 0
    BY EmptySeq
  <2>. HIDE DEF open, found
  <2>. QED  BY <2>2, <2>3, <2>4
<1>4. ASSUME NEW i \in TargetPuts(d), open(i).contracts # 0 PROVE
        Opened(d) = <<open(i)>> /\ open(i) \in Puts
  <2>1. TargetPuts(d) = {i}
    BY TargetFacts
  <2>2. open(i).contracts > 0
    <3>1. open(i).contracts \in Nat
      BY <1>2
    <3>. HIDE DEF open
    <3>. QED  BY <1>4, <3>1
  <2>3. found = {open(i)}
    BY <2>1, <2>2
  <2>. QED  BY <1>1, <1>2, <2>2, <2>3, SeqOfOne
<1>5. CASE \E i \in TargetPuts(d) : open(i).contracts # 0
  <2>1. PICK i \in TargetPuts(d) : open(i).contracts # 0
    BY <1>5
  <2>2. Opened(d) = <<open(i)>> /\ open(i) \in Puts
    BY <1>4, <2>1
  <2>3. Opened(d)[1] = open(i) /\ Len(Opened(d)) = 1 /\ Opened(d) # << >>
    BY <2>2
  <2>4. Opened(d) \in Seq(Puts)
    BY <2>2
  <2>. QED  BY <1>2, <2>3, <2>4
<1>. QED  BY <1>3, <1>5

LEMMA RowFacts ==
  ASSUME NEW row \in Prices
  PROVE  /\ row \in Nat /\ row > 0 /\ row # 0
         /\ Unit \div row \in Nat
         /\ (Unit \div row) * row = Unit
<1>1. row \in Nat /\ row > 0 /\ Unit \in Nat /\ Unit % row = 0
  BY ConvexityAssumption DEF Prices
<1>2. Unit \div row \in Nat
  BY <1>1, DivFacts
<1>3. Unit = (row * (Unit \div row)) + (Unit % row)
  BY <1>1
<1>. DEFINE u == Unit \div row
<1>4. u \in Nat /\ Unit = (row * u) + 0
  BY <1>1, <1>2, <1>3
<1>. HIDE DEF u
<1>5. u * row = Unit
  BY <1>1, <1>4
<1>. QED  BY <1>1, <1>2, <1>5 DEF u

\* Money turned into stock at a price is worth that money at that price.
LEMMA SharesFacts ==
  ASSUME NEW row \in Prices, NEW money \in Int
  PROVE  /\ Shares(money, row) \in Int
         /\ Shares(money, row) * row = money * Unit
<1>. DEFINE u == Unit \div row
<1>1. u \in Nat /\ u * row = Unit /\ row \in Nat
  BY RowFacts
<1>. HIDE DEF u
<1>2. money * u \in Int /\ (money * u) * row = money * (u * row)
  BY <1>1
<1>. QED  BY <1>1, <1>2 DEF Shares, u

LEMMA MonthMonotone ==
  ASSUME NEW a \in Nat, NEW b \in Nat, a > 0, a <= b
  PROVE  Month(a) \in Nat /\ Month(b) \in Nat /\ Month(a) <= Month(b)
<1>. DEFINE D == DaysPerMonth
            p == (a - 1) \div D
            q == (b - 1) \div D
            r == (a - 1) % D
            s == (b - 1) % D
<1>1. D \in Nat /\ D > 0 /\ a - 1 \in Nat /\ b - 1 \in Nat
  BY ConvexityAssumption
<1>2. /\ p \in Nat /\ r \in 0..D - 1 /\ a - 1 = (D * p) + r
      /\ q \in Nat /\ s \in 0..D - 1 /\ b - 1 = (D * q) + s
  <2>1. p \in Nat /\ q \in Nat
    BY <1>1, DivFacts
  <2>2. r \in 0..D - 1 /\ a - 1 = (D * p) + r
    BY <1>1
  <2>3. s \in 0..D - 1 /\ b - 1 = (D * q) + s
    BY <1>1
  <2>. QED  BY <2>1, <2>2, <2>3
<1>. HIDE DEF D, p, q, r, s
<1>3. ASSUME q < p PROVE FALSE
  <2>1. q + 1 <= p
    BY <1>2, <1>3
  <2>2. D * (q + 1) <= D * p
    <3>1. (p - (q + 1)) \in Nat
      BY <1>2, <2>1
    <3>2. D * (p - (q + 1)) >= 0
      BY <1>1, <3>1
    <3>3. D * (p - (q + 1)) = D * p - D * (q + 1)
      BY <1>1, <1>2
    <3>4. D * p \in Int /\ D * (q + 1) \in Int
      BY <1>1, <1>2
    <3>. QED  BY <3>2, <3>3, <3>4
  <2>3. D * (q + 1) = (D * q) + D
    BY <1>1, <1>2
  <2>4. D * q \in Int /\ D * p \in Int
    BY <1>1, <1>2
  <2>. QED  BY <1>1, <1>2, <2>2, <2>3, <2>4
<1>4. p <= q
  BY <1>2, <1>3
<1>. QED  BY <1>2, <1>4 DEF Month, p, q, D

LEMMA LowerBoundFacts ==
  ASSUME FilesInv, NEW d \in Nat
  PROVE  /\ LowerBound(d) \in 1..Len(stock) + 1
         /\ LowerBound(d) <= Len(stock) => stock[LowerBound(d)].date >= d
         /\ \A k \in 1..Len(stock) : stock[k].date >= d => LowerBound(d) <= k
<1>. DEFINE S == { k \in 1..Len(stock) + 1 : k = Len(stock) + 1 \/ stock[k].date >= d }
<1>1. Len(stock) \in Nat
  BY FileFacts
<1>2. S \in SUBSET Nat /\ Len(stock) + 1 \in S
  BY <1>1
<1>3. Min(S) \in S /\ \A x \in S : Min(S) <= x
  <2>. HIDE DEF S
  <2>. QED  BY <1>2, MinOf
<1>4. LowerBound(d) = Min(S)
  BY DEF LowerBound
<1>. DEFINE m == Min(S)
<1>5. m \in 1..Len(stock) + 1 /\ (m = Len(stock) + 1 \/ stock[m].date >= d)
  BY <1>3
<1>6. \A k \in 1..Len(stock) : stock[k].date >= d => m <= k
  <2>. SUFFICES ASSUME NEW k \in 1..Len(stock), stock[k].date >= d PROVE m <= k
    OBVIOUS
  <2>1. k \in S
    BY <1>1
  <2>. QED  BY <1>3, <2>1
<1>. HIDE DEF m
<1>7. LowerBound(d) = m
  BY <1>4 DEF m
<1>. QED  BY <1>1, <1>5, <1>6, <1>7

LEMMA PriceOnFacts ==
  ASSUME FilesInv, NEW d \in Nat, NEW p \in Prices
  PROVE  PriceOn(d, p) \in Prices
<1>. DEFINE k == LowerBound(d)
<1>1. k \in 1..Len(stock) + 1 /\ Len(stock) \in Nat
  BY LowerBoundFacts, FileFacts
<1>2. PriceOn(d, p) = IF k <= Len(stock) /\ stock[k].date = d THEN stock[k].price
                      ELSE IF k > 1 THEN stock[k - 1].price ELSE p
  BY DEF PriceOn
<1>. HIDE DEF k
<1>3. /\ k <= Len(stock) => k \in 1..Len(stock)
      /\ k > 1 => k - 1 \in 1..Len(stock)
  BY <1>1
<1>. QED  BY <1>2, <1>3, FileFacts

LEMMA FirstPriceFacts ==
  ASSUME FilesInv, Runs
  PROVE  /\ 1 \in 1..Len(stock) /\ stock[1].price \in Prices
         /\ FirstPrice = stock[1].price
<1>1. 1 \in 1..Len(stock) /\ Len(stock) \in Nat
  BY FileFacts, EmptySeq DEF Runs
<1>. DEFINE d == stock[1].date
            k == LowerBound(d)
<1>2. d \in Nat /\ stock[1].price \in Prices
  BY <1>1, FileFacts
<1>3. k \in 1..Len(stock) + 1 /\ k <= 1
  <2>1. d >= d
    BY <1>2
  <2>. HIDE DEF k
  <2>2. LowerBound(d) \in 1..Len(stock) + 1 /\ LowerBound(d) <= 1
    BY <1>1, <1>2, <2>1, LowerBoundFacts
  <2>. QED  BY <2>2 DEF k
<1>4. FirstPrice = IF k <= Len(stock) /\ stock[k].date = d THEN stock[k].price
                   ELSE IF k > 1 THEN stock[k - 1].price ELSE stock[1].price
  BY DEF FirstPrice, PriceOn
<1>. HIDE DEF k
<1>5. k = 1
  BY <1>1, <1>3
<1>. QED  BY <1>1, <1>2, <1>4, <1>5

LEMMA ExitValueNat ==
  ASSUME FilesInv, NEW pos \in Puts, NEW d, NEW price \in Prices
  PROVE  ExitValue(pos, d, price) \in Nat
<1>. DEFINE same == { i \in DOMAIN Chain(d) : SameContract(Chain(d)[i], pos) }
            unit == IF pos.expires <= d
                      THEN Positive(pos.strike - PriceOn(pos.expires, price))
                      ELSE IF same = {} THEN Positive(pos.strike - price)
                                        ELSE Chain(d)[Min(same)].bid
<1>1. /\ pos.strike \in Nat /\ pos.expires \in Nat /\ pos.contracts \in Nat
      /\ price \in Nat
  BY RowFacts DEF Puts
<1>2. \A x \in Int : Positive(x) \in Nat
  BY DEF Positive
<1>3. PriceOn(pos.expires, price) \in Nat
  <2>1. PriceOn(pos.expires, price) \in Prices
    BY <1>1, PriceOnFacts
  <2>. QED  BY <2>1, RowFacts
<1>4. same # {} => Chain(d)[Min(same)].bid \in Nat
  <2>1. same \in SUBSET Nat
    BY QuoteFields
  <2>2. same # {} => Min(same) \in same
    BY <2>1, MinOf
  <2>3. same # {} => Min(same) \in DOMAIN Chain(d)
    BY <2>2
  <2>. QED  BY <2>3, QuoteFields
<1>5. unit \in Nat
  <2>1. pos.strike - PriceOn(pos.expires, price) \in Int /\ pos.strike - price \in Int
    BY <1>1, <1>3
  <2>. HIDE DEF same
  <2>. QED  BY <1>2, <1>4, <2>1
<1>6. ExitValue(pos, d, price) = unit * pos.contracts
  BY DEF ExitValue
<1>. HIDE DEF unit
<1>7. unit * pos.contracts \in Nat
  BY <1>1, <1>5
<1>. QED  BY <1>6, <1>7

LEMMA ProceedsFacts ==
  ASSUME ConvexityTypes, NEW d, NEW price \in Prices
  PROVE  /\ Proceeds(d, price) \in Nat
         /\ position = << >> => Proceeds(d, price) = 0
<1>. DEFINE f == [i \in DOMAIN position |-> ExitValue(position[i], d, price)]
<1>0. FilesInv
  BY DEF ConvexityTypes
<1>1. Proceeds(d, price) = Total(f, Len(position))
  BY DEF Proceeds
<1>2. \A i \in DOMAIN f : f[i] \in Nat
  <2>1. \A i \in DOMAIN position : position[i] \in Puts
    BY DEF ConvexityTypes
  <2>. QED  BY <1>0, <2>1, ExitValueNat
<1>3. DOMAIN f = DOMAIN position /\ Len(position) \in 0..1 /\ DOMAIN position = 1..Len(position)
  <2>1. position \in Seq(Puts) /\ Len(position) <= 1
    BY DEF ConvexityTypes
  <2>2. DOMAIN f = DOMAIN position
    OBVIOUS
  <2>. HIDE DEF f
  <2>3. DOMAIN position = 1..Len(position) /\ Len(position) \in Nat
    BY <2>1, LenProperties
  <2>4. Len(position) \in 0..1
    BY <2>1, <2>3
  <2>. QED  BY <2>2, <2>3, <2>4
<1>. HIDE DEF f
<1>4. CASE position = << >>
  <2>1. Len(position) = 0 /\ DOMAIN f = {}
    BY <1>3, <1>4
  <2>2. Total(f, 0) = 0
    BY <2>1, EmptyTotal
  <2>. QED  BY <1>1, <2>1, <2>2
<1>5. CASE position # << >>
  <2>1. Len(position) = 1 /\ DOMAIN f = {1}
    BY <1>3, <1>5 DEF ConvexityTypes
  <2>2. IntTerms(f, 1) /\ Term(f, 1) = f[1] /\ f[1] \in Nat
    BY <1>2, <2>1 DEF IntTerms, Term
  <2>3. Total(f, 0) = 0 /\ \A n \in 1..1 : Total(f, n) = Total(f, n-1) + Term(f, n)
    BY <2>2, TotalRecursion
  <2>4. Total(f, 1) = f[1]
    BY <2>2, <2>3
  <2>. QED  BY <1>1, <1>5, <2>1, <2>2, <2>4
<1>. QED  BY <1>4, <1>5

LEMMA RatioFacts ==
  ASSUME FilesInv, NEW d, NEW i \in DOMAIN Chain(d)
  PROVE  /\ Ratio(Chain(d)[i]) \in Ratios
         /\ Ratio(Chain(d)[i])[2] = Chain(d)[i].ask * 12
<1>. DEFINE q == Chain(d)[i]
            tail == q.strike * 100 - q.underlying * (100 - Drop)
<1>1. q.strike \in Nat /\ q.ask \in Nat /\ q.underlying \in Nat /\ Drop \in Int
  BY QuoteFields, ConvexityAssumption
<1>2. tail \in Int
  <2>1. q.underlying * (100 - Drop) \in Int
    BY <1>1
  <2>. HIDE DEF q
  <2>. QED  BY <1>1, <2>1
<1>3. q.ask * 12 \in Nat
  BY <1>1
<1>4. Ratio(q) = <<IF tail > 0 THEN tail ELSE 0, q.ask * 12>>
  BY DEF Ratio
<1>. HIDE DEF tail, q
<1>5. Ratio(q) \in Ratios /\ Ratio(q)[2] = q.ask * 12
  BY <1>2, <1>3, <1>4 DEF Ratios
<1>. QED  BY <1>5 DEF q

\* The scores of a date are its target put's, if it has one.
LEMMA ScoresFacts ==
  ASSUME FilesInv, NEW d
  PROVE  { s \in Scores : s.date = d }
           = { [date |-> d, ratio |-> Ratio(Chain(d)[i]), strike |-> Chain(d)[i].strike]
                 : i \in TargetPuts(d) }
<1>. DEFINE of(e) == { [date |-> e, ratio |-> Ratio(puts[e][i]), strike |-> puts[e][i].strike]
                         : i \in TargetPuts(e) }
            one(i) == [date |-> d, ratio |-> Ratio(Chain(d)[i]), strike |-> Chain(d)[i].strike]
<1>1. Scores = UNION { of(e) : e \in DOMAIN puts }
  BY DEF Scores
<1>2. \A e : \A s \in of(e) : s.date = e
  OBVIOUS
<1>3. d \in DOMAIN puts => of(d) = { one(i) : i \in TargetPuts(d) }
  BY DEF Chain
<1>4. d \notin DOMAIN puts => TargetPuts(d) = {}
  BY DEF TargetPuts, Chain
<1>. HIDE DEF of, one
<1>5. { s \in Scores : s.date = d } = { s \in of(d) : d \in DOMAIN puts }
  BY <1>1, <1>2
<1>6. { s \in Scores : s.date = d } = { one(i) : i \in TargetPuts(d) }
  <2>1. CASE d \in DOMAIN puts
    BY <1>3, <1>5, <2>1
  <2>2. CASE d \notin DOMAIN puts
    BY <1>4, <1>5, <2>2
  <2>. QED  BY <2>1, <2>2
<1>. QED  BY <1>6 DEF one

-----------------------------------------------------------------------------
(* A month's trades.                                                       *)

Record(d, price) == MonthRecord(d, price, Opened(d), Proceeds(d, price))

LEMMA Distribute ==
  ASSUME NEW held \in Int, NEW a \in Int, NEW b \in Int, NEW c \in Int, NEW row \in Int
  PROVE  (held + a - b + c) * row = held * row + a * row - b * row + c * row
OBVIOUS

LEMMA Combine ==
  ASSUME NEW h \in Int, NEW e \in Int, NEW g \in Int, NEW k \in Int
  PROVE  h + e - g + (g - k) = h + e - k
OBVIOUS

LEMMA MonthArithmetic ==
  ASSUME NEW row \in Prices, NEW held \in Int, NEW exit \in Int, NEW cost \in Int, NEW s,
         s = held + Shares(exit, row) - Shares(Budget, row) + Shares(Budget - cost, row)
  PROVE  /\ s \in Int
         /\ s * row = held * row + exit * Unit - cost * Unit
         /\ exit = 0 /\ cost = 0 => s = held
<1>. DEFINE a == Shares(exit, row)
            b == Shares(Budget, row)
            c == Shares(Budget - cost, row)
            u == Unit
<1>1. /\ Budget \in Int /\ Budget - cost \in Int /\ u \in Int /\ row \in Int
  BY ConvexityAssumption, RowFacts
<1>2. /\ a \in Int /\ a * row = exit * u
      /\ b \in Int /\ b * row = Budget * u
      /\ c \in Int /\ c * row = (Budget - cost) * u
  BY <1>1, SharesFacts
<1>3. exit = 0 /\ cost = 0 => a = 0 /\ c = b
  <2>1. 0 * (Unit \div row) = 0 /\ Budget - 0 = Budget
    BY <1>1, RowFacts
  <2>. QED  BY <2>1 DEF Shares
<1>s. s = held + a - b + c
  OBVIOUS
<1>. HIDE DEF a, b, c, u
<1>4. s \in Int /\ (exit = 0 /\ cost = 0 => s = held)
  BY <1>s, <1>2, <1>3
<1>5. s * row = held * row + a * row - b * row + c * row
  <2>1. (held + a - b + c) * row = held * row + a * row - b * row + c * row
    BY <1>1, <1>2, Distribute
  <2>. QED  BY <1>s, <2>1, Zenon
<1>6. (Budget - cost) * u = Budget * u - cost * u
  BY <1>1
<1>7. /\ held * row \in Int /\ exit * u \in Int /\ Budget * u \in Int /\ cost * u \in Int
  BY <1>1
<1>8. s * row = held * row + exit * u - Budget * u + (Budget * u - cost * u)
  BY <1>2, <1>5, <1>6, Zenon
<1>9. held * row + exit * u - Budget * u + (Budget * u - cost * u)
        = held * row + exit * u - cost * u
  BY <1>7, Combine
<1>. QED  BY <1>4, <1>8, <1>9, Zenon DEF u

LEMMA TradeFacts ==
  ASSUME ConvexityTypes, NEW d \in Nat \ {0}, NEW price \in Prices, Trade(d, price)
  PROVE  /\ shares' \in Int /\ shares \in Int
         /\ shares' * price = shares * price + Proceeds(d, price) * Unit
                                             - Cost(Opened(d)) * Unit
         /\ Cost(position) = 0 /\ Cost(Opened(d)) = 0 => shares' = shares
         /\ Proceeds(d, price) \in Nat
         /\ Proceeds(d, price) > 0 => Cost(position) > 0
         /\ Cost(position) \in Nat
         /\ Cost(Opened(d)) \in Nat /\ Cost(Opened(d)) <= Budget
         /\ Opened(d) = << >> <=> Cost(Opened(d)) = 0
         /\ position' = Opened(d)
         /\ records' = Append(records, Record(d, price))
<1>. DEFINE new  == Opened(d)
            exit == Proceeds(d, price)
<1>1. FilesInv /\ position \in Seq(Puts) /\ Len(position) <= 1
  BY DEF ConvexityTypes
<1>2. /\ new \in Seq(Puts) /\ Len(new) <= 1
      /\ new # << >> => \E i \in TargetPuts(d) :
           new[1].ask = Chain(d)[i].ask /\ Chain(d)[i].ask * new[1].contracts <= Budget
  BY <1>1, OpenedFacts
<1>3. /\ Cost(new) \in Nat /\ (new = << >> <=> Cost(new) = 0)
      /\ new # << >> => Cost(new) = new[1].ask * new[1].contracts
  BY <1>2, CostFacts
<1>4. /\ Cost(position) \in Nat /\ (position = << >> <=> Cost(position) = 0)
  BY <1>1, CostFacts
<1>5. exit \in Nat /\ (position = << >> => exit = 0)
  BY ProceedsFacts
<1>6. Cost(new) <= Budget
  BY <1>2, <1>3, ConvexityAssumption
<1>7. shares \in Int
  BY DEF ConvexityTypes
<1>8. /\ shares' = shares + Shares(exit, price) - Shares(Budget, price)
                              + Shares(Budget - Cost(new), price)
      /\ position' = new
      /\ records' = Append(records, Record(d, price))
  BY DEF Trade, Leftover, Record
<1>. HIDE DEF new, exit
<1>9. /\ shares' \in Int
      /\ shares' * price = shares * price + exit * Unit - Cost(new) * Unit
      /\ exit = 0 /\ Cost(new) = 0 => shares' = shares
  <2>1. exit \in Int /\ Cost(new) \in Int
    BY <1>3, <1>5
  <2>. QED  BY <1>7, <1>8, <2>1, MonthArithmetic
<1>10. exit > 0 => Cost(position) > 0
  BY <1>4, <1>5
<1>11. Cost(position) = 0 => exit = 0
  BY <1>4, <1>5
<1>. QED  BY <1>3, <1>4, <1>5, <1>6, <1>7, <1>8, <1>9, <1>10, <1>11 DEF new, exit

\* The fields of a month's record.
LEMMA RecordFacts ==
  ASSUME ConvexityTypes, NEW d \in Nat \ {0}, NEW price \in Prices, Trade(d, price)
  PROVE  /\ Record(d, price) \in Months
         /\ Record(d, price).date = d
         /\ Record(d, price).shares = shares'
         /\ Record(d, price).price = price
         /\ Record(d, price).value = shares' * price
         /\ Record(d, price).cost = Cost(Opened(d))
         /\ Record(d, price).exit = Proceeds(d, price)
         /\ Record(d, price).pnl = Proceeds(d, price) - Cost(position)
         /\ Cost(Opened(d)) > 0 => \E i \in TargetPuts(d) :
              /\ Record(d, price).ratio = Ratio(Chain(d)[i])
              /\ Record(d, price).strike = Chain(d)[i].strike
         /\ Cost(Opened(d)) = 0 => \A i \in TargetPuts(d) : Budget < Chain(d)[i].ask
<1>. DEFINE new  == Opened(d)
            r    == Record(d, price)
            ratio  == IF new = << >> THEN <<0, 1>> ELSE Ratio(Chain(d)[new[1].row])
            strike == IF new = << >> THEN 0 ELSE new[1].strike
<1>1. r = [date |-> d, shares |-> shares', price |-> price, value |-> shares' * price,
           cost |-> Cost(new), exit |-> Proceeds(d, price),
           pnl |-> Proceeds(d, price) - Cost(position), ratio |-> ratio,
           strike |-> strike]
  BY DEF Record, MonthRecord
<1>2. /\ new = << >> => \A i \in TargetPuts(d) : Budget < Chain(d)[i].ask
      /\ new # << >> => \E i \in TargetPuts(d) :
           new[1].row = i /\ new[1].strike = Chain(d)[i].strike
  BY OpenedFacts DEF ConvexityTypes
<1>3. /\ shares' \in Int /\ Proceeds(d, price) \in Nat
      /\ Cost(position) \in Nat /\ Cost(new) \in Nat
      /\ new = << >> <=> Cost(new) = 0
  BY TradeFacts
<1>4. price \in Nat /\ d \in Nat \ {0}
  BY RowFacts
<1>5. shares' * price \in Int /\ Proceeds(d, price) - Cost(position) \in Int
  BY <1>3, <1>4
<1>6. /\ ratio \in Ratios /\ strike \in Nat
      /\ new # << >> => \E i \in TargetPuts(d) :
           ratio = Ratio(Chain(d)[i]) /\ strike = Chain(d)[i].strike
  <2>1. CASE new = << >>
    BY <2>1 DEF Ratios
  <2>2. CASE new # << >>
    <3>1. PICK i \in TargetPuts(d) : new[1].row = i /\ new[1].strike = Chain(d)[i].strike
      BY <1>2, <2>2
    <3>2. ratio = Ratio(Chain(d)[i]) /\ strike = Chain(d)[i].strike
      BY <2>2, <3>1
    <3>. HIDE DEF ratio, strike
    <3>. QED  BY <1>4, <2>2, <3>1, <3>2, TargetFacts, RatioFacts DEF ConvexityTypes
  <2>. QED  BY <2>1, <2>2
<1>. HIDE DEF new, ratio, strike
<1>7. r \in Months
  BY <1>1, <1>3, <1>4, <1>5, <1>6 DEF Months
<1>. QED  BY <1>1, <1>2, <1>3, <1>6, <1>7 DEF new

LEMMA AppendFacts ==
  ASSUME NEW S, NEW q \in Seq(S), NEW x \in S
  PROVE  /\ Append(q, x) \in Seq(S)
         /\ DOMAIN q = 1..Len(q) /\ Len(q) \in Nat
         /\ Len(Append(q, x)) = Len(q) + 1
         /\ DOMAIN Append(q, x) = 1..Len(q) + 1
         /\ \A i \in 1..Len(q) : Append(q, x)[i] = q[i]
         /\ Append(q, x)[Len(q) + 1] = x
BY AppendProperties, LenProperties

LEMMA Products ==
  ASSUME NEW a \in Int, NEW b \in Nat
  PROVE  /\ a * b \in Int
         /\ a < 0 /\ b > 0 => a * b < 0
BY Z3

LEMMA RecordDates ==
  ASSUME ConvexityInv, NEW k \in DOMAIN records
  PROVE  records[k].date \in Nat /\ records[k].date > 0
<1>1. records \in Seq(Months)
  BY DEF ConvexityInv, ConvexityTypes
<1>2. records[k] \in Months
  BY <1>1, ElementOfSeq, LenProperties
<1>. QED  BY <1>2 DEF Months

LEMMA RecordsGrow ==
  ASSUME ConvexityTypes, NEW d \in Nat \ {0}, NEW price \in Prices, Trade(d, price)
  PROVE  /\ Record(d, price) \in Months
         /\ records' \in Seq(Months) /\ Len(records) \in Nat
         /\ Len(records') = Len(records) + 1
         /\ DOMAIN records = 1..Len(records)
         /\ DOMAIN records' = 1..Len(records) + 1
         /\ \A k \in 1..Len(records) : records'[k] = records[k]
         /\ records'[Len(records) + 1] = Record(d, price)
<1>1. records' = Append(records, Record(d, price)) /\ Record(d, price) \in Months
  BY TradeFacts, RecordFacts
<1>2. records \in Seq(Months)
  BY DEF ConvexityTypes
<1>. QED  BY <1>1, <1>2, AppendFacts

\* The first trade is at the first price.
LEMMA MonthsStep ==
  ASSUME ConvexityInv, NEW d \in Nat \ {0}, NEW price \in Prices, Trade(d, price),
         records = << >> => shares * price = Capital * Unit
  PROVE  MonthsAddUp' /\ CarryInv'
<1>. DEFINE n    == Len(records)
            r    == Record(d, price)
            cost == Cost(Opened(d))
            exit == Proceeds(d, price)
            put  == Cost(position)
<1>0. ConvexityTypes /\ FilesInv
  BY DEF ConvexityInv, ConvexityTypes
<1>1. /\ records' \in Seq(Months) /\ n \in Nat /\ Len(records') = n + 1
      /\ DOMAIN records = 1..n /\ DOMAIN records' = 1..n + 1
      /\ \A k \in 1..n : records'[k] = records[k]
      /\ records'[n + 1] = r
  BY <1>0, RecordsGrow
<1>2. /\ r.shares = shares' /\ r.price = price /\ r.value = shares' * price
      /\ r.cost = cost /\ r.exit = exit /\ r.pnl = exit - put
  BY <1>0, RecordFacts
<1>3. /\ shares' \in Int /\ shares \in Int
      /\ shares' * price = shares * price + exit * Unit - cost * Unit
      /\ exit \in Nat /\ (exit > 0 => put > 0) /\ put \in Nat
      /\ cost \in Nat /\ cost <= Budget
      /\ position' = Opened(d)
  BY <1>0, TradeFacts
<1>4. CarryInv'
  <2>1. records' # << >> /\ records'[Len(records')] = r
    BY <1>1
  <2>2. Cost(position)' = Cost(position')
    BY DEF Cost
  <2>. HIDE DEF r
  <2>. QED  BY <1>2, <1>3, <2>1, <2>2 DEF CarryInv
<1>5. /\ shares * price \in Int /\ exit * Unit \in Int /\ cost * Unit \in Int
      /\ Budget * Unit \in Int /\ cost * Unit <= Budget * Unit
      /\ price \in Nat /\ price > 0 /\ shares' * price \in Int
      /\ shares' < 0 => shares' * price < 0
  <2>1. price \in Nat /\ price > 0 /\ Unit \in Nat /\ Budget \in Nat
    BY RowFacts, ConvexityAssumption
  <2>2. cost * Unit <= Budget * Unit
    <3>1. (Budget - cost) * Unit >= 0
      <4>1. Budget - cost \in Nat
        <5>. HIDE DEF cost
        <5>. QED  BY <1>3, <2>1
      <4>. QED  BY <2>1, <4>1, ProductNat
    <3>2. (Budget - cost) * Unit = Budget * Unit - cost * Unit
      BY <1>3, <2>1
    <3>3. cost * Unit \in Int /\ Budget * Unit \in Int
      BY <1>3, <2>1
    <3>. QED  BY <3>1, <3>2, <3>3
  <2>3. shares' * price \in Int /\ (shares' < 0 => shares' * price < 0)
    BY <1>3, <2>1, Products
  <2>4. shares * price \in Int
    BY <1>3, <2>1, Products
  <2>5. /\ exit * Unit \in Int /\ cost * Unit \in Int /\ Budget * Unit \in Int
    <3>. HIDE DEF cost, exit
    <3>. QED  BY <1>3, <2>1, Products
  <2>. HIDE DEF cost, exit
  <2>. QED  BY <2>1, <2>2, <2>3, <2>4, <2>5
<1>. DEFINE Adds(rec, paid, before) ==
               /\ rec.value + rec.cost * Unit = before
               /\ rec.pnl = rec.exit - paid
               /\ rec.exit > 0 => paid > 0
               /\ rec.shares < 0 => before < Budget * Unit
<1>6. Adds(r, put, shares * price + exit * Unit)
  <2>. DEFINE h == shares * price
              e == exit * Unit
              c == cost * Unit
              b == Budget * Unit
              v == shares' * price
  <2>1. /\ v = h + e - c /\ h \in Int /\ e \in Int /\ c \in Int /\ b \in Int /\ c <= b
        /\ v \in Int /\ (shares' < 0 => v < 0)
    BY <1>3, <1>5
  <2>2. r.value + r.cost * Unit = v + c
    BY <1>2
  <2>. HIDE DEF h, e, c, b, v, r, cost, exit, put
  <2>3. v + c = h + e /\ (shares' < 0 => h + e < b)
    BY <2>1
  <2>. QED  BY <1>2, <1>3, <2>2, <2>3 DEF h, e, b
<1>7. CASE records = << >>
  <2>1. n = 0 /\ position = << >>
    BY <1>7 DEF ConvexityInv, CarryInv
  <2>2. put = 0 /\ exit = 0
    <3>1. position \in Seq(Puts) /\ Len(position) <= 1
      BY <1>0 DEF ConvexityTypes
    <3>. QED  BY <1>0, <2>1, <3>1, CostFacts, ProceedsFacts
  <2>3. Adds(r, 0, Capital * Unit)
    <3>1. shares * price + exit * Unit = Capital * Unit
      <4>1. exit * Unit = 0
        BY <2>2, ConvexityAssumption
      <4>2. shares * price + 0 = shares * price
        BY <1>5
      <4>. QED  BY <1>7, <4>1, <4>2
    <3>. HIDE DEF r, exit, put, cost
    <3>. QED  BY <1>6, <2>2, <3>1
  <2>4. DOMAIN records' = {1} /\ records'[1] = r
    BY <1>1, <2>1
  <2>. HIDE DEF r
  <2>5. MonthsAddUp'
    BY <2>3, <2>4 DEF MonthsAddUp
  <2>. QED  BY <1>4, <2>5
<1>8. CASE records # << >>
  <2>1. n >= 1 /\ n \in 1..n
    BY <1>0, <1>1, <1>8 DEF ConvexityTypes
  <2>2. records[n].shares = shares /\ records[n].cost = put
    BY <1>8 DEF ConvexityInv, CarryInv
  <2>3. ASSUME NEW k \in DOMAIN records'
        PROVE  Adds(records'[k], IF k = 1 THEN 0 ELSE records'[k-1].cost,
                    IF k = 1 THEN Capital * Unit
                             ELSE records'[k-1].shares * records'[k].price
                                    + records'[k].exit * Unit)
    <3>1. CASE k \in 1..n
      <4>1. records'[k] = records[k] /\ (k # 1 => records'[k-1] = records[k-1])
        <5>1. k # 1 => k - 1 \in 1..n
          BY <1>1, <3>1
        <5>. QED  BY <1>1, <3>1, <5>1
      <4>2. k \in DOMAIN records
        BY <1>1, <3>1
      <4>3. Adds(records[k], IF k = 1 THEN 0 ELSE records[k-1].cost,
                 IF k = 1 THEN Capital * Unit
                          ELSE records[k-1].shares * records[k].price
                                 + records[k].exit * Unit)
        BY <4>2 DEF ConvexityInv, MonthsAddUp
      <4>. HIDE DEF Adds
      <4>. QED  BY <4>1, <4>3
    <3>2. CASE k = n + 1
      <4>1. k # 1 /\ k - 1 = n /\ records'[k] = r /\ records'[k-1] = records[n]
        BY <1>1, <2>1, <3>2
      <4>. HIDE DEF Adds, r, put, exit, cost, n
      <4>. QED  BY <1>2, <1>6, <2>2, <4>1
    <3>. QED  BY <1>1, <3>1, <3>2
  <2>4. MonthsAddUp'
    BY <2>3 DEF MonthsAddUp
  <2>. QED  BY <1>4, <2>4
<1>. QED  BY <1>7, <1>8

\* The files stay what they are, and so does all that is read from them.
LEMMA FilesStay ==
  ASSUME UNCHANGED <<stock, puts>>
  PROVE  /\ FilesInv' <=> FilesInv
         /\ Scores' = Scores /\ RebalanceDates' = RebalanceDates
         /\ (Runs' <=> Runs) /\ First' = First /\ Unhedged' = Unhedged
<1>1. (FilesInv' <=> FilesInv) /\ (Runs' <=> Runs)
  BY DEF FilesInv, Runs
<1>2. Scores' = Scores
  <2>1. ASSUME NEW d PROVE TargetPuts(d)' = TargetPuts(d)
    BY DEF TargetPuts, Chain, Eligible, Distance
  <2>2. Scores' = UNION { { [date |-> d, ratio |-> Ratio(puts'[d][i]), strike |-> puts'[d][i].strike]
                              : i \in TargetPuts(d)' } : d \in DOMAIN puts' }
    BY Zenon DEF Scores, Ratio
  <2>. QED  BY <2>1, <2>2 DEF Scores
<1>3. RebalanceDates' = RebalanceDates
  BY Zenon DEF RebalanceDates, Begins, Month
<1>4. First' = First /\ Unhedged' = Unhedged
  BY Zenon DEF First, Unhedged, Shares
<1>. QED  BY <1>1, <1>2, <1>3, <1>4

\* A record's put is the one its date scores.
Chosen(rec) ==
  LET of == { s \in Scores : s.date = rec.date }
  IN  IF rec.cost > 0
        THEN \E s \in of : s.ratio = rec.ratio /\ s.strike = rec.strike
        ELSE \A s \in of : s.ratio[2] > Budget * 12

LEMMA ScoredStep ==
  ASSUME ConvexityInv, NEW d \in Nat \ {0}, NEW price \in Prices, Trade(d, price),
         UNCHANGED <<stock, puts>>
  PROVE  BoughtAsScored'
<1>. DEFINE n == Len(records)
            r == Record(d, price)
            row(i) == [date |-> d, ratio |-> Ratio(Chain(d)[i]), strike |-> Chain(d)[i].strike]
<1>0. ConvexityTypes /\ FilesInv
  BY DEF ConvexityInv, ConvexityTypes
<1>1. /\ n \in Nat /\ DOMAIN records = 1..n /\ DOMAIN records' = 1..n + 1
      /\ \A k \in 1..n : records'[k] = records[k]
      /\ records'[n + 1] = r
  BY <1>0, RecordsGrow
<1>2. /\ r.date = d /\ r.cost = Cost(Opened(d)) /\ r.cost \in Nat
      /\ r.cost > 0 => \E i \in TargetPuts(d) :
           r.ratio = Ratio(Chain(d)[i]) /\ r.strike = Chain(d)[i].strike
      /\ r.cost = 0 => \A i \in TargetPuts(d) : Budget < Chain(d)[i].ask
  BY <1>0, RecordFacts, TradeFacts
<1>3. { s \in Scores : s.date = d } = { row(i) : i \in TargetPuts(d) }
  BY <1>0, ScoresFacts
<1>. HIDE DEF r, n
<1>4. Chosen(r)
  <2>1. CASE r.cost > 0
    <3>1. PICK i \in TargetPuts(d) :
            r.ratio = Ratio(Chain(d)[i]) /\ r.strike = Chain(d)[i].strike
      BY <1>2, <2>1
    <3>2. row(i) \in { s \in Scores : s.date = r.date }
      BY <1>2, <1>3, <3>1
    <3>3. row(i).ratio = r.ratio /\ row(i).strike = r.strike
      BY <3>1
    <3>. HIDE DEF row
    <3>. QED  BY <2>1, <3>2, <3>3 DEF Chosen
  <2>2. CASE ~ (r.cost > 0)
    <3>1. \A i \in TargetPuts(d) : Budget < Chain(d)[i].ask
      BY <1>2, <2>2
    <3>2. ASSUME NEW s \in Scores, s.date = r.date PROVE s.ratio[2] > Budget * 12
      <4>1. PICK i \in TargetPuts(d) : s = row(i)
        BY <1>2, <1>3, <3>2
      <4>2. s.ratio = Ratio(Chain(d)[i])
        BY <4>1
      <4>3. /\ i \in DOMAIN Chain(d) /\ Chain(d)[i].ask \in Nat
        BY <1>0, TargetFacts
      <4>4. s.ratio[2] = Chain(d)[i].ask * 12
        BY <1>0, <4>2, <4>3, RatioFacts
      <4>5. Budget \in Nat /\ Budget < Chain(d)[i].ask
        BY <3>1, ConvexityAssumption
      <4>. DEFINE a == Chain(d)[i].ask
      <4>6. a \in Nat /\ Budget \in Nat /\ Budget < a /\ s.ratio[2] = a * 12
        BY <4>3, <4>4, <4>5
      <4>. HIDE DEF a
      <4>. QED  BY <4>6
    <3>. QED  BY <2>2, <3>2 DEF Chosen
  <2>. QED  BY <2>1, <2>2
<1>5. \A k \in 1..n : Chosen(records[k])
  BY <1>1, Zenon DEF ConvexityInv, BoughtAsScored, Chosen
<1>6. \A k \in 1..n + 1 : Chosen(records'[k])
  <2>1. \A k \in 1..n + 1 : k \in 1..n \/ k = n + 1
    BY <1>1
  <2>. QED  BY <1>1, <1>4, <1>5, <2>1
<1>7. Scores' = Scores
  BY FilesStay
<1>. QED  BY <1>1, <1>6, <1>7, Zenon DEF BoughtAsScored, Chosen

-----------------------------------------------------------------------------
(* The rebalance dates and the rows between them.                          *)

LEMMA BeginFacts ==
  ASSUME FilesInv, NEW e \in RebalanceDates
  PROVE  /\ e \in Nat /\ e > 0
         /\ \E k \in 1..Len(stock) : stock[k].date = e /\ Begins(k)
<1>1. PICK k \in DOMAIN stock : Begins(k) /\ e = stock[k].date
  BY DEF RebalanceDates
<1>2. k \in 1..Len(stock) /\ stock[k].date \in Nat /\ stock[k].date > 0
  BY <1>1, FileFacts
<1>. QED  BY <1>1, <1>2

LEMMA LaterFacts ==
  ASSUME FilesInv, NEW r \in Nat, NEW e \in Later(r)
  PROVE  /\ e \in RebalanceDates /\ e \in Nat /\ e > r
         /\ \E k \in 1..Len(stock) : stock[k].date = e /\ Begins(k)
<1>1. e \in RebalanceDates /\ e > r
  BY DEF Later
<1>. QED  BY <1>1, BeginFacts

\* A later rebalance date is of a later month.
LEMMA LaterMonth ==
  ASSUME FilesInv, NEW r \in RebalanceDates, NEW d \in Later(r)
  PROVE  Month(r) < Month(d)
<1>1. r \in Nat /\ r > 0 /\ \E j \in 1..Len(stock) : stock[j].date = r
  BY BeginFacts
<1>2. PICK j \in 1..Len(stock) : stock[j].date = r
  BY <1>1
<1>3. d \in Nat /\ d > r /\ \E k \in 1..Len(stock) : stock[k].date = d /\ Begins(k)
  BY <1>1, LaterFacts
<1>4. PICK k \in 1..Len(stock) : stock[k].date = d /\ Begins(k)
  BY <1>3
<1>5. /\ Len(stock) \in Nat
      /\ \A a, b \in 1..Len(stock) : a <= b => stock[a].date <= stock[b].date
      /\ \A a \in 1..Len(stock) : stock[a].date \in Nat /\ stock[a].date > 0
  BY FileFacts
<1>6. j < k
  <2>1. ASSUME k <= j PROVE FALSE
    <3>1. d <= r
      BY <1>2, <1>4, <1>5, <2>1
    <3>. QED  BY <1>1, <1>3, <3>1
  <2>. QED  BY <2>1
<1>7. k - 1 \in 1..Len(stock) /\ k # 1 /\ j <= k - 1 /\ k - 1 <= k
  BY <1>5, <1>6
<1>. DEFINE p == stock[k - 1].date
<1>8. p \in Nat /\ r <= p /\ p <= d
  BY <1>2, <1>4, <1>5, <1>7
<1>9. Month(d) # Month(p)
  BY <1>4, <1>7 DEF Begins
<1>. HIDE DEF p
<1>10. /\ Month(r) \in Nat /\ Month(p) \in Nat /\ Month(d) \in Nat
       /\ Month(r) <= Month(p) /\ Month(p) <= Month(d)
  <2>1. p > 0
    BY <1>1, <1>8
  <2>. QED  BY <1>1, <1>3, <1>8, <2>1, MonthMonotone
<1>. QED  BY <1>9, <1>10

LEMMA Basics ==
  ASSUME ConvexityInv
  PROVE  /\ FilesInv /\ ConvexityTypes
         /\ rebal \in Nat /\ shares \in Int
         /\ Len(daily) \in Nat /\ DOMAIN daily = 1..Len(daily)
         /\ Len(records) \in Nat /\ DOMAIN records = 1..Len(records)
         /\ Len(stock) \in Nat /\ DOMAIN stock = 1..Len(stock)
         /\ si \in 0..Len(stock) + 1 /\ Len(daily) <= Len(stock)
<1>1. /\ ConvexityTypes /\ FilesInv /\ rebal \in Nat /\ shares \in Int
      /\ si \in 0..Len(stock) + 1 /\ Len(daily) <= Len(stock)
      /\ daily \in Seq(Balances) /\ records \in Seq(Months)
  BY DEF ConvexityInv, ConvexityTypes, RowsInv
<1>2. /\ Len(daily) \in Nat /\ DOMAIN daily = 1..Len(daily)
      /\ Len(records) \in Nat /\ DOMAIN records = 1..Len(records)
  BY <1>1, LenProperties
<1>3. Len(stock) \in Nat /\ DOMAIN stock = 1..Len(stock)
  BY <1>1, FileFacts
<1>. QED  BY <1>1, <1>2, <1>3

\* At the top of the monthly loop the next rebalance date is the next row's.
LEMMA NextRow ==
  ASSUME ConvexityInv, Runs, si = 0, NEW d \in Later(rebal),
         \A e \in Later(rebal) : d <= e
  PROVE  /\ Len(daily) + 1 \in 1..Len(stock)
         /\ stock[Len(daily) + 1].date = d
         /\ d \in RebalanceDates /\ d \in Nat /\ d > rebal
         /\ LowerBound(d) = Len(daily) + 1
         /\ PriceOn(d, FirstPrice) = stock[Len(daily) + 1].price
         /\ stock[Len(daily) + 1].price \in Prices
<1>. DEFINE n == Len(daily)
            k == LowerBound(d)
<1>1. /\ FilesInv /\ rebal \in Nat /\ n \in Nat /\ Len(stock) \in Nat
  BY Basics
<1>2. d \in RebalanceDates /\ d \in Nat /\ d > rebal
  BY <1>1, LaterFacts
<1>3. /\ n < Len(stock) /\ stock[n + 1].date \in Later(rebal)
      /\ \A e \in Later(rebal) : stock[n + 1].date <= e
  BY DEF ConvexityInv, RowsInv, AtTop
<1>4. n + 1 \in 1..Len(stock)
  BY <1>1, <1>3
<1>5. stock[n + 1].date \in Nat /\ stock[n + 1].price \in Prices
  BY <1>1, <1>4, FileFacts
<1>6. stock[n + 1].date = d
  <2>1. d <= stock[n + 1].date /\ stock[n + 1].date <= d
    BY <1>3
  <2>. QED  BY <1>2, <1>5, <2>1
<1>7. \A j \in 1..n : stock[j].date < d
  BY DEF ConvexityInv, RowsInv, RowsBefore
<1>8. k = n + 1
  <2>1. /\ k \in 1..Len(stock) + 1
        /\ k <= Len(stock) => stock[k].date >= d
        /\ \A j \in 1..Len(stock) : stock[j].date >= d => k <= j
    BY <1>1, <1>2, LowerBoundFacts
  <2>. HIDE DEF k
  <2>2. k <= n + 1
    BY <1>2, <1>4, <1>6, <2>1
  <2>3. ASSUME k <= n PROVE FALSE
    <3>1. k \in 1..n /\ k <= Len(stock)
      BY <1>1, <1>3, <2>1, <2>3
    <3>2. stock[k].date < d /\ stock[k].date >= d /\ stock[k].date \in Nat
      BY <1>1, <1>3, <1>7, <2>1, <3>1, FileFacts
    <3>. QED  BY <1>2, <3>2
  <2>. QED  BY <1>1, <2>1, <2>2, <2>3
<1>9. PriceOn(d, FirstPrice) = IF k <= Len(stock) /\ stock[k].date = d THEN stock[k].price
                               ELSE IF k > 1 THEN stock[k - 1].price ELSE FirstPrice
  BY DEF PriceOn
<1>. HIDE DEF k
<1>10. PriceOn(d, FirstPrice) = stock[n + 1].price
  BY <1>1, <1>3, <1>6, <1>8, <1>9
<1>. QED  BY <1>2, <1>4, <1>5, <1>6, <1>8, <1>10 DEF k

-----------------------------------------------------------------------------
(* The steps.                                                              *)

LEMMA LaterStays ==
  ASSUME UNCHANGED <<stock, puts>>
  PROVE  \A r : { e \in RebalanceDates' : e > r } = Later(r)
BY FilesStay DEF Later

\* A step that trades nothing leaves the records what they promise.
LEMMA TradesStay ==
  ASSUME ConvexityInv, UNCHANGED <<stock, puts, shares, position, records>>
  PROVE  CarryInv' /\ SharesInv' /\ MonthsAddUp' /\ BoughtAsScored'
<1>1. Scores' = Scores /\ (Runs' <=> Runs) /\ First' = First
  BY FilesStay
<1>2. CarryInv'
  BY Zenon DEF ConvexityInv, CarryInv, Cost
<1>3. SharesInv'
  BY <1>1 DEF ConvexityInv, SharesInv, NoPutIn
<1>4. MonthsAddUp'
  BY Zenon DEF ConvexityInv, MonthsAddUp
<1>5. BoughtAsScored'
  BY <1>1, Zenon DEF ConvexityInv, BoughtAsScored
<1>. QED  BY <1>2, <1>3, <1>4, <1>5

LEMMA MonthsStay ==
  ASSUME ConvexityInv, UNCHANGED <<stock, puts, rebal, records>>,
         rebal = 0 => UNCHANGED <<si, daily>>
  PROVE  MonthsInv'
<1>1. RebalanceDates' = RebalanceDates /\ (Runs' <=> Runs)
  BY FilesStay
<1>2. \A m, n \in DOMAIN records : m < n => Month(records[m].date) < Month(records[n].date)
  BY DEF ConvexityInv, MonthsInv
<1>3. \A m, n \in DOMAIN records' : m < n => Month(records'[m].date) < Month(records'[n].date)
  BY <1>2
<1>. QED  BY <1>1, <1>3, Zenon DEF ConvexityInv, MonthsInv, Month

LEMMA TypesStay ==
  ASSUME ConvexityInv, UNCHANGED <<stock, puts, rebal, shares, position, records>>,
         si' \in 0..Len(stock) + 1, daily' \in Seq(Balances), done' \in BOOLEAN
  PROVE  ConvexityTypes'
<1>1. FilesInv'
  BY FilesStay DEF ConvexityInv, ConvexityTypes
<1>. QED  BY <1>1 DEF ConvexityInv, ConvexityTypes

LEMMA CurveStays ==
  ASSUME ConvexityInv, UNCHANGED <<stock, puts, records, daily>>
  PROVE  CurveInv'
BY Zenon DEF ConvexityInv, CurveInv, ValuedBy, Month

LEMMA RebalanceKeeps ==
  ASSUME ConvexityInv, Rebalance
  PROVE  ConvexityInv'
<1>1. /\ Runs /\ ~done /\ si = 0 /\ UNCHANGED <<stock, puts, daily, done>>
      /\ ConvexityTypes /\ FilesInv /\ rebal \in Nat
  BY Basics DEF Rebalance
<1>2. PICK d \in Later(rebal) :
        /\ \A e \in Later(rebal) : d <= e
        /\ Trade(d, PriceOn(d, FirstPrice))
        /\ rebal' = d /\ si' = LowerBound(d)
  BY DEF Rebalance
<1>. DEFINE n == Len(daily)
            m == Len(records)
<1>3. PICK p : p = stock[n + 1].price
  OBVIOUS
<1>4. /\ n + 1 \in 1..Len(stock) /\ stock[n + 1].date = d
      /\ d \in RebalanceDates /\ d \in Nat \ {0} /\ d > rebal
      /\ LowerBound(d) = n + 1 /\ PriceOn(d, FirstPrice) = p /\ p \in Prices
  BY <1>1, <1>2, <1>3, NextRow
<1>5. Trade(d, p) /\ si' = n + 1
  BY <1>2, <1>4
<1>. DEFINE r == Record(d, p)
<1>6. /\ records' \in Seq(Months) /\ m \in Nat /\ Len(records') = m + 1
      /\ DOMAIN records = 1..m /\ DOMAIN records' = 1..m + 1
      /\ \A k \in 1..m : records'[k] = records[k]
      /\ records'[m + 1] = r
  BY <1>1, <1>4, <1>5, RecordsGrow
<1>7. /\ r.date = d /\ r.shares = shares' /\ r.cost = Cost(Opened(d))
  BY <1>1, <1>4, <1>5, RecordFacts
<1>8. /\ shares' \in Int /\ position' = Opened(d)
      /\ Cost(position) = 0 /\ Cost(Opened(d)) = 0 => shares' = shares
  BY <1>1, <1>4, <1>5, TradeFacts
<1>. HIDE DEF r
<1>9. /\ RebalanceDates' = RebalanceDates /\ (Runs' <=> Runs) /\ First' = First
      /\ FilesInv'
  BY <1>1, FilesStay
<1>10. n \in Nat /\ Len(stock) \in Nat /\ n <= Len(stock) /\ DOMAIN daily = 1..n
  BY Basics
<1>11. ConvexityTypes'
  <2>1. Opened(d) \in Seq(Puts) /\ Len(Opened(d)) <= 1
    BY <1>1, OpenedFacts
  <2>2. n + 1 \in 0..Len(stock) + 1
    BY <1>4, <1>10
  <2>. QED  BY <1>1, <1>2, <1>4, <1>5, <1>6, <1>8, <1>9, <2>1, <2>2 DEF ConvexityTypes
<1>12. MonthsInv'
  <2>1. ASSUME NEW i \in 1..m + 1, NEW j \in 1..m + 1, i < j
        PROVE  Month(records'[i].date) < Month(records'[j].date)
    <3>1. i \in 1..m
      BY <1>6, <2>1
    <3>2. CASE j \in 1..m
      BY <1>6, <3>1, <3>2, <2>1 DEF ConvexityInv, MonthsInv
    <3>3. CASE j = m + 1
      <4>1. rebal # 0 /\ rebal \in RebalanceDates /\ records[m].date = rebal /\ m \in 1..m
        BY <1>6, <3>1 DEF ConvexityInv, MonthsInv
      <4>2. Month(rebal) < Month(d)
        BY <1>1, <4>1, LaterMonth
      <4>3. CASE i = m
        BY <1>6, <1>7, <3>3, <4>1, <4>2, <4>3
      <4>4. CASE i # m
        <5>1. i < m
          BY <1>6, <3>1, <4>4
        <5>2. Month(records[i].date) < Month(records[m].date)
          BY <1>6, <3>1, <4>1, <5>1 DEF ConvexityInv, MonthsInv
        <5>. DEFINE a == records[i].date
        <5>3. a \in Nat /\ a > 0 /\ d > 0 /\ rebal > 0
          BY <1>1, <1>4, <3>1, <1>6, <4>1, RecordDates
        <5>4. Month(a) \in Nat /\ Month(rebal) \in Nat /\ Month(d) \in Nat
          <6>1. \A x \in Nat : x > 0 => Month(x) \in Nat
            BY MonthMonotone
          <6>. HIDE DEF a
          <6>. QED  BY <1>1, <1>4, <5>3, <6>1
        <5>5. Month(a) < Month(rebal)
          BY <4>1, <5>2
        <5>. HIDE DEF a
        <5>6. Month(a) < Month(d)
          BY <4>2, <5>4, <5>5
        <5>. QED  BY <1>6, <1>7, <3>1, <3>3, <5>6 DEF a
      <4>. QED  BY <4>3, <4>4
    <3>. QED  BY <1>6, <3>2, <3>3
  <2>2. rebal' # 0 /\ rebal' = d
    BY <1>1, <1>2, <1>4
  <2>3. records' # << >> /\ records'[Len(records')].date = d
    BY <1>6, <1>7
  <2>. QED  BY <1>1, <1>4, <1>6, <1>9, <2>1, <2>2, <2>3 DEF MonthsInv, Month
<1>13. RowsInv'
  <2>1. \A e \in { x \in RebalanceDates : x > d } : e \in Later(rebal)
    <3>1. \A e \in RebalanceDates : e \in Nat
      BY <1>1, BeginFacts
    <3>2. rebal \in Nat /\ d \in Nat /\ d > rebal
      BY <1>1, <1>4
    <3>3. \A e \in RebalanceDates : e > d => e > rebal
      BY <3>1, <3>2
    <3>. QED  BY <3>3 DEF Later
  <2>2. Later(rebal)' = { x \in RebalanceDates : x > d }
    BY <1>2, <1>9 DEF Later
  <2>3. RowsBefore'
    BY <1>1, <2>1, <2>2 DEF RowsBefore, ConvexityInv, RowsInv
  <2>4. AtTop' /\ InMonth'
    <3>1. si' # 0 /\ si' = n + 1 /\ Len(daily') = si' - 1
      BY <1>1, <1>5, <1>10
    <3>2. si' <= Len(stock') /\ stock'[si'].date = rebal'
      BY <1>1, <1>2, <1>4, <1>5, <1>10
    <3>. QED  BY <3>1, <3>2 DEF AtTop, InMonth
  <2>. QED  BY <1>1, <1>10, <2>3, <2>4 DEF RowsInv
<1>14. records = << >> => shares = First
  BY <1>1 DEF ConvexityInv, SharesInv
<1>15. records = << >> => n = 0
  <2>1. records = << >> => rebal = 0 /\ daily = << >>
    BY DEF ConvexityInv, MonthsInv
  <2>. QED  BY <2>1
<1>16. MonthsAddUp' /\ CarryInv'
  <2>1. records = << >> => shares * p = Capital * Unit
    <3>1. ASSUME records = << >> PROVE shares * p = Capital * Unit
      <4>1. p = stock[1].price
        BY <1>3, <1>15, <3>1
      <4>2. shares = Shares(Capital, p)
        BY <1>14, <3>1, <4>1 DEF First
      <4>. QED  BY <1>4, <4>2, SharesFacts, ConvexityAssumption
    <3>. QED  BY <3>1
  <2>. QED  BY <1>4, <1>5, <2>1, MonthsStep
<1>17. SharesInv'
  <2>1. ASSUME NEW k \in 1..m + 1, \A j \in 1..k : records'[j].cost = 0
        PROVE  records'[k].shares = First
    <3>1. CASE k \in 1..m
      <4>1. NoPutIn(k)
        BY <1>6, <2>1, <3>1 DEF NoPutIn
      <4>. QED  BY <1>6, <3>1, <4>1 DEF ConvexityInv, SharesInv
    <3>2. CASE k = m + 1
      <4>1. Cost(Opened(d)) = 0
        BY <1>6, <1>7, <2>1, <3>2
      <4>2. Cost(position) = 0 /\ shares = First
        <5>1. CASE records = << >>
          <6>1. position = << >> /\ position \in Seq(Puts) /\ Len(position) <= 1
            BY <1>1, <5>1 DEF ConvexityInv, CarryInv, ConvexityTypes
          <6>. QED  BY <1>14, <5>1, <6>1, CostFacts
        <5>2. CASE records # << >>
          <6>1. m \in 1..m
            BY <1>1, <1>6, <5>2 DEF ConvexityTypes
          <6>2. NoPutIn(m)
            BY <1>6, <2>1, <3>2 DEF NoPutIn
          <6>3. records[m].shares = First /\ records[m].cost = 0
            BY <1>6, <6>1, <6>2 DEF ConvexityInv, SharesInv, NoPutIn
          <6>. QED  BY <5>2, <6>3 DEF ConvexityInv, CarryInv
        <5>. QED  BY <5>1, <5>2
      <4>3. shares' = First
        BY <1>8, <4>1, <4>2
      <4>. QED  BY <1>6, <1>7, <3>2, <4>3
    <3>. QED  BY <1>6, <3>1, <3>2
  <2>2. records' # << >>
    BY <1>6
  <2>. QED  BY <1>6, <1>9, <2>1, <2>2 DEF SharesInv, NoPutIn
<1>18. CurveInv'
  <2>1. ASSUME NEW k \in 1..n PROVE \E j \in 1..m : ValuedBy(k, j)
    BY <1>6, <1>10 DEF ConvexityInv, CurveInv
  <2>2. ASSUME NEW k, NEW j \in 1..m, ValuedBy(k, j) PROVE ValuedBy(k, j)'
    BY <1>1, <1>6, <2>2 DEF ValuedBy, Month
  <2>3. \A j \in 1..m : j \in DOMAIN records'
    BY <1>6
  <2>. QED  BY <1>1, <1>10, <2>1, <2>2, <2>3 DEF CurveInv
<1>19. BoughtAsScored'
  BY <1>1, <1>4, <1>5, ScoredStep
<1>. QED  BY <1>11, <1>12, <1>13, <1>16, <1>17, <1>18, <1>19 DEF ConvexityInv

LEMMA RecordDayKeeps ==
  ASSUME ConvexityInv, RecordDay
  PROVE  ConvexityInv'
<1>. DEFINE n == Len(daily)
            m == Len(records)
            x == [date |-> stock[si].date, balance |-> shares * stock[si].price]
<1>1. /\ si # 0 /\ ~MonthOver
      /\ daily' = Append(daily, x) /\ si' = si + 1
      /\ UNCHANGED <<stock, puts, rebal, shares, position, records, done>>
  BY DEF RecordDay
<1>2. /\ FilesInv /\ rebal \in Nat /\ shares \in Int
      /\ n \in Nat /\ DOMAIN daily = 1..n
      /\ m \in Nat /\ DOMAIN records = 1..m
      /\ Len(stock) \in Nat /\ si \in 0..Len(stock) + 1
      /\ daily \in Seq(Balances) /\ done \in BOOLEAN
  BY Basics DEF ConvexityInv, ConvexityTypes
<1>3. /\ si \in 1..Len(stock) /\ \A e \in Later(rebal) : stock[si].date < e
  <2>1. si \in 1..Len(stock)
    BY <1>1, <1>2 DEF MonthOver
  <2>2. stock[si].date \in Nat /\ \A e \in Later(rebal) : e \in Nat
    BY <1>2, <2>1, FileFacts, LaterFacts
  <2>. QED  BY <1>1, <2>1, <2>2 DEF MonthOver
<1>4. stock[si].date \in Nat /\ stock[si].price \in Prices
  BY <1>2, <1>3, FileFacts
<1>5. /\ n = si - 1
      /\ \/ stock[si].date = rebal
         \/ si > 1 /\ stock[si - 1].date >= rebal /\ Month(stock[si - 1].date) = Month(rebal)
  BY <1>1 DEF ConvexityInv, RowsInv, InMonth
<1>6. stock[si].date >= rebal /\ Month(stock[si].date) = Month(rebal)
  <2>1. CASE stock[si].date = rebal
    BY <1>2, <2>1
  <2>2. CASE /\ si > 1 /\ stock[si - 1].date >= rebal
             /\ Month(stock[si - 1].date) = Month(rebal)
    <3>1. si - 1 \in 1..Len(stock) /\ si - 1 <= si /\ si # 1
      BY <1>3, <2>2
    <3>2. stock[si - 1].date \in Nat /\ stock[si - 1].date <= stock[si].date
      BY <1>2, <1>3, <3>1, FileFacts
    <3>3. stock[si].date >= rebal
      BY <1>2, <1>4, <2>2, <3>2
    <3>4. ASSUME Month(stock[si].date) # Month(rebal) PROVE FALSE
      <4>1. Begins(si)
        BY <2>2, <3>4 DEF Begins
      <4>2. stock[si].date \in RebalanceDates
        BY <1>2, <1>3, <4>1, FileFacts DEF RebalanceDates
      <4>3. stock[si].date > rebal
        BY <1>2, <1>4, <3>3, <3>4
      <4>4. stock[si].date \in Later(rebal)
        BY <4>2, <4>3 DEF Later
      <4>5. stock[si].date < stock[si].date
        BY <1>3, <4>4
      <4>. QED  BY <1>4, <4>5
    <3>. QED  BY <3>3, <3>4
  <2>. QED  BY <1>5, <2>1, <2>2
<1>7. x \in Balances
  <2>1. stock[si].price \in Int
    BY <1>4, RowFacts
  <2>2. shares * stock[si].price \in Int
    BY <1>2, <2>1
  <2>. QED  BY <1>4, <2>2 DEF Balances
<1>. HIDE DEF x
<1>8. /\ daily' \in Seq(Balances) /\ Len(daily') = n + 1
      /\ DOMAIN daily' = 1..n + 1
      /\ \A k \in 1..n : daily'[k] = daily[k]
      /\ daily'[n + 1] = x
  BY <1>1, <1>2, <1>7, AppendFacts
<1>9. /\ rebal # 0 /\ records # << >> /\ records[m].date = rebal /\ m \in 1..m
      /\ records[m].shares = shares
  <2>1. rebal # 0 /\ records # << >> /\ records[m].date = rebal
    BY <1>1 DEF ConvexityInv, MonthsInv
  <2>2. m \in 1..m
    BY <1>2, <2>1 DEF ConvexityInv, ConvexityTypes
  <2>. QED  BY <2>1, <2>2 DEF ConvexityInv, CarryInv
<1>10. ConvexityTypes'
  <2>1. si + 1 \in 0..Len(stock) + 1
    BY <1>3, <1>2
  <2>. QED  BY <1>1, <1>2, <1>8, <2>1, TypesStay
<1>11. MonthsInv'
  BY <1>1, <1>9, MonthsStay
<1>12. RowsInv'
  <2>1. Later(rebal)' = Later(rebal)
    BY <1>1, FilesStay DEF Later
  <2>2. RowsBefore'
    <3>1. \A k \in 1..n + 1, e \in Later(rebal) : stock[k].date < e
      <4>1. \A k \in 1..n, e \in Later(rebal) : stock[k].date < e
        BY DEF ConvexityInv, RowsInv, RowsBefore
      <4>2. \A k \in 1..n + 1 : k \in 1..n \/ k = si
        BY <1>2, <1>3, <1>5
      <4>. QED  BY <1>3, <4>1, <4>2
    <3>. QED  BY <1>1, <1>8, <2>1, <3>1 DEF RowsBefore
  <2>3. AtTop' /\ InMonth'
    <3>1. si' # 0 /\ si' > 1 /\ si' - 1 = si /\ Len(daily') = si' - 1
      BY <1>1, <1>3, <1>5, <1>8
    <3>2. stock'[si' - 1].date >= rebal' /\ Month(stock'[si' - 1].date) = Month(rebal')
      BY <1>1, <1>6, <3>1
    <3>. QED  BY <3>1, <3>2 DEF AtTop, InMonth, Month
  <2>4. ~ (done /\ Runs)
    BY <1>1 DEF ConvexityInv, RowsInv
  <2>5. Len(daily') <= Len(stock') /\ (Runs' <=> Runs)
    BY <1>1, <1>3, <1>5, <1>8, FilesStay
  <2>. QED  BY <1>1, <2>2, <2>3, <2>4, <2>5 DEF RowsInv
<1>13. CarryInv' /\ SharesInv' /\ MonthsAddUp' /\ BoughtAsScored'
  BY <1>1, TradesStay
<1>14. CurveInv'
  <2>1. ASSUME NEW k \in 1..n + 1 PROVE \E j \in 1..m : ValuedBy(k, j)'
    <3>1. CASE k \in 1..n
      <4>1. PICK j \in 1..m : ValuedBy(k, j)
        BY <1>2, <3>1 DEF ConvexityInv, CurveInv
      <4>. QED  BY <1>1, <1>8, <3>1, <4>1 DEF ValuedBy, Month
    <3>2. CASE k = n + 1
      <4>1. k = si
        BY <1>3, <1>5, <3>2
      <4>2. /\ Month(records[m].date) = Month(stock[k].date)
            /\ daily'[k] = [date |-> stock[k].date, balance |-> records[m].shares * stock[k].price]
        BY <1>6, <1>8, <1>9, <3>2, <4>1 DEF x
      <4>3. PICK j \in 1..m : j = m
        BY <1>9
      <4>4. ValuedBy(k, j)'
        BY <1>1, <4>2, <4>3 DEF ValuedBy, Month
      <4>. QED  BY <4>4
    <3>. QED  BY <1>2, <3>1, <3>2
  <2>. QED  BY <1>1, <1>2, <1>8, <2>1 DEF CurveInv
<1>. QED  BY <1>10, <1>11, <1>12, <1>13, <1>14 DEF ConvexityInv

LEMMA EndMonthKeeps ==
  ASSUME ConvexityInv, EndMonth
  PROVE  ConvexityInv'
<1>. DEFINE n == Len(daily)
<1>1. /\ si # 0 /\ MonthOver /\ si' = 0
      /\ UNCHANGED <<stock, puts, rebal, shares, position, records, daily, done>>
  BY DEF EndMonth
<1>2. /\ FilesInv /\ rebal \in Nat /\ n \in Nat /\ Len(stock) \in Nat
      /\ si \in 0..Len(stock) + 1 /\ daily \in Seq(Balances) /\ done \in BOOLEAN
      /\ n = si - 1 /\ n <= Len(stock)
  BY <1>1, Basics DEF ConvexityInv, ConvexityTypes, RowsInv, InMonth
<1>3. \A k \in 1..n, e \in Later(rebal) : stock[k].date < e
  BY DEF ConvexityInv, RowsInv, RowsBefore
<1>4. ASSUME NEW e \in Later(rebal)
      PROVE  /\ si <= Len(stock) /\ stock[si].date <= e /\ e \in Nat
             /\ stock[si].date \in Nat
  <2>1. PICK k \in 1..Len(stock) : stock[k].date = e
    BY <1>2, LaterFacts
  <2>2. e \in Nat
    BY <1>2, LaterFacts
  <2>3. ~ (k \in 1..n)
    <3>1. ASSUME k \in 1..n PROVE FALSE
      <4>1. e < e
        BY <1>3, <2>1, <3>1
      <4>. QED  BY <2>2, <4>1
    <3>. QED  BY <3>1
  <2>4. si <= k /\ si <= Len(stock) /\ si \in 1..Len(stock)
    BY <1>1, <1>2, <2>3
  <2>5. stock[si].date <= stock[k].date /\ stock[si].date \in Nat
    BY <1>2, <2>4, FileFacts
  <2>. QED  BY <2>1, <2>2, <2>4, <2>5
<1>5. \/ n = Len(stock) /\ Later(rebal) = {}
      \/ /\ n < Len(stock)
         /\ stock[n + 1].date \in Later(rebal)
         /\ \A e \in Later(rebal) : stock[n + 1].date <= e
  <2>1. CASE ~ (si <= Len(stock))
    <3>1. n = Len(stock)
      BY <1>2, <2>1
    <3>2. Later(rebal) = {}
      BY <1>2, <1>4, <2>1
    <3>. QED  BY <3>1, <3>2
  <2>2. CASE si <= Len(stock)
    <3>1. PICK e \in Later(rebal) : stock[si].date >= e
      BY <1>1, <2>2 DEF MonthOver
    <3>2. stock[si].date = e
      BY <1>4, <3>1
    <3>3. n + 1 = si /\ n < Len(stock)
      BY <1>2, <2>2
    <3>. QED  BY <1>4, <3>1, <3>2, <3>3
  <2>. QED  BY <2>1, <2>2
<1>6. Later(rebal)' = Later(rebal)
  BY <1>1, FilesStay DEF Later
<1>7. RowsInv'
  <2>1. RowsBefore'
    BY <1>1, <1>3, <1>6 DEF RowsBefore
  <2>2. AtTop' /\ InMonth'
    BY <1>1, <1>5, <1>6 DEF AtTop, InMonth
  <2>3. ~ (done /\ Runs) /\ (Runs' <=> Runs)
    BY <1>1, FilesStay DEF ConvexityInv, RowsInv
  <2>. QED  BY <1>1, <1>2, <2>1, <2>2, <2>3 DEF RowsInv
<1>8. ConvexityTypes'
  <2>1. 0 \in 0..Len(stock) + 1
    BY <1>2
  <2>. QED  BY <1>1, <1>2, <2>1, TypesStay
<1>9. MonthsInv'
  <2>1. rebal # 0
    BY <1>1 DEF ConvexityInv, MonthsInv
  <2>. QED  BY <1>1, <2>1, MonthsStay
<1>10. CarryInv' /\ SharesInv' /\ MonthsAddUp' /\ BoughtAsScored'
  BY <1>1, TradesStay
<1>11. CurveInv'
  BY <1>1, CurveStays
<1>. QED  BY <1>7, <1>8, <1>9, <1>10, <1>11 DEF ConvexityInv

LEMMA ReturnKeeps ==
  ASSUME ConvexityInv, Return \/ UNCHANGED vars
  PROVE  ConvexityInv'
<1>1. /\ UNCHANGED <<stock, puts, rebal, si, shares, position, records, daily>>
      /\ done' \in BOOLEAN
      /\ done' => done \/ (si = 0 /\ (Runs => Later(rebal) = {}))
  <2>1. done \in BOOLEAN
    BY DEF ConvexityInv, ConvexityTypes
  <2>2. CASE Return
    BY <2>2, Zenon DEF Return
  <2>3. CASE UNCHANGED vars
    <3>1. UNCHANGED <<stock, puts, rebal, si, shares, position, records, daily>>
      BY <2>3 DEF vars
    <3>2. done' = done
      BY <2>3 DEF vars
    <3>. QED  BY <2>1, <3>1, <3>2, Zenon
  <2>. QED  BY <2>2, <2>3
<1>2. /\ si \in 0..Len(stock) + 1 /\ daily \in Seq(Balances)
  BY DEF ConvexityInv, ConvexityTypes
<1>3. ConvexityTypes'
  BY <1>1, <1>2, TypesStay
<1>4. MonthsInv'
  BY <1>1, MonthsStay
<1>5. RowsInv'
  <2>1. Later(rebal)' = Later(rebal) /\ (Runs' <=> Runs)
    BY <1>1, FilesStay DEF Later
  <2>2. RowsBefore' /\ AtTop' /\ InMonth'
    BY <1>1, <2>1 DEF ConvexityInv, RowsInv, RowsBefore, AtTop, InMonth, Month
  <2>. QED  BY <1>1, <2>1, <2>2 DEF ConvexityInv, RowsInv
<1>6. CarryInv' /\ SharesInv' /\ MonthsAddUp' /\ BoughtAsScored'
  BY <1>1, TradesStay
<1>7. CurveInv'
  BY <1>1, CurveStays
<1>. QED  BY <1>3, <1>4, <1>5, <1>6, <1>7 DEF ConvexityInv

LEMMA InitConvexity ==
  ASSUME Init
  PROVE  ConvexityInv
<1>1. /\ FilesInv /\ rebal = 0 /\ si = 0 /\ position = << >>
      /\ records = << >> /\ daily = << >> /\ done = FALSE
      /\ shares = (IF Runs THEN Shares(Capital, FirstPrice) ELSE 0)
  BY DEF Init, FilesInv
<1>2. /\ Len(stock) \in Nat /\ DOMAIN stock = 1..Len(stock)
      /\ \A i, j \in 1..Len(stock) : i <= j => stock[i].date <= stock[j].date
      /\ \A k \in 1..Len(stock) : stock[k].date \in Nat /\ stock[k].date > 0
  BY <1>1, FileFacts
<1>3. Len(daily) = 0 /\ DOMAIN records = {} /\ DOMAIN daily = {}
  BY <1>1
<1>4. Runs => shares = First
  BY <1>1, FirstPriceFacts DEF First
<1>5. shares \in Int
  <2>1. ASSUME Runs PROVE First \in Int
    <3>1. stock[1].price \in Prices /\ Capital \in Int
      BY <1>1, <2>1, FirstPriceFacts, ConvexityAssumption
    <3>. QED  BY <3>1, SharesFacts DEF First
  <2>. QED  BY <1>1, <1>4, <2>1
<1>6. ConvexityTypes
  <2>1. 0 \in 0..Len(stock) + 1
    BY <1>2
  <2>2. position \in Seq(Puts) /\ records \in Seq(Months) /\ daily \in Seq(Balances)
    BY <1>1, EmptySeq
  <2>3. Len(position) <= 1
    BY <1>1
  <2>4. done \in BOOLEAN
    BY <1>1, Zenon
  <2>. QED  BY <1>1, <1>5, <2>1, <2>2, <2>3, <2>4 DEF ConvexityTypes
<1>7. RowsInv
  <2>1. AtTop
    <3>. SUFFICES ASSUME Runs
                  PROVE  /\ Len(daily) < Len(stock)
                         /\ stock[1].date \in Later(rebal)
                         /\ \A e \in Later(rebal) : stock[1].date <= e
      BY <1>3 DEF AtTop
    <3>1. 1 \in 1..Len(stock) /\ 1 \in DOMAIN stock
      BY <1>1, <1>2, FirstPriceFacts
    <3>2. stock[1].date \in RebalanceDates /\ stock[1].date > 0
      BY <1>2, <3>1 DEF RebalanceDates, Begins
    <3>3. \A e \in RebalanceDates : stock[1].date <= e
      <4>. SUFFICES ASSUME NEW e \in RebalanceDates PROVE stock[1].date <= e
        OBVIOUS
      <4>1. PICK k \in 1..Len(stock) : stock[k].date = e
        BY <1>1, BeginFacts
      <4>2. 1 <= k
        BY <4>1
      <4>. QED  BY <1>2, <3>1, <4>1, <4>2
    <3>. QED  BY <1>1, <1>2, <1>3, <3>1, <3>2, <3>3 DEF Later
  <2>. QED  BY <1>1, <1>2, <1>3, <2>1 DEF RowsInv, RowsBefore, InMonth
<1>8. MonthsInv /\ CarryInv /\ CurveInv /\ MonthsAddUp /\ BoughtAsScored
  BY <1>1, <1>3 DEF MonthsInv, CarryInv, CurveInv, MonthsAddUp, BoughtAsScored
<1>9. SharesInv
  BY <1>1, <1>3, <1>4 DEF SharesInv
<1>. QED  BY <1>6, <1>7, <1>8, <1>9 DEF ConvexityInv

LEMMA StepConvexity ==
  ASSUME ConvexityInv, [Next]_vars
  PROVE  ConvexityInv'
<1>1. CASE Rebalance
  BY <1>1, RebalanceKeeps
<1>2. CASE RecordDay
  BY <1>2, RecordDayKeeps
<1>3. CASE EndMonth
  BY <1>3, EndMonthKeeps
<1>4. CASE Return
  BY <1>4, ReturnKeeps
<1>5. CASE Rest \/ UNCHANGED vars
  BY <1>5, ReturnKeeps DEF Rest
<1>. QED  BY <1>1, <1>2, <1>3, <1>4, <1>5 DEF Next

-----------------------------------------------------------------------------
(* The results.                                                            *)

\* The inductive invariant of the two loops (convexity_backtest.rs): the rows
\* written are those before the next rebalance date, each valued by its own
\* month's one record; the last record is what the loop carries; the shares are
\* the first ones until a put is bought.
THEOREM ConvexityInvariant == Spec => []ConvexityInv
<1>1. Init => ConvexityInv
  BY InitConvexity
<1>2. ConvexityInv /\ [Next]_vars => ConvexityInv'
  BY StepConvexity
<1>. QED  BY <1>1, <1>2, PTL DEF Spec

\* Wealth is handed from month to month exactly, whichever way a month ends
\* without a put, for any stock and put files and any budget.
THEOREM MonthsHold == Spec => []MonthsAddUp
<1>1. ConvexityInv => MonthsAddUp
  BY DEF ConvexityInv
<1>. QED  BY <1>1, ConvexityInvariant, PTL

\* The curve that run_backtest returns has every row of the stock file once, in
\* order, at the shares of its own month's only record, and is that of
\* run_unhedged in every month that follows no bought put.
THEOREM CurveHolds == Spec => []CurveFollowsTheMonths
<1>. DEFINE Row(k, m) ==
       /\ \A n \in DOMAIN records : Month(records[n].date) = Month(stock[k].date) <=> n = m
       /\ daily[k] = [date |-> stock[k].date, balance |-> records[m].shares * stock[k].price]
       /\ (\A n \in 1..m : records[n].cost = 0) => daily[k] = Unhedged[k]
<1>1. ASSUME ConvexityInv, done, Runs
      PROVE  /\ Len(daily) = Len(stock)
             /\ \A k \in DOMAIN daily : \E m \in DOMAIN records : Row(k, m)
  <2>1. /\ FilesInv /\ Len(daily) \in Nat /\ DOMAIN daily = 1..Len(daily)
        /\ Len(stock) \in Nat /\ DOMAIN stock = 1..Len(stock) /\ Len(daily) <= Len(stock)
        /\ DOMAIN records = 1..Len(records)
    BY <1>1, Basics
  <2>2. Len(daily) = Len(stock)
    BY <1>1 DEF ConvexityInv, RowsInv, AtTop
  <2>3. ASSUME NEW k \in DOMAIN daily PROVE \E m \in DOMAIN records : Row(k, m)
    <3>1. PICK m \in DOMAIN records : ValuedBy(k, m)
      BY <1>1 DEF ConvexityInv, CurveInv
    <3>2. ASSUME NEW n \in DOMAIN records, Month(records[n].date) = Month(records[m].date)
          PROVE  n = m
      <4>1. /\ n < m => Month(records[n].date) < Month(records[m].date)
            /\ m < n => Month(records[m].date) < Month(records[n].date)
        BY <1>1 DEF ConvexityInv, MonthsInv
      <4>2. Month(records[m].date) \in Nat
        <5>1. records[m].date \in Nat /\ records[m].date > 0
          BY <1>1, RecordDates
        <5>. QED  BY <5>1, MonthMonotone
      <4>3. ~ (n < m) /\ ~ (m < n)
        <5>. DEFINE a == Month(records[m].date)
        <5>1. a \in Nat /\ Month(records[n].date) = a
          BY <3>2, <4>2
        <5>. HIDE DEF a
        <5>2. ~ (a < a)
          BY <5>1
        <5>. QED  BY <4>1, <5>1, <5>2 DEF a
      <4>. QED  BY <2>1, <4>3
    <3>3. k \in DOMAIN stock
      BY <2>1
    <3>4. ASSUME \A n \in 1..m : records[n].cost = 0 PROVE daily[k] = Unhedged[k]
      <4>1. records[m].shares = First
        BY <1>1, <3>4 DEF ConvexityInv, SharesInv, NoPutIn
      <4>. QED  BY <3>1, <3>3, <4>1 DEF ValuedBy, Unhedged, First
    <3>5. Row(k, m)
      BY <3>1, <3>2, <3>4 DEF ValuedBy
    <3>. QED  BY <3>5
  <2>. HIDE DEF Row
  <2>. QED  BY <2>2, <2>3
<1>2. ConvexityInv => CurveFollowsTheMonths
  BY <1>1, Zenon DEF CurveFollowsTheMonths
<1>. QED  BY <1>2, ConvexityInvariant, PTL

\* The monthly loop buys the put the daily scorer names for that date.  Both ask
\* find_target_put; they could differ in the chain and the date they ask about,
\* and in the months for which only one of them finds a put.
THEOREM ScoresAgree == Spec => []BoughtAsScored
<1>1. ConvexityInv => BoughtAsScored
  BY DEF ConvexityInv
<1>. QED  BY <1>1, ConvexityInvariant, PTL
=============================================================================
