--------------------------- MODULE BacktestProofs ---------------------------
(***************************************************************************)
(* Theorems about the backtest loop, in three parts.                       *)
(*   Types and entries: every variable stays in its domain, roll mode      *)
(*   holds at most one position, no contract is held twice, rolls heal.    *)
(*   Trades and money: the trade log and the live positions tell one       *)
(*   story, every phase of a date conserves wealth, cash is what the log   *)
(*   says and never overdrawn by a cash account, and entries stay within   *)
(*   the limits on delta and short notional.                               *)
(*   The balance sheet: a row marks the options as the trading phases do,  *)
(*   and either loop, the one that records live and the one that backfills *)
(*   a period at a time, implements the equity curve and completes it.     *)
(***************************************************************************)
EXTENDS BacktestProperties, TotalsProofs, FiniteSetTheorems, SequenceTheorems

-----------------------------------------------------------------------------
(* The pricing rules return integers: for every configuration, day and     *)
(* book of the declared types, whatever is quoted that day and whatever is *)
(* missing from it.                                                        *)

LEMMA SignInt ==
  ASSUME NEW dir  PROVE EntrySign(dir) \in Int
BY DEF EntrySign

LEMMA MagnitudeNat ==
  ASSUME NEW x \in Int
  PROVE  /\ Magnitude(x) \in Nat
         /\ x # 0 => Magnitude(x) > 0
BY DEF Magnitude

LEMMA QuoteFields ==
  ASSUME NEW quoted, IsDay(quoted), NEW c \in DOMAIN quoted.opts
  PROVE  /\ c \in Contracts
         /\ quoted.opts[c].bid \in Nat /\ quoted.opts[c].ask \in Nat
         /\ quoted.opts[c].delta \in Int
BY DEF IsDay, Partial, Quote

LEMMA TermFields ==
  ASSUME NEW c \in Contracts
  PROVE  Terms[c].strike \in Nat
BY ValuationAssumption

LEMMA NotionalInt ==
  ASSUME NEW c \in Contracts
  PROVE  Terms[c].strike * SPC \in Int
<1>. DEFINE strike == Terms[c].strike
<1>1. strike \in Int /\ SPC \in Int
  BY TermFields, ValuationAssumption
<1>. HIDE DEF strike
<1>2. strike * SPC \in Int
  BY <1>1
<1>. QED  BY <1>2 DEF strike

LEMMA LegCostInt ==
  ASSUME NEW quoted, IsDay(quoted), NEW leg, NEW c \in DOMAIN quoted.opts
  PROVE  LegCost(quoted, leg, c) \in Int
<1>. DEFINE sign == EntrySign(leg.dir)
            price == IF leg.dir = "buy" THEN quoted.opts[c].ask
                                        ELSE quoted.opts[c].bid
<1>1. sign \in Int /\ price \in Int /\ SPC \in Int
  BY SignInt, QuoteFields, ValuationAssumption
<1>. HIDE DEF sign, price
<1>2. sign * price * SPC \in Int
  BY <1>1
<1>. QED  BY <1>2 DEF LegCost, sign, price

LEMMA FillCostInt ==
  ASSUME NEW quoted, IsDay(quoted), NEW leg, NEW c \in DOMAIN quoted.opts, NEW model
  PROVE  FillCost(quoted, leg, c, model) \in Int
<1>. DEFINE sign == EntrySign(leg.dir)
            sum  == quoted.opts[c].bid + quoted.opts[c].ask
            half == SPC \div 2
<1>1. sign \in Int /\ sum \in Int /\ half \in Int
  BY SignInt, QuoteFields, ValuationAssumption
<1>. HIDE DEF sign, sum, half
<1>2. sign * (sum * half) \in Int
  BY <1>1
<1>. QED  BY <1>2, LegCostInt DEF FillCost, sign, sum, half

LEMMA IntrinsicNat ==
  ASSUME NEW c \in Contracts, NEW spot \in Nat
  PROVE  Intrinsic(c, spot) \in Nat
<1>1. Terms[c].strike \in Nat
  BY TermFields
<1>. QED  BY <1>1 DEF Intrinsic

LEMMA ExitPriceNat ==
  ASSUME NEW quoted, IsDay(quoted), NEW dir, NEW c \in Contracts
  PROVE  ExitPrice(quoted, dir, c) \in Nat
<1>1. CASE c \in DOMAIN quoted.opts
  BY <1>1, QuoteFields DEF ExitPrice
<1>2. CASE c \notin DOMAIN quoted.opts
  <2>1. quoted.spot \in Nat
    BY DEF IsDay
  <2>. QED  BY <1>2, <2>1, IntrinsicNat DEF ExitPrice
<1>. QED  BY <1>1, <1>2

\* legs is a strategy and p a position in it.
PositionOf(legs, p) ==
  /\ Len(legs) \in Nat
  /\ p.contract \in [1..Len(legs) -> Contracts]
  /\ p.qty \in Int

LEMMA PositionExitCostInt ==
  ASSUME NEW quoted, IsDay(quoted), NEW legs, NEW p, PositionOf(legs, p)
  PROVE  PositionExitCost(quoted, legs, p) \in Int
<1>. DEFINE n == Len(legs)
            f == [j \in 1..n |-> -EntrySign(legs[j].dir)
                    * ExitPrice(quoted, legs[j].dir, p.contract[j]) * SPC]
<1>1. n \in Nat /\ p.contract \in [1..n -> Contracts]
  BY DEF PositionOf
<1>2. ASSUME NEW j \in 1..n PROVE f[j] \in Int
  <2>. DEFINE sign == EntrySign(legs[j].dir)
              price == ExitPrice(quoted, legs[j].dir, p.contract[j])
  <2>1. sign \in Int /\ price \in Int /\ SPC \in Int
    BY <1>1, SignInt, ExitPriceNat, ValuationAssumption
  <2>2. f[j] = -sign * price * SPC
    OBVIOUS
  <2>. HIDE DEF sign, price, f
  <2>. QED  BY <2>1, <2>2
<1>3. Total(f, n) \in Int
  <2>. HIDE DEF f
  <2>. QED  BY <1>1, <1>2, TotalInt
<1>. QED  BY <1>3 DEF PositionExitCost

LEMMA PositionCapitalInt ==
  ASSUME NEW quoted, IsDay(quoted), NEW legs, NEW p, PositionOf(legs, p), NEW type
  PROVE  PositionCapital(quoted, legs, p, type) \in Int
<1>. DEFINE n == Len(legs)
            D == {i \in 1..n : Terms[p.contract[i]].type = type}
            f == [j \in D |-> EntrySign(legs[j].dir)
                    * ExitPrice(quoted, legs[j].dir, p.contract[j]) * p.qty * SPC]
<1>1. n \in Nat /\ p.contract \in [1..n -> Contracts] /\ p.qty \in Int
  BY DEF PositionOf
<1>2. ASSUME NEW j \in D PROVE f[j] \in Int
  <2>. DEFINE sign == EntrySign(legs[j].dir)
              price == ExitPrice(quoted, legs[j].dir, p.contract[j])
  <2>0. j \in 1..n
    OBVIOUS
  <2>1. sign \in Int /\ price \in Int /\ SPC \in Int
    <3>1. p.contract[j] \in Contracts
      BY <1>1, <2>0
    <3>2. price \in Nat
      BY <3>1, ExitPriceNat
    <3>3. sign \in Int
      BY SignInt
    <3>. HIDE DEF sign, price
    <3>. QED  BY <3>2, <3>3, ValuationAssumption
  <2>2. f[j] = sign * price * p.qty * SPC
    OBVIOUS
  <2>. HIDE DEF sign, price, f
  <2>. QED  BY <1>1, <2>1, <2>2
<1>3. DOMAIN f = D
  OBVIOUS
<1>4. Total(f, n) \in Int
  <2>. HIDE DEF f, D
  <2>. QED  BY <1>1, <1>2, <1>3, TotalInt
<1>. QED  BY <1>4 DEF PositionCapital

\* kept is a book of positions in legs, keyed by the attempts 1..n.
BookOf(legs, kept, n) ==
  n \in Nat /\ \A i \in DOMAIN kept : PositionOf(legs, kept[i])

LEMMA OptionsCapitalInt ==
  ASSUME NEW quoted, IsDay(quoted), NEW legs, NEW kept, NEW n,
         BookOf(legs, kept, n)
  PROVE  OptionsCapital(quoted, legs, kept, n) \in Int
<1>. DEFINE f == [i \in DOMAIN kept |->
                    -PositionExitCost(quoted, legs, kept[i]) * kept[i].qty]
<1>1. ASSUME NEW i \in DOMAIN kept PROVE f[i] \in Int
  <2>. DEFINE cost == PositionExitCost(quoted, legs, kept[i])
  <2>1. PositionOf(legs, kept[i])
    BY DEF BookOf
  <2>2. cost \in Int
    BY <2>1, PositionExitCostInt
  <2>3. kept[i].qty \in Int
    BY <2>1 DEF PositionOf
  <2>4. f[i] = -cost * kept[i].qty
    OBVIOUS
  <2>. HIDE DEF cost, f
  <2>. QED  BY <2>2, <2>3, <2>4
<1>2. DOMAIN f = DOMAIN kept
  OBVIOUS
<1>3. Total(f, n) \in Int
  <2>. HIDE DEF f
  <2>. QED  BY <1>1, <1>2, TotalInt DEF BookOf
<1>. QED  BY <1>3 DEF OptionsCapital

LEMMA PositionDeltaInt ==
  ASSUME NEW quoted, IsDay(quoted), NEW legs, NEW p, PositionOf(legs, p)
  PROVE  Total([j \in {l \in 1..Len(legs) : p.contract[l] \in DOMAIN quoted.opts} |->
                  quoted.opts[p.contract[j]].delta * EntrySign(legs[j].dir) * p.qty],
               Len(legs)) \in Int
<1>. DEFINE n == Len(legs)
            D == {l \in 1..n : p.contract[l] \in DOMAIN quoted.opts}
            f == [j \in D |-> quoted.opts[p.contract[j]].delta
                                * EntrySign(legs[j].dir) * p.qty]
<1>1. n \in Nat /\ p.qty \in Int
  BY DEF PositionOf
<1>2. ASSUME NEW j \in D PROVE f[j] \in Int
  <2>. DEFINE sign  == EntrySign(legs[j].dir)
              delta == quoted.opts[p.contract[j]].delta
  <2>1. p.contract[j] \in DOMAIN quoted.opts
    OBVIOUS
  <2>2. sign \in Int /\ delta \in Int
    BY <2>1, SignInt, QuoteFields
  <2>3. f[j] = delta * sign * p.qty
    OBVIOUS
  <2>. HIDE DEF sign, delta, f
  <2>. QED  BY <1>1, <2>2, <2>3
<1>3. DOMAIN f = D
  OBVIOUS
<1>. HIDE DEF f, D
<1>4. Total(f, n) \in Int
  BY <1>1, <1>2, <1>3, TotalInt
<1>. QED  BY <1>4 DEF f, D

LEMMA MarketDeltaInt ==
  ASSUME NEW quoted, IsDay(quoted), NEW legs, NEW kept, NEW n,
         BookOf(legs, kept, n)
  PROVE  MarketDelta(quoted, legs, kept, n) \in Int
<1>. DEFINE delta(p) ==
       Total([j \in {l \in 1..Len(legs) : p.contract[l] \in DOMAIN quoted.opts} |->
                quoted.opts[p.contract[j]].delta * EntrySign(legs[j].dir) * p.qty],
             Len(legs))
            f == [i \in DOMAIN kept |-> delta(kept[i])]
<1>1. \A i \in DOMAIN kept : delta(kept[i]) \in Int
  <2>1. \A i \in DOMAIN kept : PositionOf(legs, kept[i])
    BY DEF BookOf
  <2>. QED  BY <2>1, PositionDeltaInt
<1>2. MarketDelta(quoted, legs, kept, n) = Total(f, n)
  BY Zenon DEF MarketDelta
<1>. HIDE DEF delta
<1>3. DOMAIN f = DOMAIN kept /\ \A i \in DOMAIN f : f[i] \in Int
  BY <1>1
<1>. HIDE DEF f
<1>4. Total(f, n) \in Int
  BY <1>3, TotalInt DEF BookOf
<1>. QED  BY <1>2, <1>4

\* lots is keyed by the places 1..n of the symbols.
HoldingsOf(lots, n) ==
  /\ n \in Nat
  /\ \A s \in DOMAIN lots : lots[s].qty \in Int /\ lots[s].price \in Nat

LEMMA MarkPriceNat ==
  ASSUME NEW quoted, IsDay(quoted), NEW lots, NEW n, HoldingsOf(lots, n),
         NEW s \in DOMAIN lots
  PROVE  MarkPrice(quoted, lots, s) \in Nat
BY DEF MarkPrice, IsDay, Partial, HoldingsOf

LEMMA StockCapitalInt ==
  ASSUME NEW quoted, IsDay(quoted), NEW lots, NEW n, HoldingsOf(lots, n)
  PROVE  StockCapital(quoted, lots, n) \in Int
<1>. DEFINE price(s) == IF s \in DOMAIN quoted.prices THEN quoted.prices[s] ELSE 0
            f == [s \in DOMAIN lots |-> price(s) * lots[s].qty]
<1>1. ASSUME NEW s \in DOMAIN lots PROVE f[s] \in Int
  <2>1. price(s) \in Int
    BY DEF IsDay, Partial
  <2>2. lots[s].qty \in Int
    BY DEF HoldingsOf
  <2>. HIDE DEF price
  <2>. QED  BY <2>1, <2>2
<1>2. DOMAIN f = DOMAIN lots
  OBVIOUS
<1>3. Total(f, n) \in Int
  <2>. HIDE DEF f
  <2>. QED  BY <1>1, <1>2, TotalInt DEF HoldingsOf
<1>. QED  BY <1>3 DEF StockCapital

\* order is what StockOrder returns: what to hold, and at which price.
LEMMA StockOrderType ==
  ASSUME NEW quoted, IsDay(quoted), NEW alloc \in Int,
         NEW weights \in Seq(Nat)
  PROVE  LET order == StockOrder(quoted, alloc, weights)
         IN  /\ DOMAIN order \subseteq 1..Len(weights)
             /\ order \in [DOMAIN order -> [qty : Int, price : Nat]]
<1>. DEFINE D == {i \in 1..Len(weights) :
                    i \in DOMAIN quoted.prices /\ quoted.prices[i] > 0}
            qty(s) == IF s \in quoted.gated THEN 0
                      ELSE (alloc * weights[s]) \div (DEN * DEN * quoted.prices[s])
            lot(s) == [qty |-> qty(s), price |-> quoted.prices[s]]
<1>1. ASSUME NEW s \in D PROVE lot(s) \in [qty : Int, price : Nat]
  <2>1. quoted.prices[s] \in Nat \ {0}
    BY DEF IsDay, Partial
  <2>2. weights[s] \in Nat
    OBVIOUS
  <2>3. alloc * weights[s] \in Int
    BY <2>2
  <2>4. DEN * DEN * quoted.prices[s] \in Nat \ {0}
    <3>1. DEN \in Nat /\ DEN > 0
      BY ValuationAssumption
    <3>2. DEN * DEN \in Nat /\ DEN * DEN > 0
      BY <3>1
    <3>. DEFINE square == DEN * DEN
                price  == quoted.prices[s]
    <3>3. square \in Nat /\ square > 0 /\ price \in Nat /\ price > 0
      BY <3>2, <2>1
    <3>. HIDE DEF square, price
    <3>4. square * price \in Nat /\ square * price > 0
      BY <3>3
    <3>. QED  BY <3>4 DEF square, price
  <2>5. qty(s) \in Int
    <3>. DEFINE num == alloc * weights[s]
                den == DEN * DEN * quoted.prices[s]
    <3>1. num \in Int /\ den \in Nat \ {0}
      BY <2>3, <2>4
    <3>. HIDE DEF num, den
    <3>2. num \div den \in Int
      BY <3>1
    <3>. QED  BY <3>2 DEF num, den
  <2>. HIDE DEF qty
  <2>. QED  BY <2>1, <2>5
<1>2. StockOrder(quoted, alloc, weights) = [s \in D |-> lot(s)]
  BY Zenon DEF StockOrder
<1>3. D \subseteq 1..Len(weights)
  OBVIOUS
<1>. HIDE DEF D, lot
<1>. QED  BY <1>1, <1>2, <1>3

LEMMA CommissionInt ==
  ASSUME NEW rate \in Nat, NEW qty \in Int
  PROVE  Commission(rate, qty) \in Int
BY MagnitudeNat DEF Commission

LEMMA StockCostInt ==
  ASSUME NEW order, NEW n \in Nat, NEW rate \in Nat,
         order \in [DOMAIN order -> [qty : Int, price : Nat]]
  PROVE  /\ StockCost(order, n) \in Int
         /\ StockCommission(rate, order, n) \in Int
<1>. DEFINE f == [s \in DOMAIN order |-> order[s].qty * order[s].price]
            g == [s \in DOMAIN order |-> Commission(rate, order[s].qty)]
<1>1. \A s \in DOMAIN order : order[s].qty \in Int /\ order[s].price \in Int
  OBVIOUS
<1>2. \A s \in DOMAIN f : f[s] \in Int
  BY <1>1
<1>3. \A s \in DOMAIN g : g[s] \in Int
  BY <1>1, CommissionInt
<1>. HIDE DEF f, g
<1>4. Total(f, n) \in Int /\ Total(g, n) \in Int
  BY <1>2, <1>3, TotalInt
<1>. QED  BY <1>4 DEF StockCost, StockCommission, f, g

-----------------------------------------------------------------------------
(* Extremes of finite sets of integers.                                    *)

LEMMA MinOf ==
  ASSUME NEW S \in SUBSET Nat, S # {}
  PROVE  Min(S) \in S /\ \A x \in S : Min(S) <= x
<1>1. \E m \in S : \A x \in S : m <= x
  BY LeastNatural
<1>. QED  BY <1>1 DEF Min

LEMMA MaxOf ==
  ASSUME NEW n \in Nat, NEW S \in SUBSET (0..n), S # {}
  PROVE  Max(S) \in S /\ \A x \in S : Max(S) >= x
<1>. DEFINE T == {n - x : x \in S}
<1>1. T \in SUBSET Nat /\ T # {}
  <2>1. PICK x \in S : TRUE
    OBVIOUS
  <2>2. n - x \in T
    BY <2>1
  <2>. QED  BY <2>2
<1>2. PICK t \in T : \A y \in T : t <= y
  BY <1>1, LeastNatural
<1>3. PICK m \in S : t = n - m
  BY <1>2
<1>4. ASSUME NEW x \in S PROVE m >= x
  <2>1. t <= n - x
    BY <1>2
  <2>. QED  BY <2>1, <1>3
<1>5. \E x \in S : \A y \in S : x >= y
  BY <1>3, <1>4
<1>. QED  BY <1>5 DEF Max

LEMMA PairExtremes ==
  ASSUME NEW a \in Int, NEW b \in Int
  PROVE  /\ Max({a, b}) \in {a, b} /\ Max({a, b}) >= a /\ Max({a, b}) >= b
         /\ Min({a, b}) \in {a, b} /\ Min({a, b}) <= a /\ Min({a, b}) <= b
<1>1. \E x \in {a, b} : \A y \in {a, b} : x >= y
  OBVIOUS
<1>2. \E x \in {a, b} : \A y \in {a, b} : x <= y
  OBVIOUS
<1>3. Max({a, b}) \in {a, b} /\ \A y \in {a, b} : Max({a, b}) >= y
  BY <1>1 DEF Max
<1>4. Min({a, b}) \in {a, b} /\ \A y \in {a, b} : Min({a, b}) <= y
  BY <1>2 DEF Min
<1>. QED  BY <1>3, <1>4

-----------------------------------------------------------------------------
(* What the types give the actions.                                        *)

LEMMA ConfigFacts ==
  ASSUME InputsOK
  PROVE  /\ cfg.rbDates \in SUBSET Dates
         /\ cfg.legs \in Seq(Leg) /\ Len(cfg.legs) \in Nat
         /\ cfg.weights \in Seq(Nat) /\ Len(cfg.weights) \in Nat
         /\ cfg.budget.num \in Nat /\ cfg.stockShare \in Nat
         /\ cfg.optionRate \in Nat /\ cfg.stockRate \in Nat
         /\ cfg.capital \in Nat
         /\ cfg.maxNotional \in Limit
<1>1. cfg \in Config
  BY BacktestAssumption DEF InputsOK
<1>. QED  BY <1>1 DEF Config

LEMMA MarketFacts ==
  ASSUME InputsOK
  PROVE  /\ \A d \in Dates : IsDay(mkt[d])
         /\ QuotedDates \in SUBSET Dates /\ QuotedDates # {}
BY BacktestAssumption DEF InputsOK, QuotedDates

LEMMA DateFacts ==
  /\ Horizon \in Nat
  /\ Dates \subseteq Nat /\ Dates \subseteq 0..Horizon
BY BacktestAssumption DEF Dates

LEMMA DateNumber == \A d \in Dates : d \in Nat /\ d \in Int /\ d > 0 /\ d <= Horizon
BY BacktestAssumption DEF Dates

LEMMA BookFacts ==
  ASSUME InputsOK, BookOK, CountersOK
  PROVE  /\ BookOf(cfg.legs, positions, attempts)
         /\ HoldingsOf(holdings, Len(cfg.weights))
         /\ \A p \in DOMAIN positions :
              /\ p \in 1..attempts
              /\ positions[p] \in Position
              /\ positions[p].entryCost \in Int
              /\ positions[p].qty \in Nat \ {0}
              /\ positions[p].contract \in [Legs -> Contracts]
<1>1. Len(cfg.legs) \in Nat /\ Len(cfg.weights) \in Nat
  BY ConfigFacts
<1>2. \A p \in DOMAIN positions : positions[p] \in Position /\ p \in 1..attempts
  BY DEF BookOK, Partial
<1>3. \A p \in DOMAIN positions :
        /\ positions[p].entryCost \in Int
        /\ positions[p].qty \in Nat \ {0}
        /\ positions[p].contract \in [Legs -> Contracts]
  BY <1>2 DEF Position
<1>4. BookOf(cfg.legs, positions, attempts)
  BY <1>1, <1>3 DEF BookOf, PositionOf, Legs, CountersOK
<1>5. HoldingsOf(holdings, Len(cfg.weights))
  BY <1>1 DEF HoldingsOf, BookOK, Partial, Holding
<1>. QED  BY <1>2, <1>3, <1>4, <1>5

LEMMA CapitalInt ==
  ASSUME InputsOK, BookOK, CountersOK, day \in Dates
  PROVE  /\ StockCap \in Int
         /\ OptionsCap \in Int
         /\ MarketDelta(today, cfg.legs, positions, attempts) \in Int
         /\ \A p \in DOMAIN positions : ExitCost(p) \in Int
<1>1. IsDay(today)
  BY MarketFacts DEF today
<1>2. /\ BookOf(cfg.legs, positions, attempts)
      /\ HoldingsOf(holdings, Len(cfg.weights))
  BY BookFacts
<1>3. StockCap \in Int
  BY <1>1, <1>2, StockCapitalInt DEF StockCap
<1>4. OptionsCap \in Int
  BY <1>1, <1>2, OptionsCapitalInt DEF OptionsCap
<1>5. MarketDelta(today, cfg.legs, positions, attempts) \in Int
  BY <1>1, <1>2, MarketDeltaInt
<1>6. ASSUME NEW p \in DOMAIN positions PROVE ExitCost(p) \in Int
  <2>1. PositionOf(cfg.legs, positions[p])
    BY <1>2 DEF BookOf
  <2>. QED  BY <1>1, <2>1, PositionExitCostInt DEF ExitCost
<1>. QED  BY <1>3, <1>4, <1>5, <1>6

-----------------------------------------------------------------------------
(* The inductive invariant: types, and what makes the phases well defined. *)

\* A run without rebalance dates is over from the start, and every phase of a
\* date runs on a date of the calendar.
Located ==
  /\ pc # "done" => cfg.rbDates # {}
  /\ pc \notin {"advance", "finish", "tail", "done"} => day # 0

TypeInv == TypeOK /\ Located

LEMMA PartsStable ==
  ASSUME UNCHANGED inputs
  PROVE  /\ InputsOK => InputsOK'
         /\ BookOK /\ UNCHANGED <<book, attempts>> => BookOK'
         /\ MarksOK /\ UNCHANGED marks => MarksOK'
         /\ CountersOK /\ UNCHANGED counters => CountersOK'
         /\ LogsOK /\ UNCHANGED <<logs, attempts>> => LogsOK'
<1>1. InputsOK => InputsOK'
  BY DEF inputs, InputsOK
<1>2. BookOK /\ UNCHANGED <<book, attempts>> => BookOK'
  BY DEF inputs, book, BookOK, Partial, Position, Holding, Symbols, Legs
<1>3. MarksOK /\ UNCHANGED marks => MarksOK'
  BY DEF marks, MarksOK
<1>4. CountersOK /\ UNCHANGED counters => CountersOK'
  BY DEF counters, CountersOK
<1>5. LogsOK /\ UNCHANGED <<logs, attempts>> => LogsOK'
  BY DEF inputs, logs, LogsOK, Trade, Row, Lot, Symbols, Legs
<1>. QED  BY <1>1, <1>2, <1>3, <1>4, <1>5

LEMMA DayIsDate ==
  ASSUME ControlOK, day # 0
  PROVE  day \in Dates
BY DateFacts DEF ControlOK, Dates

-----------------------------------------------------------------------------
(* Balance rows.                                                           *)

LEMMA SideCapitalInt ==
  ASSUME InputsOK, BookOK, CountersOK, NEW d \in Dates, NEW type
  PROVE  SideCapital(d, type) \in Int
<1>. DEFINE f == [p \in DOMAIN positions |->
                    PositionCapital(mkt[d], cfg.legs, positions[p], type)]
<1>1. IsDay(mkt[d]) /\ BookOf(cfg.legs, positions, attempts)
  BY MarketFacts, BookFacts
<1>2. \A p \in DOMAIN positions : f[p] \in Int
  BY <1>1, PositionCapitalInt DEF BookOf
<1>3. DOMAIN f = DOMAIN positions
  OBVIOUS
<1>. HIDE DEF f
<1>4. Total(f, attempts) \in Int
  BY <1>2, <1>3, TotalInt DEF CountersOK
<1>. QED  BY <1>4 DEF SideCapital, f

LEMMA LotsType ==
  ASSUME InputsOK, BookOK, CountersOK, NEW d \in Dates
  PROVE  Lots(d) \in [Symbols -> Lot \cup {None}]
<1>. DEFINE lot(s) == [qty   |-> holdings[s].qty,
                       value |-> MarkPrice(mkt[d], holdings, s) * holdings[s].qty]
<1>1. IsDay(mkt[d]) /\ HoldingsOf(holdings, Len(cfg.weights))
  BY MarketFacts, BookFacts
<1>2. ASSUME NEW s \in DOMAIN holdings PROVE lot(s) \in Lot
  <2>1. holdings[s].qty \in Int
    BY <1>1 DEF HoldingsOf
  <2>2. MarkPrice(mkt[d], holdings, s) \in Int
    BY <1>1, MarkPriceNat
  <2>3. MarkPrice(mkt[d], holdings, s) * holdings[s].qty \in Int
    BY <2>1, <2>2
  <2>. QED  BY <2>1, <2>3 DEF Lot
<1>. HIDE DEF lot
<1>3. Lots(d) = [s \in Symbols |-> IF s \in DOMAIN holdings THEN lot(s) ELSE None]
  BY Zenon DEF Lots, lot
<1>. QED  BY <1>2, <1>3

LEMMA OptionsQtyInt ==
  ASSUME InputsOK, BookOK, CountersOK
  PROVE  Total([p \in DOMAIN positions |-> positions[p].qty], attempts) \in Int
<1>. DEFINE f == [p \in DOMAIN positions |-> positions[p].qty]
<1>1. \A p \in DOMAIN f : f[p] \in Int
  BY BookFacts
<1>. HIDE DEF f
<1>2. Total(f, attempts) \in Int
  BY <1>1, TotalInt DEF CountersOK
<1>. QED  BY <1>2 DEF f

LEMMA BalanceDayType ==
  ASSUME InputsOK, BookOK, CountersOK, NEW d \in Dates
  PROVE  BalanceDay(d) \in Row
BY SideCapitalInt, LotsType, OptionsQtyInt DEF BalanceDay, Row, BookOK

\* One more row keeps the logs well typed.
LEMMA AppendRowType ==
  ASSUME InputsOK, BookOK, CountersOK, LogsOK, NEW d \in Dates,
         UNCHANGED <<inputs, attempts, trades>>,
         balance' = Append(balance, BalanceDay(d))
  PROVE  LogsOK'
<1>1. BalanceDay(d) \in Row
  BY BalanceDayType
<1>2. balance' \in Seq(Row)
  BY <1>1 DEF LogsOK
<1>3. Row' = Row /\ Trade' = Trade
  BY DEF inputs, Row, Lot, Trade, Symbols, Legs
<1>. QED  BY <1>2, <1>3 DEF LogsOK

-----------------------------------------------------------------------------
(* Every action keeps TypeInv.                                             *)

LEMMA BackfillRowType ==
  ASSUME TypeInv, BackfillRow, UNCHANGED inputs
  PROVE  TypeInv'
<1>. USE DEF BackfillRow
<1>1. Pending \in SUBSET Dates /\ Pending \in SUBSET Nat
  BY MarketFacts, DateFacts DEF TypeInv, TypeOK, Pending
<1>2. Min(Pending) \in Dates
  BY <1>1, MinOf
<1>3. ControlOK'
  BY <1>2, DateFacts DEF TypeInv, TypeOK, ControlOK, Dates
<1>4. LogsOK'
  BY <1>2, AppendRowType DEF TypeInv, TypeOK, counters
<1>5. InputsOK' /\ BookOK' /\ MarksOK' /\ CountersOK'
  BY PartsStable DEF TypeInv, TypeOK, counters
<1>6. Located'
  BY DEF TypeInv, Located, inputs
<1>. QED  BY <1>3, <1>4, <1>5, <1>6 DEF TypeInv, TypeOK

\* The actions that only move the loop.
LEMMA MovesType ==
  ASSUME TypeInv, UNCHANGED <<inputs, book, marks, counters, logs>>,
         ControlOK', Located'
  PROVE  TypeInv'
BY PartsStable DEF TypeInv, TypeOK, counters

LEMMA BackfillDoneType ==
  ASSUME TypeInv, BackfillDone, UNCHANGED inputs
  PROVE  TypeInv'
<1>1. ControlOK'
  BY DEF TypeInv, TypeOK, ControlOK, BackfillDone, Phases
<1>2. Located'
  <2>1. CASE pc = "tail"
    BY <2>1 DEF TypeInv, Located, BackfillDone, inputs
  <2>2. CASE pc = "backfill"
    BY <2>2 DEF TypeInv, Located, BackfillDone, inputs
  <2>. QED  BY <2>1, <2>2 DEF BackfillDone
<1>. QED  BY <1>1, <1>2, MovesType DEF BackfillDone

LEMMA NextDateType ==
  ASSUME TypeInv, NextDate, UNCHANGED inputs
  PROVE  TypeInv'
<1>. DEFINE later == {d \in WalkedDates : d > day}
<1>1. later \in SUBSET Nat /\ later \in SUBSET Dates /\ later # {} /\ day' = Min(later)
  BY MarketFacts, ConfigFacts, DateFacts DEF TypeInv, TypeOK, WalkedDates, NextDate
<1>2. day' \in Dates
  BY <1>1, MinOf
<1>3. day' \in 0..Horizon /\ day' # 0
  BY <1>2, DateFacts DEF Dates
<1>4. ControlOK'
  BY <1>3 DEF TypeInv, TypeOK, ControlOK, NextDate, Phases
<1>5. Located'
  BY <1>3 DEF TypeInv, Located, NextDate, inputs
<1>. QED  BY <1>4, <1>5, MovesType DEF NextDate

LEMMA EndOfDatesType ==
  ASSUME TypeInv, EndOfDates, UNCHANGED inputs
  PROVE  TypeInv'
<1>1. ControlOK' /\ Located'
  BY DEF TypeInv, TypeOK, ControlOK, Located, EndOfDates, Phases, inputs
<1>. QED  BY <1>1, MovesType DEF EndOfDates

LEMMA BeginRebalanceType ==
  ASSUME TypeInv, BeginRebalance, UNCHANGED inputs
  PROVE  TypeInv'
<1>1. PrevRb \in 0..Horizon
  <2>. DEFINE earlier == {d \in cfg.rbDates : d < day}
  <2>1. earlier \in SUBSET (0..Horizon)
    BY ConfigFacts, DateFacts DEF TypeInv, TypeOK
  <2>2. earlier # {} => Max(earlier) \in 0..Horizon
    BY <2>1, MaxOf, DateFacts
  <2>. QED  BY <2>2 DEF PrevRb, TypeInv, TypeOK, ControlOK
<1>2. ControlOK'
  BY <1>1, DateFacts DEF TypeInv, TypeOK, ControlOK, BeginRebalance, Phases
<1>3. Located'
  BY DEF TypeInv, Located, BeginRebalance, inputs
<1>. QED  BY <1>2, <1>3, MovesType DEF BeginRebalance

LEMMA BeginOrdinaryDayType ==
  ASSUME TypeInv, BeginOrdinaryDay, UNCHANGED inputs
  PROVE  TypeInv'
<1>1. ControlOK' /\ Located'
  BY DEF TypeInv, TypeOK, ControlOK, Located, BeginOrdinaryDay, Phases, inputs
<1>2. MarksOK'
  BY DEF TypeInv, TypeOK, MarksOK, BookOK, BeginOrdinaryDay
<1>3. InputsOK' /\ BookOK' /\ CountersOK' /\ LogsOK'
  BY PartsStable DEF TypeInv, TypeOK, counters, BeginOrdinaryDay
<1>. QED  BY <1>1, <1>2, <1>3 DEF TypeInv, TypeOK

LEMMA RecordDayType ==
  ASSUME TypeInv, RecordDay, UNCHANGED inputs
  PROVE  TypeInv'
<1>1. ControlOK' /\ Located'
  BY DEF TypeInv, TypeOK, ControlOK, Located, RecordDay, Phases, inputs
<1>2. LogsOK'
  <2>1. day \in Dates
    BY DayIsDate DEF TypeInv, TypeOK, Located, RecordDay
  <2>2. CASE balance' = Append(balance, BalanceDay(day))
    BY <2>1, <2>2, AppendRowType DEF TypeInv, TypeOK, counters, RecordDay
  <2>3. CASE balance' = balance
    BY <2>3, PartsStable DEF TypeInv, TypeOK, counters, logs, RecordDay
  <2>. QED  BY <2>2, <2>3 DEF RecordDay
<1>3. InputsOK' /\ BookOK' /\ MarksOK' /\ CountersOK'
  BY PartsStable DEF TypeInv, TypeOK, counters, RecordDay
<1>. QED  BY <1>1, <1>2, <1>3 DEF TypeInv, TypeOK

LEMMA FinishType ==
  ASSUME TypeInv, Finish, UNCHANGED inputs
  PROVE  TypeInv'
<1>1. Max(cfg.rbDates) \in 0..Horizon
  <2>1. cfg.rbDates \in SUBSET (0..Horizon) /\ cfg.rbDates # {}
    BY ConfigFacts, DateFacts DEF TypeInv, TypeOK, Located, Finish
  <2>. QED  BY <2>1, MaxOf, DateFacts
<1>2. ControlOK'
  BY <1>1, DateFacts DEF TypeInv, TypeOK, ControlOK, Finish, Phases
<1>3. Located'
  BY DEF TypeInv, Located, Finish, inputs
<1>. QED  BY <1>2, <1>3, MovesType DEF Finish

LEMMA CloseFlowInt ==
  ASSUME InputsOK, BookOK, CountersOK, day \in Dates, NEW p \in DOMAIN positions
  PROVE  ExitCashFlow(p) \in Int
<1>. DEFINE qty   == positions[p].qty
            entry == positions[p].entryCost
            cost  == ExitCost(p)
            com   == Commission(cfg.optionRate, positions[p].qty)
<1>1. qty \in Int /\ entry \in Int /\ cost \in Int
  BY BookFacts, CapitalInt
<1>2. com \in Int
  BY <1>1, ConfigFacts, CommissionInt
<1>3. BasisReturn(p) \in Int
  <2>. HIDE DEF cost, com
  <2>1. entry * qty \in Int
    BY <1>1
  <2>. QED  BY <2>1 DEF BasisReturn
<1>4. ExitCashFlow(p) = -(cost * qty) - BasisReturn(p) - com
  BY Zenon DEF ExitCashFlow
<1>. HIDE DEF qty, entry, cost, com
<1>. QED  BY <1>1, <1>2, <1>3, <1>4

LEMMA ExecuteExitsType ==
  ASSUME TypeInv, ExecuteExits, UNCHANGED inputs
  PROVE  TypeInv'
<1>. DEFINE closing == {p \in DOMAIN positions : ShouldExit(p)}
            flows   == [p \in closing |-> ExitCashFlow(p)]
<1>1. InputsOK /\ BookOK /\ CountersOK /\ LogsOK /\ day \in Dates
  BY DayIsDate DEF TypeInv, TypeOK, Located, ExecuteExits
<1>2. closing \subseteq DOMAIN positions
  OBVIOUS
<1>3. /\ cash' = cash + Total(flows, attempts)
      /\ positions' = [p \in DOMAIN positions \ closing |-> positions[p]]
      /\ trades' = trades \cup {CloseTrade(p) : p \in closing}
      /\ UNCHANGED <<inputs, day, holdings, attempts, balance>>
  BY DEF ExecuteExits, counters
<1>4. DOMAIN flows = closing /\ \A p \in closing : flows[p] \in Int
  BY <1>1, CloseFlowInt
<1>. HIDE DEF closing, flows
<1>5. Total(flows, attempts) \in Int
  BY <1>1, <1>4, TotalInt DEF CountersOK
<1>6. BookOK'
  <2>1. cash' \in Int
    BY <1>1, <1>3, <1>5 DEF BookOK
  <2>2. Partial(positions', 1..attempts, Position)
    BY <1>1, <1>3 DEF BookOK, Partial
  <2>3. Partial(holdings', Symbols, Holding)
    BY <1>1, <1>3 DEF BookOK
  <2>4. attempts' = attempts /\ Position' = Position /\ Symbols' = Symbols
          /\ Holding' = Holding
    BY <1>3 DEF inputs, Position, Legs, Symbols, Holding
  <2>. QED  BY <2>1, <2>2, <2>3, <2>4 DEF BookOK, Partial
<1>7. LogsOK'
  <2>1. ASSUME NEW p \in closing PROVE CloseTrade(p) \in Trade
    <3>1. p \in DOMAIN positions
      BY <1>2
    <3>. QED  BY <1>1, <3>1, BookFacts, CapitalInt DEF CloseTrade, Trade
  <2>2. trades' \subseteq Trade
    BY <1>1, <1>3, <2>1 DEF LogsOK
  <2>3. Trade' = Trade /\ Row' = Row
    BY <1>3 DEF inputs, Trade, Row, Lot, Symbols, Legs
  <2>. QED  BY <1>1, <1>3, <2>2, <2>3 DEF LogsOK
<1>8. InputsOK' /\ MarksOK' /\ CountersOK'
  BY PartsStable DEF TypeInv, TypeOK, ExecuteExits
<1>9. ControlOK' /\ Located'
  BY DEF TypeInv, TypeOK, ControlOK, Located, ExecuteExits, Phases, inputs
<1>. QED  BY <1>6, <1>7, <1>8, <1>9 DEF TypeInv, TypeOK

\* The actions that only mark the portfolio.
LEMMA MarksType ==
  ASSUME TypeInv, UNCHANGED <<inputs, book, counters, logs>>,
         ControlOK', MarksOK', Located'
  PROVE  TypeInv'
BY PartsStable DEF TypeInv, TypeOK, counters

LEMMA MarkPortfolioType ==
  ASSUME TypeInv, MarkPortfolio, UNCHANGED inputs
  PROVE  TypeInv'
<1>1. day \in Dates
  BY DayIsDate DEF TypeInv, TypeOK, Located, MarkPortfolio
<1>2. /\ StockCap \in Int /\ OptionsCap \in Int
      /\ MarketDelta(today, cfg.legs, positions, attempts) \in Int
  BY <1>1, CapitalInt DEF TypeInv, TypeOK
<1>3. total' \in Int /\ greeks' \in Int /\ peak \in Int /\ cashBefore' \in Int
  BY <1>2 DEF TypeInv, TypeOK, BookOK, MarksOK, MarkPortfolio
<1>4. peak' \in Int
  <2>1. Max({peak, total'}) \in {peak, total'}
    BY <1>3, PairExtremes
  <2>. QED  BY <1>3, <2>1 DEF MarkPortfolio
<1>5. ControlOK' /\ Located'
  BY DEF TypeInv, TypeOK, ControlOK, Located, MarkPortfolio, Phases, inputs
<1>6. MarksOK'
  BY <1>3, <1>4 DEF MarksOK
<1>. QED  BY <1>5, <1>6, MarksType DEF MarkPortfolio

LEMMA MarkForRollType ==
  ASSUME TypeInv, MarkForRoll, UNCHANGED inputs
  PROVE  TypeInv'
<1>1. day \in Dates
  BY DayIsDate DEF TypeInv, TypeOK, Located, MarkForRoll
<1>2. StockCap \in Int
  BY <1>1, CapitalInt DEF TypeInv, TypeOK
<1>3. total' \in Int /\ greeks' \in Int /\ peak \in Int /\ cashBefore' \in Int
  BY <1>2 DEF TypeInv, TypeOK, BookOK, MarksOK, MarkForRoll
<1>4. peak' \in Int
  <2>1. Max({peak, total'}) \in {peak, total'}
    BY <1>3, PairExtremes
  <2>. QED  BY <1>3, <2>1 DEF MarkForRoll
<1>5. ControlOK' /\ Located'
  BY DEF TypeInv, TypeOK, ControlOK, Located, MarkForRoll, Phases, inputs
<1>6. MarksOK'
  BY <1>3, <1>4 DEF MarksOK
<1>. QED  BY <1>5, <1>6, MarksType DEF MarkForRoll

LEMMA NoRollType ==
  ASSUME TypeInv, NoRoll, UNCHANGED inputs
  PROVE  TypeInv'
<1>1. ControlOK' /\ Located'
  BY DEF TypeInv, TypeOK, ControlOK, Located, NoRoll, Phases, inputs
<1>. QED  BY <1>1, MovesType DEF NoRoll

\* Where an entry leads, and that it is tried on a date.
LEMMA EntryMoves ==
  ASSUME TypeInv, EntryPhase, pc' = AfterEntry,
         UNCHANGED <<inputs, day, fill, stopped>>
  PROVE  ControlOK' /\ Located' /\ day \in Dates
<1>1. pc' \in {"broke", "stocks", "reinvest"}
  BY DEF AfterEntry
<1>2. pc \in {"roll", "calendar"}
  BY DEF EntryPhase
<1>3. ControlOK'
  BY <1>1 DEF TypeInv, TypeOK, ControlOK, Phases
<1>4. Located'
  BY <1>1, <1>2 DEF TypeInv, Located, inputs
<1>5. day \in Dates
  BY <1>2, DayIsDate DEF TypeInv, TypeOK, Located
<1>. QED  BY <1>3, <1>4, <1>5

LEMMA NothingToSpendType ==
  ASSUME TypeInv, NothingToSpend, UNCHANGED inputs
  PROVE  TypeInv'
BY EntryMoves, MovesType DEF NothingToSpend

LEMMA MissEntryType ==
  ASSUME TypeInv, MissEntry, UNCHANGED inputs
  PROVE  TypeInv'
<1>1. ControlOK' /\ Located'
  BY EntryMoves DEF MissEntry
<1>2. /\ attempts \in Nat /\ attempts' = attempts + 1
      /\ unfilled \in 0..attempts /\ unfilled' = unfilled + 1
      /\ UNCHANGED <<book, marks, logs>>
  BY DEF MissEntry, TypeInv, TypeOK, CountersOK
<1>3. CountersOK'
  BY <1>2 DEF CountersOK
<1>4. 1..attempts \subseteq 1..attempts'
  BY <1>2
<1>5. BookOK'
  BY <1>2, <1>4
  DEF TypeInv, TypeOK, BookOK, Partial, Position, Holding, Legs, Symbols, book, inputs
<1>6. LogsOK'
  <2>1. Trade \subseteq Trade' /\ Row' = Row
    BY <1>4 DEF inputs, Trade, Row, Lot, Symbols, Legs
  <2>. QED  BY <1>2, <2>1 DEF TypeInv, TypeOK, LogsOK, logs
<1>7. InputsOK' /\ MarksOK'
  BY <1>2, PartsStable DEF TypeInv, TypeOK
<1>. QED  BY <1>1, <1>3, <1>5, <1>6, <1>7 DEF TypeInv, TypeOK

-----------------------------------------------------------------------------
(* Entries.                                                                *)

\* Where an entry is tried, and what a selector may pick.
LEMMA PickFacts ==
  ASSUME InputsOK, day \in Dates, NEW budget, NEW pick \in Picks(budget)
  PROVE  /\ IsDay(today)
         /\ pick \in [Legs -> DOMAIN today.opts]
         /\ pick \in [Legs -> Contracts]
<1>1. IsDay(today)
  BY MarketFacts DEF today
<1>2. pick \in [Legs -> DOMAIN today.opts]
  BY DEF Picks
<1>3. DOMAIN today.opts \subseteq Contracts
  BY <1>1 DEF IsDay, Partial
<1>. QED  BY <1>1, <1>2, <1>3

LEMMA PickCosts ==
  ASSUME InputsOK, day \in Dates, NEW budget, NEW pick \in Picks(budget)
  PROVE  /\ OriginalCost(pick) \in Int
         /\ EntryCost(pick) \in Int
         /\ EntryDelta(pick) \in Int
<1>. DEFINE n == Len(cfg.legs)
            f == [l \in Legs |-> LegCost(today, cfg.legs[l], pick[l])]
            g == [l \in Legs |-> FillCost(today, cfg.legs[l], pick[l], cfg.fill)]
            h == [l \in Legs |-> today.opts[pick[l]].delta * EntrySign(cfg.legs[l].dir)]
<1>1. n \in Nat /\ IsDay(today) /\ \A l \in Legs : pick[l] \in DOMAIN today.opts
  BY ConfigFacts, PickFacts
<1>2. \A l \in Legs : f[l] \in Int
  BY <1>1, LegCostInt
<1>3. \A l \in Legs : g[l] \in Int
  BY <1>1, FillCostInt
<1>4. ASSUME NEW l \in Legs PROVE h[l] \in Int
  <2>. DEFINE sign  == EntrySign(cfg.legs[l].dir)
              delta == today.opts[pick[l]].delta
  <2>1. sign \in Int /\ delta \in Int
    BY <1>1, SignInt, QuoteFields
  <2>2. h[l] = delta * sign
    OBVIOUS
  <2>. HIDE DEF sign, delta, h
  <2>. QED  BY <2>1, <2>2
<1>5. DOMAIN f = Legs /\ DOMAIN g = Legs /\ DOMAIN h = Legs
  OBVIOUS
<1>. HIDE DEF f, g, h, n
<1>6. Total(f, n) \in Int /\ Total(g, n) \in Int /\ Total(h, n) \in Int
  BY <1>1, <1>2, <1>3, <1>4, <1>5, TotalInt
<1>. QED  BY <1>6 DEF OriginalCost, EntryCost, EntryDelta, f, g, h, n

LEMMA ShortNotionalInt ==
  ASSUME InputsOK, NEW contract \in [Legs -> Contracts]
  PROVE  ShortNotional(contract) \in Int
<1>. DEFINE S == {j \in Legs : cfg.legs[j].dir = "sell"}
            k == [l \in S |-> Terms[contract[l]].strike * SPC]
<1>1. \A l \in S : k[l] \in Int
  BY NotionalInt
<1>2. DOMAIN k = S /\ Len(cfg.legs) \in Nat
  BY ConfigFacts
<1>. HIDE DEF k, S
<1>3. Total(k, Len(cfg.legs)) \in Int
  BY <1>1, <1>2, TotalInt
<1>. QED  BY <1>3 DEF ShortNotional, k, S

LEMMA BookShortNotionalInt ==
  ASSUME InputsOK, BookOK, CountersOK
  PROVE  BookShortNotional \in Int
<1>. DEFINE f == [p \in DOMAIN positions |->
                    ShortNotional(positions[p].contract) * positions[p].qty]
<1>1. ASSUME NEW p \in DOMAIN positions PROVE f[p] \in Int
  <2>. DEFINE short == ShortNotional(positions[p].contract)
  <2>1. positions[p].qty \in Int /\ short \in Int
    BY BookFacts, ShortNotionalInt
  <2>2. f[p] = short * positions[p].qty
    OBVIOUS
  <2>. HIDE DEF short, f
  <2>. QED  BY <2>1, <2>2
<1>2. DOMAIN f = DOMAIN positions
  OBVIOUS
<1>. HIDE DEF f
<1>3. Total(f, attempts) \in Int
  BY <1>1, <1>2, TotalInt DEF CountersOK
<1>. QED  BY <1>3 DEF BookShortNotional, f

\* The share of capital an entry may spend is a fraction, never a debt.
LEMMA ShareFacts ==
  ASSUME InputsOK
  PROVE  BudgetShare.num \in Nat /\ BudgetShare.den \in Nat \ {0}
<1>1. cfg.budget.num \in Nat /\ DEN \in Nat \ {0} /\ YearLen \in Nat \ {0}
  BY ConfigFacts, ValuationAssumption, BacktestAssumption
<1>2. /\ IsFiniteSet(cfg.rbDates)
      /\ Cardinality(cfg.rbDates) \in Nat
      /\ Cardinality(cfg.rbDates) >= 2 =>
           /\ Max(cfg.rbDates) \in Int /\ Min(cfg.rbDates) \in Int
           /\ Min(cfg.rbDates) <= Max(cfg.rbDates)
  <2>1. cfg.rbDates \subseteq Dates
    BY ConfigFacts
  <2>6. cfg.rbDates \subseteq 0..Horizon /\ cfg.rbDates \subseteq Nat
    BY <2>1, DateFacts
  <2>2. IsFiniteSet(cfg.rbDates)
    <3>1. IsFiniteSet(0..Horizon)
      BY DateFacts, FS_Interval
    <3>. QED  BY <2>6, <3>1, FS_Subset
  <2>3. Cardinality(cfg.rbDates) \in Nat
    BY <2>2, FS_CardinalityType
  <2>4. ASSUME Cardinality(cfg.rbDates) >= 2 PROVE cfg.rbDates # {}
    BY <2>2, <2>4, FS_EmptySet
  <2>5. ASSUME cfg.rbDates # {}
        PROVE  /\ Max(cfg.rbDates) \in Int /\ Min(cfg.rbDates) \in Int
               /\ Min(cfg.rbDates) <= Max(cfg.rbDates)
    <3>1. Horizon \in Nat
      BY DateFacts
    <3>2. Max(cfg.rbDates) \in cfg.rbDates
      BY <2>6, <2>5, <3>1, MaxOf
    <3>3. Min(cfg.rbDates) \in cfg.rbDates /\ Min(cfg.rbDates) <= Max(cfg.rbDates)
      BY <2>6, <2>5, <3>2, MinOf
    <3>. QED  BY <2>6, <3>2, <3>3
  <2>. QED  BY <2>2, <2>3, <2>4, <2>5
<1>. DEFINE count == Cardinality(cfg.rbDates)
<1>3. BudgetShare.num \in Nat /\ BudgetShare.den \in Nat \ {0}
  <2>1. CASE cfg.budget.kind = "annual" /\ count >= 2
    <3>. DEFINE num  == cfg.budget.num
                span == Max(cfg.rbDates) - Min(cfg.rbDates)
    <3>1. BudgetShare = [num |-> num * span, den |-> DEN * YearLen * count]
      BY <2>1 DEF BudgetShare
    <3>2. num \in Nat /\ span \in Nat /\ count \in Nat /\ count > 0
      BY <1>1, <1>2, <2>1
    <3>. HIDE DEF num, span, count
    <3>3. num * span \in Nat
      BY <3>2
    <3>4. DEN * YearLen \in Nat /\ DEN * YearLen > 0
      BY <1>1
    <3>. DEFINE unit == DEN * YearLen
    <3>5. unit \in Nat /\ unit > 0
      BY <3>4
    <3>. HIDE DEF unit
    <3>6. unit * count \in Nat /\ unit * count > 0
      BY <3>2, <3>5
    <3>. QED  BY <3>1, <3>3, <3>6 DEF unit
  <2>2. CASE ~ (cfg.budget.kind = "annual" /\ count >= 2)
    BY <2>2, <1>1 DEF BudgetShare
  <2>. QED  BY <2>1, <2>2
<1>. QED  BY <1>3

\* The budget of an entry is an integer.
LEMMA BudgetInt ==
  ASSUME InputsOK, MarksOK, NEW cap \in Int
  PROVE  ScaledBudget(cap) \in Int /\ Budget(cap) \in Int
<1>1. BudgetShare.num \in Nat /\ BudgetShare.den \in Nat \ {0}
  BY ShareFacts
<1>2. ScaledBudget(cap) \in Int
  <2>. DEFINE num == BudgetShare.num
              den == BudgetShare.den
  <2>1. num \in Int /\ den \in Int /\ total \in Int
    BY <1>1 DEF MarksOK
  <2>. HIDE DEF num, den
  <2>2. total * num \in Int /\ cap * den \in Int
    BY <2>1
  <2>. QED  BY <2>2 DEF ScaledBudget, num, den
<1>. QED  BY <1>1, <1>2 DEF Budget

LEMMA DivisionInt ==
  ASSUME NEW a \in Int, NEW b \in Nat \ {0}
  PROVE  a \div b \in Int
OBVIOUS

\* A tradable pick has a positive integer quantity.
LEMMA QuantityPositive ==
  ASSUME InputsOK, BookOK, CountersOK, MarksOK, day \in Dates,
         NEW budget \in Int, NEW pick \in Picks(budget), Tradable(pick, budget)
  PROVE  Quantity(pick, budget) \in Nat \ {0}
<1>1. OriginalCost(pick) \in Int /\ OriginalCost(pick) # 0
  BY PickCosts DEF Tradable
<1>2. budget \div Magnitude(OriginalCost(pick)) \in Int
  BY <1>1, MagnitudeNat, DivisionInt
<1>3. cfg.maxNotional # None /\ ShortNotional(pick) > 0 => NotionalRoom(pick) \in Int
  <2>. SUFFICES ASSUME cfg.maxNotional # None, ShortNotional(pick) > 0
                PROVE  NotionalRoom(pick) \in Int
    OBVIOUS
  <2>. DEFINE limit == cfg.maxNotional * total
              unit  == ShortNotional(pick)
              used  == BookShortNotional
  <2>1. limit \in Int
    <3>1. cfg.maxNotional \in Int /\ total \in Int
      BY ConfigFacts DEF Limit, MarksOK
    <3>. QED  BY <3>1
  <2>2. unit \in Int /\ unit > 0
    BY PickFacts, ShortNotionalInt
  <2>3. used \in Int
    BY BookShortNotionalInt
  <2>4. NotionalRoom(pick) = Max({limit - DEN * used, 0}) \div (DEN * unit)
    BY Zenon DEF NotionalRoom
  <2>. HIDE DEF limit, unit, used
  <2>5. DEN \in Nat /\ DEN > 0
    BY ValuationAssumption
  <2>6. DEN * used \in Int
    BY <2>3, <2>5
  <2>7. Max({limit - DEN * used, 0}) \in Int
    <3>. DEFINE room == limit - DEN * used
    <3>1. room \in Int /\ 0 \in Int
      BY <2>1, <2>6
    <3>. HIDE DEF room
    <3>2. Max({room, 0}) \in {room, 0}
      BY <3>1, PairExtremes
    <3>3. Max({room, 0}) \in Int
      BY <3>1, <3>2
    <3>. QED  BY <3>3 DEF room
  <2>8. DEN * unit \in Nat \ {0}
    BY <2>2, <2>5
  <2>. QED  BY <2>4, <2>7, <2>8, DivisionInt
<1>4. Quantity(pick, budget) \in Int
  <2>. DEFINE fits == budget \div Magnitude(OriginalCost(pick))
              room == NotionalRoom(pick)
  <2>1. CASE cfg.maxNotional # None /\ ShortNotional(pick) > 0
    <3>1. fits \in Int /\ room \in Int
      BY <1>2, <1>3, <2>1
    <3>2. Quantity(pick, budget) = Min({fits, room})
      BY <2>1 DEF Quantity
    <3>. HIDE DEF fits, room
    <3>3. Min({fits, room}) \in {fits, room}
      BY <3>1, PairExtremes
    <3>. QED  BY <3>1, <3>2, <3>3
  <2>2. CASE ~ (cfg.maxNotional # None /\ ShortNotional(pick) > 0)
    BY <2>2, <1>2 DEF Quantity
  <2>. QED  BY <2>1, <2>2
<1>. QED  BY <1>4 DEF Tradable

LEMMA EntryFlowInt ==
  ASSUME InputsOK, NEW pos \in Position, NEW budget \in Int
  PROVE  EntryCashFlow(pos, budget) \in Int
<1>. DEFINE entry == pos.entryCost
            qty   == pos.qty
            com   == Commission(cfg.optionRate, pos.qty)
            cost  == entry * qty
<1>1. entry \in Int /\ qty \in Int
  BY DEF Position
<1>2. com \in Int
  BY <1>1, ConfigFacts, CommissionInt
<1>3. cost \in Int
  <2>. HIDE DEF entry, qty
  <2>. QED  BY <1>1
<1>4. EntryCashFlow(pos, budget)
        = (IF External THEN budget ELSE 0) - (cost + com)
            - (IF External THEN budget - cost - com ELSE 0)
  BY Zenon DEF EntryCashFlow
<1>. HIDE DEF cost, com
<1>. QED  BY <1>2, <1>3, <1>4

LEMMA OpenPositionType ==
  ASSUME TypeInv, OpenPosition, UNCHANGED inputs
  PROVE  TypeInv'
<1>1. ControlOK' /\ Located' /\ day \in Dates
  BY EntryMoves DEF OpenPosition
<1>2. InputsOK /\ BookOK /\ MarksOK /\ CountersOK /\ LogsOK
  BY DEF TypeInv, TypeOK
<1>3. attempts \in Nat /\ attempts' = attempts + 1 /\ unfilled' = unfilled
  BY <1>2 DEF OpenPosition, CountersOK
<1>. DEFINE budget == Budget(CapAtEntry)
<1>4. budget \in Int
  <2>1. CapAtEntry \in Int
    BY <1>1, <1>2, CapitalInt DEF CapAtEntry
  <2>. QED  BY <1>2, <2>1, BudgetInt
<1>5. PICK pick \in Picks(budget) :
        /\ Tradable(pick, budget)
        /\ Enter(attempts + 1, NewPosition(pick, Quantity(pick, budget)), budget)
  BY DEF OpenPosition
<1>. HIDE DEF budget
<1>. DEFINE qty == Quantity(pick, budget)
            pos == NewPosition(pick, qty)
            id  == attempts + 1
<1>6. qty \in Nat \ {0}
  BY <1>1, <1>2, <1>4, <1>5, QuantityPositive
<1>7. pos.delta \in Int /\ pos \in Position
  <2>1. EntryCost(pick) \in Int /\ EntryDelta(pick) \in Int
          /\ pick \in [Legs -> Contracts]
    BY <1>1, <1>2, PickCosts, PickFacts
  <2>2. EntryDelta(pick) * qty \in Int
    <3>. HIDE DEF qty
    <3>. QED  BY <1>6, <2>1
  <2>. HIDE DEF qty
  <2>. QED  BY <1>6, <2>1, <2>2 DEF NewPosition, Position
<1>8. /\ cash' = cash + EntryCashFlow(pos, budget)
      /\ positions' = [p \in DOMAIN positions \cup {id} |->
                         IF p = id THEN pos ELSE positions[p]]
      /\ greeks' = greeks + pos.delta
      /\ trades' = trades \cup {OpenTrade(id, pos)}
      /\ UNCHANGED <<inputs, day, holdings, peak, total, cashBefore, balance>>
  BY <1>5, Zenon DEF Enter, OpenPosition
<1>. HIDE DEF pos, qty
<1>9. EntryCashFlow(pos, budget) \in Int
  BY <1>2, <1>4, <1>7, EntryFlowInt
<1>10. 1..attempts \subseteq 1..attempts' /\ id \in 1..attempts'
  BY <1>3
<1>11. BookOK'
  <2>1. cash' \in Int
    BY <1>2, <1>8, <1>9 DEF BookOK
  <2>2. DOMAIN positions' \subseteq 1..attempts'
    BY <1>2, <1>8, <1>10 DEF BookOK, Partial
  <2>3. positions' \in [DOMAIN positions' -> Position]
    BY <1>2, <1>7, <1>8 DEF BookOK, Partial
  <2>4. Partial(holdings', Symbols, Holding)
    BY <1>2, <1>8 DEF BookOK
  <2>5. Position' = Position /\ Symbols' = Symbols /\ Holding' = Holding
    BY <1>8 DEF inputs, Position, Legs, Symbols, Holding
  <2>. QED  BY <2>1, <2>2, <2>3, <2>4, <2>5 DEF BookOK, Partial
<1>12. MarksOK'
  BY <1>2, <1>7, <1>8 DEF MarksOK
<1>13. CountersOK'
  BY <1>2, <1>3 DEF CountersOK
<1>14. LogsOK'
  <2>1. Trade \subseteq Trade' /\ Row' = Row
    BY <1>8, <1>10 DEF inputs, Trade, Row, Lot, Symbols, Legs
  <2>2. OpenTrade(id, pos) \in Trade'
    <3>1. /\ pos.entryCost \in Int /\ pos.qty \in Nat \ {0}
          /\ pos.contract \in [Legs -> Contracts]
      BY <1>7 DEF Position
    <3>2. Legs' = Legs
      BY <1>8 DEF inputs, Legs
    <3>. QED  BY <1>1, <1>10, <3>1, <3>2 DEF OpenTrade, Trade
  <2>. QED  BY <1>2, <1>8, <2>1, <2>2 DEF LogsOK
<1>15. InputsOK'
  BY <1>2, PartsStable
<1>. QED  BY <1>1, <1>11, <1>12, <1>13, <1>14, <1>15 DEF TypeInv, TypeOK

-----------------------------------------------------------------------------
(* Stocks, and the end of a rebalance.                                     *)

LEMMA StocksAllocationInt ==
  ASSUME InputsOK, NEW liquid \in Int, NEW optionsCap \in Int
  PROVE  StocksAllocation(liquid, optionsCap) \in Int
<1>. DEFINE share == cfg.stockShare
            a     == share * (liquid + optionsCap)
            b     == DEN * liquid
<1>1. share \in Int /\ DEN \in Int
  BY ConfigFacts, ValuationAssumption
<1>2. share * liquid \in Int /\ a \in Int /\ b \in Int
  <2>. HIDE DEF share
  <2>. QED  BY <1>1
<1>3. Min({a, b}) \in {a, b}
  <2>. HIDE DEF a, b
  <2>. QED  BY <1>2, PairExtremes
<1>. QED  BY <1>2, <1>3, Zenon DEF StocksAllocation

LEMMA BuyStocksType ==
  ASSUME InputsOK, BookOK, CountersOK, day \in Dates,
         NEW liquid \in Int, NEW alloc \in Int, BuyStocks(liquid, alloc),
         UNCHANGED <<inputs, positions, attempts>>
  PROVE  BookOK'
<1>. DEFINE order == StockOrder(today, alloc, cfg.weights)
            n     == Len(cfg.weights)
<1>1. IsDay(today) /\ cfg.weights \in Seq(Nat) /\ n \in Nat /\ cfg.stockRate \in Nat
  BY MarketFacts, ConfigFacts DEF today
<1>2. DOMAIN order \subseteq 1..n /\ order \in [DOMAIN order -> [qty : Int, price : Nat]]
  BY <1>1, StockOrderType
<1>3. /\ holdings' = order
      /\ cash' = liquid - StockCost(order, n) - StockCommission(cfg.stockRate, order, n)
  BY Zenon DEF BuyStocks
<1>. HIDE DEF order
<1>4. StockCost(order, n) \in Int /\ StockCommission(cfg.stockRate, order, n) \in Int
  BY <1>1, <1>2, StockCostInt
<1>5. cash' \in Int
  BY <1>3, <1>4
<1>6. Partial(holdings', Symbols, Holding)
  BY <1>2, <1>3 DEF Partial, Symbols, Holding
<1>7. Partial(positions', 1..attempts', Position)
  BY DEF BookOK
<1>8. Position' = Position /\ Symbols' = Symbols /\ Holding' = Holding
  BY DEF inputs, Position, Legs, Symbols, Holding
<1>. QED  BY <1>5, <1>6, <1>7, <1>8 DEF BookOK, Partial

LEMMA RebalanceStocksType ==
  ASSUME TypeInv, RebalanceStocks, UNCHANGED inputs
  PROVE  TypeInv'
<1>1. day \in Dates
  BY DayIsDate DEF TypeInv, TypeOK, Located, RebalanceStocks
<1>2. InputsOK /\ BookOK /\ CountersOK
  BY DEF TypeInv, TypeOK
<1>. DEFINE liquid == cash + StockCap
<1>3. liquid \in Int /\ OptionsCap \in Int
  BY <1>1, <1>2, CapitalInt DEF BookOK
<1>4. BookOK'
  <2>1. StocksAllocation(liquid, OptionsCap) \in Int
    BY <1>2, <1>3, StocksAllocationInt
  <2>2. BuyStocks(liquid, StocksAllocation(liquid, OptionsCap))
          /\ UNCHANGED <<inputs, positions, attempts>>
    BY DEF RebalanceStocks, counters
  <2>. HIDE DEF liquid
  <2>. QED  BY <1>1, <1>2, <1>3, <2>1, <2>2, BuyStocksType
<1>5. ControlOK' /\ Located'
  BY DEF TypeInv, TypeOK, ControlOK, Located, RebalanceStocks, Phases, inputs
<1>6. InputsOK' /\ MarksOK' /\ CountersOK' /\ LogsOK'
  BY PartsStable DEF TypeInv, TypeOK, counters, RebalanceStocks
<1>. QED  BY <1>4, <1>5, <1>6 DEF TypeInv, TypeOK

LEMMA ReinvestProceedsType ==
  ASSUME TypeInv, ReinvestProceeds, UNCHANGED inputs
  PROVE  TypeInv'
<1>1. day \in Dates
  BY DayIsDate DEF TypeInv, TypeOK, Located, ReinvestProceeds
<1>2. InputsOK /\ BookOK /\ CountersOK /\ MarksOK
  BY DEF TypeInv, TypeOK
<1>. DEFINE liquid == cash + StockCap
            worth  == liquid + OptionsCap
<1>3. liquid \in Int /\ OptionsCap \in Int /\ worth \in Int
  BY <1>1, <1>2, CapitalInt DEF BookOK
<1>4. BookOK'
  <2>1. StocksAllocation(liquid, OptionsCap) \in Int
    BY <1>2, <1>3, StocksAllocationInt
  <2>2. BuyStocks(liquid, StocksAllocation(liquid, OptionsCap))
          /\ UNCHANGED <<inputs, positions, attempts>>
    BY DEF ReinvestProceeds, counters
  <2>. HIDE DEF liquid
  <2>. QED  BY <1>1, <1>2, <1>3, <2>1, <2>2, BuyStocksType
<1>5. ControlOK' /\ Located'
  BY DEF TypeInv, TypeOK, ControlOK, Located, ReinvestProceeds, Phases, inputs
<1>6. InputsOK' /\ CountersOK' /\ LogsOK'
  BY PartsStable DEF TypeInv, TypeOK, counters, ReinvestProceeds
<1>7. MarksOK'
  <2>1. peak' = Max({peak, worth}) /\ UNCHANGED <<greeks, total, cashBefore>>
    BY DEF ReinvestProceeds
  <2>2. peak \in Int
    BY <1>2 DEF MarksOK
  <2>. HIDE DEF worth
  <2>3. Max({peak, worth}) \in {peak, worth}
    BY <1>3, <2>2, PairExtremes
  <2>. QED  BY <1>2, <1>3, <2>1, <2>3 DEF MarksOK
<1>. QED  BY <1>4, <1>5, <1>6, <1>7 DEF TypeInv, TypeOK

LEMMA NothingFreedType ==
  ASSUME TypeInv, NothingFreed, UNCHANGED inputs
  PROVE  TypeInv'
<1>1. ControlOK' /\ Located'
  BY DEF TypeInv, TypeOK, ControlOK, Located, NothingFreed, Phases, inputs
<1>. QED  BY <1>1, MovesType DEF NothingFreed

LEMMA CheckBrokeType ==
  ASSUME TypeInv, CheckBroke, UNCHANGED inputs
  PROVE  TypeInv'
<1>1. ControlOK' /\ Located'
  BY DEF TypeInv, TypeOK, ControlOK, Located, CheckBroke, Phases, inputs
<1>. QED  BY <1>1, MovesType DEF CheckBroke

-----------------------------------------------------------------------------
(* The theorems.                                                           *)

LEMMA InitType == Init => TypeInv
<1>. SUFFICES ASSUME Init PROVE TypeInv
  OBVIOUS
<1>1. InputsOK
  BY DEF Init, InputsOK
<1>2. ControlOK
  <2>1. pc \in {"advance", "done"} /\ day = 0 /\ fill = 0 /\ stopped = FALSE
    BY DEF Init
  <2>2. stopped \in BOOLEAN
    BY <2>1, Zenon
  <2>3. Horizon \in Nat /\ 0 \in 0..Horizon /\ 0 \in 0..Horizon + 1
    BY DateFacts
  <2>. QED  BY <2>1, <2>2, <2>3 DEF ControlOK, Phases
<1>7. Located
  BY DEF Init, Located
<1>3. cfg.capital \in Nat
  BY <1>1, ConfigFacts
<1>4. BookOK
  BY <1>3 DEF Init, BookOK, Partial
<1>5. MarksOK /\ CountersOK
  BY <1>3 DEF Init, MarksOK, CountersOK
<1>6. LogsOK
  BY DEF Init, LogsOK
<1>. QED  BY <1>1, <1>2, <1>4, <1>5, <1>6, <1>7 DEF TypeInv, TypeOK

LEMMA NextType == TypeInv /\ [Next]_vars => TypeInv'
<1>. SUFFICES ASSUME TypeInv, [Next]_vars PROVE TypeInv'
  OBVIOUS
<1>1. CASE Step /\ UNCHANGED inputs
  <2>1. CASE Recording
    BY <1>1, <2>1, BackfillRowType, BackfillDoneType, RecordDayType DEF Recording
  <2>2. CASE Walking
    BY <1>1, <2>2, NextDateType, EndOfDatesType, BeginRebalanceType,
       BeginOrdinaryDayType, FinishType DEF Walking
  <2>3. CASE ExecuteExits
    BY <1>1, <2>3, ExecuteExitsType
  <2>4. CASE Marking
    BY <1>1, <2>4, MarkPortfolioType, MarkForRollType, NoRollType DEF Marking
  <2>5. CASE Entering
    BY <1>1, <2>5, NothingToSpendType, OpenPositionType, MissEntryType DEF Entering
  <2>6. CASE Investing
    BY <1>1, <2>6, RebalanceStocksType, ReinvestProceedsType, NothingFreedType
    DEF Investing
  <2>7. CASE CheckBroke
    BY <1>1, <2>7, CheckBrokeType
  <2>. QED  BY <1>1, <2>1, <2>2, <2>3, <2>4, <2>5, <2>6, <2>7 DEF Step
<1>2. CASE UNCHANGED vars
  <2>1. UNCHANGED <<inputs, book, marks, counters, logs, control>>
    BY <1>2 DEF vars
  <2>2. ControlOK' /\ Located'
    BY <2>1 DEF TypeInv, TypeOK, ControlOK, Located, control, inputs
  <2>. QED  BY <2>1, <2>2, MovesType
<1>. QED  BY <1>1, <1>2 DEF Next, Terminated

\* The type invariant, with the phases located on the calendar, is inductive.
THEOREM TypeInvariant == Spec => []TypeInv
BY InitType, NextType, PTL DEF Spec

\* Every variable of the loop stays in its domain, whatever the calendar, the
\* market and the configuration: in particular no live position and no trade
\* has a quantity below one, and no entry goes unfilled that was not attempted.
THEOREM TypeCorrect == Spec => []TypeOK
<1>1. TypeInv => TypeOK
  BY DEF TypeInv
<1>. QED  BY <1>1, TypeInvariant, PTL

-----------------------------------------------------------------------------
(* At most one position in roll mode.                                      *)

\* In pure roll mode the entry phase is reached with a flat book only, and the
\* calendar's entry phase never: without this a top-up could follow a roll.
RollInv ==
  cfg.when = "roll" =>
    /\ pc = "roll" => Flat
    /\ pc # "calendar"
    /\ \A p, q \in DOMAIN positions : p = q

LEMMA NextRoll == RollInv /\ [Next]_vars => RollInv'
<1>. SUFFICES ASSUME RollInv, [Next]_vars, cfg'.when = "roll"
              PROVE  /\ pc' = "roll" => Flat'
                     /\ pc' # "calendar"
                     /\ \A p, q \in DOMAIN positions' : p = q
  BY DEF RollInv
<1>1. cfg.when = "roll" /\ cfg' = cfg
  BY DEF Next, Terminated, vars, inputs
<1>2. /\ pc = "roll" => Flat
      /\ pc # "calendar"
      /\ \A p, q \in DOMAIN positions : p = q
  BY <1>1 DEF RollInv
<1>3. ~CalendarEntries
  BY <1>1 DEF CalendarEntries
<1>. DEFINE Kept == UNCHANGED positions /\ pc' \notin {"roll", "calendar"}
<1>4. Kept => /\ pc' = "roll" => Flat'
              /\ pc' # "calendar"
              /\ \A p, q \in DOMAIN positions' : p = q
  BY <1>2
<1>5. CASE Step
  <2>1. CASE Recording \/ Walking
    <3>1. Kept
      BY <2>1 DEF Recording, BackfillRow, BackfillDone, RecordDay, Walking, NextDate,
         EndOfDates, BeginRebalance, BeginOrdinaryDay, Finish, book
    <3>. QED  BY <1>4, <3>1
  <2>2. CASE ExecuteExits
    <3>1. DOMAIN positions' \subseteq DOMAIN positions /\ pc' = "mark"
      BY <2>2 DEF ExecuteExits
    <3>. QED  BY <1>2, <3>1
  <2>3. CASE Marking
    <3>1. UNCHANGED positions /\ pc' # "calendar" /\ (pc' = "roll" => Flat)
      BY <2>3 DEF Marking, MarkPortfolio, MarkForRoll, NoRoll, book
    <3>. QED  BY <1>2, <3>1 DEF Flat
  <2>4. CASE Entering
    <3>1. EntryPhase /\ pc' = AfterEntry
      BY <2>4 DEF Entering, NothingToSpend, OpenPosition, MissEntry
    <3>2. Flat /\ pc' \in {"stocks", "reinvest"}
      BY <1>2, <3>1 DEF EntryPhase, AfterEntry
    <3>3. CASE UNCHANGED positions
      BY <1>4, <3>2, <3>3
    <3>4. CASE OpenPosition
      <4>1. DOMAIN positions' = {attempts + 1}
        BY <3>2, <3>4 DEF OpenPosition, Enter, Flat
      <4>. QED  BY <3>2, <4>1
    <3>. QED  BY <2>4, <3>3, <3>4 DEF Entering, NothingToSpend, MissEntry, book
  <2>5. CASE Investing \/ CheckBroke
    <3>1. Kept
      BY <1>3, <2>5 DEF Investing, RebalanceStocks, ReinvestProceeds, NothingFreed,
         CheckBroke, book
    <3>. QED  BY <1>4, <3>1
  <2>. QED  BY <1>5, <2>1, <2>2, <2>3, <2>4, <2>5 DEF Step
<1>6. CASE UNCHANGED vars
  BY <1>2, <1>6 DEF vars, control, book, Flat
<1>. QED  BY <1>5, <1>6 DEF Next, Terminated

\* WhenToBuy::Roll, "at most one position is live at a time": on every market
\* and every calendar, on the daily loop and on the fast path.
THEOREM RollSinglePosition == Spec => []RollHoldsAtMostOne
<1>1. Init => RollInv
  BY DEF Init, RollInv
<1>2. RollInv => RollHoldsAtMostOne
  BY DEF RollInv, RollHoldsAtMostOne
<1>. QED  BY <1>1, <1>2, NextRoll, PTL DEF Spec

-----------------------------------------------------------------------------
(* No contract in two positions.                                           *)

LEMMA EntryIsFresh ==
  ASSUME NoContractHeldTwice, OpenPosition, UNCHANGED inputs
  PROVE  NoContractHeldTwice'
<1>. DEFINE budget == Budget(CapAtEntry)
            id     == attempts + 1
<1>1. PICK pick \in Picks(budget) :
        Enter(id, NewPosition(pick, Quantity(pick, budget)), budget)
  BY Zenon DEF OpenPosition
<1>2. \A l \in Legs : pick[l] \notin Held
  BY <1>1 DEF Picks, Candidates
<1>. DEFINE pos == NewPosition(pick, Quantity(pick, budget))
<1>3. pos.contract = pick
  BY DEF NewPosition
<1>4. positions' = [p \in DOMAIN positions \cup {id} |->
                      IF p = id THEN pos ELSE positions[p]]
  BY <1>1, Zenon DEF Enter
<1>5. Legs' = Legs
  BY DEF inputs, Legs
<1>. HIDE DEF pos, id, budget
<1>6. \A p \in DOMAIN positions : \A i, j \in Legs :
        positions[p].contract[i] # pick[j]
  BY <1>2 DEF Held
<1>. SUFFICES ASSUME NEW p \in DOMAIN positions', NEW q \in DOMAIN positions',
                     NEW i \in Legs, NEW j \in Legs, p # q
              PROVE  positions'[p].contract[i] # positions'[q].contract[j]
  BY <1>5 DEF NoContractHeldTwice
<1>7. CASE p = id
  BY <1>3, <1>4, <1>6, <1>7
<1>8. CASE q = id
  BY <1>3, <1>4, <1>6, <1>8
<1>9. CASE p # id /\ q # id
  <2>1. /\ p \in DOMAIN positions /\ q \in DOMAIN positions
        /\ positions'[p] = positions[p] /\ positions'[q] = positions[q]
    BY <1>4, <1>9
  <2>. QED  BY <2>1 DEF NoContractHeldTwice
<1>. QED  BY <1>7, <1>8, <1>9

LEMMA NextNoContractHeldTwice ==
  NoContractHeldTwice /\ [Next]_vars => NoContractHeldTwice'
<1>. SUFFICES ASSUME NoContractHeldTwice, [Next]_vars PROVE NoContractHeldTwice'
  OBVIOUS
<1>1. Legs' = Legs
  BY DEF Next, Terminated, vars, inputs, Legs
<1>2. CASE UNCHANGED positions
  BY <1>1, <1>2 DEF NoContractHeldTwice
<1>3. CASE OpenPosition /\ UNCHANGED inputs
  BY <1>3, EntryIsFresh
<1>4. CASE ExecuteExits
  <2>1. /\ DOMAIN positions' \subseteq DOMAIN positions
        /\ \A p \in DOMAIN positions' : positions'[p] = positions[p]
    BY <1>4 DEF ExecuteExits
  <2>. QED  BY <1>1, <2>1 DEF NoContractHeldTwice
<1>5. CASE Step /\ UNCHANGED inputs /\ ~OpenPosition /\ ~ExecuteExits
  <2>1. UNCHANGED positions
    BY <1>5 DEF Step, Recording, BackfillRow, BackfillDone, RecordDay, Walking,
       NextDate, EndOfDates, BeginRebalance, BeginOrdinaryDay, Finish, Marking,
       MarkPortfolio, MarkForRoll, NoRoll, Entering, NothingToSpend, MissEntry,
       Investing, RebalanceStocks, ReinvestProceeds, NothingFreed, CheckBroke, book
  <2>. QED  BY <1>2, <2>1
<1>. QED  BY <1>2, <1>3, <1>4, <1>5 DEF Next, Terminated, vars, book

\* An entry never buys into a contract that a live position holds, however
\* top-ups, partial exits and rolls are mixed.
THEOREM ContractsHeldOnce == Spec => []NoContractHeldTwice
<1>1. Init => NoContractHeldTwice
  BY DEF Init, NoContractHeldTwice
<1>. QED  BY <1>1, NextNoContractHeldTwice, PTL DEF Spec

-----------------------------------------------------------------------------
(* A flat book in a roll mode has a reason to be flat.                     *)

\* Why a roll entry on a flat book found nothing.
Healed ==
  \/ ScaledBudget(0) <= 0
  \/ LET picks == Picks(Budget(0))
     IN  picks # {} => \E pick \in picks : ~Tradable(pick, Budget(0))

\* The reason is found when the roll is tried and outlives the later phases of
\* the date, a calendar entry and a reinvestment included.
HealInv ==
  pc \in {"stocks", "reinvest", "calendar", "broke", "record"}
    /\ Rolls /\ Flat /\ day \in QuotedDates => Healed

\* Peak p with capital t breaches a drawdown of m / d; so does a higher peak q.
LEMMA DrawdownDeepens ==
  ASSUME NEW p \in Nat \ {0}, NEW q \in Nat, NEW t \in Nat \ {0}, NEW m \in Nat,
         NEW d \in Nat \ {0}, q >= p, (q - t) * d < m * q
  PROVE  (p - t) * d < m * p
<1>1. (q - t) * d = q * d - t * d /\ (p - t) * d = p * d - t * d
  OBVIOUS
<1>2. t * d \in Nat \ {0} /\ p * d \in Nat /\ q * d \in Nat /\ m * p \in Nat /\ m * q \in Nat
  OBVIOUS
<1>3. CASE m >= d
  <2>1. (m - d) * p \in Nat
    BY <1>3
  <2>2. (m - d) * p = m * p - p * d
    OBVIOUS
  <2>. QED  BY <1>1, <1>2, <2>1, <2>2
<1>4. CASE m < d
  <2>1. (d - m) * (q - p) \in Nat
    BY <1>4
  <2>2. (d - m) * (q - p) = (q * d - m * q) - (p * d - m * p)
    <3>1. (d - m) * (q - p) = d * (q - p) - m * (q - p)
      OBVIOUS
    <3>2. d * (q - p) = q * d - p * d /\ m * (q - p) = m * q - m * p
      OBVIOUS
    <3>. QED  BY <1>2, <3>1, <3>2
  <2>. QED  BY <1>1, <1>2, <2>1, <2>2
<1>. QED  BY <1>3, <1>4

\* A higher peak never brings a positive capital back within the drawdown.
LEMMA PeakTightens ==
  ASSUME MarksOK, MarksOK', peak' >= peak, total > 0, UNCHANGED <<cfg, total>>,
         InputsOK, WithinDrawdown'
  PROVE  WithinDrawdown
<1>1. CASE cfg.maxDrawdown = None
  BY <1>1 DEF WithinDrawdown
<1>2. CASE cfg.maxDrawdown # None
  <2>. DEFINE m == cfg.maxDrawdown
  <2>1. m \in Nat /\ DEN \in Nat \ {0}
    <3>1. cfg \in Config
      BY BacktestAssumption DEF InputsOK
    <3>. QED  BY <1>2, <3>1, ValuationAssumption DEF Config, Limit
  <2>2. peak \in Int /\ peak' \in Int /\ total \in Int
    BY DEF MarksOK
  <2>3. peak' <= 0 \/ (peak' - total) * DEN < m * peak'
    BY <1>2 DEF WithinDrawdown
  <2>4. SUFFICES ASSUME peak > 0 PROVE (peak - total) * DEN < m * peak
    BY <1>2, <2>2 DEF WithinDrawdown
  <2>. HIDE DEF m
  <2>5. peak \in Nat \ {0} /\ peak' \in Nat /\ total \in Nat \ {0} /\ peak' > 0
    BY <2>2, <2>4
  <2>6. (peak' - total) * DEN < m * peak'
    BY <2>3, <2>5
  <2>. QED  BY <2>1, <2>5, <2>6, DrawdownDeepens
<1>. QED  BY <1>1, <1>2

LEMMA HealedKept ==
  ASSUME TypeInv, TypeInv', Healed, Flat, peak' >= peak, day \in Dates,
         UNCHANGED <<inputs, day, positions, total, greeks>>
  PROVE  Healed'
<1>1. UNCHANGED <<cfg, mkt, day, positions, total, greeks>>
  BY DEF inputs
<1>2. InputsOK /\ InputsOK' /\ MarksOK /\ MarksOK' /\ attempts \in Nat /\ attempts' \in Nat
  BY DEF TypeInv, TypeOK, CountersOK
<1>3. ScaledBudget(0)' = ScaledBudget(0) /\ Budget(0)' = Budget(0)
  BY <1>1, Zenon DEF ScaledBudget, Budget, BudgetShare
<1>4. BookShortNotional' = BookShortNotional
  <2>1. BookShortNotional = 0
    BY <1>2, EmptyTotal DEF BookShortNotional, Flat
  <2>2. BookShortNotional' = 0
    BY <1>1, <1>2, EmptyTotal DEF BookShortNotional, Flat
  <2>. QED  BY <2>1, <2>2
<1>5. Legs' = Legs /\ today' = today /\ Held' = Held
  <2>1. Legs' = Legs /\ today' = today
    BY <1>1, Zenon DEF Legs, today
  <2>2. Held = {} /\ Held' = {}
    BY <1>1 DEF Held, Flat
  <2>. QED  BY <2>1, <2>2
<1>6. \A l : Candidates(l)' = Candidates(l)
  BY <1>5, Zenon DEF Candidates
<1>7. \A r : RowCost(r)' = RowCost(r)
  BY <1>1, <1>5, <1>6, Zenon DEF RowCost
<1>8. AffordableRows(Budget(0))' = AffordableRows(Budget(0))
  BY <1>3, <1>5, <1>6, <1>7, Zenon DEF AffordableRows
<1>9. Picks(Budget(0))' = Picks(Budget(0))
  BY <1>5, <1>6, <1>8, Zenon DEF Picks
<1>10. CASE ScaledBudget(0) <= 0
  BY <1>3, <1>10, Zenon DEF Healed
<1>11. CASE ScaledBudget(0) > 0
  <2>1. total > 0
    <3>. DEFINE num == BudgetShare.num
                den == BudgetShare.den
    <3>1. ScaledBudget(0) = total * num - (IF cfg.freshSpend THEN 0 ELSE 0 * den)
      BY Zenon DEF ScaledBudget
    <3>2. num \in Nat /\ den \in Nat /\ total \in Int
      BY <1>2, ShareFacts DEF MarksOK
    <3>. HIDE DEF num, den
    <3>3. 0 * den = 0
      BY <3>2
    <3>4. total * num > 0
      BY <1>11, <3>1, <3>2, <3>3
    <3>. QED  BY <3>2, <3>4
  <2>2. SUFFICES ASSUME Picks(Budget(0)) # {}
                 PROVE  \E pick \in Picks(Budget(0)) : (~Tradable(pick, Budget(0)))'
    BY <1>3, <1>9, Zenon DEF Healed
  <2>3. PICK pick \in Picks(Budget(0)) : ~Tradable(pick, Budget(0))
    BY <1>2, <1>11, <2>2, BudgetInt DEF Healed
  <2>4. /\ OriginalCost(pick)' = OriginalCost(pick)
        /\ EntryDelta(pick)' = EntryDelta(pick)
        /\ ShortNotional(pick)' = ShortNotional(pick)
    BY <1>1, <1>5, Zenon DEF OriginalCost, EntryDelta, ShortNotional
  <2>5. NotionalRoom(pick)' = NotionalRoom(pick)
    BY <1>1, <1>4, <2>4, Zenon DEF NotionalRoom
  <2>6. Quantity(pick, Budget(0))' = Quantity(pick, Budget(0))
    BY <1>1, <1>3, <2>4, <2>5, Zenon DEF Quantity
  <2>7. (\A d : WithinDelta(d)' = WithinDelta(d))
    BY <1>1, Zenon DEF WithinDelta
  <2>8. WithinDrawdown' => WithinDrawdown
    BY <1>1, <1>2, <2>1, PeakTightens
  <2>9. Tradable(pick, Budget(0))' => Tradable(pick, Budget(0))
    BY <1>3, <2>4, <2>6, <2>7, <2>8, Zenon DEF Tradable
  <2>. QED  BY <2>3, <2>9
<1>. QED  BY <1>2, <1>10, <1>11, BudgetInt

LEMMA NextHeal == TypeInv /\ TypeInv' /\ HealInv /\ [Next]_vars => HealInv'
<1>. SUFFICES ASSUME TypeInv, TypeInv', HealInv, [Next]_vars,
                     pc' \in {"stocks", "reinvest", "calendar", "broke", "record"},
                     Rolls', Flat', day' \in QuotedDates'
              PROVE  Healed'
  BY DEF HealInv
<1>1. UNCHANGED inputs /\ Rolls /\ QuotedDates' = QuotedDates
  BY DEF Next, Terminated, vars, inputs, Rolls, QuotedDates
<1>2. peak \in Int
  BY DEF TypeInv, TypeOK, MarksOK
\* The phases that only pass the reason on.
<1>3. ASSUME pc \in {"stocks", "reinvest", "calendar", "broke", "record"},
             UNCHANGED <<day, positions, total, greeks>>, peak' >= peak
      PROVE  Healed'
  <2>1. Flat /\ day \in QuotedDates /\ Healed
    BY <1>1, <1>3 DEF Flat, HealInv
  <2>2. day \in Dates
    BY <2>1 DEF QuotedDates
  <2>. QED  BY <1>1, <1>3, <2>1, <2>2, HealedKept
<1>4. CASE NothingToSpend \/ MissEntry
  <2>1. UNCHANGED <<day, positions, total, greeks, peak>> /\ EntryPhase
    BY <1>4 DEF NothingToSpend, MissEntry, book, marks
  <2>2. CASE pc = "calendar"
    BY <1>2, <1>3, <2>1, <2>2
  <2>3. CASE pc = "roll"
    <3>1. Healed
      BY <1>4, <2>3 DEF NothingToSpend, MissEntry, CapAtEntry, Healed
    <3>2. Flat /\ day \in Dates
      BY <1>1, <2>1 DEF Flat, QuotedDates
    <3>. QED  BY <1>1, <1>2, <2>1, <3>1, <3>2, HealedKept
  <2>. QED  BY <2>1, <2>2, <2>3 DEF EntryPhase
<1>5. CASE OpenPosition
  <2>1. DOMAIN positions' # {}
    BY <1>5 DEF OpenPosition, Enter
  <2>. QED  BY <2>1 DEF Flat
<1>6. CASE RebalanceStocks \/ NothingFreed \/ CheckBroke
  <2>1. /\ UNCHANGED <<day, positions, total, greeks, peak>>
        /\ pc \in {"stocks", "reinvest", "broke"}
    BY <1>6 DEF RebalanceStocks, NothingFreed, CheckBroke, book, marks
  <2>. QED  BY <1>2, <1>3, <2>1
<1>7. CASE ReinvestProceeds
  <2>1. UNCHANGED <<day, positions, total, greeks>> /\ pc = "reinvest"
    BY <1>7 DEF ReinvestProceeds
  <2>2. peak' >= peak
    <3>. DEFINE worth == cash + StockCap + OptionsCap
    <3>1. worth \in Int
      BY <1>7, DayIsDate, CapitalInt
      DEF TypeInv, TypeOK, BookOK, Located, ReinvestProceeds
    <3>2. peak' = Max({peak, worth})
      BY <1>7 DEF ReinvestProceeds
    <3>. HIDE DEF worth
    <3>. QED  BY <1>2, <3>1, <3>2, PairExtremes
  <2>. QED  BY <1>3, <2>1, <2>2
<1>8. CASE Marking
  <2>1. Flat
    BY <1>8 DEF Marking, MarkPortfolio, MarkForRoll, NoRoll, book, Flat
  <2>. QED  BY <1>1, <1>8, <2>1 DEF Marking, MarkPortfolio, MarkForRoll, NoRoll
<1>9. CASE ExecuteExits
  BY <1>9 DEF ExecuteExits
<1>10. CASE Recording \/ Walking
  <2>1. CASE BackfillDone
    BY <1>1, <2>1 DEF BackfillDone
  <2>2. CASE BeginOrdinaryDay
    BY <1>1, <2>2 DEF BeginOrdinaryDay
  <2>3. CASE BackfillRow
    BY <2>3 DEF BackfillRow
  <2>. QED  BY <1>10, <2>1, <2>2, <2>3 DEF Recording, RecordDay, Walking, NextDate,
            EndOfDates, BeginRebalance, Finish
<1>11. CASE UNCHANGED vars
  BY <1>2, <1>3, <1>11 DEF vars, control, book, marks
<1>. QED  BY <1>4, <1>5, <1>6, <1>7, <1>8, <1>9, <1>10, <1>11
          DEF Next, Terminated, Step, Entering, Investing

\* A flat book in a roll mode is never left flat while the day offers a way
\* out: whatever phases of the date follow the attempt, its reason still holds
\* when the date is recorded.
THEOREM RollHeals == Spec => []RollSelfHeals
<1>1. Init => HealInv
  BY DEF Init, HealInv
<1>2. HealInv => RollSelfHeals
  BY Zenon DEF HealInv, RollSelfHeals, Healed
<1>. QED  BY <1>1, <1>2, NextHeal, TypeInvariant, PTL DEF Spec

-----------------------------------------------------------------------------
(* The trade log and the live book.                                        *)

\* What the replay needs of time: nothing was opened after today, and before
\* the exits of a date have run nothing was opened on it.
OpenedEarlier ==
  \A t \in Opens :
    /\ t.date <= day
    /\ pc \in {"rebalance", "ordinary", "backfill", "exits"} => t.date < day

ReplayInv == BookIsReplayOfTrades /\ OpenedEarlier /\ IsFiniteSet(Opens)

LEMMA TradeFields ==
  ASSUME TypeOK, NEW t \in trades
  PROVE  t.id \in 1..attempts /\ t.date \in Dates /\ t.cost \in Int /\ t.qty \in Nat \ {0}
         /\ t.contract \in [Legs -> Contracts] /\ t.side \in {"open", "close"}
BY DEF TypeOK, LogsOK, Trade

\* An entry opens a position under an id no trade has.
LEMMA OpenPositionReplay ==
  ASSUME TypeInv, ReplayInv, OpenPosition
  PROVE  ReplayInv'
<1>. DEFINE budget == Budget(CapAtEntry)
            id     == attempts + 1
<1>1. PICK pick \in Picks(budget) :
        Enter(id, NewPosition(pick, Quantity(pick, budget)), budget)
  BY Zenon DEF OpenPosition
<1>. DEFINE pos == NewPosition(pick, Quantity(pick, budget))
            new == OpenTrade(id, pos)
<1>2. /\ positions' = [p \in DOMAIN positions \cup {id} |->
                         IF p = id THEN pos ELSE positions[p]]
      /\ trades' = trades \cup {new}
  BY <1>1, Zenon DEF Enter
<1>3. attempts' = attempts + 1 /\ UNCHANGED <<unfilled, day>>
  BY DEF OpenPosition
<1>4. /\ new.id = id /\ new.side = "open" /\ new.date = day
      /\ new.cost = pos.entryCost /\ new.qty = pos.qty /\ new.contract = pos.contract
  BY DEF OpenTrade
<1>. HIDE DEF pos, new
<1>5. attempts \in Nat /\ unfilled \in 0..attempts /\ day \in Int
  BY DEF TypeInv, TypeOK, CountersOK, ControlOK
<1>6. \A t \in trades : t.id \in 1..attempts /\ t.id # id
  BY <1>5, TradeFields DEF TypeInv
<1>7. DOMAIN positions \subseteq 1..attempts
  BY DEF TypeInv, TypeOK, BookOK, Partial
<1>8. Opens' = Opens \cup {new} /\ Closes' = Closes /\ new \notin Opens
  BY <1>2, <1>4, <1>6 DEF Opens, Closes
<1>9. BookIsReplayOfTrades'
  <2>1. DOMAIN positions' = {t.id : t \in Opens'} \ {t.id : t \in Closes'}
    <3>1. DOMAIN positions = {t.id : t \in Opens} \ {t.id : t \in Closes}
      BY DEF ReplayInv, BookIsReplayOfTrades
    <3>2. \A t \in Closes : t.id # id
      BY <1>6 DEF Closes
    <3>. QED  BY <1>2, <1>4, <1>8, <3>1, <3>2
  <2>2. \A s, t \in trades' : s.id = t.id /\ s.side = t.side => s = t
    BY <1>2, <1>4, <1>6 DEF ReplayInv, BookIsReplayOfTrades
  <2>3. \A t \in Closes' : \E s \in Opens' :
          /\ s.id = t.id /\ s.date < t.date
          /\ s.qty = t.qty /\ s.contract = t.contract
    BY <1>8 DEF ReplayInv, BookIsReplayOfTrades
  <2>4. \A p \in DOMAIN positions' : \E s \in Opens' :
          /\ s.id = p /\ s.cost = positions'[p].entryCost
          /\ s.qty = positions'[p].qty /\ s.contract = positions'[p].contract
    <3>1. SUFFICES ASSUME NEW p \in DOMAIN positions'
                   PROVE  \E s \in Opens' :
                            /\ s.id = p /\ s.cost = positions'[p].entryCost
                            /\ s.qty = positions'[p].qty
                            /\ s.contract = positions'[p].contract
      OBVIOUS
    <3>2. CASE p = id
      BY <1>2, <1>4, <1>8, <3>2
    <3>3. CASE p # id
      <4>1. p \in DOMAIN positions /\ positions'[p] = positions[p]
        BY <1>2, <3>3
      <4>. QED  BY <1>8, <4>1 DEF ReplayInv, BookIsReplayOfTrades
    <3>. QED  BY <3>2, <3>3
  <2>5. Cardinality(Opens') = attempts' - unfilled'
    <3>1. Cardinality(Opens') = Cardinality(Opens) + 1
      BY <1>8, FS_AddElement DEF ReplayInv
    <3>2. Cardinality(Opens) = attempts - unfilled
      BY DEF ReplayInv, BookIsReplayOfTrades
    <3>. QED  BY <1>3, <1>5, <3>1, <3>2
  <2>. QED  BY <2>1, <2>2, <2>3, <2>4, <2>5, Zenon DEF BookIsReplayOfTrades
<1>10. OpenedEarlier'
  <2>1. pc' \notin {"rebalance", "ordinary", "backfill", "exits"}
    BY DEF OpenPosition, AfterEntry
  <2>. QED  BY <1>3, <1>4, <1>5, <1>8, <2>1 DEF ReplayInv, OpenedEarlier
<1>11. IsFiniteSet(Opens')
  BY <1>8, FS_AddElement DEF ReplayInv
<1>. QED  BY <1>9, <1>10, <1>11 DEF ReplayInv

\* An exit closes positions that are live, so under ids no close has.
LEMMA ExecuteExitsReplay ==
  ASSUME TypeInv, ReplayInv, ExecuteExits
  PROVE  ReplayInv'
<1>. DEFINE closing == {p \in DOMAIN positions : ShouldExit(p)}
            new     == {CloseTrade(p) : p \in closing}
<1>1. /\ positions' = [p \in DOMAIN positions \ closing |-> positions[p]]
      /\ trades' = trades \cup new
      /\ UNCHANGED <<day, attempts, unfilled>> /\ pc = "exits" /\ pc' = "mark"
  BY DEF ExecuteExits, counters
<1>2. \A p \in closing :
        /\ CloseTrade(p).id = p /\ CloseTrade(p).side = "close"
        /\ CloseTrade(p).date = day /\ CloseTrade(p).qty = positions[p].qty
        /\ CloseTrade(p).contract = positions[p].contract
  BY DEF CloseTrade
<1>3. closing \subseteq DOMAIN positions
  OBVIOUS
<1>. HIDE DEF closing
<1>4. Opens' = Opens /\ Closes' = Closes \cup new
  BY <1>1, <1>2 DEF Opens, Closes
<1>5. DOMAIN positions = {t.id : t \in Opens} \ {t.id : t \in Closes}
  BY DEF ReplayInv, BookIsReplayOfTrades
<1>6. \A p \in DOMAIN positions : \A t \in Closes : t.id # p
  BY <1>5
<1>7. BookIsReplayOfTrades'
  <2>1. DOMAIN positions' = {t.id : t \in Opens'} \ {t.id : t \in Closes'}
    <3>1. {t.id : t \in new} = closing
      BY <1>2
    <3>2. {t.id : t \in Closes'} = {t.id : t \in Closes} \cup closing
      BY <1>4, <3>1
    <3>. HIDE DEF new
    <3>. QED  BY <1>1, <1>4, <1>5, <3>2
  <2>2. \A s, t \in trades' : s.id = t.id /\ s.side = t.side => s = t
    <3>1. SUFFICES ASSUME NEW s \in trades', NEW t \in trades',
                          s.id = t.id, s.side = t.side
                   PROVE  s = t
      OBVIOUS
    <3>2. CASE s \in trades /\ t \in trades
      BY <3>1, <3>2 DEF ReplayInv, BookIsReplayOfTrades
    <3>3. CASE s \in new /\ t \in new
      <4>1. PICK p \in closing, q \in closing : s = CloseTrade(p) /\ t = CloseTrade(q)
        BY <3>3
      <4>2. p = q
        BY <1>2, <3>1, <4>1
      <4>. QED  BY <4>1, <4>2
    <3>4. \A u \in new : \A v \in trades : ~ (u.id = v.id /\ u.side = v.side)
      BY <1>2, <1>3, <1>6 DEF Closes
    <3>. QED  BY <1>1, <3>1, <3>2, <3>3, <3>4
  <2>3. ASSUME NEW t \in Closes'
        PROVE  \E s \in Opens' :
                 /\ s.id = t.id /\ s.date < t.date
                 /\ s.qty = t.qty /\ s.contract = t.contract
    <3>1. CASE t \in Closes
      BY <1>4, <3>1 DEF ReplayInv, BookIsReplayOfTrades
    <3>2. CASE t \in new
      <4>1. PICK p \in closing : t = CloseTrade(p)
        BY <3>2
      <4>2. PICK s \in Opens : /\ s.id = p /\ s.qty = positions[p].qty
                               /\ s.contract = positions[p].contract
        BY <1>3 DEF ReplayInv, BookIsReplayOfTrades
      <4>3. s.date < day
        BY <1>1 DEF ReplayInv, OpenedEarlier
      <4>. QED  BY <1>2, <1>4, <4>1, <4>2, <4>3
    <3>. QED  BY <1>4, <3>1, <3>2
  <2>4. \A p \in DOMAIN positions' : \E s \in Opens' :
          /\ s.id = p /\ s.cost = positions'[p].entryCost
          /\ s.qty = positions'[p].qty /\ s.contract = positions'[p].contract
    BY <1>1, <1>4 DEF ReplayInv, BookIsReplayOfTrades
  <2>5. Cardinality(Opens') = attempts' - unfilled'
    BY <1>1, <1>4 DEF ReplayInv, BookIsReplayOfTrades
  <2>. QED  BY <2>1, <2>2, <2>3, <2>4, <2>5, Zenon DEF BookIsReplayOfTrades
<1>8. OpenedEarlier'
  BY <1>1, <1>4 DEF ReplayInv, OpenedEarlier
<1>9. IsFiniteSet(Opens')
  BY <1>4 DEF ReplayInv
<1>. QED  BY <1>7, <1>8, <1>9 DEF ReplayInv

\* The other phases leave book and log alone, and time only moves forward.
LEMMA OtherReplay ==
  ASSUME TypeInv, ReplayInv, UNCHANGED <<positions, trades>>,
         attempts' - unfilled' = attempts - unfilled,
         \/ UNCHANGED day /\ (pc' \in {"rebalance", "ordinary", "backfill", "exits"}
                                => pc \in {"rebalance", "ordinary", "backfill", "exits"})
         \/ day' \in Nat /\ day' > day
  PROVE  ReplayInv'
<1>1. Opens' = Opens /\ Closes' = Closes
  BY DEF Opens, Closes
<1>2. BookIsReplayOfTrades'
  BY <1>1, Zenon DEF ReplayInv, BookIsReplayOfTrades
<1>3. \A t \in Opens : t.date \in Nat
  BY TradeFields, DateFacts DEF Opens, TypeInv
<1>4. day \in Nat
  BY DateFacts DEF TypeInv, TypeOK, ControlOK
<1>5. OpenedEarlier'
  BY <1>1, <1>3, <1>4 DEF ReplayInv, OpenedEarlier
<1>. QED  BY <1>1, <1>2, <1>5 DEF ReplayInv

LEMMA NextReplay == TypeInv /\ ReplayInv /\ [Next]_vars => ReplayInv'
<1>. SUFFICES ASSUME TypeInv, ReplayInv, [Next]_vars PROVE ReplayInv'
  OBVIOUS
<1>. DEFINE Morning == {"rebalance", "ordinary", "backfill", "exits"}
            Still   == UNCHANGED day /\ (pc' \in Morning => pc \in Morning)
            Idle    == UNCHANGED <<positions, trades, attempts, unfilled>>
<1>1. CASE Step
  <2>1. CASE Recording
    <3>1. Idle /\ Still
      BY <2>1 DEF Recording, BackfillRow, BackfillDone, RecordDay, book, counters, logs
    <3>. QED  BY <3>1, OtherReplay
  <2>2. CASE NextDate
    <3>. DEFINE later == {d \in WalkedDates : d > day}
    <3>1. later \in SUBSET Nat /\ later # {} /\ day' = Min(later)
      BY <2>2, MarketFacts, ConfigFacts, DateFacts DEF TypeInv, TypeOK, WalkedDates, NextDate
    <3>2. day' \in Nat /\ day' > day
      <4>1. day' \in later
        BY <3>1, MinOf
      <4>. QED  BY <3>1, <4>1
    <3>3. Idle
      BY <2>2 DEF NextDate, book, counters, logs
    <3>. QED  BY <3>2, <3>3, OtherReplay
  <2>3. CASE Walking /\ ~NextDate
    <3>1. Idle /\ Still
      BY <2>3 DEF Walking, EndOfDates, BeginRebalance, BeginOrdinaryDay, Finish, book,
         counters, logs
    <3>. QED  BY <3>1, OtherReplay
  <2>4. CASE ExecuteExits
    BY <2>4, ExecuteExitsReplay
  <2>5. CASE Marking
    <3>1. Idle /\ Still
      BY <2>5 DEF Marking, MarkPortfolio, MarkForRoll, NoRoll, book, counters, logs
    <3>. QED  BY <3>1, OtherReplay
  <2>6. CASE OpenPosition
    BY <2>6, OpenPositionReplay
  <2>7. CASE NothingToSpend \/ MissEntry
    <3>1. UNCHANGED <<positions, trades>> /\ Still
      BY <2>7 DEF NothingToSpend, MissEntry, AfterEntry, book, logs
    <3>2. attempts' - unfilled' = attempts - unfilled
      BY <2>7 DEF NothingToSpend, MissEntry, counters, TypeInv, TypeOK, CountersOK
    <3>. QED  BY <3>1, <3>2, OtherReplay
  <2>8. CASE Investing \/ CheckBroke
    <3>1. Idle /\ Still
      BY <2>8 DEF Investing, RebalanceStocks, ReinvestProceeds, NothingFreed, CheckBroke,
         book, counters, logs
    <3>. QED  BY <3>1, OtherReplay
  <2>. QED  BY <1>1, <2>1, <2>2, <2>3, <2>4, <2>5, <2>6, <2>7, <2>8 DEF Step, Entering
<1>2. CASE UNCHANGED vars
  <2>1. Idle /\ Still
    BY <1>2 DEF vars, control, book, counters, logs
  <2>. QED  BY <2>1, OtherReplay
<1>. QED  BY <1>1, <1>2 DEF Next, Terminated

LEMMA ReplayInvariant == Spec => []ReplayInv
<1>1. Init => ReplayInv
  <2>. SUFFICES ASSUME Init PROVE ReplayInv
    OBVIOUS
  <2>1. Opens = {} /\ Closes = {}
    BY DEF Init, Opens, Closes
  <2>2. BookIsReplayOfTrades
    BY <2>1, FS_EmptySet DEF Init, BookIsReplayOfTrades
  <2>. QED  BY <2>1, <2>2, FS_EmptySet DEF ReplayInv, OpenedEarlier
<1>. QED  BY <1>1, NextReplay, TypeInvariant, PTL DEF Spec

\* The live positions are exactly the trades opened and not closed, each closed
\* at most once, whole and on a later date, and every attempt is accounted for:
\* execute_exits and execute_entries keep log, counters and book in step over
\* any run.
THEOREM ReplayHolds == Spec => []BookIsReplayOfTrades
<1>1. ReplayInv => BookIsReplayOfTrades
  BY DEF ReplayInv
<1>. QED  BY <1>1, ReplayInvariant, PTL

-----------------------------------------------------------------------------
(* What the trades of a log add up to.                                     *)

LEMMA ProductInt ==
  ASSUME NEW a \in Int, NEW b \in Int
  PROVE  a * b \in Int /\ -(a * b) \in Int
OBVIOUS

\* A trade without a namesake is found under its attempt.
LEMMA ByAttemptOf ==
  ASSUME NEW S
  PROVE  /\ DOMAIN ByAttempt(S) = {t.id : t \in S}
         /\ \A t \in S : (\A s \in S : s.id = t.id => s = t) => ByAttempt(S)[t.id] = t
<1>1. DOMAIN ByAttempt(S) = {t.id : t \in S}
  BY Zenon DEF ByAttempt
<1>2. ASSUME NEW t \in S, \A s \in S : s.id = t.id => s = t
      PROVE  ByAttempt(S)[t.id] = t
  <2>1. ByAttempt(S)[t.id] = CHOOSE s \in S : s.id = t.id
    BY Zenon DEF ByAttempt
  <2>. QED  BY <1>2, <2>1
<1>. QED  BY <1>1, <1>2

\* An empty log adds nothing.
LEMMA SingleTotal ==
  ASSUME NEW n \in Nat \ {0}, NEW f, DOMAIN f = {n}, f[n] \in Int
  PROVE  Total(f, n) = f[n]
<1>1. IntTerms(f, n) /\ n \in 1..n /\ n - 1 \in Nat /\ n - 1 \in 0..n
  BY DEF IntTerms
<1>2. Total(f, n) = Total(f, n - 1) + Term(f, n)
  BY <1>1, TotalRecursion
<1>3. Total(f, n - 1) = 0
  <2>1. IntTerms(f, n - 1)
    BY <1>1, TermInt
  <2>2. \A k \in 1..(n - 1) : Term(f, k) = 0
    BY DEF Term
  <2>. QED  BY <1>1, <2>1, <2>2, TotalNothing
<1>. QED  BY <1>2, <1>3 DEF Term

-----------------------------------------------------------------------------
(* Wealth, and what each phase does to it.                                 *)

\* What a book of positions is worth, net of the basis an external budget
\* takes back, position by position.
Basis(P) == [p \in DOMAIN P |-> P[p].entryCost * P[p].qty]

Worths(P) ==
  [p \in DOMAIN P |-> -PositionExitCost(today, cfg.legs, P[p]) * P[p].qty]

Net(P) == [p \in DOMAIN P |-> Worths(P)[p] - IF External THEN Basis(P)[p] ELSE 0]

\* A book whose positions say what they cost to enter.
PaidBook(P, n) ==
  BookOf(cfg.legs, P, n) /\ \A p \in DOMAIN P : P[p].entryCost \in Int

LEMMA NetInt ==
  ASSUME IsDay(today), NEW P, NEW n, PaidBook(P, n), NEW p \in DOMAIN P
  PROVE  Basis(P)[p] \in Int /\ Worths(P)[p] \in Int /\ Net(P)[p] \in Int
<1>. DEFINE cost == PositionExitCost(today, cfg.legs, P[p])
<1>1. cost \in Int /\ P[p].qty \in Int /\ P[p].entryCost \in Int
  BY PositionExitCostInt DEF PaidBook, BookOf, PositionOf
<1>2. Basis(P)[p] \in Int
  BY <1>1, ProductInt DEF Basis
<1>3. Worths(P)[p] = -cost * P[p].qty
  BY DEF Worths
<1>. HIDE DEF cost
<1>4. Worths(P)[p] \in Int
  BY <1>1, <1>3, ProductInt
<1>5. Net(P)[p] = Worths(P)[p] - IF External THEN Basis(P)[p] ELSE 0
  BY Zenon DEF Net
<1>. QED  BY <1>2, <1>4, <1>5

\* The value of the options less what is owed for them is the total of Net.
LEMMA NetTotal ==
  ASSUME IsDay(today), NEW P, NEW n, PaidBook(P, n)
  PROVE  /\ IntTerms(Net(P), n) /\ Total(Net(P), n) \in Int
         /\ OptionsCapital(today, cfg.legs, P, n) \in Int
         /\ Total(Basis(P), n) \in Int
         /\ OptionsCapital(today, cfg.legs, P, n)
              - (IF External THEN Total(Basis(P), n) ELSE 0) = Total(Net(P), n)
<1>1. n \in Nat
  BY DEF PaidBook, BookOf
<1>2. DOMAIN Net(P) = DOMAIN P /\ DOMAIN Basis(P) = DOMAIN P /\ DOMAIN Worths(P) = DOMAIN P
  BY DEF Net, Basis, Worths
<1>3. IntTerms(Net(P), n) /\ IntTerms(Basis(P), n) /\ IntTerms(Worths(P), n)
  BY <1>2, NetInt DEF IntTerms
<1>4. Total(Net(P), n) \in Int /\ Total(Basis(P), n) \in Int /\ Total(Worths(P), n) \in Int
  BY <1>1, <1>3, TotalInt DEF IntTerms
<1>5. OptionsCapital(today, cfg.legs, P, n) = Total(Worths(P), n)
  BY Zenon DEF OptionsCapital, Worths
<1>6. \A p \in DOMAIN P : Net(P)[p] = Worths(P)[p] - IF External THEN Basis(P)[p] ELSE 0
  BY Zenon DEF Net
<1>7. CASE External
  <2>1. \A k \in 1..n : Term(Worths(P), k) = Term(Net(P), k) + Term(Basis(P), k)
    <3>1. \A p \in DOMAIN P : /\ Basis(P)[p] \in Int /\ Worths(P)[p] \in Int
                              /\ Net(P)[p] = Worths(P)[p] - Basis(P)[p]
      BY <1>6, <1>7, NetInt
    <3>. QED  BY <1>2, <3>1 DEF Term
  <2>2. Total(Worths(P), n) = Total(Net(P), n) + Total(Basis(P), n)
    BY <1>1, <1>3, <2>1, TotalSum
  <2>. QED  BY <1>3, <1>4, <1>5, <1>7, <2>2
<1>8. CASE ~External
  <2>1. \A k \in 1..n : Term(Worths(P), k) = Term(Net(P), k)
    <3>1. \A p \in DOMAIN P : Worths(P)[p] \in Int /\ Net(P)[p] = Worths(P)[p]
      BY <1>6, <1>8, NetInt
    <3>. QED  BY <1>2, <3>1 DEF Term
  <2>2. Total(Worths(P), n) = Total(Net(P), n)
    BY <1>1, <1>3, <2>1, TotalSame
  <2>. QED  BY <1>3, <1>4, <1>5, <1>8, <2>2
<1>. QED  BY <1>7, <1>8

LEMMA StockValueInt ==
  ASSUME IsDay(today), NEW H, NEW n, HoldingsOf(H, n)
  PROVE  StockValue(today, H, n) \in Int
<1>. DEFINE f == [s \in DOMAIN H |-> MarkPrice(today, H, s) * H[s].qty]
<1>1. ASSUME NEW s \in DOMAIN H PROVE f[s] \in Int
  <2>. DEFINE price == MarkPrice(today, H, s)
  <2>1. price \in Int /\ H[s].qty \in Int
    BY MarkPriceNat DEF HoldingsOf
  <2>2. f[s] = price * H[s].qty
    OBVIOUS
  <2>. HIDE DEF price, f
  <2>. QED  BY <2>1, <2>2, ProductInt
<1>2. DOMAIN f = DOMAIN H
  OBVIOUS
<1>3. Total(f, n) \in Int
  <2>. HIDE DEF f
  <2>. QED  BY <1>1, <1>2, TotalInt DEF HoldingsOf
<1>. QED  BY <1>3 DEF StockValue

\* Wealth before and after a step within a date, on the prices of the date.
LEMMA WealthIs ==
  ASSUME TypeInv, TypeInv', UNCHANGED <<inputs, day>>, day \in Dates
  PROVE  LET n == Len(cfg.weights)
         IN  /\ IsDay(today) /\ n \in Nat
             /\ HoldingsOf(holdings, n) /\ HoldingsOf(holdings', n)
             /\ PaidBook(positions, attempts) /\ PaidBook(positions', attempts')
             /\ DOMAIN positions \subseteq 1..attempts
             /\ attempts \in Nat /\ attempts' \in Nat /\ cash \in Int /\ cash' \in Int
             /\ Wealth = cash + StockValue(today, holdings, n)
                           + Total(Net(positions), attempts)
             /\ Wealth' = cash' + StockValue(today, holdings', n)
                            + Total(Net(positions'), attempts')
<1>. DEFINE n == Len(cfg.weights)
<1>1. IsDay(today) /\ n \in Nat /\ HoldingsOf(holdings, n)
  BY MarketFacts, ConfigFacts, BookFacts DEF TypeInv, TypeOK, today
<1>2. PaidBook(positions, attempts) /\ DOMAIN positions \subseteq 1..attempts
  BY BookFacts DEF TypeInv, TypeOK, PaidBook
<1>3. attempts \in Nat /\ attempts' \in Nat /\ cash \in Int /\ cash' \in Int
  BY DEF TypeInv, TypeOK, BookOK, CountersOK
<1>4. today' = today /\ cfg' = cfg /\ Legs' = Legs /\ Symbols' = Symbols
        /\ External' = External
  BY DEF inputs, today, Legs, Symbols, External
<1>5. HoldingsOf(holdings', n)
  <2>1. \A s \in DOMAIN holdings' : holdings'[s] \in Holding
    BY DEF TypeInv, TypeOK, BookOK, Partial, Holding
  <2>. QED  BY <1>1, <2>1 DEF HoldingsOf, Holding
<1>6. PaidBook(positions', attempts')
  <2>1. \A q \in DOMAIN positions' : positions'[q] \in Position
    <3>1. Position' = Position
      BY <1>4 DEF Position
    <3>. QED  BY <3>1 DEF TypeInv, TypeOK, BookOK, Partial
  <2>2. \A q \in DOMAIN positions' :
          /\ positions'[q].entryCost \in Int /\ positions'[q].qty \in Nat \ {0}
          /\ positions'[q].contract \in [Legs -> Contracts]
    BY <2>1 DEF Position
  <2>3. Len(cfg.legs) \in Nat
    BY ConfigFacts DEF TypeInv, TypeOK
  <2>. QED  BY <1>3, <2>2, <2>3 DEF PaidBook, BookOf, PositionOf, Legs
<1>7. Wealth = cash + StockValue(today, holdings, n) + Total(Net(positions), attempts)
  <2>1. OutstandingBasis = IF External THEN Total(Basis(positions), attempts) ELSE 0
    BY Zenon DEF OutstandingBasis, Basis
  <2>2. OptionsCap - OutstandingBasis = Total(Net(positions), attempts)
          /\ OptionsCap \in Int /\ OutstandingBasis \in Int
    BY <1>1, <1>2, <2>1, NetTotal DEF OptionsCap
  <2>3. StockValue(today, holdings, n) \in Int
    BY <1>1, StockValueInt
  <2>. QED  BY <1>3, <2>2, <2>3 DEF Wealth
<1>8. Wealth' = cash' + StockValue(today, holdings', n)
                  + Total(Net(positions'), attempts')
  <2>1. OutstandingBasis'
          = IF External THEN Total(Basis(positions'), attempts') ELSE 0
    <3>1. OutstandingBasis'
            = IF External'
              THEN Total([q \in DOMAIN positions' |->
                            positions'[q].entryCost * positions'[q].qty], attempts')
              ELSE 0
      BY Zenon DEF OutstandingBasis
    <3>. QED  BY <1>4, <3>1, Zenon DEF Basis
  <2>2. OptionsCap' = OptionsCapital(today, cfg.legs, positions', attempts')
    BY <1>4 DEF OptionsCap
  <2>3. OptionsCap' - OutstandingBasis' = Total(Net(positions'), attempts')
          /\ OptionsCap' \in Int /\ OutstandingBasis' \in Int
    BY <1>1, <1>6, <2>1, <2>2, NetTotal
  <2>4. StockValue(today, holdings', n) \in Int
    BY <1>1, <1>5, StockValueInt
  <2>5. Wealth' = cash' + StockValue(today, holdings', n) + OptionsCap' - OutstandingBasis'
    BY <1>4 DEF Wealth
  <2>. QED  BY <1>3, <2>3, <2>4, <2>5
<1>. QED  BY <1>1, <1>2, <1>3, <1>5, <1>6, <1>7, <1>8

Balanced == Wealth' = Wealth - Friction

\* A phase that trades nothing leaves wealth alone, also when it counts an
\* attempt.
LEMMA IdleBalanced ==
  ASSUME TypeInv, TypeInv', UNCHANGED <<inputs, day, cash, positions, holdings, trades>>,
         day \in Dates, attempts' \in {attempts, attempts + 1}, ~BuysStocks
  PROVE  Balanced
<1>. DEFINE n == Len(cfg.weights)
<1>1. PaidBook(positions, attempts') /\ DOMAIN positions \subseteq 1..attempts
  BY WealthIs
<1>2. Total(Net(positions), attempts') = Total(Net(positions), attempts)
  <2>1. attempts \in Nat /\ attempts' \in Nat /\ attempts \in 0..attempts'
    BY WealthIs
  <2>2. IntTerms(Net(positions), attempts')
    BY <1>1, WealthIs, NetTotal
  <2>3. DOMAIN Net(positions) = DOMAIN positions
    BY DEF Net
  <2>4. \A k \in (attempts+1)..attempts' : Term(Net(positions), k) = 0
    BY <1>1, <2>1, <2>3 DEF Term
  <2>. QED  BY <2>1, <2>2, <2>4, TotalPadded
<1>3. Wealth' = Wealth
  BY <1>2, WealthIs
<1>4. Friction = 0
  <2>. DEFINE f == [p \in DOMAIN ByAttempt(NewTrades) |-> TradeFriction(ByAttempt(NewTrades)[p])]
  <2>1. NewTrades = {}
    BY DEF NewTrades
  <2>2. DOMAIN f = {}
    <3>1. DOMAIN f = {t.id : t \in NewTrades}
      BY ByAttemptOf
    <3>. QED  BY <2>1, <3>1
  <2>3. Friction = Total(f, attempts') + 0
    BY Zenon DEF Friction
  <2>. HIDE DEF f
  <2>4. Total(f, attempts') = 0
    BY <2>2, EmptyTotal, WealthIs
  <2>. QED  BY <2>3, <2>4
<1>5. Wealth \in Int
  <2>1. StockValue(today, holdings, n) \in Int /\ Total(Net(positions), attempts) \in Int
    BY WealthIs, StockValueInt, NetTotal
  <2>. QED  BY <2>1, WealthIs
<1>. QED  BY <1>3, <1>4, <1>5 DEF Balanced

\* Where every holding has a close, what stocks are sold for is their value.
LEMMA StockCapIsValue ==
  ASSUME IsDay(today), AllPriced, HoldingsOf(holdings, Len(cfg.weights))
  PROVE  StockCap = StockValue(today, holdings, Len(cfg.weights))
<1>. DEFINE f == [s \in DOMAIN holdings |->
                    (IF s \in DOMAIN today.prices THEN today.prices[s] ELSE 0)
                      * holdings[s].qty]
            g == [s \in DOMAIN holdings |-> MarkPrice(today, holdings, s) * holdings[s].qty]
<1>1. \A s \in DOMAIN holdings :
        (IF s \in DOMAIN today.prices THEN today.prices[s] ELSE 0)
          = MarkPrice(today, holdings, s)
  BY DEF AllPriced, MarkPrice
<1>2. f = g
  BY <1>1, Zenon
<1>. QED  BY <1>2, Zenon DEF StockCap, StockCapital, StockValue

\* Stocks cost what they are worth when they have been bought.
LEMMA OrderCostIsValue ==
  ASSUME IsDay(today), NEW alloc \in Int, cfg.weights \in Seq(Nat), NEW n,
         n = Len(cfg.weights)
  PROVE  StockValue(today, StockOrder(today, alloc, cfg.weights), n)
           = StockCost(StockOrder(today, alloc, cfg.weights), n)
<1>. DEFINE order == StockOrder(today, alloc, cfg.weights)
            f == [s \in DOMAIN order |-> order[s].qty * order[s].price]
            g == [s \in DOMAIN order |-> MarkPrice(today, order, s) * order[s].qty]
<1>1. \A s \in DOMAIN order : s \in DOMAIN today.prices /\ order[s].price = today.prices[s]
  BY DEF StockOrder
<1>2. \A s \in DOMAIN order : order[s].qty \in Int /\ order[s].price \in Int
  <2>1. order \in [DOMAIN order -> [qty : Int, price : Nat]]
    BY StockOrderType
  <2>. HIDE DEF order
  <2>. QED  BY <2>1
<1>. HIDE DEF order
<1>3. \A s \in DOMAIN order : MarkPrice(today, order, s) = order[s].price
  BY <1>1 DEF MarkPrice
<1>4. \A s \in DOMAIN order :
        MarkPrice(today, order, s) * order[s].qty = order[s].qty * order[s].price
  BY <1>2, <1>3
<1>5. g = f
  BY <1>4, Zenon
<1>. QED  BY <1>5, Zenon DEF StockValue, StockCost, order

\* Selling every holding and buying again costs the commission of what is bought.
LEMMA BuyStocksBalanced ==
  ASSUME TypeInv, TypeInv', UNCHANGED <<inputs, day, positions, attempts, trades>>,
         day \in Dates, BuysStocks, AllPriced,
         NEW liquid, liquid = cash + StockCap, NEW alloc \in Int, BuyStocks(liquid, alloc)
  PROVE  Balanced
<1>. DEFINE n     == Len(cfg.weights)
            order == StockOrder(today, alloc, cfg.weights)
            worth == Total(Net(positions), attempts)
<1>1. IsDay(today) /\ HoldingsOf(holdings, n) /\ n \in Nat /\ cash \in Int
        /\ attempts \in Nat
  BY WealthIs
<1>2. cfg.weights \in Seq(Nat) /\ cfg.stockRate \in Nat
  BY ConfigFacts DEF TypeInv, TypeOK
<1>3. /\ holdings' = order
      /\ cash' = liquid - StockCost(order, n)
                   - StockCommission(cfg.stockRate, order, n)
  BY Zenon DEF BuyStocks
<1>4. StockCap = StockValue(today, holdings, n) /\ StockCap \in Int
  BY <1>1, StockCapIsValue, StockValueInt
<1>5. StockValue(today, order, n) = StockCost(order, n)
  BY <1>1, <1>2, OrderCostIsValue
<1>6. StockCost(order, n) \in Int /\ StockCommission(cfg.stockRate, order, n) \in Int
  <2>1. order \in [DOMAIN order -> [qty : Int, price : Nat]]
    BY <1>1, <1>2, StockOrderType
  <2>. HIDE DEF order
  <2>. QED  BY <1>1, <1>2, <2>1, StockCostInt
<1>7. Friction = StockCommission(cfg.stockRate, order, n)
  <2>. DEFINE f == [p \in DOMAIN ByAttempt(NewTrades) |-> TradeFriction(ByAttempt(NewTrades)[p])]
  <2>1. NewTrades = {}
    BY DEF NewTrades
  <2>2. DOMAIN f = {}
    <3>1. DOMAIN f = {t.id : t \in NewTrades}
      BY ByAttemptOf
    <3>. QED  BY <2>1, <3>1
  <2>3. Friction = Total(f, attempts') + StockCommission(cfg.stockRate, holdings', n)
    BY Zenon DEF Friction
  <2>. HIDE DEF f, order
  <2>4. Total(f, attempts') = 0
    BY <1>1, <2>2, EmptyTotal
  <2>. QED  BY <1>3, <1>6, <2>3, <2>4
<1>8. /\ Wealth = cash + StockValue(today, holdings, n) + worth
      /\ Wealth' = cash' + StockValue(today, holdings', n) + worth
  BY WealthIs
<1>9. worth \in Int
  BY WealthIs, NetTotal
<1>. HIDE DEF order, worth, n
<1>. QED  BY <1>1, <1>3, <1>4, <1>5, <1>6, <1>7, <1>8, <1>9 DEF Balanced

\* A position is left for its exit value, the basis an external budget paid goes
\* back, and the commission is lost.
LEMMA ExecuteExitsBalanced ==
  ASSUME TypeInv, TypeInv', ReplayInv, UNCHANGED inputs, day \in Dates, ExecuteExits
  PROVE  Balanced
<1>. DEFINE n       == Len(cfg.weights)
            closing == {p \in DOMAIN positions : ShouldExit(p)}
            flows   == [p \in closing |-> ExitCashFlow(p)]
            fees    == [p \in closing |-> Commission(cfg.optionRate, positions[p].qty)]
            left    == [p \in closing |-> Net(positions)[p]]
            held    == StockValue(today, holdings, n)
<1>1. /\ cash' = cash + Total(flows, attempts)
      /\ positions' = [p \in DOMAIN positions \ closing |-> positions[p]]
      /\ trades' = trades \cup {CloseTrade(p) : p \in closing}
      /\ UNCHANGED <<inputs, day, holdings, attempts>> /\ ~BuysStocks
  BY DEF ExecuteExits, counters, BuysStocks
<1>2. /\ InputsOK /\ BookOK /\ CountersOK /\ attempts \in Nat /\ cash \in Int
      /\ IsDay(today) /\ HoldingsOf(holdings, n)
      /\ PaidBook(positions, attempts) /\ PaidBook(positions', attempts)
      /\ Wealth = cash + held + Total(Net(positions), attempts)
      /\ Wealth' = cash' + held + Total(Net(positions'), attempts)
  BY <1>1, WealthIs DEF TypeInv, TypeOK
<1>3. held \in Int
  BY <1>2, StockValueInt
<1>4. closing \subseteq DOMAIN positions
  OBVIOUS
<1>5. \A p \in closing :
        /\ flows[p] \in Int /\ fees[p] \in Int /\ Net(positions)[p] \in Int
        /\ flows[p] + fees[p] = Net(positions)[p]
  <2>. SUFFICES ASSUME NEW p \in DOMAIN positions
                PROVE  LET fee == Commission(cfg.optionRate, positions[p].qty)
                       IN  /\ ExitCashFlow(p) \in Int /\ fee \in Int
                           /\ Net(positions)[p] \in Int
                           /\ ExitCashFlow(p) + fee = Net(positions)[p]
    OBVIOUS
  <2>. DEFINE fee   == Commission(cfg.optionRate, positions[p].qty)
              cost  == ExitCost(p)
              qty   == positions[p].qty
              owed  == BasisReturn(p)
              paid  == positions[p].entryCost * qty
  <2>1. cost \in Int /\ qty \in Int /\ positions[p].entryCost \in Int
    BY <1>2, CapitalInt, BookFacts
  <2>2. fee \in Int
    BY <1>2, <2>1, CommissionInt, ConfigFacts
  <2>3. paid \in Int /\ owed = IF External THEN paid ELSE 0
    <3>1. paid \in Int
      <4>. HIDE DEF qty
      <4>. QED  BY <2>1, ProductInt
    <3>. QED  BY <3>1, Zenon DEF BasisReturn
  <2>4. Net(positions)[p] = -cost * qty - IF External THEN paid ELSE 0
    BY Zenon DEF Net, Worths, Basis, ExitCost
  <2>5. ExitCashFlow(p) = -(cost * qty) - owed - fee
    BY Zenon DEF ExitCashFlow
  <2>. HIDE DEF fee, cost, qty, owed, paid
  <2>6. -cost * qty = -(cost * qty) /\ cost * qty \in Int
    BY <2>1
  <2>7. ExitCashFlow(p) \in Int /\ fee \in Int /\ Net(positions)[p] \in Int
          /\ ExitCashFlow(p) + fee = Net(positions)[p]
    BY <2>2, <2>3, <2>4, <2>5, <2>6
  <2>. QED  BY <2>7 DEF fee
<1>6. DOMAIN flows = closing /\ DOMAIN fees = closing /\ DOMAIN left = closing
        /\ DOMAIN Net(positions) = DOMAIN positions
        /\ DOMAIN Net(positions') = DOMAIN positions \ closing
  BY <1>1 DEF Net
<1>7. \A p \in closing : left[p] = Net(positions)[p]
  OBVIOUS
<1>8. \A p \in DOMAIN positions \ closing : Net(positions')[p] = Net(positions)[p]
  BY <1>1 DEF Net, Worths, Basis
<1>9. Friction = Total(fees, attempts)
  <2>. DEFINE f == [p \in DOMAIN ByAttempt(NewTrades) |-> TradeFriction(ByAttempt(NewTrades)[p])]
  <2>1. \A p \in closing : CloseTrade(p).id = p /\ CloseTrade(p).side = "close"
                             /\ CloseTrade(p).qty = positions[p].qty
    BY DEF CloseTrade
  <2>2. NewTrades = {CloseTrade(p) : p \in closing}
    <3>1. \A p \in closing : \A t \in trades : t # CloseTrade(p)
      BY <1>4, <2>1 DEF ReplayInv, BookIsReplayOfTrades, Closes
    <3>. HIDE DEF closing
    <3>. QED  BY <1>1, <3>1 DEF NewTrades
  <2>. HIDE DEF closing
  <2>3. DOMAIN ByAttempt(NewTrades) = closing
    <3>1. DOMAIN ByAttempt(NewTrades) = {t.id : t \in NewTrades}
      BY ByAttemptOf
    <3>. QED  BY <2>1, <2>2, <3>1
  <2>4. ASSUME NEW p \in closing PROVE ByAttempt(NewTrades)[p] = CloseTrade(p)
    <3>1. CloseTrade(p) \in NewTrades /\ \A t \in NewTrades : t.id = p => t = CloseTrade(p)
      BY <2>1, <2>2
    <3>2. \A t \in NewTrades : (\A s \in NewTrades : s.id = t.id => s = t)
                                  => ByAttempt(NewTrades)[t.id] = t
      BY ByAttemptOf
    <3>. QED  BY <2>1, <3>1, <3>2
  <2>5. f = fees
    <3>1. \A p \in closing : TradeFriction(ByAttempt(NewTrades)[p])
                               = Commission(cfg.optionRate, positions[p].qty)
      BY <2>1, <2>4 DEF TradeFriction
    <3>. QED  BY <2>3, <3>1, Zenon
  <2>6. Friction = Total(f, attempts') + 0
    BY <1>1, Zenon DEF Friction
  <2>7. Total(fees, attempts) \in Int
    <3>. HIDE DEF fees, flows
    <3>. QED  BY <1>2, <1>5, <1>6, TotalInt
  <2>. HIDE DEF f, fees
  <2>. QED  BY <1>1, <2>5, <2>6, <2>7
<1>. HIDE DEF closing, flows, fees, left, held
<1>10. IntTerms(flows, attempts) /\ IntTerms(fees, attempts) /\ IntTerms(left, attempts)
  BY <1>5, <1>6, <1>7 DEF IntTerms
<1>11. IntTerms(Net(positions), attempts) /\ IntTerms(Net(positions'), attempts)
  BY <1>2, NetTotal
<1>12. Total(left, attempts) = Total(flows, attempts) + Total(fees, attempts)
  <2>1. \A k \in 1..attempts : Term(left, k) = Term(flows, k) + Term(fees, k)
    BY <1>5, <1>6, <1>7 DEF Term
  <2>. QED  BY <1>2, <1>10, <2>1, TotalSum
<1>13. Total(Net(positions), attempts)
         = Total(left, attempts) + Total(Net(positions'), attempts)
  <2>1. \A p \in DOMAIN positions : Net(positions)[p] \in Int
    BY <1>2, NetInt
  <2>2. ASSUME NEW k \in 1..attempts
        PROVE  Term(Net(positions), k) = Term(left, k) + Term(Net(positions'), k)
    <3>1. CASE k \in closing
      BY <1>4, <1>6, <1>7, <2>1, <3>1 DEF Term
    <3>2. CASE k \in DOMAIN positions \ closing
      BY <1>6, <1>8, <2>1, <3>2 DEF Term
    <3>3. CASE k \notin DOMAIN positions
      BY <1>4, <1>6, <3>3 DEF Term
    <3>. QED  BY <3>1, <3>2, <3>3
  <2>. QED  BY <1>2, <1>10, <1>11, <2>2, TotalSum
<1>14. /\ Total(flows, attempts) \in Int /\ Total(fees, attempts) \in Int
       /\ Total(Net(positions), attempts) \in Int
       /\ Total(Net(positions'), attempts) \in Int
  BY <1>2, <1>10, <1>11, TotalInt DEF IntTerms
<1>15. /\ Wealth = cash + held + Total(Net(positions), attempts)
       /\ Wealth' = cash' + held + Total(Net(positions'), attempts)
       /\ cash' = cash + Total(flows, attempts) /\ cash \in Int
  BY <1>1, <1>2
<1>. DEFINE before == Total(Net(positions), attempts)
            after  == Total(Net(positions'), attempts)
            flow   == Total(flows, attempts)
            fee    == Total(fees, attempts)
            part   == Total(left, attempts)
<1>16. /\ Wealth = cash + held + before /\ Wealth' = cash' + held + after
       /\ cash' = cash + flow /\ Friction = fee
       /\ part = flow + fee /\ before = part + after
       /\ cash \in Int /\ held \in Int
       /\ flow \in Int /\ fee \in Int /\ before \in Int /\ after \in Int
  BY <1>3, <1>9, <1>12, <1>13, <1>14, <1>15, Zenon
<1>. HIDE DEF before, after, flow, fee, part
<1>17. Wealth' = Wealth - Friction
  BY <1>16
<1>. QED  BY <1>17 DEF Balanced

\* What an entry opens: a pick the selector could make, sized by the budget.
LEMMA OpenPositionIs ==
  ASSUME TypeInv, OpenPosition
  PROVE  /\ day \in Dates /\ attempts \in Nat /\ attempts' = attempts + 1
         /\ Budget(CapAtEntry) \in Int
         /\ UNCHANGED <<day, holdings, total, unfilled>>
         /\ \E pick \in Picks(Budget(CapAtEntry)) :
              LET qty == Quantity(pick, Budget(CapAtEntry))
              IN  /\ Tradable(pick, Budget(CapAtEntry)) /\ qty \in Nat \ {0}
                  /\ EntryDelta(pick) \in Int
                  /\ NewPosition(pick, qty) \in Position
                  /\ Enter(attempts + 1, NewPosition(pick, qty), Budget(CapAtEntry))
<1>1. InputsOK /\ BookOK /\ MarksOK /\ CountersOK
  BY DEF TypeInv, TypeOK
<1>2. day \in Dates
  <2>1. pc \in {"roll", "calendar"}
    BY DEF OpenPosition, EntryPhase
  <2>. QED  BY <2>1, DayIsDate DEF TypeInv, TypeOK, Located
<1>3. attempts \in Nat /\ attempts' = attempts + 1 /\ UNCHANGED <<day, holdings, total, unfilled>>
  BY <1>1 DEF OpenPosition, CountersOK
<1>. DEFINE budget == Budget(CapAtEntry)
<1>4. budget \in Int
  <2>1. CapAtEntry \in Int
    BY <1>1, <1>2, CapitalInt DEF CapAtEntry
  <2>. QED  BY <1>1, <2>1, BudgetInt
<1>5. PICK pick \in Picks(budget) :
        /\ Tradable(pick, budget)
        /\ Enter(attempts + 1, NewPosition(pick, Quantity(pick, budget)), budget)
  BY Zenon DEF OpenPosition
<1>. HIDE DEF budget
<1>. DEFINE qty == Quantity(pick, budget)
<1>6. qty \in Nat \ {0}
  BY <1>1, <1>2, <1>4, <1>5, QuantityPositive
<1>7. EntryCost(pick) \in Int /\ EntryDelta(pick) \in Int /\ pick \in [Legs -> Contracts]
  BY <1>1, <1>2, PickCosts, PickFacts
<1>8. NewPosition(pick, qty) \in Position
  <2>1. EntryDelta(pick) * qty \in Int
    <3>. HIDE DEF qty
    <3>. QED  BY <1>6, <1>7
  <2>. HIDE DEF qty
  <2>. QED  BY <1>6, <1>7, <2>1 DEF NewPosition, Position
<1>9. \E pk \in Picks(budget) :
        LET q == Quantity(pk, budget)
        IN  /\ Tradable(pk, budget) /\ q \in Nat \ {0} /\ EntryDelta(pk) \in Int
            /\ NewPosition(pk, q) \in Position
            /\ Enter(attempts + 1, NewPosition(pk, q), budget)
  BY <1>5, <1>6, <1>7, <1>8, Zenon
<1>. QED  BY <1>2, <1>3, <1>4, <1>9, Zenon DEF budget

\* An entry costs its spread: what is paid is what the position can be left for,
\* plus the friction, however the budget is funded.
LEMMA OpenPositionBalanced ==
  ASSUME TypeInv, TypeInv', ReplayInv, UNCHANGED inputs, OpenPosition
  PROVE  Balanced
<1>. DEFINE n      == Len(cfg.weights)
            held   == StockValue(today, holdings, n)
            id     == attempts + 1
            budget == Budget(CapAtEntry)
<1>1. /\ day \in Dates /\ attempts \in Nat /\ attempts' = id /\ budget \in Int
      /\ UNCHANGED <<day, holdings>>
  BY OpenPositionIs
<1>2. PICK pos \in Position : Enter(id, pos, budget)
  BY OpenPositionIs
<1>. DEFINE new == OpenTrade(id, pos)
<1>3. /\ cash' = cash + EntryCashFlow(pos, budget)
      /\ positions' = [p \in DOMAIN positions \cup {id} |->
                         IF p = id THEN pos ELSE positions[p]]
      /\ trades' = trades \cup {new}
  BY <1>2, Zenon DEF Enter
<1>4. /\ InputsOK /\ cash \in Int /\ IsDay(today) /\ HoldingsOf(holdings, n)
      /\ PaidBook(positions, attempts) /\ PaidBook(positions', id)
      /\ DOMAIN positions \subseteq 1..attempts
      /\ Wealth = cash + held + Total(Net(positions), attempts)
      /\ Wealth' = cash' + held + Total(Net(positions'), id)
  BY <1>1, WealthIs DEF TypeInv, TypeOK
<1>5. held \in Int
  BY <1>4, StockValueInt
<1>6. id \notin DOMAIN positions /\ id \in DOMAIN positions' /\ positions'[id] = pos
        /\ DOMAIN positions' = DOMAIN positions \cup {id}
  BY <1>1, <1>3, <1>4
<1>. DEFINE fee  == Commission(cfg.optionRate, pos.qty)
            exit == PositionExitCost(today, cfg.legs, pos)
            qty  == pos.qty
            unit == pos.entryCost
            paid == unit * qty
<1>7. fee \in Int /\ exit \in Int /\ qty \in Int /\ unit \in Int /\ paid \in Int
  <2>1. qty \in Int /\ unit \in Int
    BY DEF Position
  <2>2. fee \in Int
    BY <1>4, <2>1, CommissionInt, ConfigFacts
  <2>3. exit \in Int
    <3>1. PositionOf(cfg.legs, pos)
      BY <1>4, <1>6 DEF PaidBook, BookOf
    <3>. QED  BY <1>4, <3>1, PositionExitCostInt
  <2>4. paid \in Int
    <3>. HIDE DEF unit, qty
    <3>. QED  BY <2>1, ProductInt
  <2>. QED  BY <2>1, <2>2, <2>3, <2>4
<1>8. EntryCashFlow(pos, budget) = IF External THEN 0 ELSE -paid - fee
  <2>1. EntryCashFlow(pos, budget)
          = (IF External THEN budget ELSE 0) - (paid + fee)
              - (IF External THEN budget - paid - fee ELSE 0)
    BY Zenon DEF EntryCashFlow
  <2>. HIDE DEF budget, paid, fee
  <2>. QED  BY <1>1, <1>7, <2>1
<1>9. Net(positions')[id] = -exit * qty - IF External THEN paid ELSE 0
  <2>1. Net(positions')[id]
          = -PositionExitCost(today, cfg.legs, positions'[id]) * positions'[id].qty
              - IF External THEN positions'[id].entryCost * positions'[id].qty ELSE 0
    BY <1>6, Zenon DEF Net, Worths, Basis
  <2>. QED  BY <1>6, <2>1, Zenon
<1>10. Total(Net(positions'), id) = Total(Net(positions), attempts) + Net(positions')[id]
         /\ Total(Net(positions), attempts) \in Int
  <2>1. IntTerms(Net(positions'), id) /\ IntTerms(Net(positions), attempts)
          /\ Total(Net(positions), attempts) \in Int
    BY <1>4, NetTotal
  <2>2. id \in Nat /\ id \in 1..id /\ id - 1 = attempts /\ attempts \in 0..id
    BY <1>1
  <2>3. Total(Net(positions'), id) = Total(Net(positions'), attempts) + Term(Net(positions'), id)
    BY <2>1, <2>2, TotalRecursion
  <2>4. DOMAIN Net(positions') = DOMAIN positions' /\ DOMAIN Net(positions) = DOMAIN positions
    BY DEF Net
  <2>5. \A p \in DOMAIN positions : Net(positions')[p] = Net(positions)[p]
    BY <1>3, <1>6 DEF Net, Worths, Basis
  <2>6. \A k \in 1..attempts : Term(Net(positions'), k) = Term(Net(positions), k)
    BY <1>1, <1>6, <2>4, <2>5 DEF Term
  <2>7. IntTerms(Net(positions'), attempts)
    BY <2>1, <2>2, TermInt
  <2>8. Total(Net(positions'), attempts) = Total(Net(positions), attempts)
    BY <1>1, <2>1, <2>6, <2>7, TotalSame
  <2>. QED  BY <1>6, <2>1, <2>3, <2>4, <2>8 DEF Term
<1>11. Friction = (unit + exit) * qty + IF External THEN 0 ELSE fee
  <2>. DEFINE f == [p \in DOMAIN ByAttempt(NewTrades) |-> TradeFriction(ByAttempt(NewTrades)[p])]
              spread == (unit + exit) * qty + IF External THEN 0 ELSE fee
  <2>1. new.id = id /\ new.side = "open" /\ new.cost = unit /\ new.qty = qty
          /\ new.contract = pos.contract
    BY DEF OpenTrade
  <2>2. NewTrades = {new}
    <3>1. \A t \in trades : t.id # id
      BY <1>1, TradeFields DEF TypeInv
    <3>. HIDE DEF new
    <3>. QED  BY <1>3, <2>1, <3>1 DEF NewTrades
  <2>3. PositionExitCost(today, cfg.legs, new) = exit
    <3>. HIDE DEF new
    <3>. QED  BY <2>1, Zenon DEF PositionExitCost
  <2>4. TradeFriction(new) = spread
    <3>. HIDE DEF new
    <3>1. TradeFriction(new)
            = IF new.side = "close" THEN Commission(cfg.optionRate, new.qty)
              ELSE (new.cost + PositionExitCost(today, cfg.legs, new)) * new.qty
                     + IF External THEN 0 ELSE Commission(cfg.optionRate, new.qty)
      BY Zenon DEF TradeFriction
    <3>. QED  BY <2>1, <2>3, <3>1
  <2>. HIDE DEF new
  <2>5. DOMAIN ByAttempt(NewTrades) = {id}
    <3>1. DOMAIN ByAttempt(NewTrades) = {t.id : t \in NewTrades}
      BY ByAttemptOf
    <3>. QED  BY <2>1, <2>2, <3>1
  <2>6. ByAttempt(NewTrades)[id] = new
    <3>1. \A t \in NewTrades : (\A s \in NewTrades : s.id = t.id => s = t)
                                  => ByAttempt(NewTrades)[t.id] = t
      BY ByAttemptOf
    <3>. QED  BY <2>1, <2>2, <3>1
  <2>7. DOMAIN f = {id} /\ f[id] = spread
    BY <2>4, <2>5, <2>6
  <2>8. spread \in Int
    <3>1. (unit + exit) * qty \in Int
      <4>. HIDE DEF unit, exit, qty
      <4>. QED  BY <1>7, ProductInt
    <3>. HIDE DEF fee, qty, unit, exit
    <3>. QED  BY <1>7, <3>1
  <2>9. Friction = Total(f, attempts') + 0
    <3>1. ~BuysStocks
      BY DEF OpenPosition, EntryPhase, BuysStocks
    <3>. QED  BY <3>1, Zenon DEF Friction
  <2>. HIDE DEF f, spread
  <2>10. Total(f, id) = spread
    BY <1>1, <2>7, <2>8, SingleTotal
  <2>. QED  BY <1>1, <2>8, <2>9, <2>10 DEF spread
<1>12. (unit + exit) * qty = paid + exit * qty /\ -exit * qty = -(exit * qty) /\ exit * qty \in Int
  <2>. HIDE DEF unit, exit, qty
  <2>. QED  BY <1>7 DEF paid
<1>. HIDE DEF held, unit, exit, qty, paid, fee, budget, id
<1>. QED  BY <1>3, <1>4, <1>5, <1>7, <1>8, <1>9, <1>10, <1>11, <1>12 DEF Balanced

LEMMA NextBalanced ==
  ASSUME TypeInv, TypeInv', ReplayInv, Next, UNCHANGED day, day > 0, AllPriced
  PROVE  Balanced \/ UNCHANGED vars
<1>1. day \in Dates
  <2>1. day # 0
    BY DEF TypeInv, TypeOK, ControlOK
  <2>. QED  BY <2>1, DayIsDate DEF TypeInv, TypeOK
<1>. DEFINE Same == UNCHANGED <<cash, positions, holdings, trades>>
                      /\ attempts' \in {attempts, attempts + 1} /\ ~BuysStocks
<1>2. CASE Same /\ UNCHANGED inputs
  BY <1>1, <1>2, IdleBalanced
<1>3. CASE Step /\ UNCHANGED inputs
  <2>1. CASE Recording \/ Walking \/ Marking \/ CheckBroke
    <3>1. Same
      BY <2>1 DEF Recording, BackfillRow, BackfillDone, RecordDay, Walking, NextDate,
         EndOfDates, BeginRebalance, BeginOrdinaryDay, Finish, Marking, MarkPortfolio,
         MarkForRoll, NoRoll, CheckBroke, book, counters, logs, BuysStocks
    <3>. QED  BY <1>2, <1>3, <3>1
  <2>2. CASE ExecuteExits
    BY <1>1, <1>3, <2>2, ExecuteExitsBalanced
  <2>3. CASE OpenPosition
    BY <1>3, <2>3, OpenPositionBalanced
  <2>4. CASE NothingToSpend \/ MissEntry \/ NothingFreed
    <3>1. Same
      BY <2>4 DEF NothingToSpend, MissEntry, NothingFreed, EntryPhase, book, counters, logs,
         BuysStocks
    <3>. QED  BY <1>2, <1>3, <3>1
  <2>5. CASE RebalanceStocks \/ ReinvestProceeds
    <3>. DEFINE liquid == cash + StockCap
                alloc  == StocksAllocation(liquid, OptionsCap)
    <3>1. /\ BuyStocks(liquid, alloc) /\ BuysStocks
          /\ UNCHANGED <<positions, attempts, trades>>
      BY <2>5 DEF RebalanceStocks, ReinvestProceeds, BuysStocks, counters, logs
    <3>2. alloc \in Int
      <4>1. StockCap \in Int /\ OptionsCap \in Int /\ cash \in Int
        BY <1>1, CapitalInt DEF TypeInv, TypeOK, BookOK
      <4>. QED  BY <4>1, StocksAllocationInt DEF TypeInv, TypeOK
    <3>. HIDE DEF alloc
    <3>. QED  BY <1>1, <1>3, <3>1, <3>2, BuyStocksBalanced
  <2>. QED  BY <1>3, <2>1, <2>2, <2>3, <2>4, <2>5 DEF Step, Entering, Investing
<1>4. CASE Terminated
  BY <1>4 DEF Terminated
<1>. QED  BY <1>3, <1>4 DEF Next

\* Within a date wealth changes only by the commissions and the spreads of the
\* trades made, whatever the funding mode, the fills, the legs and the order of
\* the phases: what execute_exits, execute_entries and buy_stocks pay in, take
\* back and charge adds up.
THEOREM ConservationHolds == Spec => Conservation
<1>1. ASSUME TypeInv, TypeInv', ReplayInv, [Next]_vars
      PROVE  [day' = day /\ day > 0 /\ AllPriced => Wealth' = Wealth - Friction]_vars
  BY <1>1, NextBalanced DEF Balanced
<1>. QED  BY <1>1, TypeInvariant, ReplayInvariant, PTL DEF Spec, Conservation

-----------------------------------------------------------------------------
(* Cash, from the log alone.                                               *)

\* F tells an amount of each trade of S.
LogOf(F, S) == [p \in DOMAIN ByAttempt(S) |-> F[ByAttempt(S)[p]]]

Told(F, S) == /\ \A t \in S : F[t] \in Int
              /\ \A s, t \in S : s.id = t.id => s = t

LEMMA LogEntries ==
  ASSUME NEW F, NEW S, Told(F, S)
  PROVE  /\ DOMAIN LogOf(F, S) = {t.id : t \in S}
         /\ \A t \in S : LogOf(F, S)[t.id] = F[t]
         /\ \A p \in DOMAIN LogOf(F, S) : LogOf(F, S)[p] \in Int
<1>1. DOMAIN ByAttempt(S) = {t.id : t \in S}
  BY ByAttemptOf
<1>2. DOMAIN LogOf(F, S) = {t.id : t \in S}
  BY <1>1 DEF LogOf
<1>3. ASSUME NEW t \in S PROVE LogOf(F, S)[t.id] = F[t]
  <2>1. \A u \in S : (\A s \in S : s.id = u.id => s = u) => ByAttempt(S)[u.id] = u
    BY ByAttemptOf
  <2>2. ByAttempt(S)[t.id] = t /\ t.id \in DOMAIN ByAttempt(S)
    BY <1>1, <2>1 DEF Told
  <2>. QED  BY <2>2 DEF LogOf
<1>. QED  BY <1>2, <1>3 DEF Told

LEMMA LogInt ==
  ASSUME NEW F, NEW S, Told(F, S), NEW n \in Nat
  PROVE  IntTerms(LogOf(F, S), n) /\ Total(LogOf(F, S), n) \in Int
<1>1. IntTerms(LogOf(F, S), n)
  BY LogEntries DEF IntTerms
<1>. QED  BY <1>1, TotalInt DEF IntTerms

\* Trades added to a log add what they say.
LEMMA LogUnion ==
  ASSUME NEW F, NEW S, NEW N, Told(F, S \cup N), S \cap N = {}, NEW n \in Nat
  PROVE  Total(LogOf(F, S \cup N), n) = Total(LogOf(F, S), n) + Total(LogOf(F, N), n)
<1>1. Told(F, S) /\ Told(F, N)
  BY DEF Told
<1>2. /\ IntTerms(LogOf(F, S), n) /\ IntTerms(LogOf(F, N), n)
      /\ IntTerms(LogOf(F, S \cup N), n)
  BY <1>1, LogInt
<1>3. ASSUME NEW k \in 1..n
      PROVE  Term(LogOf(F, S \cup N), k) = Term(LogOf(F, S), k) + Term(LogOf(F, N), k)
  <2>0. /\ \A t \in S : LogOf(F, S)[t.id] = F[t]
        /\ \A t \in N : LogOf(F, N)[t.id] = F[t]
        /\ \A t \in S \cup N : LogOf(F, S \cup N)[t.id] = F[t]
    BY <1>1, LogEntries
  <2>1. /\ DOMAIN LogOf(F, S) = {t.id : t \in S} /\ DOMAIN LogOf(F, N) = {t.id : t \in N}
        /\ DOMAIN LogOf(F, S \cup N) = {t.id : t \in S \cup N}
    BY <1>1, LogEntries
  <2>2. CASE k \in {t.id : t \in S}
    <3>1. PICK t \in S : k = t.id
      BY <2>2
    <3>2. LogOf(F, S \cup N)[k] = F[t] /\ LogOf(F, S)[k] = F[t] /\ F[t] \in Int
      BY <1>1, <2>0, <3>1 DEF Told
    <3>3. k \notin {u.id : u \in N}
      BY <3>1 DEF Told
    <3>. QED  BY <2>1, <2>2, <3>1, <3>2, <3>3 DEF Term
  <2>3. CASE k \in {t.id : t \in N}
    <3>1. PICK t \in N : k = t.id
      BY <2>3
    <3>2. LogOf(F, S \cup N)[k] = F[t] /\ LogOf(F, N)[k] = F[t] /\ F[t] \in Int
      BY <1>1, <2>0, <3>1 DEF Told
    <3>3. k \notin {u.id : u \in S}
      BY <3>1 DEF Told
    <3>. QED  BY <2>1, <2>3, <3>1, <3>2, <3>3 DEF Term
  <2>4. CASE k \notin {t.id : t \in S} /\ k \notin {t.id : t \in N}
    <3>1. k \notin {t.id : t \in S \cup N}
      BY <2>4
    <3>. QED  BY <2>1, <2>4, <3>1 DEF Term
  <2>. QED  BY <2>2, <2>3, <2>4
<1>. QED  BY <1>2, <1>3, TotalSum

\* Attempts that traded nothing add nothing.
LEMMA LogPadded ==
  ASSUME NEW F, NEW S, Told(F, S), NEW n \in Nat, NEW m \in 0..n,
         \A t \in S : t.id \in 1..m
  PROVE  Total(LogOf(F, S), n) = Total(LogOf(F, S), m)
<1>1. IntTerms(LogOf(F, S), n)
  BY LogInt
<1>2. \A k \in (m+1)..n : Term(LogOf(F, S), k) = 0
  <2>1. DOMAIN LogOf(F, S) = {t.id : t \in S}
    BY LogEntries
  <2>2. \A k \in (m+1)..n : k \notin {t.id : t \in S}
    OBVIOUS
  <2>. QED  BY <2>1, <2>2 DEF Term
<1>. QED  BY <1>1, <1>2, TotalPadded

\* Two tellings that agree on S add up to the same.
LEMMA LogSame ==
  ASSUME NEW F, NEW G, NEW S, Told(F, S), \A t \in S : G[t] = F[t]
  PROVE  LogOf(G, S) = LogOf(F, S)
<1>1. DOMAIN ByAttempt(S) = {t.id : t \in S}
  BY ByAttemptOf
<1>2. ASSUME NEW p \in DOMAIN ByAttempt(S)
      PROVE  G[ByAttempt(S)[p]] = F[ByAttempt(S)[p]]
  <2>1. PICK t \in S : p = t.id
    BY <1>1
  <2>2. \A u \in S : (\A s \in S : s.id = u.id => s = u) => ByAttempt(S)[u.id] = u
    BY ByAttemptOf
  <2>3. ByAttempt(S)[p] = t
    BY <2>1, <2>2 DEF Told
  <2>. QED  BY <2>3
<1>. QED  BY <1>2, Zenon DEF LogOf

\* The cash a trade moves, and the cash it realizes against its entry in O.
Moved(T) == [t \in T |-> TradeCash(t)]

Realized(O, T) ==
  [t \in T |-> TradeCash(t) - (CHOOSE s \in O : s.id = t.id).cost * t.qty]

\* What the log of entries O and exits C says of cash after n attempts.
CashLog(O, C, n) ==
  IF External THEN Total(LogOf(Realized(O, C), C), n)
              ELSE Total(LogOf(Moved(O), O), n) + Total(LogOf(Moved(C), C), n)

LEMMA InLog ==
  ASSUME NEW S, NEW p \in DOMAIN ByAttempt(S)
  PROVE  ByAttempt(S)[p] \in S
<1>1. DOMAIN ByAttempt(S) = {t.id : t \in S}
  BY ByAttemptOf
<1>2. PICK t \in S : t.id = p
  BY <1>1
<1>3. ByAttempt(S)[p] = CHOOSE u \in S : u.id = p
  BY <1>1, Zenon DEF ByAttempt
<1>. QED  BY <1>2, <1>3

LEMMA CashLogIs ==
  CashFollowsTradeLog
    <=> (NoStocksTraded => cash = cfg.capital + CashLog(Opens, Closes, attempts))
<1>. DEFINE moved(S) == [p \in DOMAIN ByAttempt(S) |-> TradeCash(ByAttempt(S)[p])]
            gains    == [p \in DOMAIN ByAttempt(Closes) |-> RealizedCash(ByAttempt(Closes)[p])]
<1>1. LogTotal(TradeCash, Opens) = Total(moved(Opens), attempts)
        /\ LogTotal(TradeCash, Closes) = Total(moved(Closes), attempts)
        /\ LogTotal(RealizedCash, Closes) = Total(gains, attempts)
  BY Zenon DEF LogTotal
<1>2. ASSUME NEW S PROVE LogOf(Moved(S), S) = moved(S)
  <2>1. \A p \in DOMAIN ByAttempt(S) : Moved(S)[ByAttempt(S)[p]] = TradeCash(ByAttempt(S)[p])
    BY InLog DEF Moved
  <2>. QED  BY <2>1, Zenon DEF LogOf
<1>3. LogOf(Realized(Opens, Closes), Closes) = gains
  <2>1. \A p \in DOMAIN ByAttempt(Closes) :
          Realized(Opens, Closes)[ByAttempt(Closes)[p]] = RealizedCash(ByAttempt(Closes)[p])
    BY InLog DEF Realized, RealizedCash
  <2>. QED  BY <2>1, Zenon DEF LogOf
<1>. HIDE DEF moved, gains
<1>4. LogOf(Moved(Opens), Opens) = moved(Opens) /\ LogOf(Moved(Closes), Closes) = moved(Closes)
  BY <1>2
<1>5. CashLog(Opens, Closes, attempts)
        = IF External THEN Total(gains, attempts)
                      ELSE Total(moved(Opens), attempts) + Total(moved(Closes), attempts)
  BY <1>3, <1>4, Zenon DEF CashLog
<1>. QED  BY <1>1, <1>5, Zenon DEF CashFollowsTradeLog

\* A log with one trade of each side per attempt, exits after entries.
GoodLog(O, C, n) ==
  /\ \A t \in O \cup C : t.cost \in Int /\ t.qty \in Int /\ t.id \in 1..n
  /\ \A s, t \in O : s.id = t.id => s = t
  /\ \A s, t \in C : s.id = t.id => s = t
  /\ \A t \in C : \E s \in O : s.id = t.id

LEMMA ReplayIsGoodLog == TypeInv /\ ReplayInv => GoodLog(Opens, Closes, attempts)
<1>. SUFFICES ASSUME TypeInv, ReplayInv PROVE GoodLog(Opens, Closes, attempts)
  OBVIOUS
<1>1. \A t \in Opens \cup Closes : t.cost \in Int /\ t.qty \in Int /\ t.id \in 1..attempts
  BY TradeFields DEF TypeInv, Opens, Closes
<1>2. /\ \A s, t \in Opens : s.id = t.id => s = t
      /\ \A s, t \in Closes : s.id = t.id => s = t
      /\ \A t \in Closes : \E s \in Opens : s.id = t.id
  BY DEF ReplayInv, BookIsReplayOfTrades, Opens, Closes
<1>. QED  BY <1>1, <1>2 DEF GoodLog

LEMMA ToldByLog ==
  ASSUME InputsOK, NEW O, NEW C, NEW n, GoodLog(O, C, n)
  PROVE  Told(Moved(O), O) /\ Told(Moved(C), C) /\ Told(Realized(O, C), C)
<1>1. ASSUME NEW t \in O \cup C PROVE TradeCash(t) \in Int
  <2>. DEFINE fee == Commission(cfg.optionRate, t.qty)
  <2>1. t.cost \in Int /\ t.qty \in Int
    BY DEF GoodLog
  <2>2. fee \in Int
    BY <2>1, CommissionInt, ConfigFacts
  <2>3. t.cost * t.qty \in Int
    BY <2>1, ProductInt
  <2>4. TradeCash(t) = -(t.cost * t.qty) - fee
    BY Zenon DEF TradeCash
  <2>. HIDE DEF fee
  <2>. QED  BY <2>2, <2>3, <2>4
<1>2. ASSUME NEW t \in C PROVE Realized(O, C)[t] \in Int
  <2>. DEFINE entry == CHOOSE s \in O : s.id = t.id
  <2>1. entry \in O
    BY DEF GoodLog
  <2>2. Realized(O, C)[t] = TradeCash(t) - entry.cost * t.qty
    BY DEF Realized
  <2>. HIDE DEF entry
  <2>3. entry.cost * t.qty \in Int
    <3>1. entry.cost \in Int /\ t.qty \in Int
      BY <2>1 DEF GoodLog
    <3>. QED  BY <3>1, ProductInt
  <2>. QED  BY <1>1, <2>2, <2>3
<1>3. \A t \in O : Moved(O)[t] \in Int
  BY <1>1 DEF Moved
<1>4. \A t \in C : Moved(C)[t] \in Int
  BY <1>1 DEF Moved
<1>. QED  BY <1>2, <1>3, <1>4 DEF Told, GoodLog

\* What is bought when stocks are not traded: nothing.
CashInv ==
  NoStocksTraded =>
    /\ \A s \in DOMAIN holdings : holdings[s].qty = 0
    /\ cash = cfg.capital + CashLog(Opens, Closes, attempts)

LEMMA CashLogPrimed ==
  ASSUME UNCHANGED inputs
  PROVE  /\ CashInv' <=> (NoStocksTraded =>
              /\ \A s \in DOMAIN holdings' : holdings'[s].qty = 0
              /\ cash' = cfg.capital + CashLog(Opens', Closes', attempts'))
         /\ TypeInv' /\ ReplayInv' => GoodLog(Opens', Closes', attempts')
<1>1. cfg' = cfg /\ (External <=> External') /\ (NoStocksTraded <=> NoStocksTraded')
  BY DEF inputs, External, NoStocksTraded, Symbols
<1>2. CashLog(Opens, Closes, attempts)' = CashLog(Opens', Closes', attempts')
  <2>1. Realized(Opens, Closes)' = Realized(Opens', Closes')
    <3>1. Realized(Opens, Closes)'
            = [t \in Closes' |-> TradeCash(t)' - (CHOOSE s \in Opens' : s.id = t.id).cost * t.qty]
      BY DEF Realized
    <3>2. \A t \in Closes' : TradeCash(t)' = TradeCash(t)
      BY <1>1 DEF TradeCash
    <3>3. Realized(Opens', Closes')
            = [t \in Closes' |-> TradeCash(t) - (CHOOSE s \in Opens' : s.id = t.id).cost * t.qty]
      BY Zenon DEF Realized
    <3>. QED  BY <3>1, <3>2, <3>3
  <2>2. Moved(Opens)' = Moved(Opens') /\ Moved(Closes)' = Moved(Closes')
    BY <1>1, Zenon DEF Moved, TradeCash
  <2>. DEFINE gains == Total(LogOf(Realized(Opens', Closes'), Closes'), attempts')
              flows == Total(LogOf(Moved(Opens'), Opens'), attempts')
                         + Total(LogOf(Moved(Closes'), Closes'), attempts')
  <2>3. CashLog(Opens, Closes, attempts)' = IF External' THEN gains ELSE flows
    <3>1. LogOf(Realized(Opens, Closes), Closes)' = LogOf(Realized(Opens', Closes'), Closes')
      BY <2>1 DEF LogOf
    <3>2. /\ LogOf(Moved(Opens), Opens)' = LogOf(Moved(Opens'), Opens')
          /\ LogOf(Moved(Closes), Closes)' = LogOf(Moved(Closes'), Closes')
      BY <2>2 DEF LogOf
    <3>. QED  BY <3>1, <3>2 DEF CashLog
  <2>4. CashLog(Opens', Closes', attempts') = IF External THEN gains ELSE flows
    BY Zenon DEF CashLog
  <2>. QED  BY <1>1, <2>3, <2>4
<1>3. TypeInv' /\ ReplayInv' => GoodLog(Opens, Closes, attempts)'
  BY ReplayIsGoodLog, PTL
<1>4. GoodLog(Opens, Closes, attempts)' => GoodLog(Opens', Closes', attempts')
  BY DEF GoodLog
<1>. QED  BY <1>1, <1>2, <1>3, <1>4 DEF CashInv

\* Holdings of nothing are worth nothing and cost nothing.
LEMMA NothingHeld ==
  ASSUME IsDay(today), NEW H, NEW n \in Nat, NEW rate \in Nat,
         \A s \in DOMAIN H : H[s].qty = 0 /\ H[s].price \in Nat
  PROVE  /\ StockCapital(today, H, n) = 0
         /\ StockCost(H, n) = 0 /\ StockCommission(rate, H, n) = 0
<1>. DEFINE f == [s \in DOMAIN H |->
                    (IF s \in DOMAIN today.prices THEN today.prices[s] ELSE 0) * H[s].qty]
            g == [s \in DOMAIN H |-> H[s].qty * H[s].price]
            h == [s \in DOMAIN H |-> Commission(rate, H[s].qty)]
<1>1. \A s \in DOMAIN H : f[s] = 0
  BY DEF IsDay, Partial
<1>2. \A s \in DOMAIN H : g[s] = 0
  OBVIOUS
<1>3. \A s \in DOMAIN H : h[s] = 0
  BY DEF Commission, Magnitude
<1>4. DOMAIN f = DOMAIN H /\ DOMAIN g = DOMAIN H /\ DOMAIN h = DOMAIN H
  OBVIOUS
<1>. HIDE DEF f, g, h
<1>5. Total(f, n) = 0 /\ Total(g, n) = 0 /\ Total(h, n) = 0
  BY <1>1, <1>2, <1>3, <1>4, TotalNothing DEF IntTerms, Term
<1>. QED  BY <1>5 DEF StockCapital, StockCost, StockCommission, f, g, h

LEMMA IdleCash ==
  ASSUME TypeInv, TypeInv', ReplayInv, ReplayInv', CashInv,
         UNCHANGED <<inputs, cash, holdings, trades>>, attempts' \in {attempts, attempts + 1}
  PROVE  CashInv'
<1>1. Opens' = Opens /\ Closes' = Closes
  BY DEF Opens, Closes
<1>2. attempts \in Nat /\ attempts' \in Nat /\ attempts \in 0..attempts' /\ InputsOK
  BY DEF TypeInv, TypeOK, CountersOK
<1>3. GoodLog(Opens, Closes, attempts)
  BY ReplayIsGoodLog
<1>4. /\ Told(Moved(Opens), Opens) /\ Told(Moved(Closes), Closes)
      /\ Told(Realized(Opens, Closes), Closes)
      /\ \A t \in Opens : t.id \in 1..attempts
      /\ \A t \in Closes : t.id \in 1..attempts
  <2>1. /\ Told(Moved(Opens), Opens) /\ Told(Moved(Closes), Closes)
        /\ Told(Realized(Opens, Closes), Closes)
    BY <1>2, <1>3, ToldByLog
  <2>. QED  BY <1>3, <2>1 DEF GoodLog
<1>5. CashLog(Opens, Closes, attempts') = CashLog(Opens, Closes, attempts)
  BY <1>2, <1>4, LogPadded DEF CashLog
<1>. QED  BY <1>1, <1>5, CashLogPrimed DEF CashInv

LEMMA BuyStocksCash ==
  ASSUME TypeInv, TypeInv', ReplayInv, ReplayInv', CashInv,
         UNCHANGED <<inputs, trades, attempts>>, day \in Dates,
         NEW liquid, liquid = cash + StockCap, NEW cap \in Int,
         NEW alloc \in Int, alloc = StocksAllocation(liquid, cap), BuyStocks(liquid, alloc)
  PROVE  CashInv'
<1>. DEFINE n     == Len(cfg.weights)
            order == StockOrder(today, alloc, cfg.weights)
<1>1. Opens' = Opens /\ Closes' = Closes
  BY DEF Opens, Closes
<1>2. SUFFICES ASSUME NoStocksTraded
               PROVE  cash' = cash /\ \A s \in DOMAIN holdings' : holdings'[s].qty = 0
  BY <1>1, CashLogPrimed DEF CashInv
<1>3. /\ InputsOK /\ IsDay(today) /\ n \in Nat /\ cash \in Int /\ cfg.stockRate \in Nat
      /\ cfg.weights \in Seq(Nat)
      /\ \A s \in DOMAIN holdings : holdings[s].price \in Nat
  BY MarketFacts, ConfigFacts, BookFacts DEF TypeInv, TypeOK, BookOK, today, HoldingsOf
<1>4. /\ holdings' = order
      /\ cash' = liquid - StockCost(order, n) - StockCommission(cfg.stockRate, order, n)
  BY Zenon DEF BuyStocks
<1>5. StockCap = 0
  <2>1. \A s \in DOMAIN holdings : holdings[s].qty = 0
    BY <1>2 DEF CashInv
  <2>. QED  BY <1>3, <2>1, NothingHeld DEF StockCap
<1>6. /\ DOMAIN order \subseteq 1..n
      /\ \A s \in DOMAIN order : order[s].price \in Nat
  <2>1. DOMAIN order \subseteq 1..n /\ order \in [DOMAIN order -> [qty : Int, price : Nat]]
    BY <1>3, StockOrderType
  <2>. HIDE DEF order
  <2>. QED  BY <2>1
<1>7. \A s \in DOMAIN order : order[s].qty = 0
  <2>1. CASE Symbols = {}
    BY <1>6, <2>1 DEF Symbols
  <2>2. CASE External /\ cfg.stockShare = 0
    <3>1. alloc = 0
      BY <1>3, <1>5, <2>2 DEF StocksAllocation
    <3>. DEFINE D == {i \in 1..n : i \in DOMAIN today.prices /\ today.prices[i] > 0}
                qty(s) == IF s \in today.gated THEN 0
                          ELSE (alloc * cfg.weights[s]) \div (DEN * DEN * today.prices[s])
    <3>2. order = [s \in D |-> [qty |-> qty(s), price |-> today.prices[s]]]
      BY Zenon DEF StockOrder
    <3>3. ASSUME NEW s \in D PROVE qty(s) = 0
      <4>. DEFINE den == DEN * DEN * today.prices[s]
      <4>1. cfg.weights[s] \in Nat /\ today.prices[s] \in Nat \ {0} /\ DEN \in Nat \ {0}
        <5>1. s \in 1..n /\ today.prices[s] > 0 /\ s \in DOMAIN today.prices
          OBVIOUS
        <5>2. DEN \in Nat \ {0}
          BY ValuationAssumption
        <5>3. today.prices[s] \in Nat
          BY <1>3, <5>1 DEF IsDay, Partial
        <5>4. cfg.weights[s] \in Nat
          BY <1>3, <5>1
        <5>. QED  BY <5>1, <5>2, <5>3, <5>4
      <4>2. den \in Nat \ {0}
        <5>. DEFINE price == today.prices[s]
        <5>1. price \in Nat /\ price > 0 /\ DEN \in Nat /\ DEN > 0
          BY <4>1
        <5>. HIDE DEF price
        <5>2. DEN * DEN \in Nat /\ DEN * DEN > 0
          BY <5>1
        <5>. DEFINE square == DEN * DEN
        <5>3. square \in Nat /\ square > 0
          BY <5>2
        <5>. HIDE DEF square
        <5>4. square * price \in Nat /\ square * price > 0
          BY <5>1, <5>3
        <5>. QED  BY <5>4 DEF square, price
      <4>3. alloc * cfg.weights[s] = 0
        BY <3>1, <4>1
      <4>. HIDE DEF den
      <4>4. 0 \div den = 0
        BY <4>2
      <4>. QED  BY <4>3, <4>4 DEF den
    <3>. HIDE DEF qty, D
    <3>. QED  BY <3>2, <3>3
  <2>. QED  BY <1>2, <2>1, <2>2 DEF NoStocksTraded
<1>. HIDE DEF order
<1>8. StockCost(order, n) = 0 /\ StockCommission(cfg.stockRate, order, n) = 0
  BY <1>3, <1>6, <1>7, NothingHeld
<1>. QED  BY <1>3, <1>4, <1>5, <1>7, <1>8

\* An entry an external budget pays for leaves cash alone; self-funded, cash
\* pays what the log says.
LEMMA OpenPositionCash ==
  ASSUME TypeInv, TypeInv', ReplayInv, ReplayInv', CashInv, UNCHANGED inputs, OpenPosition
  PROVE  CashInv'
<1>. DEFINE id     == attempts + 1
            budget == Budget(CapAtEntry)
<1>1. /\ attempts \in Nat /\ attempts' = id /\ budget \in Int /\ UNCHANGED holdings
      /\ id \in Nat \ {0} /\ attempts \in 0..id
  BY OpenPositionIs
<1>2. PICK pos \in Position : Enter(id, pos, budget)
  BY OpenPositionIs
<1>. DEFINE new == OpenTrade(id, pos)
<1>3. cash' = cash + EntryCashFlow(pos, budget) /\ trades' = trades \cup {new}
  BY <1>2, Zenon DEF Enter
<1>4. /\ new.id = id /\ new.side = "open" /\ new.cost = pos.entryCost /\ new.qty = pos.qty
  BY DEF OpenTrade
<1>. HIDE DEF new
<1>. DEFINE O == Opens  C == Closes  O2 == Opens \cup {new}
<1>5. Opens' = O2 /\ Closes' = C
  BY <1>3, <1>4 DEF Opens, Closes
<1>. HIDE DEF O, C, O2, id
<1>6. InputsOK /\ GoodLog(O, C, attempts) /\ GoodLog(O2, C, id)
  BY <1>1, <1>5, ReplayIsGoodLog, CashLogPrimed DEF TypeInv, TypeOK, O, C
<1>7. /\ Told(Moved(O), O) /\ Told(Moved(C), C) /\ Told(Realized(O, C), C)
      /\ Told(Moved(O2), O2) /\ Told(Realized(O2, C), C)
  <2>1. Told(Moved(O), O) /\ Told(Moved(C), C) /\ Told(Realized(O, C), C)
    BY <1>6, ToldByLog
  <2>2. Told(Moved(O2), O2) /\ Told(Realized(O2, C), C)
    BY <1>6, ToldByLog
  <2>. QED  BY <2>1, <2>2
<1>8. /\ \A t \in O : t.id \in 1..attempts
      /\ \A t \in C : t.id \in 1..attempts
  BY <1>6 DEF GoodLog
<1>. DEFINE fee  == Commission(cfg.optionRate, pos.qty)
            paid == pos.entryCost * pos.qty
<1>9. fee \in Int /\ paid \in Int
  <2>1. pos.entryCost \in Int /\ pos.qty \in Int
    BY DEF Position
  <2>. QED  BY <1>6, <2>1, ProductInt, CommissionInt, ConfigFacts
<1>10. EntryCashFlow(pos, budget) = IF External THEN 0 ELSE -paid - fee
  <2>1. EntryCashFlow(pos, budget)
          = (IF External THEN budget ELSE 0) - (paid + fee)
              - (IF External THEN budget - paid - fee ELSE 0)
    BY Zenon DEF EntryCashFlow
  <2>. HIDE DEF budget, paid, fee
  <2>. QED  BY <1>1, <1>9, <2>1
<1>11. CASE External
  <2>1. LogOf(Realized(O2, C), C) = LogOf(Realized(O, C), C)
    <3>1. ASSUME NEW t \in C PROVE Realized(O2, C)[t] = Realized(O, C)[t]
      <4>1. PICK s \in O : s.id = t.id
        BY <1>6 DEF GoodLog
      <4>2. s \in O2 /\ \A u \in O2 : u.id = t.id => u = s
        BY <1>6, <4>1 DEF GoodLog, O2, O
      <4>3. \A u \in O : u.id = t.id => u = s
        BY <4>2 DEF O2, O
      <4>4. (CHOOSE u \in O2 : u.id = t.id) = s
        BY <4>1, <4>2
      <4>5. (CHOOSE u \in O : u.id = t.id) = s
        BY <4>1, <4>3
      <4>6. /\ Realized(O2, C)[t]
                 = TradeCash(t) - (CHOOSE u \in O2 : u.id = t.id).cost * t.qty
            /\ Realized(O, C)[t]
                 = TradeCash(t) - (CHOOSE u \in O : u.id = t.id).cost * t.qty
        BY DEF Realized
      <4>. QED  BY <4>4, <4>5, <4>6
    <3>. QED  BY <1>7, <3>1, LogSame
  <2>2. Total(LogOf(Realized(O, C), C), id) = Total(LogOf(Realized(O, C), C), attempts)
    BY <1>1, <1>7, <1>8, LogPadded
  <2>3. CashLog(O2, C, id) = CashLog(O, C, attempts)
    BY <1>11, <2>1, <2>2 DEF CashLog
  <2>4. cash' = cash
    <3>1. cash \in Int
      BY DEF TypeInv, TypeOK, BookOK
    <3>. QED  BY <1>3, <1>10, <1>11, <3>1
  <2>. QED  BY <1>1, <1>5, <2>3, <2>4, CashLogPrimed DEF CashInv, O, C
<1>12. CASE ~External
  <2>. DEFINE F == Moved(O2)
  <2>1. Told(F, O) /\ Told(F, {new}) /\ O \cap {new} = {} /\ O2 = O \cup {new}
    <3>1. O2 = O \cup {new} /\ O \cap {new} = {}
      BY <1>1, <1>4, <1>8 DEF O, O2, id
    <3>. QED  BY <1>7, <3>1 DEF Told
  <2>2. LogOf(F, O) = LogOf(Moved(O), O)
    <3>1. \A t \in O : F[t] = Moved(O)[t]
      BY <2>1 DEF Moved
    <3>. QED  BY <1>7, <3>1, LogSame
  <2>3. Total(LogOf(F, {new}), id) = -paid - fee
    <3>1. DOMAIN LogOf(F, {new}) = {t.id : t \in {new}}
            /\ \A t \in {new} : LogOf(F, {new})[t.id] = F[t]
      BY <2>1, LogEntries
    <3>2. F[new] = TradeCash(new)
      BY <2>1 DEF Moved
    <3>3. TradeCash(new) = -(new.cost * new.qty) - Commission(cfg.optionRate, new.qty)
      BY Zenon DEF TradeCash
    <3>. HIDE DEF F
    <3>4. DOMAIN LogOf(F, {new}) = {id} /\ LogOf(F, {new})[id] = -paid - fee
      BY <1>4, <3>1, <3>2, <3>3
    <3>. HIDE DEF paid, fee
    <3>5. -paid - fee \in Int
      BY <1>9
    <3>. QED  BY <1>1, <3>4, <3>5, SingleTotal
  <2>4. Total(LogOf(F, O2), id) = Total(LogOf(F, O), id) + Total(LogOf(F, {new}), id)
    <3>. HIDE DEF F
    <3>1. Told(F, O \cup {new})
      BY <1>7, <2>1 DEF F
    <3>2. Total(LogOf(F, O \cup {new}), id) = Total(LogOf(F, O), id) + Total(LogOf(F, {new}), id)
      BY <1>1, <2>1, <3>1, LogUnion
    <3>. QED  BY <2>1, <3>2
  <2>5. /\ Total(LogOf(Moved(O), O), id) = Total(LogOf(Moved(O), O), attempts)
        /\ Total(LogOf(Moved(C), C), id) = Total(LogOf(Moved(C), C), attempts)
    BY <1>1, <1>7, <1>8, LogPadded
  <2>6. Total(LogOf(Moved(O), O), attempts) \in Int /\ Total(LogOf(Moved(C), C), attempts) \in Int
    BY <1>1, <1>7, LogInt
  <2>7. CashLog(O2, C, id) = Total(LogOf(F, O2), id) + Total(LogOf(Moved(C), C), id)
    BY <1>12 DEF CashLog
  <2>8. CashLog(O, C, attempts)
          = Total(LogOf(Moved(O), O), attempts) + Total(LogOf(Moved(C), C), attempts)
    BY <1>12 DEF CashLog
  <2>. HIDE DEF F, paid, fee
  <2>9. CashLog(O2, C, id) = CashLog(O, C, attempts) - paid - fee
          /\ CashLog(O, C, attempts) \in Int
    BY <1>9, <2>2, <2>3, <2>4, <2>5, <2>6, <2>7, <2>8
  <2>10. cash' = cash - paid - fee
    <3>1. cash \in Int
      BY DEF TypeInv, TypeOK, BookOK
    <3>. QED  BY <1>3, <1>9, <1>10, <1>12, <3>1
  <2>11. cfg.capital \in Int
    BY <1>6, ConfigFacts
  <2>12. NoStocksTraded => cash' = cfg.capital + CashLog(O2, C, id)
    BY <1>9, <2>9, <2>10, <2>11 DEF CashInv, O, C
  <2>13. NoStocksTraded => \A s \in DOMAIN holdings' : holdings'[s].qty = 0
    BY <1>1 DEF CashInv
  <2>. QED  BY <1>1, <1>5, <2>12, <2>13, CashLogPrimed
<1>. QED  BY <1>11, <1>12

\* The cash of an exit is what its trade says, less the basis an external budget
\* takes back, which is the cost of the entry in the log.
LEMMA ExecuteExitsCash ==
  ASSUME TypeInv, TypeInv', ReplayInv, ReplayInv', CashInv, UNCHANGED inputs,
         day \in Dates, ExecuteExits
  PROVE  CashInv'
<1>. DEFINE closing == {p \in DOMAIN positions : ShouldExit(p)}
            flows   == [p \in closing |-> ExitCashFlow(p)]
            N       == {CloseTrade(p) : p \in closing}
            O       == Opens
            C       == Closes
            n       == attempts
<1>1. /\ cash' = cash + Total(flows, n) /\ trades' = trades \cup N
      /\ UNCHANGED <<inputs, holdings, attempts>>
  BY DEF ExecuteExits, counters
<1>2. InputsOK /\ BookOK /\ CountersOK /\ n \in Nat /\ cash \in Int
  BY DEF TypeInv, TypeOK, BookOK, CountersOK
<1>3. /\ \A p \in closing : CloseTrade(p).id = p /\ CloseTrade(p).side = "close"
      /\ \A p \in closing : CloseTrade(p).cost = ExitCost(p)
                              /\ CloseTrade(p).qty = positions[p].qty
      /\ \A p \in closing : p \in DOMAIN positions
  BY DEF CloseTrade
<1>4. DOMAIN flows = closing /\ \A p \in closing : flows[p] = ExitCashFlow(p)
  OBVIOUS
<1>. HIDE DEF closing, flows
<1>5. Opens' = O /\ Closes' = C \cup N
  BY <1>1, <1>3 DEF Opens, Closes
<1>6. C \cap N = {}
  <2>1. \A p \in DOMAIN positions : \A t \in C : t.id # p
    BY DEF ReplayInv, BookIsReplayOfTrades
  <2>. QED  BY <1>3, <2>1
<1>. HIDE DEF O, C, N
<1>7. GoodLog(O, C, n) /\ GoodLog(O, C \cup N, n)
  BY <1>1, <1>5, ReplayIsGoodLog, CashLogPrimed DEF O, C
<1>8. Told(Moved(O), O) /\ Told(Moved(C), C) /\ Told(Realized(O, C), C)
  BY <1>2, <1>7, ToldByLog
<1>9. Told(Moved(C \cup N), C \cup N) /\ Told(Realized(O, C \cup N), C \cup N)
  BY <1>2, <1>7, ToldByLog
<1>10. ASSUME NEW p \in closing
       PROVE  LET t == CloseTrade(p)
              IN  /\ TradeCash(t) = -(ExitCost(p) * positions[p].qty)
                                       - Commission(cfg.optionRate, positions[p].qty)
                  /\ (CHOOSE s \in O : s.id = t.id).cost = positions[p].entryCost
                  /\ t \in N /\ t.id = p /\ t.qty = positions[p].qty
  <2>. DEFINE t == CloseTrade(p)
  <2>1. TradeCash(t) = -(t.cost * t.qty) - Commission(cfg.optionRate, t.qty)
    BY Zenon DEF TradeCash
  <2>2. t.id = p /\ t.cost = ExitCost(p) /\ t.qty = positions[p].qty /\ t \in N
    BY <1>3 DEF N
  <2>3. PICK s \in O : s.id = p /\ s.cost = positions[p].entryCost
    BY <1>3 DEF ReplayInv, BookIsReplayOfTrades, O
  <2>. HIDE DEF t
  <2>4. (CHOOSE u \in O : u.id = t.id) = s
    BY <1>7, <2>2, <2>3 DEF GoodLog
  <2>5. TradeCash(t) = -(ExitCost(p) * positions[p].qty)
                          - Commission(cfg.optionRate, positions[p].qty)
    BY <2>1, <2>2
  <2>. QED  BY <2>2, <2>3, <2>4, <2>5 DEF t
<1>11. ASSUME NEW p \in closing
       PROVE  LET fee == Commission(cfg.optionRate, positions[p].qty)
              IN  /\ fee \in Int /\ ExitCost(p) * positions[p].qty \in Int
                  /\ positions[p].entryCost * positions[p].qty \in Int
                  /\ ExitCashFlow(p) \in Int
                  /\ ExitCashFlow(p)
                       = -(ExitCost(p) * positions[p].qty)
                           - (IF External THEN positions[p].entryCost * positions[p].qty ELSE 0)
                           - fee
  <2>1. p \in DOMAIN positions
    BY <1>3
  <2>2. /\ positions[p].qty \in Int /\ positions[p].entryCost \in Int /\ ExitCost(p) \in Int
        /\ ExitCashFlow(p) \in Int
    BY <1>2, <2>1, BookFacts, CapitalInt, CloseFlowInt
  <2>3. Commission(cfg.optionRate, positions[p].qty) \in Int
    BY <1>2, <2>2, CommissionInt, ConfigFacts
  <2>4. ExitCost(p) * positions[p].qty \in Int /\ positions[p].entryCost * positions[p].qty \in Int
    BY <2>2, ProductInt
  <2>. QED  BY <2>2, <2>3, <2>4, Zenon DEF ExitCashFlow, BasisReturn
<1>. DEFINE F == IF External THEN Realized(O, C \cup N) ELSE Moved(C \cup N)
            G == IF External THEN Realized(O, C) ELSE Moved(C)
<1>12. Told(F, C \cup N) /\ Told(G, C)
  BY <1>8, <1>9
<1>13. LogOf(F, C) = LogOf(G, C)
  <2>1. \A t \in C : F[t] = G[t]
    BY DEF Realized, Moved
  <2>. HIDE DEF F, G
  <2>. QED  BY <1>12, <2>1, LogSame
<1>14. Total(LogOf(F, N), n) = Total(flows, n)
  <2>1. Told(F, N)
    <3>. HIDE DEF F
    <3>. QED  BY <1>12 DEF Told
  <2>2. DOMAIN LogOf(F, N) = {t.id : t \in N} /\ \A t \in N : LogOf(F, N)[t.id] = F[t]
    <3>. HIDE DEF F
    <3>. QED  BY <2>1, LogEntries
  <2>3. {t.id : t \in N} = closing
    BY <1>3 DEF N
  <2>4. ASSUME NEW p \in closing PROVE F[CloseTrade(p)] = flows[p]
    <3>. DEFINE t    == CloseTrade(p)
                cost == ExitCost(p) * positions[p].qty
                paid == positions[p].entryCost * positions[p].qty
                fee  == Commission(cfg.optionRate, positions[p].qty)
    <3>1. TradeCash(t) = -cost - fee /\ t \in N
            /\ (CHOOSE s \in O : s.id = t.id).cost * t.qty = paid
      BY <1>10
    <3>2. cost \in Int /\ paid \in Int /\ fee \in Int
            /\ flows[p] = -cost - (IF External THEN paid ELSE 0) - fee
      BY <1>4, <1>11
    <3>3. F[t] = IF External THEN TradeCash(t) - (CHOOSE s \in O : s.id = t.id).cost * t.qty
                             ELSE TradeCash(t)
      <4>. HIDE DEF t
      <4>. QED  BY <3>1 DEF Realized, Moved
    <3>. HIDE DEF cost, paid, fee, t, F
    <3>. QED  BY <3>1, <3>2, <3>3 DEF t
  <2>5. \A p \in closing : LogOf(F, N)[p] = flows[p]
    <3>. HIDE DEF F
    <3>1. \A p \in closing : CloseTrade(p) \in N /\ CloseTrade(p).id = p
      BY <1>3 DEF N
    <3>. QED  BY <2>2, <2>4, <3>1
  <2>. HIDE DEF F
  <2>6. IntTerms(LogOf(F, N), n) /\ IntTerms(flows, n)
    BY <1>2, <1>4, <1>11, <2>1, LogInt DEF IntTerms
  <2>7. \A k \in 1..n : Term(LogOf(F, N), k) = Term(flows, k)
    BY <1>4, <2>2, <2>3, <2>5 DEF Term
  <2>. QED  BY <1>2, <2>6, <2>7, TotalSame
<1>15. Total(LogOf(F, C \cup N), n) = Total(LogOf(G, C), n) + Total(flows, n)
         /\ Total(LogOf(G, C), n) \in Int
  <2>. HIDE DEF F, G
  <2>1. Total(LogOf(F, C \cup N), n) = Total(LogOf(F, C), n) + Total(LogOf(F, N), n)
    BY <1>2, <1>6, <1>12, LogUnion
  <2>2. Total(LogOf(G, C), n) \in Int
    BY <1>2, <1>12, LogInt
  <2>. QED  BY <1>13, <1>14, <2>1, <2>2
<1>16. Total(flows, n) \in Int
  <2>1. \A p \in DOMAIN flows : flows[p] \in Int
    BY <1>4, <1>11
  <2>. QED  BY <1>2, <2>1, TotalInt
<1>17. CashLog(O, C \cup N, n) = CashLog(O, C, n) + Total(flows, n)
         /\ CashLog(O, C, n) \in Int
  <2>1. CASE External
    BY <1>15, <1>16, <2>1 DEF CashLog
  <2>2. CASE ~External
    <3>1. Total(LogOf(Moved(O), O), n) \in Int
      BY <1>2, <1>8, LogInt
    <3>. QED  BY <1>15, <1>16, <2>2, <3>1 DEF CashLog
  <2>. QED  BY <2>1, <2>2
<1>18. cfg.capital \in Int
  BY <1>2, ConfigFacts
<1>19. NoStocksTraded => cash' = cfg.capital + CashLog(O, C \cup N, n)
  BY <1>1, <1>16, <1>17, <1>18 DEF CashInv, O, C
<1>20. NoStocksTraded => \A s \in DOMAIN holdings' : holdings'[s].qty = 0
  BY <1>1 DEF CashInv
<1>. QED  BY <1>1, <1>5, <1>19, <1>20, CashLogPrimed

LEMMA NextCash ==
  ASSUME TypeInv, TypeInv', ReplayInv, ReplayInv', CashInv, [Next]_vars
  PROVE  CashInv'
<1>. DEFINE Same == UNCHANGED <<cash, holdings, trades>>
                      /\ attempts' \in {attempts, attempts + 1}
<1>1. CASE Same /\ UNCHANGED inputs
  BY <1>1, IdleCash
<1>2. CASE Step /\ UNCHANGED inputs
  <2>1. CASE Recording \/ Walking \/ Marking \/ CheckBroke
    <3>1. Same
      BY <2>1 DEF Recording, BackfillRow, BackfillDone, RecordDay, Walking, NextDate,
         EndOfDates, BeginRebalance, BeginOrdinaryDay, Finish, Marking, MarkPortfolio,
         MarkForRoll, NoRoll, CheckBroke, book, counters, logs
    <3>. QED  BY <1>1, <1>2, <3>1
  <2>2. CASE ExecuteExits
    <3>1. day \in Dates
      BY <2>2, DayIsDate DEF TypeInv, TypeOK, Located, ExecuteExits
    <3>. QED  BY <1>2, <2>2, <3>1, ExecuteExitsCash
  <2>3. CASE OpenPosition
    BY <1>2, <2>3, OpenPositionCash
  <2>4. CASE NothingToSpend \/ MissEntry \/ NothingFreed
    <3>1. Same
      BY <2>4 DEF NothingToSpend, MissEntry, NothingFreed, EntryPhase, book, counters, logs
    <3>. QED  BY <1>1, <1>2, <3>1
  <2>5. CASE RebalanceStocks \/ ReinvestProceeds
    <3>. DEFINE liquid == cash + StockCap
                alloc  == StocksAllocation(liquid, OptionsCap)
    <3>1. BuyStocks(liquid, alloc) /\ UNCHANGED <<attempts, trades>>
      BY <2>5 DEF RebalanceStocks, ReinvestProceeds, counters, logs
    <3>2. day \in Dates
      BY <2>5, DayIsDate DEF TypeInv, TypeOK, Located, RebalanceStocks, ReinvestProceeds
    <3>3. OptionsCap \in Int /\ alloc \in Int
      <4>1. StockCap \in Int /\ OptionsCap \in Int /\ cash \in Int
        BY <3>2, CapitalInt DEF TypeInv, TypeOK, BookOK
      <4>. QED  BY <4>1, StocksAllocationInt DEF TypeInv, TypeOK
    <3>. QED  BY <1>2, <3>1, <3>2, <3>3, BuyStocksCash
  <2>. QED  BY <1>2, <2>1, <2>2, <2>3, <2>4, <2>5 DEF Step, Entering, Investing
<1>3. CASE UNCHANGED vars
  BY <1>1, <1>3 DEF vars, inputs, book, counters, logs
<1>. QED  BY <1>2, <1>3 DEF Next, Terminated

\* Cash at any time is the capital plus what the trade log says: with an
\* external budget the realized profit of the closed trades, self-funded the
\* cash of every trade; where no stock is traded, whatever was missed, refused
\* or retried in between.
THEOREM CashFollowsHolds == Spec => []CashFollowsTradeLog
<1>1. Init => CashInv
  <2>. SUFFICES ASSUME Init PROVE CashInv
    OBVIOUS
  <2>0. DOMAIN holdings = {}
    BY DEF Init
  <2>1. Opens = {} /\ Closes = {} /\ attempts = 0 /\ cash = cfg.capital
    BY DEF Init, Opens, Closes
  <2>2. GoodLog({}, {}, 0)
    BY DEF GoodLog
  <2>3. InputsOK /\ cfg.capital \in Int
    BY InitType, ConfigFacts DEF TypeInv, TypeOK
  <2>4. Told(Moved({}), {}) /\ Told(Realized({}, {}), {})
    BY <2>2, <2>3, ToldByLog
  <2>5. Total(LogOf(Moved({}), {}), 0) = 0 /\ Total(LogOf(Realized({}, {}), {}), 0) = 0
    BY <2>4, LogInt, TotalRecursion
  <2>6. CashLog({}, {}, 0) = 0
    BY <2>5 DEF CashLog
  <2>. QED  BY <2>0, <2>1, <2>3, <2>6 DEF CashInv
<1>2. CashInv => CashFollowsTradeLog
  BY CashLogIs DEF CashInv
<1>. QED  BY <1>1, <1>2, NextCash, TypeInvariant, ReplayInvariant, PTL DEF Spec

-----------------------------------------------------------------------------
(* Limits.                                                                 *)

LEMMA OnlyEntriesEnter ==
  ASSUME TypeInv, [Next]_vars, Entered
  PROVE  OpenPosition /\ UNCHANGED inputs
<1>1. attempts \in Nat /\ unfilled \in Nat
  BY DEF TypeInv, TypeOK, CountersOK
<1>2. ~ UNCHANGED counters
  BY <1>1 DEF Entered, counters
<1>3. Step /\ UNCHANGED inputs
  BY <1>2 DEF Next, Terminated, vars
<1>4. ~Recording /\ ~Walking /\ ~ExecuteExits /\ ~Marking /\ ~Investing /\ ~CheckBroke
  BY <1>2 DEF Recording, BackfillRow, BackfillDone, RecordDay, Walking, NextDate,
     EndOfDates, BeginRebalance, BeginOrdinaryDay, Finish, ExecuteExits, Marking,
     MarkPortfolio, MarkForRoll, NoRoll, Investing, RebalanceStocks, ReinvestProceeds,
     NothingFreed, CheckBroke
<1>5. ~NothingToSpend /\ ~MissEntry
  BY <1>1, <1>2 DEF NothingToSpend, MissEntry, Entered
<1>. QED  BY <1>3, <1>4, <1>5 DEF Step, Entering

\* On the calendar the delta an entry is checked against is the delta of the
\* book at the quotes of the day: it is marked, and no roll comes in between.
DeltaMarked ==
  cfg.when = "calendar" =>
    /\ pc # "roll"
    /\ pc \in {"stocks", "calendar"} =>
         greeks = MarketDelta(today, cfg.legs, positions, attempts)

LEMMA NextDeltaMarked == TypeInv /\ DeltaMarked /\ [Next]_vars => DeltaMarked'
<1>. SUFFICES ASSUME TypeInv, DeltaMarked, [Next]_vars, cfg'.when = "calendar"
              PROVE  /\ pc' # "roll"
                     /\ pc' \in {"stocks", "calendar"} =>
                          (greeks = MarketDelta(today, cfg.legs, positions, attempts))'
  BY DEF DeltaMarked
<1>1. UNCHANGED inputs /\ cfg.when = "calendar" /\ ~Rolls
  BY DEF Next, Terminated, vars, inputs, Rolls
<1>2. CASE MarkPortfolio
  <2>1. /\ greeks' = MarketDelta(today, cfg.legs, positions, attempts) /\ pc' # "roll"
        /\ UNCHANGED <<cfg, mkt, day, positions, attempts>>
    BY <1>1, <1>2 DEF MarkPortfolio, book, counters, inputs
  <2>. QED  BY <2>1 DEF today
<1>3. CASE RebalanceStocks
  <2>1. /\ pc = "stocks" /\ pc' # "roll" /\ greeks' = greeks
        /\ UNCHANGED <<cfg, mkt, day, positions, attempts>>
    BY <1>1, <1>3 DEF RebalanceStocks, marks, counters, inputs
  <2>. QED  BY <1>1, <2>1 DEF today, DeltaMarked
<1>4. CASE Entering
  <2>1. EntryPhase /\ pc' = AfterEntry
    BY <1>4 DEF Entering, NothingToSpend, OpenPosition, MissEntry
  <2>2. pc = "calendar"
    BY <1>1, <2>1 DEF EntryPhase, DeltaMarked
  <2>. QED  BY <2>1, <2>2 DEF AfterEntry
<1>5. CASE Step /\ ~MarkPortfolio /\ ~RebalanceStocks /\ ~Entering
  <2>1. pc' \notin {"roll", "stocks", "calendar"}
    BY <1>1, <1>5 DEF Step, Recording, BackfillRow, BackfillDone, RecordDay, Walking,
       NextDate, EndOfDates, BeginRebalance, BeginOrdinaryDay, Finish, ExecuteExits,
       Marking, MarkForRoll, NoRoll, Investing, ReinvestProceeds, NothingFreed, CheckBroke
  <2>. QED  BY <2>1
<1>6. CASE UNCHANGED vars
  BY <1>1, <1>6 DEF vars, inputs, control, book, marks, counters, today, DeltaMarked
<1>. QED  BY <1>2, <1>3, <1>4, <1>5, <1>6 DEF Next, Terminated

\* The delta of one position at the quotes of the day.
DeltaOf(p) ==
  Total([j \in {l \in 1..Len(cfg.legs) : p.contract[l] \in DOMAIN today.opts} |->
           today.opts[p.contract[j]].delta * EntrySign(cfg.legs[j].dir) * p.qty],
        Len(cfg.legs))

\* What an entry adds to the delta of the book is what it was checked for.
LEMMA EntryDeltaIs ==
  ASSUME InputsOK, day \in Dates, NEW budget, NEW pick \in Picks(budget),
         NEW qty \in Nat
  PROVE  DeltaOf(NewPosition(pick, qty)) = EntryDelta(pick) * qty
<1>. DEFINE n == Len(cfg.legs)
            pos == NewPosition(pick, qty)
            f == [l \in Legs |-> today.opts[pick[l]].delta * EntrySign(cfg.legs[l].dir)]
            g == [j \in {l \in 1..n : pos.contract[l] \in DOMAIN today.opts} |->
                    today.opts[pos.contract[j]].delta * EntrySign(cfg.legs[j].dir) * pos.qty]
<1>1. n \in Nat /\ IsDay(today) /\ \A l \in Legs : pick[l] \in DOMAIN today.opts
  BY ConfigFacts, PickFacts
<1>2. pos.contract = pick /\ pos.qty = qty
  BY DEF NewPosition
<1>3. ASSUME NEW l \in Legs
      PROVE  f[l] \in Int /\ g[l] = qty * f[l] /\ g[l] \in Int
  <2>. DEFINE delta == today.opts[pick[l]].delta
              sign  == EntrySign(cfg.legs[l].dir)
  <2>1. delta \in Int /\ sign \in Int
    BY <1>1, QuoteFields, SignInt
  <2>2. f[l] = delta * sign
    OBVIOUS
  <2>3. l \in {k \in 1..n : pos.contract[k] \in DOMAIN today.opts}
    BY <1>1, <1>2 DEF Legs
  <2>4. g[l] = delta * sign * qty
    <3>. HIDE DEF pos
    <3>. QED  BY <1>2, <2>3
  <2>. HIDE DEF delta, sign, f, g
  <2>. QED  BY <2>1, <2>2, <2>4
<1>4. DOMAIN f = 1..n /\ DOMAIN g = 1..n
  <2>. HIDE DEF pos
  <2>. QED  BY <1>1, <1>2 DEF Legs
<1>5. DeltaOf(pos) = Total(g, n)
  BY Zenon DEF DeltaOf
<1>6. EntryDelta(pick) = Total(f, n)
  BY Zenon DEF EntryDelta
<1>. HIDE DEF f, g, pos, n
<1>7. IntTerms(f, n) /\ IntTerms(g, n) /\ \A k \in 1..n : Term(g, k) = qty * Term(f, k)
  BY <1>3, <1>4 DEF IntTerms, Term, Legs, n
<1>8. Total(g, n) = qty * Total(f, n) /\ Total(f, n) \in Int
  BY <1>1, <1>7, TotalScaled, TermInt
<1>9. qty * Total(f, n) = Total(f, n) * qty
  BY <1>8
<1>. QED  BY <1>5, <1>6, <1>8, <1>9 DEF pos

\* One more position adds its delta to the book.
LEMMA AddedDelta ==
  ASSUME InputsOK, IsDay(today), NEW n \in Nat, NEW P, NEW Q, NEW pos,
         BookOf(cfg.legs, Q, n + 1), DOMAIN P \subseteq 1..n,
         Q = [p \in DOMAIN P \cup {n + 1} |-> IF p = n + 1 THEN pos ELSE P[p]]
  PROVE  MarketDelta(today, cfg.legs, Q, n + 1)
           = MarketDelta(today, cfg.legs, P, n) + DeltaOf(pos)
<1>. DEFINE f == [p \in DOMAIN P |-> DeltaOf(P[p])]
            g == [p \in DOMAIN Q |-> DeltaOf(Q[p])]
            m == n + 1
<1>1. MarketDelta(today, cfg.legs, Q, m) = Total(g, m)
  BY Zenon DEF MarketDelta, DeltaOf
<1>2. MarketDelta(today, cfg.legs, P, n) = Total(f, n)
  BY Zenon DEF MarketDelta, DeltaOf
<1>3. m \in Nat /\ m \in 1..m /\ n \in 0..m /\ m - 1 = n
  OBVIOUS
<1>4. DOMAIN Q = DOMAIN P \cup {m} /\ Q[m] = pos /\ \A p \in DOMAIN P : Q[p] = P[p]
  BY <1>3
<1>5. \A p \in DOMAIN Q : DeltaOf(Q[p]) \in Int
  BY PositionDeltaInt DEF BookOf, DeltaOf
<1>. HIDE DEF m
<1>6. DOMAIN f = DOMAIN P /\ DOMAIN g = DOMAIN Q /\ g[m] = DeltaOf(pos)
        /\ \A p \in DOMAIN P : f[p] = g[p] /\ \A q \in DOMAIN Q : g[q] \in Int
  BY <1>4, <1>5
<1>7. \A q \in DOMAIN Q : g[q] \in Int
  BY <1>5
<1>. HIDE DEF f, g
<1>8. IntTerms(f, n) /\ IntTerms(g, m)
  BY <1>4, <1>6, <1>7 DEF IntTerms
<1>9. IntTerms(g, n)
  BY <1>3, <1>8, TermInt
<1>10. Total(g, m) = Total(g, n) + Term(g, m)
  BY <1>3, <1>8, TotalRecursion
<1>11. \A k \in 1..n : Term(g, k) = Term(f, k)
  BY <1>4, <1>6 DEF Term, m
<1>12. Total(g, n) = Total(f, n)
  BY <1>8, <1>9, <1>11, TotalSame
<1>13. Term(g, m) = DeltaOf(pos)
  BY <1>4, <1>6 DEF Term
<1>. QED  BY <1>1, <1>2, <1>10, <1>12, <1>13 DEF m

\* An entry on the calendar leaves the book within MaxDelta at the quotes of
\* the day, after any number of exits and top-ups before it.
THEOREM DeltaLimitHolds == Spec => DeltaLimitHonoured
<1>1. Init => DeltaMarked
  BY DEF Init, DeltaMarked
<1>2. ASSUME TypeInv, TypeInv', DeltaMarked, [Next]_vars, Entered, cfg.maxDelta # None,
             cfg.when = "calendar"
      PROVE  Magnitude(MarketDelta(today, cfg.legs, positions', attempts')) <= cfg.maxDelta
  <2>1. OpenPosition /\ UNCHANGED inputs
    BY <1>2, OnlyEntriesEnter
  <2>. DEFINE budget == Budget(CapAtEntry)
  <2>2. /\ day \in Dates /\ attempts \in Nat /\ attempts' = attempts + 1 /\ UNCHANGED day
    BY <1>2, <2>1, OpenPositionIs
  <2>3. PICK pick \in Picks(budget) :
          LET qty == Quantity(pick, budget)
          IN  /\ Tradable(pick, budget) /\ qty \in Nat \ {0}
              /\ Enter(attempts + 1, NewPosition(pick, qty), budget)
    BY <1>2, <2>1, OpenPositionIs
  <2>. DEFINE qty == Quantity(pick, budget)
              pos == NewPosition(pick, qty)
  <2>4. positions' = [p \in DOMAIN positions \cup {attempts + 1} |->
                        IF p = attempts + 1 THEN pos ELSE positions[p]]
    BY <2>3, Zenon DEF Enter
  <2>5. greeks = MarketDelta(today, cfg.legs, positions, attempts)
    <3>1. pc = "calendar"
      BY <1>2, <2>1 DEF DeltaMarked, OpenPosition, EntryPhase
    <3>. QED  BY <1>2, <3>1 DEF DeltaMarked
  <2>6. Magnitude(greeks + EntryDelta(pick) * qty) <= cfg.maxDelta
    BY <1>2, <2>3 DEF Tradable, WithinDelta
  <2>7. /\ InputsOK /\ IsDay(today) /\ DOMAIN positions \subseteq 1..attempts
        /\ BookOf(cfg.legs, positions', attempts')
    BY <1>2, <2>1, <2>2, WealthIs DEF TypeInv, TypeOK, PaidBook
  <2>8. DeltaOf(pos) = EntryDelta(pick) * qty
    <3>1. qty \in Nat
      BY <2>3
    <3>. HIDE DEF budget, qty
    <3>. QED  BY <2>2, <2>7, <3>1, EntryDeltaIs DEF pos
  <2>. HIDE DEF pos, qty, budget
  <2>9. MarketDelta(today, cfg.legs, positions', attempts')
          = MarketDelta(today, cfg.legs, positions, attempts) + DeltaOf(pos)
    BY <2>2, <2>4, <2>7, AddedDelta
  <2>. QED  BY <2>5, <2>6, <2>8, <2>9
<1>3. ASSUME TypeInv, TypeInv', DeltaMarked, [Next]_vars
      PROVE  [Entered /\ cfg.maxDelta # None /\ cfg.when = "calendar" =>
               Magnitude(MarketDelta(today, cfg.legs, positions', attempts'))
                 <= cfg.maxDelta]_vars
  BY <1>2, <1>3
<1>. QED  BY <1>1, <1>3, NextDeltaMarked, TypeInvariant, PTL DEF Spec, DeltaLimitHonoured

\* The units sized against the notional limit fit the room left under it.
LEMMA RoomIsRespected ==
  ASSUME NEW limit \in Int, NEW used \in Int, NEW short \in Nat \ {0},
         NEW room \in {limit - DEN * used, 0}, NEW qty \in Nat \ {0},
         qty <= room \div (DEN * short)
  PROVE  DEN * (used + qty * short) <= limit
<1>1. DEN \in Nat \ {0}
  BY ValuationAssumption
<1>2. DEN * used \in Int /\ room \in Int
  BY <1>1
<1>. DEFINE unit == DEN * short
            fits == room \div unit
<1>3. unit \in Nat \ {0}
  BY <1>1
<1>4. fits \in Int /\ fits * unit <= room
  <2>. HIDE DEF unit
  <2>. QED  BY <1>2, <1>3
<1>5. qty * unit <= fits * unit
  <2>. HIDE DEF unit
  <2>1. qty <= fits
    BY DEF unit
  <2>. HIDE DEF fits
  <2>. QED  BY <1>3, <1>4, <2>1
<1>6. qty * unit \in Nat \ {0} /\ fits * unit \in Int
  <2>. HIDE DEF unit, fits
  <2>. QED  BY <1>3, <1>4
<1>7. qty * unit <= room /\ room > 0
  <2>. HIDE DEF unit, fits
  <2>. QED  BY <1>2, <1>4, <1>5, <1>6
<1>8. qty * unit <= limit - DEN * used
  <2>. HIDE DEF unit, fits
  <2>. QED  BY <1>2, <1>7
<1>9. DEN * (used + qty * short) = DEN * used + qty * unit
  BY <1>1
<1>. QED
  <2>. HIDE DEF unit, fits
  <2>. QED  BY <1>2, <1>6, <1>8, <1>9

\* The exposure the limit is checked against is the exposure of the book.
LEMMA ExposureIs ==
  ASSUME InputsOK, BookOK, CountersOK
  PROVE  BookShortNotional = ShortExposure
<1>. DEFINE f == [p \in DOMAIN positions |->
                    ShortNotional(positions[p].contract) * positions[p].qty]
            g == [p \in DOMAIN positions |->
                    positions[p].qty * ShortNotional(positions[p].contract)]
<1>1. ASSUME NEW p \in DOMAIN positions
      PROVE  f[p] \in Int /\ g[p] = f[p]
  <2>. DEFINE short == ShortNotional(positions[p].contract)
              qty   == positions[p].qty
  <2>1. qty \in Int /\ short \in Int
    BY BookFacts, ShortNotionalInt
  <2>2. f[p] = short * qty /\ g[p] = qty * short
    OBVIOUS
  <2>. HIDE DEF short, qty, f, g
  <2>. QED  BY <2>1, <2>2
<1>2. f = g
  <2>1. \A p \in DOMAIN positions :
          ShortNotional(positions[p].contract) * positions[p].qty
            = positions[p].qty * ShortNotional(positions[p].contract)
    BY <1>1
  <2>. QED  BY <2>1, Zenon
<1>. QED  BY <1>2, Zenon DEF BookShortNotional, ShortExposure

\* Whatever was held before, the short notional of the whole book after an
\* entry is within max_notional_pct of the capital of the date.
THEOREM NotionalLimitHolds == Spec => NotionalLimitHonoured
<1>1. ASSUME TypeInv, TypeInv', [Next]_vars, Entered, cfg.maxNotional # None,
             ShortExposure' > ShortExposure
      PROVE  DEN * ShortExposure' <= cfg.maxNotional * total
  <2>1. OpenPosition /\ UNCHANGED inputs
    BY <1>1, OnlyEntriesEnter
  <2>. DEFINE budget == Budget(CapAtEntry)
  <2>2. /\ day \in Dates /\ attempts \in Nat /\ attempts' = attempts + 1 /\ UNCHANGED day
        /\ budget \in Int
    BY <1>1, <2>1, OpenPositionIs
  <2>3. PICK pick \in Picks(budget) :
          LET qty == Quantity(pick, budget)
          IN  /\ Tradable(pick, budget) /\ qty \in Nat \ {0}
              /\ Enter(attempts + 1, NewPosition(pick, qty), budget)
    BY <1>1, <2>1, OpenPositionIs
  <2>. DEFINE qty == Quantity(pick, budget)
              pos == NewPosition(pick, qty)
              short == ShortNotional(pick)
              f == [p \in DOMAIN positions |->
                      positions[p].qty * ShortNotional(positions[p].contract)]
              g == [p \in DOMAIN positions' |->
                      positions'[p].qty * ShortNotional(positions'[p].contract)]
  <2>4. positions' = [p \in DOMAIN positions \cup {attempts + 1} |->
                        IF p = attempts + 1 THEN pos ELSE positions[p]]
    BY <2>3, Zenon DEF Enter
  <2>5. /\ InputsOK /\ BookOK /\ CountersOK /\ MarksOK
        /\ DOMAIN positions \subseteq 1..attempts /\ total \in Int
    BY <1>1 DEF TypeInv, TypeOK, BookOK, MarksOK, Partial
  <2>6. short \in Int
    BY <2>2, <2>5, PickFacts, ShortNotionalInt
  <2>7. OriginalCost(pick) \in Int /\ OriginalCost(pick) # 0
    BY <2>2, <2>3, <2>5, PickCosts DEF Tradable
  <2>8. qty \in Nat \ {0}
    BY <2>3
  <2>9. ShortExposure' = Total(g, attempts + 1) /\ ShortExposure = Total(f, attempts)
    <3>1. UNCHANGED cfg
      BY <2>1 DEF inputs
    <3>2. ShortExposure' = Total([p \in DOMAIN positions' |->
                positions'[p].qty * ShortNotional(positions'[p].contract)], attempts')
      BY <3>1, Zenon DEF ShortExposure, ShortNotional, Legs
    <3>. QED  BY <2>2, <3>2, Zenon DEF ShortExposure
  <2>10. \A p \in DOMAIN positions' :
            positions'[p].qty \in Int /\ ShortNotional(positions'[p].contract) \in Int
    <3>1. InputsOK' /\ BookOK' /\ CountersOK'
      BY <1>1 DEF TypeInv, TypeOK
    <3>2. \A p \in DOMAIN positions' :
            positions'[p].qty \in Int /\ positions'[p].contract \in [Legs' -> Contracts]
      <4>1. \A p \in DOMAIN positions' : positions'[p] \in Position'
        BY <3>1 DEF BookOK, Partial
      <4>. QED  BY <4>1 DEF Position
    <3>3. Legs' = Legs
      BY <2>1 DEF Legs, inputs
    <3>. QED  BY <2>5, <3>2, <3>3, ShortNotionalInt
  <2>11. g[attempts + 1] = qty * short
    <3>1. pos.qty = qty /\ pos.contract = pick
      BY DEF NewPosition
    <3>. HIDE DEF pos, qty
    <3>. QED  BY <2>4, <3>1
  <2>12. /\ DOMAIN f = DOMAIN positions /\ DOMAIN g = DOMAIN positions \cup {attempts + 1}
         /\ \A p \in DOMAIN f : g[p] = f[p]
    <3>1. \A p \in DOMAIN positions : p # attempts + 1
      BY <2>2, <2>5
    <3>. HIDE DEF pos, qty
    <3>. QED  BY <2>4, <3>1
  <2>13. \A p \in DOMAIN g : g[p] \in Int
    <3>1. ASSUME NEW p \in DOMAIN positions' PROVE g[p] \in Int
      <4>. DEFINE a == positions'[p].qty
                  b == ShortNotional(positions'[p].contract)
      <4>1. a \in Int /\ b \in Int
        BY <2>10
      <4>2. g[p] = a * b
        OBVIOUS
      <4>. HIDE DEF a, b, g
      <4>. QED  BY <4>1, <4>2
    <3>. QED  BY <3>1
  <2>. DEFINE used == BookShortNotional
  <2>14. used = ShortExposure /\ used \in Int
    BY <2>5, ExposureIs, BookShortNotionalInt
  <2>. HIDE DEF f, g, pos
  <2>15. ShortExposure' = used + qty * short
    <3>1. IntTerms(g, attempts + 1)
      BY <2>13 DEF IntTerms
    <3>2. Total(g, attempts + 1) = Total(f, attempts) + g[attempts + 1]
      BY <2>2, <2>5, <2>12, <3>1, TotalAdded
    <3>. QED  BY <2>9, <2>11, <2>14, <3>2
  <2>16. short > 0
    <3>. HIDE DEF used, short, qty
    <3>. QED  BY <1>1, <2>6, <2>8, <2>14, <2>15
  <2>. DEFINE limit == cfg.maxNotional * total
              gap   == limit - DEN * used
              room  == Max({gap, 0})
  <2>17. limit \in Int
    <3>1. cfg.maxNotional \in Int
      BY <1>1, <2>5, ConfigFacts DEF Limit
    <3>. QED  BY <2>5, <3>1
  <2>18. gap \in Int /\ room \in {gap, 0}
    <3>1. DEN * used \in Int
      BY <2>14, ValuationAssumption
    <3>2. gap \in Int
      <4>. HIDE DEF limit, used
      <4>. QED  BY <2>17, <3>1
    <3>. HIDE DEF gap
    <3>. QED  BY <3>2, PairExtremes
  <2>19. NotionalRoom(pick) = room \div (DEN * short)
    BY DEF NotionalRoom
  <2>20. NotionalRoom(pick) \in Int
    <3>1. DEN * used \in Int /\ DEN * short \in Nat \ {0}
      BY <2>6, <2>14, <2>16, ValuationAssumption
    <3>2. room \in Int
      <4>. HIDE DEF gap, room
      <4>. QED  BY <2>18
    <3>. HIDE DEF room, short
    <3>. QED  BY <2>19, <3>1, <3>2, DivisionInt
  <2>21. qty <= NotionalRoom(pick)
    <3>. DEFINE fits == budget \div Magnitude(OriginalCost(pick))
    <3>1. fits \in Int
      BY <2>2, <2>7, MagnitudeNat, DivisionInt
    <3>2. qty = Min({fits, NotionalRoom(pick)})
      BY <1>1, <2>16 DEF Quantity
    <3>. HIDE DEF fits, qty
    <3>. QED  BY <2>20, <3>1, <3>2, PairExtremes
  <2>. HIDE DEF limit, used, room, short, qty
  <2>22. short \in Nat \ {0}
    BY <2>6, <2>16
  <2>23. DEN * (used + qty * short) <= limit
    BY <2>8, <2>14, <2>17, <2>18, <2>19, <2>21, <2>22, RoomIsRespected
  <2>. QED  BY <2>15, <2>23 DEF limit
<1>2. ASSUME TypeInv, TypeInv', [Next]_vars
      PROVE  [Entered /\ cfg.maxNotional # None /\ ShortExposure' > ShortExposure =>
               DEN * ShortExposure' <= cfg.maxNotional * total]_vars
  BY <1>1, <1>2
<1>. QED  BY <1>2, TypeInvariant, PTL DEF Spec, NotionalLimitHonoured

-----------------------------------------------------------------------------
(* A cash account.                                                         *)

\* What the phases of a date hand to each other in a cash account: holdings are
\* never short, the stocks are bought with the capital just marked, and the
\* calendar entry is left with the cash of its budget.
SolventInv ==
  CashAccount =>
    /\ cash >= 0
    /\ \A s \in DOMAIN holdings : holdings[s].qty >= 0
    /\ pc # "roll"
    /\ pc = "stocks" => total = cash + StockCap + OptionsCap
    /\ pc = "calendar" => ScaledBudget(OptionsCap) <= DEN * cash

\* A position without shorts pays when it is left.
LEMMA LongExitPays ==
  ASSUME NEW quoted, IsDay(quoted), NEW legs, NEW p, PositionOf(legs, p),
         \A l \in 1..Len(legs) : legs[l].dir = "buy"
  PROVE  -PositionExitCost(quoted, legs, p) \in Nat
<1>. DEFINE n == Len(legs)
            price(j) == ExitPrice(quoted, legs[j].dir, p.contract[j])
            f == [j \in 1..n |-> -EntrySign(legs[j].dir) * price(j) * SPC]
            g == [j \in 1..n |-> price(j) * SPC]
<1>1. n \in Nat /\ p.contract \in [1..n -> Contracts] /\ SPC \in Nat
  BY ValuationAssumption DEF PositionOf
<1>2. ASSUME NEW j \in 1..n PROVE g[j] \in Nat /\ f[j] = (-1) * g[j]
  <2>1. price(j) \in Nat
    BY <1>1, ExitPriceNat
  <2>2. EntrySign(legs[j].dir) = 1
    BY DEF EntrySign
  <2>3. f[j] = -EntrySign(legs[j].dir) * price(j) * SPC /\ g[j] = price(j) * SPC
    OBVIOUS
  <2>. HIDE DEF price, f, g
  <2>4. g[j] \in Nat
    BY <1>1, <2>1, <2>3, ProductNat
  <2>5. f[j] = (-1) * g[j]
    BY <1>1, <2>1, <2>2, <2>3
  <2>. QED  BY <2>4, <2>5
<1>3. DOMAIN f = 1..n /\ DOMAIN g = 1..n
  OBVIOUS
<1>4. PositionExitCost(quoted, legs, p) = Total(f, n)
  BY Zenon DEF PositionExitCost
<1>. HIDE DEF f, g, n
<1>5. \A j \in 1..n : f[j] \in Int /\ g[j] \in Int /\ g[j] >= 0
  BY <1>2
<1>6. IntTerms(f, n) /\ IntTerms(g, n)
  BY <1>5 DEF IntTerms
<1>7. Total(g, n) \in Nat
  BY <1>1, <1>3, <1>5, <1>6, TotalNotNegative DEF Term
<1>8. Total(f, n) = (-1) * Total(g, n)
  BY <1>1, <1>2, <1>3, <1>6, TotalScaled DEF Term
<1>. QED  BY <1>4, <1>7, <1>8

\* Options held long and stocks not sold short are worth something or nothing.
LEMMA LongWorth ==
  ASSUME InputsOK, BookOK, CountersOK, day \in Dates,
         \A l \in Legs : cfg.legs[l].dir = "buy",
         \A s \in DOMAIN holdings : holdings[s].qty >= 0
  PROVE  /\ OptionsCap \in Nat /\ StockCap \in Nat
         /\ \A p \in DOMAIN positions : -ExitCost(p) \in Nat
<1>1. IsDay(today)
  BY MarketFacts DEF today
<1>2. /\ BookOf(cfg.legs, positions, attempts)
      /\ HoldingsOf(holdings, Len(cfg.weights))
  BY BookFacts
<1>3. ASSUME NEW p \in DOMAIN positions PROVE -ExitCost(p) \in Nat
  <2>1. PositionOf(cfg.legs, positions[p])
    BY <1>2 DEF BookOf
  <2>. QED  BY <1>1, <2>1, LongExitPays DEF ExitCost, Legs
<1>4. OptionsCap \in Nat
  <2>. DEFINE f == [p \in DOMAIN positions |->
                      -PositionExitCost(today, cfg.legs, positions[p]) * positions[p].qty]
  <2>1. ASSUME NEW p \in DOMAIN positions PROVE f[p] \in Nat
    <3>. DEFINE exit == PositionExitCost(today, cfg.legs, positions[p])
                qty  == positions[p].qty
    <3>1. exit \in Int /\ -exit \in Nat /\ qty \in Nat
      BY <1>3, CapitalInt, BookFacts DEF ExitCost
    <3>2. f[p] = -exit * qty
      OBVIOUS
    <3>. HIDE DEF exit, qty, f
    <3>3. (-exit) * qty \in Nat
      BY <3>1, ProductNat
    <3>. QED  BY <3>1, <3>2, <3>3
  <2>2. DOMAIN f = DOMAIN positions /\ OptionsCap = Total(f, attempts) /\ attempts \in Nat
    BY Zenon DEF OptionsCap, OptionsCapital, CountersOK
  <2>. HIDE DEF f
  <2>3. IntTerms(f, attempts) /\ \A k \in 1..attempts : Term(f, k) >= 0
    BY <2>1, <2>2 DEF IntTerms, Term
  <2>. QED  BY <2>2, <2>3, TotalNotNegative
<1>5. StockCap \in Nat
  <2>. DEFINE price(s) == IF s \in DOMAIN today.prices THEN today.prices[s] ELSE 0
              f == [s \in DOMAIN holdings |-> price(s) * holdings[s].qty]
              n == Len(cfg.weights)
  <2>1. ASSUME NEW s \in DOMAIN holdings PROVE f[s] \in Nat
    <3>1. price(s) \in Nat
      BY <1>1 DEF IsDay, Partial
    <3>2. holdings[s].qty \in Nat
      <4>1. holdings[s].qty \in Int /\ holdings[s].qty >= 0
        BY <1>2 DEF HoldingsOf
      <4>. QED  BY <4>1
    <3>. HIDE DEF price
    <3>. QED  BY <3>1, <3>2, ProductNat
  <2>2. DOMAIN f = DOMAIN holdings /\ StockCap = Total(f, n) /\ n \in Nat
    BY <1>2, Zenon DEF StockCap, StockCapital, HoldingsOf
  <2>. HIDE DEF f, n
  <2>3. IntTerms(f, n) /\ \A k \in 1..n : Term(f, k) >= 0
    BY <2>1, <2>2 DEF IntTerms, Term
  <2>. QED  BY <2>2, <2>3, TotalNotNegative
<1>. QED  BY <1>3, <1>4, <1>5

\* Stocks are bought with no more than what they are allotted.
LEMMA SharesWithin ==
  ASSUME NEW alloc \in Nat, NEW weight \in Nat, NEW price \in Nat \ {0}
  PROVE  LET qty == (alloc * weight) \div (DEN * DEN * price)
         IN  qty \in Nat /\ DEN * DEN * (qty * price) <= alloc * weight
<1>. DEFINE square == DEN * DEN
            money  == alloc * weight
            unit   == square * price
            qty    == money \div unit
<1>1. DEN \in Nat \ {0}
  BY ValuationAssumption
<1>2. square \in Nat \ {0} /\ money \in Nat
  BY <1>1
<1>. HIDE DEF square, money
<1>3. unit \in Nat \ {0}
  BY <1>2
<1>. HIDE DEF unit
<1>4. qty \in Nat /\ unit * qty <= money
  BY <1>2, <1>3, AsManyAsPaid
<1>. HIDE DEF qty
<1>5. unit * qty = square * (qty * price)
  BY <1>2, <1>4 DEF unit
<1>. QED  BY <1>4, <1>5, Zenon DEF qty, unit, money, square

LEMMA OrderWithin ==
  ASSUME NEW quoted, IsDay(quoted), NEW alloc \in Nat, NEW weights \in Seq(Nat),
         NEW n, n = Len(weights), Total(weights, n) <= DEN
  PROVE  LET order == StockOrder(quoted, alloc, weights)
         IN  /\ \A s \in DOMAIN order : order[s].qty >= 0
             /\ DEN * StockCost(order, n) <= alloc
<1>. DEFINE order == StockOrder(quoted, alloc, weights)
            f == [s \in DOMAIN order |-> order[s].qty * order[s].price]
            g == [s \in DOMAIN order |-> DEN * DEN * f[s]]
            h == [s \in 1..n |-> alloc * weights[s]]
            square == DEN * DEN
<1>1. n \in Nat /\ DOMAIN weights = 1..n /\ \A s \in 1..n : weights[s] \in Nat
  OBVIOUS
<1>2. DEN \in Nat \ {0} /\ square \in Nat \ {0}
  BY ValuationAssumption
<1>3. DOMAIN order \subseteq 1..n
  BY StockOrderType
<1>4. ASSUME NEW s \in DOMAIN order
      PROVE  order[s].qty \in Nat /\ f[s] \in Int /\ g[s] \in Int /\ g[s] <= h[s]
  <2>1. s \in 1..n /\ s \in DOMAIN quoted.prices /\ quoted.prices[s] > 0
    BY DEF StockOrder
  <2>. DEFINE price == quoted.prices[s]
              w     == weights[s]
              full  == (alloc * w) \div (DEN * DEN * price)
  <2>2. price \in Nat \ {0} /\ w \in Nat
    BY <1>1, <2>1 DEF IsDay, Partial
  <2>3. order[s].price = price /\ order[s].qty = IF s \in quoted.gated THEN 0 ELSE full
    BY <2>1 DEF StockOrder
  <2>4. full \in Nat /\ DEN * DEN * (full * price) <= alloc * w
    <3>. HIDE DEF price, w
    <3>. QED  BY <2>2, SharesWithin
  <2>5. f[s] = order[s].qty * order[s].price /\ g[s] = DEN * DEN * f[s] /\ h[s] = alloc * w
    BY <2>1
  <2>. DEFINE qty == order[s].qty
  <2>6. qty \in Nat /\ f[s] = qty * price
    <3>. HIDE DEF full
    <3>. QED  BY <2>3, <2>4, <2>5
  <2>7. DEN * DEN * (qty * price) <= alloc * w
    <3>1. CASE s \in quoted.gated
      <4>1. qty = 0 /\ alloc * w \in Nat
        BY <2>2, <2>3, <3>1
      <4>2. qty * price = 0
        <5>. HIDE DEF qty, price
        <5>. QED  BY <2>2, <4>1
      <4>3. DEN * DEN * 0 = 0
        BY <1>2
      <4>. HIDE DEF qty, price, w
      <4>. QED  BY <4>1, <4>2, <4>3
    <3>2. CASE s \notin quoted.gated
      BY <2>3, <2>4, <3>2, Zenon
    <3>. QED  BY <3>1, <3>2
  <2>8. qty * price \in Int
    <3>. HIDE DEF qty, price
    <3>. QED  BY <2>2, <2>6
  <2>9. DEN * DEN * f[s] \in Int
    <3>. HIDE DEF f
    <3>1. f[s] \in Int
      BY <2>6, <2>8
    <3>. QED  BY <1>2, <3>1
  <2>10. f[s] \in Int /\ g[s] \in Int
    BY <2>5, <2>6, <2>8, <2>9
  <2>11. g[s] <= h[s]
    <3>1. g[s] = DEN * DEN * (qty * price)
      BY <2>5, <2>6, Zenon
    <3>. QED  BY <2>5, <2>7, <3>1, Zenon
  <2>. QED  BY <2>6, <2>10, <2>11
<1>5. ASSUME NEW s \in 1..n PROVE h[s] \in Nat /\ h[s] = alloc * weights[s]
  BY <1>1, ProductNat
<1>6. \A s \in DOMAIN order : g[s] = square * f[s]
  BY Zenon
<1>7. DOMAIN f = DOMAIN order /\ DOMAIN g = DOMAIN order /\ DOMAIN h = 1..n
      /\ StockCost(order, n) = Total(f, n)
  BY Zenon DEF StockCost
<1>. HIDE DEF f, g, h, order, square
<1>8. IntTerms(f, n) /\ IntTerms(g, n) /\ IntTerms(h, n) /\ IntTerms(weights, n)
  BY <1>1, <1>4, <1>5, <1>7 DEF IntTerms
<1>9. Total(g, n) <= Total(h, n)
  <2>1. ASSUME NEW k \in 1..n PROVE Term(g, k) <= Term(h, k)
    <3>1. Term(h, k) = h[k] /\ h[k] \in Nat
      BY <1>5, <1>7 DEF Term
    <3>2. CASE k \in DOMAIN order
      BY <1>4, <1>7, <3>1, <3>2 DEF Term
    <3>3. CASE k \notin DOMAIN order
      BY <1>7, <3>1, <3>3 DEF Term
    <3>. QED  BY <3>2, <3>3
  <2>. QED  BY <1>1, <1>8, <2>1, TotalMonotone
<1>10. Total(g, n) = square * Total(f, n)
  <2>1. \A k \in 1..n : Term(g, k) = square * Term(f, k)
    BY <1>2, <1>6, <1>7 DEF Term
  <2>. QED  BY <1>1, <1>2, <1>8, <2>1, TotalScaled
<1>11. Total(h, n) = alloc * Total(weights, n)
  <2>1. \A k \in 1..n : Term(h, k) = alloc * Term(weights, k)
    BY <1>1, <1>5, <1>7 DEF Term
  <2>. QED  BY <1>1, <1>8, <2>1, TotalScaled
<1>12. Total(f, n) \in Int /\ Total(weights, n) \in Int
  BY <1>1, <1>8, TermInt
<1>. DEFINE cost == Total(f, n)
            sum  == Total(weights, n)
<1>13. cost \in Int /\ sum \in Int /\ sum <= DEN /\ square * cost <= alloc * sum
  BY <1>9, <1>10, <1>11, <1>12
<1>. HIDE DEF cost, sum
<1>14. alloc * sum <= alloc * DEN
  BY <1>2, <1>13, Widen
<1>15. DEN * (DEN * cost) <= DEN * alloc
  <2>1. square * cost = DEN * (DEN * cost) /\ alloc * DEN = DEN * alloc
    BY <1>2, <1>13 DEF square
  <2>2. square * cost \in Int /\ alloc * sum \in Int /\ alloc * DEN \in Int
    BY <1>2, <1>13
  <2>. QED  BY <1>13, <1>14, <2>1, <2>2
<1>16. DEN * cost <= alloc
  <2>1. DEN * cost \in Int
    BY <1>2, <1>13
  <2>. QED  BY <1>2, <1>15, <2>1, Cancel
<1>17. \A s \in DOMAIN order : order[s].qty >= 0
  BY <1>4
<1>. QED  BY <1>7, <1>16, <1>17 DEF order, cost

\* What buying stocks leaves: no debt, and the rest of the capital beyond the
\* share of the stocks.
LEMMA BuyStocksSolvent ==
  ASSUME TypeInv, CashAccount, day \in Dates, UNCHANGED inputs,
         NEW liquid \in Nat, NEW locked \in Nat,
         BuyStocks(liquid, StocksAllocation(liquid, locked))
  PROVE  /\ cash' \in Nat
         /\ \A s \in DOMAIN holdings' : holdings'[s].qty >= 0
         /\ DEN * cash' >= DEN * liquid - cfg.stockShare * (liquid + locked)
<1>. DEFINE alloc == StocksAllocation(liquid, locked)
            order == StockOrder(today, alloc, cfg.weights)
            n     == Len(cfg.weights)
            cost  == StockCost(order, n)
            fee   == StockCommission(cfg.stockRate, order, n)
            share == cfg.stockShare
            a     == share * (liquid + locked)
            b     == DEN * liquid
<1>1. /\ IsDay(today) /\ cfg.weights \in Seq(Nat) /\ n \in Nat /\ share \in Nat
      /\ cfg.stockRate = 0 /\ Total(cfg.weights, n) <= DEN /\ DEN \in Nat \ {0} /\ ~External
  BY MarketFacts, ConfigFacts, ValuationAssumption
  DEF TypeInv, TypeOK, today, CashAccount, WeightSum
<1>2. a \in Nat /\ b \in Nat
  <2>. HIDE DEF share
  <2>. QED  BY <1>1, ProductNat
<1>3. alloc \in Nat /\ alloc <= a /\ alloc <= b
  <2>1. alloc = Min({a, b})
    BY <1>1, Zenon DEF StocksAllocation
  <2>. HIDE DEF a, b, alloc
  <2>2. a \in Int /\ b \in Int
    BY <1>2
  <2>3. Min({a, b}) \in {a, b} /\ Min({a, b}) <= a /\ Min({a, b}) <= b
    BY <2>2, PairExtremes
  <2>. QED  BY <1>2, <2>1, <2>3
<1>4. /\ holdings' = order
      /\ cash' = liquid - cost - fee
  BY Zenon DEF BuyStocks
<1>. HIDE DEF alloc
<1>5. \A s \in DOMAIN order : order[s].qty >= 0
  BY <1>1, <1>3, OrderWithin
<1>6. DEN * cost <= alloc
  BY <1>1, <1>3, OrderWithin
<1>7. cost \in Int /\ order \in [DOMAIN order -> [qty : Int, price : Nat]]
  <2>1. order \in [DOMAIN order -> [qty : Int, price : Nat]]
    BY <1>1, <1>3, StockOrderType
  <2>. HIDE DEF order
  <2>. QED  BY <1>1, <2>1, StockCostInt
<1>8. fee = 0
  <2>. DEFINE f == [s \in DOMAIN order |-> Commission(cfg.stockRate, order[s].qty)]
  <2>1. DOMAIN f = DOMAIN order /\ fee = Total(f, n)
    BY Zenon DEF StockCommission
  <2>2. ASSUME NEW s \in DOMAIN order PROVE f[s] = 0
    <3>. DEFINE qty == order[s].qty
    <3>1. f[s] = cfg.stockRate * Magnitude(qty)
      BY Zenon DEF Commission
    <3>2. qty \in Int
      <4>. HIDE DEF order
      <4>. QED  BY <1>7
    <3>. HIDE DEF qty, f, order
    <3>3. Magnitude(qty) \in Nat
      BY <3>2, MagnitudeNat
    <3>. QED  BY <1>1, <3>1, <3>3
  <2>. HIDE DEF f, order, fee
  <2>3. IntTerms(f, n) /\ \A k \in 1..n : Term(f, k) = 0
    BY <2>1, <2>2 DEF IntTerms, Term
  <2>. QED  BY <1>1, <2>1, <2>3, TotalNothing
<1>. HIDE DEF order, cost, fee, a, b
<1>9. cash' = liquid - cost /\ cash' \in Int
  BY <1>4, <1>7, <1>8
<1>10. DEN * cash' = b - DEN * cost /\ DEN * cost \in Int
  BY <1>1, <1>7, <1>9 DEF b
<1>11. DEN * cash' >= b - a
  BY <1>2, <1>3, <1>6, <1>10
<1>12. cash' >= 0
  <2>1. DEN * cost <= DEN * liquid
    BY <1>2, <1>3, <1>6, <1>10 DEF b
  <2>2. cost <= liquid
    BY <1>1, <1>7, <2>1, Cancel
  <2>. QED  BY <1>7, <1>9, <2>2
<1>13. cash' \in Nat
  BY <1>9, <1>12
<1>14. \A s \in DOMAIN holdings' : holdings'[s].qty >= 0
  BY <1>4, <1>5, Zenon
<1>. QED  BY <1>11, <1>13, <1>14 DEF a, b

\* In a cash account the stocks leave the entry the cash of its budget.
LEMMA StocksLeaveBudget ==
  ASSUME TypeInv, CashAccount, NEW liquid \in Nat, NEW locked \in Nat,
         total = liquid + locked, NEW left \in Int,
         DEN * left >= DEN * liquid - cfg.stockShare * (liquid + locked)
  PROVE  ScaledBudget(locked) <= DEN * left
<1>. DEFINE share == cfg.stockShare
            num   == cfg.budget.num
            all   == liquid + locked
<1>1. share \in Nat /\ num \in Nat /\ DEN \in Nat \ {0} /\ share + num <= DEN
      /\ cfg.freshSpend = FALSE
  BY ConfigFacts, ValuationAssumption DEF TypeInv, TypeOK, CashAccount, InputsOK, BacktestAssumption
<1>2. BudgetShare.num = num /\ BudgetShare.den = DEN
  <2>1. cfg.budget.kind # "annual"
    BY DEF CashAccount, External
  <2>. QED  BY <2>1 DEF BudgetShare
<1>3. ScaledBudget(locked) = all * num - locked * DEN
  BY <1>1, <1>2 DEF ScaledBudget
<1>. HIDE DEF num, share
<1>4. all * (share + num) <= all * DEN
  BY <1>1, Widen
<1>5. /\ all * (share + num) = share * all + all * num
      /\ all * DEN = DEN * liquid + locked * DEN
      /\ share * all \in Int /\ all * num \in Int /\ DEN * liquid \in Int /\ locked * DEN \in Int
      /\ DEN * left \in Int
  BY <1>1
<1>6. DEN * left >= DEN * liquid - share * all
  BY DEF share
<1>. HIDE DEF all
<1>. QED  BY <1>3, <1>4, <1>5, <1>6

\* Without shorts and with quotes that are not crossed, or filled at the quote,
\* what an entry pays is no more than the cost it was sized by.
LEMMA EntryWithin ==
  ASSUME InputsOK, day \in Dates, CashAccount, NEW budget, NEW pick \in Picks(budget)
  PROVE  0 <= EntryCost(pick) /\ EntryCost(pick) <= OriginalCost(pick)
<1>. DEFINE n == Len(cfg.legs)
            f == [l \in Legs |-> LegCost(today, cfg.legs[l], pick[l])]
            g == [l \in Legs |-> FillCost(today, cfg.legs[l], pick[l], cfg.fill)]
<1>1. n \in Nat /\ IsDay(today) /\ \A l \in Legs : pick[l] \in DOMAIN today.opts
  BY ConfigFacts, PickFacts
<1>2. ASSUME NEW l \in Legs
      PROVE  f[l] \in Int /\ g[l] \in Int /\ 0 <= g[l] /\ g[l] <= f[l]
  <2>. DEFINE bid  == today.opts[pick[l]].bid
              ask  == today.opts[pick[l]].ask
              half == SPC \div 2
  <2>1. bid \in Nat /\ ask \in Nat /\ half \in Nat /\ SPC = 2 * half
    <3>1. SPC \in Nat /\ SPC % 2 = 0
      BY ValuationAssumption
    <3>2. half \in Nat /\ SPC = 2 * half
      BY <3>1
    <3>. QED  BY <1>1, <3>2, QuoteFields
  <2>2. cfg.legs[l].dir = "buy" /\ EntrySign("buy") = 1
    BY DEF CashAccount, EntrySign
  <2>3. LegCost(today, cfg.legs[l], pick[l]) = EntrySign("buy") * ask * SPC
    BY <2>2, Zenon DEF LegCost
  <2>4. f[l] = ask * SPC
    <3>1. f[l] = LegCost(today, cfg.legs[l], pick[l])
      OBVIOUS
    <3>. HIDE DEF f, ask
    <3>. QED  BY <2>1, <2>2, <2>3, <3>1
  <2>5. f[l] \in Nat /\ f[l] = 2 * (ask * half)
    <3>. HIDE DEF f, ask, half
    <3>. QED  BY <2>1, <2>4
  <2>6. CASE cfg.fill = "market"
    <3>1. g[l] = f[l]
      BY <2>6 DEF FillCost
    <3>. HIDE DEF f, g
    <3>. QED  BY <2>5, <3>1
  <2>7. CASE cfg.fill # "market"
    <3>1. bid <= ask
      BY <1>1, <2>7 DEF CashAccount, Uncrossed, today
    <3>2. CASE cfg.fill = "mid"
      <4>1. g[l] = EntrySign("buy") * ((bid + ask) * half)
        BY <2>2, <3>2 DEF FillCost
      <4>. HIDE DEF f, g, bid, ask, half
      <4>2. (bid + ask) * half \in Nat /\ g[l] = bid * half + ask * half
        BY <2>1, <2>2, <4>1
      <4>3. half * bid <= half * ask
        BY <2>1, <3>1, Widen
      <4>4. bid * half \in Nat /\ ask * half \in Nat /\ half * bid = bid * half
            /\ half * ask = ask * half
        BY <2>1
      <4>. QED  BY <2>5, <4>2, <4>3, <4>4
    <3>3. CASE cfg.fill # "mid"
      <4>1. g[l] = f[l]
        BY <3>3 DEF FillCost
      <4>. HIDE DEF f, g
      <4>. QED  BY <2>5, <4>1
    <3>. QED  BY <3>2, <3>3
  <2>. QED  BY <2>6, <2>7
<1>3. /\ DOMAIN f = Legs /\ DOMAIN g = Legs /\ Legs = 1..n
      /\ OriginalCost(pick) = Total(f, n) /\ EntryCost(pick) = Total(g, n)
  BY Zenon DEF OriginalCost, EntryCost, Legs
<1>. HIDE DEF f, g, n
<1>4. IntTerms(f, n) /\ IntTerms(g, n)
      /\ \A k \in 1..n : Term(g, k) >= 0 /\ Term(g, k) <= Term(f, k)
  BY <1>2, <1>3 DEF IntTerms, Term
<1>5. Total(g, n) \in Nat /\ Total(g, n) <= Total(f, n)
  BY <1>1, <1>4, TotalNotNegative, TotalMonotone
<1>. QED  BY <1>3, <1>5

LEMMA EntrySolvent ==
  ASSUME TypeInv, CashAccount, OpenPosition, UNCHANGED inputs, cash >= 0,
         ScaledBudget(CapAtEntry) <= DEN * cash
  PROVE  cash' >= 0
<1>. DEFINE budget == Budget(CapAtEntry)
<1>1. /\ day \in Dates /\ InputsOK /\ budget \in Int /\ cash \in Int
      /\ cfg.optionRate = 0 /\ ~External
  BY OpenPositionIs DEF TypeInv, TypeOK, BookOK, CashAccount
<1>2. PICK pick \in Picks(budget) :
        /\ Tradable(pick, budget) /\ Quantity(pick, budget) \in Nat \ {0}
        /\ Enter(attempts + 1, NewPosition(pick, Quantity(pick, budget)), budget)
  BY OpenPositionIs
<1>. DEFINE qty  == Quantity(pick, budget)
            cost == EntryCost(pick)
            full == OriginalCost(pick)
            fee  == Commission(cfg.optionRate, qty)
<1>3. cost \in Int /\ full \in Int /\ 0 <= cost /\ cost <= full /\ full # 0
  BY <1>1, <1>2, PickCosts, EntryWithin DEF Tradable
<1>4. budget \in Nat /\ budget <= cash
  <2>. DEFINE scaled == ScaledBudget(CapAtEntry)
  <2>1. BudgetShare.den = DEN /\ DEN \in Nat \ {0}
    <3>1. cfg.budget.kind # "annual"
      BY <1>1 DEF External
    <3>. QED  BY <3>1, ValuationAssumption DEF BudgetShare
  <2>2. scaled \in Nat
    <3>1. CapAtEntry \in Int
      BY <1>1, CapitalInt DEF TypeInv, TypeOK, CapAtEntry
    <3>2. scaled \in Int
      BY <1>1, <3>1, BudgetInt DEF TypeInv, TypeOK
    <3>. HIDE DEF scaled
    <3>3. scaled > 0
      BY DEF OpenPosition, scaled
    <3>. QED  BY <3>2, <3>3
  <2>3. budget = scaled \div DEN
    BY <2>1, Zenon DEF Budget
  <2>4. scaled <= DEN * cash
    OBVIOUS
  <2>. HIDE DEF scaled, budget
  <2>5. budget \in Nat /\ DEN * budget <= scaled
    BY <2>1, <2>2, <2>3, AsManyAsPaid
  <2>6. DEN * budget \in Int /\ DEN * cash \in Int
    BY <1>1, <2>1, <2>5
  <2>7. DEN * budget <= DEN * cash
    BY <2>2, <2>4, <2>5, <2>6
  <2>. QED  BY <1>1, <2>1, <2>5, <2>7, Cancel
<1>5. full * qty <= budget
  <2>. DEFINE fits == budget \div Magnitude(full)
  <2>1. full \in Nat \ {0} /\ Magnitude(full) = full
    <3>. HIDE DEF full
    <3>. QED  BY <1>3 DEF Magnitude
  <2>2. fits \in Nat /\ full * fits <= budget
    <3>. HIDE DEF full, budget
    <3>. QED  BY <1>4, <2>1, AsManyAsPaid
  <2>3. qty \in Nat /\ qty <= fits
    <3>1. ShortNotional(pick) = 0
      <4>. DEFINE S == {j \in Legs : cfg.legs[j].dir = "sell"}
                  k == [l \in S |-> Terms[pick[l]].strike * SPC]
      <4>1. S = {}
        BY DEF CashAccount
      <4>2. ShortNotional(pick) = Total(k, Len(cfg.legs)) /\ DOMAIN k = S
        BY Zenon DEF ShortNotional
      <4>3. Len(cfg.legs) \in Nat
        BY <1>1, ConfigFacts
      <4>. HIDE DEF k, S
      <4>. QED  BY <4>1, <4>2, <4>3, EmptyTotal
    <3>2. qty = fits
      BY <3>1 DEF Quantity
    <3>. HIDE DEF qty, fits
    <3>. QED  BY <2>2, <3>2
  <2>. HIDE DEF full, budget, qty, fits
  <2>4. full * qty <= full * fits
    BY <2>1, <2>2, <2>3, Widen
  <2>5. full * qty \in Int /\ full * fits \in Int
    BY <2>1, <2>2, <2>3
  <2>. QED  BY <1>4, <2>2, <2>4, <2>5
<1>6. cash' = cash - (cost * qty + fee)
  <2>1. cash' = cash + EntryCashFlow(NewPosition(pick, qty), budget)
    BY <1>2 DEF Enter
  <2>2. EntryCashFlow(NewPosition(pick, qty), budget) = 0 - (cost * qty + fee) - 0
    BY <1>1 DEF EntryCashFlow, NewPosition
  <2>3. fee \in Int
    BY <1>1, <1>2, ConfigFacts, CommissionInt
  <2>4. cost * qty \in Int
    <3>. HIDE DEF cost, qty
    <3>. QED  BY <1>2, <1>3, ProductInt DEF qty
  <2>. DEFINE flow == EntryCashFlow(NewPosition(pick, qty), budget)
              paid == cost * qty
  <2>5. flow = 0 - (paid + fee) - 0 /\ cash' = cash + flow /\ paid \in Int
    BY <2>1, <2>2, <2>4
  <2>. HIDE DEF flow, paid, fee
  <2>6. cash' = cash - (paid + fee)
    BY <1>1, <2>3, <2>5
  <2>. QED  BY <2>6 DEF paid
<1>7. fee = 0
  <2>1. Magnitude(qty) \in Nat
    BY <1>2, MagnitudeNat
  <2>. HIDE DEF qty
  <2>. QED  BY <1>1, <2>1 DEF Commission
<1>. HIDE DEF qty, cost, full, fee, budget
<1>8. qty \in Nat
  BY <1>2 DEF qty, budget
<1>9. cost * qty <= full * qty
  <2>1. qty * cost <= qty * full
    BY <1>3, <1>8, Widen
  <2>2. qty * cost = cost * qty /\ qty * full = full * qty
    BY <1>3, <1>8
  <2>. QED  BY <2>1, <2>2
<1>10. cost * qty \in Int /\ full * qty \in Int
  BY <1>3, <1>8
<1>. QED  BY <1>1, <1>4, <1>5, <1>6, <1>7, <1>9, <1>10

LEMMA ExitsSolvent ==
  ASSUME TypeInv, CashAccount, ExecuteExits, UNCHANGED inputs, cash >= 0,
         \A s \in DOMAIN holdings : holdings[s].qty >= 0
  PROVE  cash' >= 0
<1>. DEFINE closing == {p \in DOMAIN positions : ShouldExit(p)}
            flows   == [p \in closing |-> ExitCashFlow(p)]
<1>1. /\ InputsOK /\ BookOK /\ CountersOK /\ cash \in Int /\ attempts \in Nat
      /\ day \in Dates /\ cfg.optionRate = 0 /\ ~External
  BY DayIsDate DEF TypeInv, TypeOK, Located, ExecuteExits, BookOK, CountersOK, CashAccount
<1>2. ASSUME NEW p \in closing PROVE flows[p] \in Nat
  <2>. DEFINE exit == ExitCost(p)
              qty  == positions[p].qty
              fee  == Commission(cfg.optionRate, qty)
  <2>1. p \in DOMAIN positions
    OBVIOUS
  <2>2. exit \in Int /\ -exit \in Nat /\ qty \in Nat
    BY <1>1, <2>1, LongWorth, CapitalInt, BookFacts DEF CashAccount
  <2>3. flows[p] = -(exit * qty) - BasisReturn(p) - fee /\ BasisReturn(p) = 0
    BY <1>1 DEF ExitCashFlow, BasisReturn
  <2>4. fee = 0
    <3>1. Magnitude(qty) \in Nat
      BY <2>2, MagnitudeNat
    <3>. HIDE DEF qty
    <3>. QED  BY <1>1, <3>1 DEF Commission
  <2>. HIDE DEF exit, qty, fee, flows
  <2>5. (-exit) * qty \in Nat
    BY <2>2, ProductNat
  <2>6. (-exit) * qty = -(exit * qty)
    BY <2>2
  <2>. QED  BY <2>3, <2>4, <2>5, <2>6
<1>3. cash' = cash + Total(flows, attempts) /\ DOMAIN flows = closing
  BY DEF ExecuteExits
<1>. HIDE DEF flows, closing
<1>4. IntTerms(flows, attempts) /\ \A k \in 1..attempts : Term(flows, k) >= 0
  BY <1>2, <1>3 DEF IntTerms, Term
<1>5. Total(flows, attempts) \in Nat
  BY <1>1, <1>4, TotalNotNegative
<1>. QED  BY <1>1, <1>3, <1>5

LEMMA NextSolvent == TypeInv /\ SolventInv /\ [Next]_vars => SolventInv'
<1>. SUFFICES ASSUME TypeInv, SolventInv, [Next]_vars, CashAccount'
              PROVE  /\ cash' >= 0
                     /\ \A s \in DOMAIN holdings' : holdings'[s].qty >= 0
                     /\ pc' # "roll"
                     /\ pc' = "stocks" => (total = cash + StockCap + OptionsCap)'
                     /\ pc' = "calendar" => (ScaledBudget(OptionsCap) <= DEN * cash)'
  BY DEF SolventInv
<1>1. UNCHANGED inputs
  BY DEF Next, Terminated, vars
<1>2. CashAccount
  BY <1>1 DEF inputs, CashAccount, External, Legs, WeightSum, Uncrossed
<1>3. /\ cash >= 0 /\ \A s \in DOMAIN holdings : holdings[s].qty >= 0
      /\ pc # "roll"
      /\ pc = "stocks" => total = cash + StockCap + OptionsCap
      /\ pc = "calendar" => ScaledBudget(OptionsCap) <= DEN * cash
  BY <1>2 DEF SolventInv
<1>4. ~Rolls /\ CalendarEntries
  BY <1>2 DEF Rolls, CalendarEntries, CashAccount
<1>. DEFINE Same == UNCHANGED <<cash, holdings>> /\ pc' \notin {"roll", "stocks", "calendar"}
<1>5. CASE Same
  BY <1>3, <1>5
<1>6. CASE Step
  <2>1. CASE Recording \/ Walking \/ MarkForRoll \/ NoRoll \/ CheckBroke
    <3>1. Same
      BY <1>4, <2>1 DEF Recording, BackfillRow, BackfillDone, RecordDay, Walking, NextDate,
         EndOfDates, BeginRebalance, BeginOrdinaryDay, Finish, MarkForRoll, NoRoll,
         CheckBroke, book
    <3>. QED  BY <1>5, <3>1
  <2>2. CASE MarkPortfolio
    <3>1. /\ UNCHANGED <<inputs, day, cash, positions, holdings, attempts>>
          /\ pc' = "stocks" /\ total' = cash + StockCap + OptionsCap
      BY <1>1, <1>4, <2>2 DEF MarkPortfolio, book, counters
    <3>2. StockCap' = StockCap /\ OptionsCap' = OptionsCap
      BY <3>1 DEF StockCap, OptionsCap, today, inputs
    <3>. QED  BY <1>3, <3>1, <3>2
  <2>3. CASE ExecuteExits
    <3>1. cash' >= 0
      BY <1>1, <1>2, <1>3, <2>3, ExitsSolvent
    <3>2. UNCHANGED holdings /\ pc' = "mark"
      BY <2>3 DEF ExecuteExits
    <3>. QED  BY <1>3, <3>1, <3>2
  <2>4. CASE NothingToSpend \/ MissEntry \/ NothingFreed
    <3>1. Same
      <4>1. pc = "calendar" => AfterEntry = "broke"
        BY DEF AfterEntry
      <4>2. CASE NothingFreed
        BY <4>2 DEF NothingFreed, book
      <4>3. CASE NothingToSpend \/ MissEntry
        BY <1>3, <4>1, <4>3 DEF NothingToSpend, MissEntry, EntryPhase, book
      <4>. QED  BY <2>4, <4>2, <4>3
    <3>. QED  BY <1>5, <3>1
  <2>5. CASE OpenPosition
    <3>1. pc = "calendar"
      BY <1>3, <2>5 DEF OpenPosition, EntryPhase
    <3>2. ScaledBudget(CapAtEntry) <= DEN * cash
      <4>1. CapAtEntry = OptionsCap
        BY <3>1 DEF CapAtEntry
      <4>. QED  BY <1>3, <3>1, <4>1
    <3>3. cash' >= 0
      BY <1>1, <1>2, <1>3, <2>5, <3>2, EntrySolvent
    <3>4. UNCHANGED holdings /\ pc' = "broke"
      BY <2>5, <3>1 DEF OpenPosition, AfterEntry
    <3>. QED  BY <1>3, <3>3, <3>4
  <2>6. CASE RebalanceStocks \/ ReinvestProceeds
    <3>. DEFINE liquid == cash + StockCap
                locked == OptionsCap
    <3>1. day \in Dates /\ InputsOK /\ BookOK /\ CountersOK
      BY <2>6, DayIsDate DEF TypeInv, TypeOK, Located, RebalanceStocks, ReinvestProceeds
    <3>2. locked \in Nat /\ liquid \in Nat
      <4>1. OptionsCap \in Nat /\ StockCap \in Nat /\ cash \in Int /\ cash >= 0
        BY <1>2, <1>3, <3>1, LongWorth DEF CashAccount, BookOK
      <4>. QED  BY <4>1
    <3>3. BuyStocks(liquid, StocksAllocation(liquid, locked))
      BY <2>6 DEF RebalanceStocks, ReinvestProceeds
    <3>4. /\ cash' \in Nat
          /\ \A s \in DOMAIN holdings' : holdings'[s].qty >= 0
          /\ DEN * cash' >= DEN * liquid - cfg.stockShare * (liquid + locked)
      <4>. HIDE DEF liquid, locked
      <4>. QED  BY <1>1, <1>2, <3>1, <3>2, <3>3, BuyStocksSolvent
    <3>5. CASE ReinvestProceeds
      BY <3>4, <3>5 DEF ReinvestProceeds
    <3>6. CASE RebalanceStocks
      <4>1. /\ pc = "stocks" /\ pc' = "calendar"
            /\ UNCHANGED <<inputs, day, positions, attempts, total>>
        BY <1>1, <1>4, <3>6 DEF RebalanceStocks, counters, marks
      <4>2. OptionsCap' = locked
        BY <4>1 DEF OptionsCap, today, inputs
      <4>4. total = liquid + locked
        BY <1>3, <4>1
      <4>5. ScaledBudget(locked) <= DEN * cash'
        <5>. HIDE DEF liquid, locked
        <5>. QED  BY <1>2, <3>2, <3>4, <4>4, StocksLeaveBudget
      <4>6. (ScaledBudget(OptionsCap))' = ScaledBudget(locked)
        BY <4>1, <4>2 DEF ScaledBudget, BudgetShare, inputs
      <4>. QED  BY <3>4, <4>1, <4>5, <4>6
    <3>. QED  BY <2>6, <3>5, <3>6
  <2>. QED  BY <1>6, <2>1, <2>2, <2>3, <2>4, <2>5, <2>6 DEF Step, Marking, Entering, Investing
<1>7. CASE UNCHANGED vars
  <2>1. UNCHANGED <<pc, day, cash, positions, holdings, attempts, total, cfg, mkt>>
    BY <1>7 DEF vars, inputs, control, book, marks, counters
  <2>2. StockCap' = StockCap /\ OptionsCap' = OptionsCap
    BY <2>1 DEF StockCap, OptionsCap, today
  <2>3. (ScaledBudget(OptionsCap))' = ScaledBudget(OptionsCap)
    BY <2>1, <2>2 DEF ScaledBudget, BudgetShare
  <2>. QED  BY <1>3, <2>1, <2>2, <2>3
<1>. QED  BY <1>6, <1>7 DEF Next, Terminated

\* A self-funded account that trades on the calendar, holds no shorts and pays
\* no commissions never spends cash it does not have, whatever the market does
\* and however many top-ups the dates bring: buy_stocks caps the stocks by what
\* is not locked in options, and the top-up is sized by the rest.
THEOREM NoOverdraftHolds == Spec => []NoOverdraft
<1>1. Init => SolventInv
  <2>. SUFFICES ASSUME Init PROVE SolventInv
    OBVIOUS
  <2>1. DOMAIN holdings = {} /\ pc \in {"done", "advance"} /\ cash = cfg.capital
    BY DEF Init
  <2>2. cfg.capital \in Nat
    BY InitType, ConfigFacts DEF TypeInv, TypeOK
  <2>. QED  BY <2>1, <2>2 DEF SolventInv
<1>2. SolventInv => NoOverdraft
  BY DEF SolventInv, NoOverdraft
<1>. QED  BY <1>1, <1>2, NextSolvent, TypeInvariant, PTL DEF Spec

-----------------------------------------------------------------------------
(* The value of a row.                                                     *)

\* Calls and puts of one position add up to what leaving it would pay.
LEMMA SidesOfPosition ==
  ASSUME InputsOK, BookOK, CountersOK, day \in Dates, NEW p \in DOMAIN positions
  PROVE  /\ PositionCapital(today, cfg.legs, positions[p], "call") \in Int
         /\ PositionCapital(today, cfg.legs, positions[p], "put") \in Int
         /\ PositionCapital(today, cfg.legs, positions[p], "call")
              + PositionCapital(today, cfg.legs, positions[p], "put")
              = -ExitCost(p) * positions[p].qty
<1>. DEFINE n == Len(cfg.legs)
            c == positions[p].contract
            q == positions[p].qty
            value(j) == EntrySign(cfg.legs[j].dir)
                          * ExitPrice(today, cfg.legs[j].dir, c[j]) * q * SPC
            calls == [j \in {i \in 1..n : Terms[c[i]].type = "call"} |-> value(j)]
            puts  == [j \in {i \in 1..n : Terms[c[i]].type = "put"} |-> value(j)]
            cost == [j \in 1..n |-> -EntrySign(cfg.legs[j].dir)
                                      * ExitPrice(today, cfg.legs[j].dir, c[j]) * SPC]
            both == [j \in 1..n |-> value(j)]
<1>1. /\ n \in Nat /\ IsDay(today) /\ SPC \in Int /\ q \in Int
      /\ \A j \in 1..n : c[j] \in Contracts
  BY ConfigFacts, MarketFacts, BookFacts, ValuationAssumption DEF today, Legs
<1>2. ASSUME NEW j \in 1..n
      PROVE  /\ value(j) \in Int /\ cost[j] \in Int
             /\ value(j) = (-q) * cost[j]
  <2>. DEFINE sign  == EntrySign(cfg.legs[j].dir)
              price == ExitPrice(today, cfg.legs[j].dir, c[j])
  <2>1. sign \in Int /\ price \in Int
    BY <1>1, SignInt, ExitPriceNat
  <2>2. value(j) = sign * price * q * SPC /\ cost[j] = -(sign * price * SPC)
    OBVIOUS
  <2>3. SPC \in Int /\ q \in Int
    BY <1>1
  <2>. HIDE DEF sign, price, q, value, cost
  <2>. DEFINE worth == sign * price
  <2>4. worth \in Int
    BY <2>1
  <2>5. value(j) = worth * q * SPC /\ cost[j] = -(worth * SPC)
    BY <2>2
  <2>. HIDE DEF worth
  <2>. QED  BY <2>3, <2>4, <2>5
<1>3. ASSUME NEW j \in 1..n
      PROVE  Term(both, j) = Term(calls, j) + Term(puts, j)
  <2>1. Terms[c[j]].type \in {"call", "put"}
    BY <1>1, ValuationAssumption
  <2>2. value(j) \in Int /\ both[j] = value(j) /\ j \in DOMAIN both
    BY <1>2
  <2>3. /\ j \in DOMAIN calls <=> Terms[c[j]].type = "call"
        /\ j \in DOMAIN puts <=> Terms[c[j]].type = "put"
        /\ j \in DOMAIN calls => calls[j] = value(j)
        /\ j \in DOMAIN puts => puts[j] = value(j)
    OBVIOUS
  <2>. HIDE DEF both, calls, puts, value, c
  <2>. QED  BY <2>1, <2>2, <2>3 DEF Term
<1>4. IntTerms(both, n) /\ IntTerms(cost, n)
  BY <1>2 DEF IntTerms
<1>5. IntTerms(calls, n) /\ IntTerms(puts, n)
  BY <1>2 DEF IntTerms
<1>6. \A j \in 1..n : Term(both, j) = (-q) * Term(cost, j)
  BY <1>2 DEF Term
<1>7. /\ PositionCapital(today, cfg.legs, positions[p], "call") = Total(calls, n)
      /\ PositionCapital(today, cfg.legs, positions[p], "put") = Total(puts, n)
      /\ ExitCost(p) = Total(cost, n)
  BY Zenon DEF PositionCapital, ExitCost, PositionExitCost
<1>. HIDE DEF both, calls, puts, cost
<1>8. Total(both, n) = Total(calls, n) + Total(puts, n)
  BY <1>1, <1>3, <1>4, <1>5, TotalSum
<1>9. -q \in Int /\ n \in 0..n
  BY <1>1
<1>10. Total(both, n) = (-q) * Total(cost, n)
  <2>. DEFINE m == -q
  <2>. HIDE DEF m
  <2>. QED  BY <1>1, <1>4, <1>6, <1>9, TotalScaled DEF m
<1>11. /\ Total(cost, n) \in Int /\ Total(calls, n) \in Int
       /\ Total(puts, n) \in Int
  BY <1>1, <1>4, <1>5, <1>9, TermInt
<1>. QED
  <2>. HIDE DEF q
  <2>1. (-q) * Total(cost, n) = -(Total(cost, n) * q)
    BY <1>1, <1>11
  <2>2. -ExitCost(p) * q = -(Total(cost, n) * q)
    BY <1>7
  <2>3. Total(calls, n) + Total(puts, n) = -ExitCost(p) * q
    BY <1>8, <1>10, <2>1, <2>2
  <2>. QED  BY <1>7, <1>11, <2>3 DEF q

\* The two sides of a row add up to the options capital of its date.
LEMMA SidesAddUp ==
  ASSUME InputsOK, BookOK, CountersOK, day \in Dates
  PROVE  SideCapital(day, "call") + SideCapital(day, "put") = OptionsCap
<1>. DEFINE side(type) == [p \in DOMAIN positions |->
                             PositionCapital(today, cfg.legs, positions[p], type)]
            book1 == [p \in DOMAIN positions |-> -ExitCost(p) * positions[p].qty]
<1>1. attempts \in Nat /\ DOMAIN positions \subseteq 1..attempts
  BY DEF CountersOK, BookOK, Partial
<1>2. ASSUME NEW p \in DOMAIN positions
      PROVE  /\ side("call")[p] \in Int /\ side("put")[p] \in Int
             /\ book1[p] = side("call")[p] + side("put")[p]
  BY SidesOfPosition
<1>3. /\ SideCapital(day, "call") = Total(side("call"), attempts)
      /\ SideCapital(day, "put") = Total(side("put"), attempts)
      /\ OptionsCap = Total(book1, attempts)
  BY Zenon DEF SideCapital, OptionsCap, OptionsCapital, ExitCost, today
<1>4. DOMAIN book1 = DOMAIN positions /\ DOMAIN side("call") = DOMAIN positions
        /\ DOMAIN side("put") = DOMAIN positions
  OBVIOUS
<1>. HIDE DEF side, book1
<1>5. IntTerms(side("call"), attempts) /\ IntTerms(side("put"), attempts)
        /\ IntTerms(book1, attempts)
  BY <1>2, <1>4 DEF IntTerms
<1>6. \A k \in 1..attempts : Term(book1, k) = Term(side("call"), k) + Term(side("put"), k)
  BY <1>2, <1>4 DEF Term
<1>7. Total(book1, attempts) = Total(side("call"), attempts) + Total(side("put"), attempts)
  BY <1>1, <1>5, <1>6, TotalSum
<1>. QED  BY <1>3, <1>7

\* Before a date is recorded no row is dated today, and the row that is says
\* what the book was then.
RowsInv ==
  /\ pc \notin {"tail", "done"} /\ Len(balance) > 0 =>
       /\ balance[Len(balance)].date <= day
       /\ pc \notin {"advance", "finish"} => balance[Len(balance)].date < day
  /\ RowsMarkAtExitValue

\* The row appended last.
LEMMA LastRow ==
  ASSUME LogsOK, NEW r \in Row, balance' = Append(balance, r)
  PROVE  /\ Len(balance') = Len(balance) + 1 /\ balance'[Len(balance')] = r
         /\ DOMAIN balance' = DOMAIN balance \cup {Len(balance')}
         /\ Len(balance') \notin DOMAIN balance
         /\ \A i \in DOMAIN balance : balance'[i] = balance[i]
<1>1. balance \in Seq(Row)
  BY DEF LogsOK
<1>2. Len(balance) \in Nat /\ DOMAIN balance = 1..Len(balance)
  BY <1>1, LenProperties
<1>3. /\ balance' \in Seq(Row) /\ Len(balance') = Len(balance) + 1
      /\ \A i \in 1..Len(balance) : balance'[i] = balance[i]
      /\ balance'[Len(balance) + 1] = r
  BY <1>1, AppendProperties
<1>4. DOMAIN balance' = 1..Len(balance')
  BY <1>3, LenProperties
<1>. QED  BY <1>2, <1>3, <1>4

LEMMA NextRows == TypeInv /\ TypeInv' /\ RowsInv /\ [Next]_vars => RowsInv'
<1>. SUFFICES ASSUME TypeInv, TypeInv', RowsInv, [Next]_vars
              PROVE  RowsInv'
  OBVIOUS
<1>1. UNCHANGED inputs /\ InputsOK /\ BookOK /\ CountersOK /\ LogsOK
        /\ balance \in Seq(Row) /\ Len(balance) \in Nat
  BY DEF Next, Terminated, vars, TypeInv, TypeOK, LogsOK
<1>2. day \in Int /\ day' \in Int
  BY DEF TypeInv, TypeOK, ControlOK
<1>3. Len(balance) > 0 => balance[Len(balance)].date \in Int
  <2>. SUFFICES ASSUME Len(balance) > 0 PROVE balance[Len(balance)].date \in Int
    OBVIOUS
  <2>1. balance[Len(balance)] \in Row
    BY <1>1, ElementOfSeq
  <2>2. balance[Len(balance)].date \in Dates
    BY <2>1 DEF Row
  <2>. QED  BY <2>2, DateNumber
<1>4. CASE UNCHANGED <<day, balance>> /\ pc \notin {"tail", "done", "advance", "finish"}
             /\ pc' \notin {"tail", "done"}
  BY <1>2, <1>3, <1>4 DEF RowsInv, RowsMarkAtExitValue
<1>5. CASE pc' \in {"tail", "done"}
  BY <1>5 DEF RowsInv, RowsMarkAtExitValue
<1>6. CASE NextDate
  <2>. DEFINE later == {d \in WalkedDates : d > day}
  <2>1. later # {} /\ day' = Min(later) /\ pc' \in {"rebalance", "ordinary"}
          /\ UNCHANGED balance /\ pc = "advance"
    BY <1>6 DEF NextDate, logs
  <2>2. later \in SUBSET Nat
    BY <1>1, ConfigFacts, MarketFacts, DateFacts DEF WalkedDates
  <2>3. day' > day
    <3>. HIDE DEF later
    <3>1. day' \in later
      BY <2>1, <2>2, MinOf
    <3>. QED  BY <3>1 DEF later
  <2>. QED  BY <1>2, <1>3, <2>1, <2>3 DEF RowsInv, RowsMarkAtExitValue
<1>7. CASE EndOfDates
  <2>1. UNCHANGED <<cfg, mkt, day, balance, positions, attempts>> /\ pc = "advance"
          /\ pc' = "finish"
    BY <1>1, <1>7 DEF EndOfDates, book, counters, logs, inputs
  <2>2. OptionsCap' = OptionsCap
    BY <2>1, Zenon DEF OptionsCap, today
  <2>. QED  BY <2>1, <2>2 DEF RowsInv, RowsMarkAtExitValue
<1>8. CASE BackfillRow
  <2>1. CASE pc = "tail"
    BY <1>5, <1>8, <2>1 DEF BackfillRow
  <2>2. CASE pc = "backfill"
    <3>. DEFINE r == BalanceDay(Min(Pending))
    <3>1. balance' = Append(balance, r) /\ UNCHANGED <<pc, day>> /\ Pending # {}
      BY <1>8 DEF BackfillRow
    <3>2. r.date = Min(Pending)
      BY DEF BalanceDay
    <3>3. Pending \in SUBSET Nat
      BY <1>1, MarketFacts, DateFacts DEF Pending
    <3>4. r.date < day /\ r.date \in Int /\ r \in Row
      <4>1. Min(Pending) \in Pending
        BY <3>1, <3>3, MinOf
      <4>2. Min(Pending) \in Dates /\ Min(Pending) < day
        BY <1>1, <2>2, <4>1, MarketFacts DEF Pending, BackfillEnd
      <4>3. r \in Row
        <5>. HIDE DEF r
        <5>. QED  BY <1>1, <4>2, BalanceDayType DEF r
      <4>4. r.date \in Int
        BY <3>2, <4>2, DateNumber
      <4>. QED  BY <3>2, <4>2, <4>3, <4>4
    <3>. HIDE DEF r
    <3>5. balance'[Len(balance')] = r
      BY <1>1, <3>1, <3>4, LastRow
    <3>. QED  BY <1>2, <2>2, <3>1, <3>4, <3>5 DEF RowsInv, RowsMarkAtExitValue
  <2>. QED  BY <1>8, <2>1, <2>2 DEF BackfillRow
<1>9. CASE RecordDay
  <2>1. /\ UNCHANGED <<cfg, mkt, day, positions, attempts>> /\ pc = "record"
        /\ pc' \in {"advance", "finish"}
    BY <1>1, <1>9 DEF RecordDay, book, counters, inputs
  <2>2. CASE UNCHANGED balance
    BY <1>2, <1>3, <2>1, <2>2 DEF RowsInv, RowsMarkAtExitValue
  <2>3. CASE balance' = Append(balance, BalanceDay(day))
    <3>. DEFINE r == BalanceDay(day)
    <3>1. r.date = day /\ r.calls = SideCapital(day, "call") /\ r.puts = SideCapital(day, "put")
      BY DEF BalanceDay
    <3>2. day \in Dates
      BY <2>1, DayIsDate DEF TypeInv, TypeOK, Located
    <3>3. r.calls + r.puts = OptionsCap
      BY <1>1, <3>1, <3>2, SidesAddUp
    <3>. HIDE DEF r
    <3>4. balance'[Len(balance')] = r
      BY <1>1, <2>3, <3>2, BalanceDayType, LastRow DEF r
    <3>5. OptionsCap' = OptionsCap
      BY <2>1, Zenon DEF OptionsCap, today
    <3>. QED  BY <1>2, <2>1, <3>1, <3>3, <3>4, <3>5 DEF RowsInv, RowsMarkAtExitValue
  <2>. QED  BY <1>9, <2>2, <2>3 DEF RecordDay
<1>10. CASE UNCHANGED vars
  <2>1. UNCHANGED <<cfg, mkt, day, balance, positions, attempts, pc>>
    BY <1>10 DEF vars, inputs, control, book, counters, logs
  <2>2. OptionsCap' = OptionsCap
    BY <2>1, Zenon DEF OptionsCap, today
  <2>. QED  BY <2>1, <2>2 DEF RowsInv, RowsMarkAtExitValue
<1>11. CASE Step
  <2>1. CASE BackfillDone
    BY <1>4, <1>5, <2>1 DEF BackfillDone, logs
  <2>2. CASE Finish \/ BeginRebalance \/ BeginOrdinaryDay
    BY <1>4, <1>5, <2>2 DEF Finish, BeginRebalance, BeginOrdinaryDay, logs
  <2>3. CASE ExecuteExits \/ Marking \/ CheckBroke \/ Investing
    BY <1>4, <2>3 DEF ExecuteExits, Marking, MarkPortfolio, MarkForRoll, NoRoll,
       CheckBroke, Investing, RebalanceStocks, ReinvestProceeds, NothingFreed, logs
  <2>4. CASE Entering
    BY <1>4, <2>4 DEF Entering, NothingToSpend, OpenPosition, MissEntry, EntryPhase,
       AfterEntry, logs
  <2>. QED  BY <1>6, <1>7, <1>8, <1>9, <1>11, <2>1, <2>2, <2>3, <2>4
            DEF Step, Recording, Walking
<1>. QED  BY <1>10, <1>11 DEF Next, Terminated

\* The calls and puts of the row of a date add up to what leaving every
\* position would pay on it, for structures that mix calls and puts, long and
\* short, quoted and delisted.
THEOREM RowsMarkHolds == Spec => []RowsMarkAtExitValue
<1>1. Init => RowsInv
  BY DEF Init, RowsInv, RowsMarkAtExitValue
<1>2. RowsInv => RowsMarkAtExitValue
  BY DEF RowsInv
<1>. QED  BY <1>1, <1>2, NextRows, TypeInvariant, PTL DEF Spec

-----------------------------------------------------------------------------
(* The dates of the curve.                                                 *)

LastRb == Max(cfg.rbDates)

LEMMA CalendarFacts ==
  ASSUME InputsOK, cfg.rbDates # {}
  PROVE  /\ FirstRb \in cfg.rbDates /\ \A r \in cfg.rbDates : FirstRb <= r /\ r <= LastRb
         /\ LastRb \in cfg.rbDates
         /\ LastDate \in QuotedDates /\ \A d \in QuotedDates : d <= LastDate
         /\ \A d : d \in CurveDates
              <=> /\ d \in QuotedDates /\ FirstRb <= d
                  /\ d < LastDate \/ (~cfg.daily /\ d < LastRb)
         /\ \A d \in cfg.rbDates \cup QuotedDates : d \in Nat /\ d > 0 /\ d <= Horizon
<1>1. cfg.rbDates \in SUBSET Dates /\ QuotedDates \in SUBSET Dates /\ QuotedDates # {}
  BY ConfigFacts, MarketFacts
<1>2. Horizon \in Nat /\ Dates \subseteq 0..Horizon /\ Dates \subseteq Nat
  BY DateFacts
<1>3. FirstRb \in cfg.rbDates /\ \A r \in cfg.rbDates : FirstRb <= r
  <2>1. cfg.rbDates \in SUBSET Nat
    BY <1>1, <1>2
  <2>. QED  BY <2>1, MinOf DEF FirstRb
<1>4. LastRb \in cfg.rbDates /\ \A r \in cfg.rbDates : r <= LastRb
  <2>1. cfg.rbDates \in SUBSET (0..Horizon)
    BY <1>1, <1>2
  <2>2. LastRb \in cfg.rbDates /\ \A r \in cfg.rbDates : LastRb >= r
    BY <1>2, <2>1, MaxOf DEF LastRb
  <2>3. \A r \in cfg.rbDates : r \in Int
    BY <1>1, DateNumber
  <2>. QED  BY <2>2, <2>3
<1>5. LastDate \in QuotedDates /\ \A d \in QuotedDates : d <= LastDate
  <2>1. QuotedDates \in SUBSET (0..Horizon)
    BY <1>1, <1>2
  <2>2. LastDate \in QuotedDates /\ \A r \in QuotedDates : LastDate >= r
    BY <1>1, <1>2, <2>1, MaxOf DEF LastDate
  <2>3. \A r \in QuotedDates : r \in Int
    BY <1>1, DateNumber
  <2>. QED  BY <2>2, <2>3
<1>6. \A d \in cfg.rbDates \cup QuotedDates : d \in Nat /\ d > 0 /\ d <= Horizon
  BY <1>1, DateNumber
<1>7. LastRb \in Int /\ LastDate \in Int
  BY <1>4, <1>5, <1>6
<1>8. Max({LastDate, LastRb}) \in {LastDate, LastRb}
        /\ Max({LastDate, LastRb}) >= LastDate /\ Max({LastDate, LastRb}) >= LastRb
  BY <1>7, PairExtremes
<1>. DEFINE end == IF cfg.daily THEN LastDate ELSE Max({LastDate, LastRb})
<1>9. CurveDates = {d \in QuotedDates : FirstRb <= d /\ d < end}
  BY Zenon DEF CurveDates, LastRb
<1>10. \A d \in QuotedDates : d < end <=> d < LastDate \/ (~cfg.daily /\ d < LastRb)
  BY <1>6, <1>7, <1>8
<1>. HIDE DEF end
<1>. QED  BY <1>3, <1>4, <1>5, <1>6, <1>9, <1>10

\* The rebalance before the one of today, or today's when it is the first.
PrevRbBefore ==
  /\ PrevRb \in cfg.rbDates /\ PrevRb <= day
  /\ \A r \in cfg.rbDates : r < day => r <= PrevRb /\ PrevRb < day

LEMMA PrevRbFacts == InputsOK /\ Rebalancing => PrevRbBefore
<1>. SUFFICES ASSUME InputsOK, day \in cfg.rbDates
              PROVE  /\ PrevRb \in cfg.rbDates /\ PrevRb <= day
                     /\ \A r \in cfg.rbDates : r < day => r <= PrevRb /\ PrevRb < day
  BY DEF PrevRbBefore, Rebalancing
<1>. DEFINE earlier == {d \in cfg.rbDates : d < day}
<1>1. cfg.rbDates \in SUBSET Dates /\ \A r \in cfg.rbDates : r \in Int
  BY ConfigFacts, DateNumber
<1>2. CASE earlier = {}
  <2>1. PrevRb = day
    BY <1>2 DEF PrevRb
  <2>. QED  BY <1>1, <1>2, <2>1
<1>3. CASE earlier # {}
  <2>1. PrevRb = Max(earlier)
    BY <1>3 DEF PrevRb
  <2>2. Horizon \in Nat /\ earlier \in SUBSET (0..Horizon)
    BY <1>1, DateFacts
  <2>3. PrevRb \in earlier /\ \A r \in earlier : PrevRb >= r
    <3>. HIDE DEF earlier
    <3>. QED  BY <1>3, <2>1, <2>2, MaxOf
  <2>. QED  BY <1>1, <2>3
<1>. QED  BY <1>2, <1>3

\* The dates of the curve before d.
Before(d) == {e \in CurveDates : e < d}

PublishedDates == {balance[i].date : i \in DOMAIN balance}

LEMMA PublishedGrows ==
  ASSUME LogsOK, NEW r \in Row, balance' = Append(balance, r)
  PROVE  PublishedDates' = PublishedDates \cup {r.date}
<1>. DEFINE n == Len(balance')
<1>1. /\ balance'[n] = r /\ DOMAIN balance' = DOMAIN balance \cup {n}
      /\ n \notin DOMAIN balance /\ \A i \in DOMAIN balance : balance'[i] = balance[i]
  BY LastRow
<1>. HIDE DEF n
<1>. QED  BY <1>1 DEF PublishedDates

\* How far the curve is published when a phase begins: the daily loop is a row
\* ahead between two dates, the fast path a period behind until it backfills.
Reach ==
  IF pc \in {"advance", "finish", "done"}
  THEN IF cfg.daily THEN day + 1 ELSE IF pc = "done" THEN Horizon + 1 ELSE day
  ELSE IF pc \in {"backfill", "tail"} THEN fill
  ELSE IF pc = "rebalance" /\ ~cfg.daily THEN PrevRb ELSE day

\* A stopped run only leaves the loop.
StopInv == stopped => pc \in {"record", "finish", "tail", "done"}

\* The curve is published up to Reach, unless the fast path was stopped: it
\* then backfills from the last rebalance configured, not the last one run.
CurveInv ==
  cfg.rbDates # {} /\ (stopped => cfg.daily) =>
    /\ PublishedDates = Before(Reach)
    /\ pc \in {"advance", "finish"} => day = 0 \/ day \in WalkedDates
    /\ pc \notin {"advance", "finish", "tail", "done"} => day \in WalkedDates
    /\ pc \in {"backfill", "tail"} => ~cfg.daily
    /\ pc = "backfill" => FirstRb <= fill /\ fill <= day
    /\ pc = "tail" => LastRb <= fill
    /\ pc \in {"finish", "tail", "done"} /\ ~stopped => \A d \in WalkedDates : d <= day

LEMMA NextStop == TypeInv /\ StopInv /\ [Next]_vars => StopInv'
<1>. SUFFICES ASSUME StopInv, [Next]_vars, stopped'
              PROVE  pc' \in {"record", "finish", "tail", "done"}
  BY DEF StopInv
<1>1. CASE Recording \/ Walking
  BY <1>1 DEF StopInv, Recording, BackfillRow, BackfillDone, RecordDay, Walking, NextDate,
     EndOfDates, BeginRebalance, BeginOrdinaryDay, Finish
<1>2. CASE ExecuteExits \/ Marking \/ Entering \/ Investing \/ CheckBroke
  BY <1>2 DEF StopInv, ExecuteExits, Marking, MarkPortfolio, MarkForRoll, NoRoll, Entering,
     NothingToSpend, OpenPosition, MissEntry, EntryPhase, Investing, RebalanceStocks,
     ReinvestProceeds, NothingFreed, CheckBroke
<1>3. CASE UNCHANGED vars
  BY <1>3 DEF StopInv, vars, control
<1>. QED  BY <1>1, <1>2, <1>3 DEF Next, Terminated, Step

\* The daily loop publishes today, the next date of the curve.
LEMMA RecordsNext ==
  ASSUME TypeInv, CurveInv, cfg.rbDates # {}, stopped => cfg.daily, RecordDay,
         cfg.daily, FirstRb <= day, day < LastDate
  PROVE  /\ day \in CurveDates /\ PublishedDates = Before(day)
         /\ balance' = Append(balance, BalanceDay(day))
<1>1. balance' = Append(balance, BalanceDay(day)) /\ pc = "record"
  BY DEF RecordDay
<1>2. PublishedDates = Before(day) /\ day \in WalkedDates
  BY <1>1 DEF CurveInv, Reach
<1>3. day \in QuotedDates
  BY <1>2 DEF WalkedDates
<1>4. day \in CurveDates
  BY <1>3, CalendarFacts DEF TypeInv, TypeOK
<1>. QED  BY <1>1, <1>2, <1>4

\* The fast path publishes the next date of the period.
LEMMA BackfillsNext ==
  ASSUME TypeInv, CurveInv, cfg.rbDates # {}, stopped => cfg.daily, BackfillRow
  PROVE  /\ Min(Pending) \in CurveDates /\ PublishedDates = Before(Min(Pending))
         /\ balance' = Append(balance, BalanceDay(Min(Pending)))
         /\ fill' = Min(Pending) + 1 /\ fill <= Min(Pending)
         /\ pc = "backfill" => Min(Pending) < day
<1>. DEFINE d == Min(Pending)
<1>1. /\ balance' = Append(balance, BalanceDay(d)) /\ fill' = d + 1 /\ Pending # {}
      /\ pc \in {"backfill", "tail"}
  BY DEF BackfillRow
<1>2. InputsOK /\ day \in Int /\ fill \in Int
  BY DEF TypeInv, TypeOK, ControlOK
<1>3. /\ FirstRb \in cfg.rbDates /\ LastRb \in cfg.rbDates
      /\ \A r \in cfg.rbDates : FirstRb <= r /\ r <= LastRb
      /\ \A e : e \in CurveDates
           <=> /\ e \in QuotedDates /\ FirstRb <= e
               /\ e < LastDate \/ (~cfg.daily /\ e < LastRb)
      /\ \A e \in cfg.rbDates \cup QuotedDates : e \in Nat /\ e > 0 /\ e <= Horizon
  BY <1>2, CalendarFacts
<1>4. /\ PublishedDates = Before(fill) /\ ~cfg.daily
      /\ pc = "backfill" => FirstRb <= fill /\ day \in cfg.rbDates
      /\ pc = "tail" => LastRb <= fill
  BY <1>1 DEF CurveInv, Reach, WalkedDates
<1>5. d \in Pending /\ \A e \in Pending : d <= e
  <2>1. Pending \in SUBSET Nat
    BY <1>3 DEF Pending
  <2>. QED  BY <1>1, <2>1, MinOf
<1>. HIDE DEF d
<1>6. d \in QuotedDates /\ fill <= d /\ d < BackfillEnd
  BY <1>5 DEF Pending
<1>7. FirstRb <= fill
  BY <1>1, <1>2, <1>3, <1>4
<1>8. d \in CurveDates
  <2>1. FirstRb <= d
    BY <1>2, <1>3, <1>6, <1>7
  <2>2. CASE pc = "tail"
    BY <1>3, <1>6, <2>1, <2>2 DEF BackfillEnd
  <2>3. CASE pc = "backfill"
    <3>1. d < day /\ day <= LastRb
      BY <1>3, <1>4, <1>6, <2>3 DEF BackfillEnd
    <3>2. d < LastRb
      BY <1>2, <1>3, <1>6, <3>1
    <3>. QED  BY <1>3, <1>4, <1>6, <2>1, <3>2
  <2>. QED  BY <1>1, <2>2, <2>3
<1>9. \A e \in CurveDates : e < d => e < fill
  <2>. SUFFICES ASSUME NEW e \in CurveDates, e < d, ~(e < fill) PROVE FALSE
    OBVIOUS
  <2>1. e \in QuotedDates /\ e \in Int /\ d \in Int
    BY <1>3, <1>6
  <2>2. BackfillEnd \in Int
    <3>1. LastDate \in Int
      BY <1>2, <1>3, CalendarFacts
    <3>. QED  BY <1>2, <3>1 DEF BackfillEnd
  <2>3. e \in Pending
    BY <1>2, <1>6, <2>1, <2>2 DEF Pending
  <2>. QED  BY <1>5, <2>1, <2>3
<1>10. Before(fill) = Before(d)
  BY <1>2, <1>3, <1>6, <1>9 DEF Before
<1>11. pc = "backfill" => d < day
  BY <1>6 DEF BackfillEnd
<1>. QED  BY <1>1, <1>4, <1>6, <1>8, <1>10, <1>11 DEF d

\* A run that may still be stopped has not been.
LEMMA StoppedBefore ==
  ASSUME StopInv, [Next]_vars, stopped' => cfg.daily
  PROVE  stopped => cfg.daily
<1>1. CASE CheckBroke
  BY <1>1 DEF CheckBroke, StopInv
<1>2. CASE ~CheckBroke
  <2>1. UNCHANGED stopped
    BY <1>2 DEF Next, Terminated, vars, control, Step, Recording, BackfillRow,
       BackfillDone, RecordDay, Walking, NextDate, EndOfDates, BeginRebalance,
       BeginOrdinaryDay, Finish, ExecuteExits, Marking, MarkPortfolio, MarkForRoll,
       NoRoll, Entering, NothingToSpend, OpenPosition, MissEntry, Investing,
       RebalanceStocks, ReinvestProceeds, NothingFreed
  <2>. QED  BY <2>1
<1>. QED  BY <1>1, <1>2

LEMMA NextCurve ==
  ASSUME TypeInv, TypeInv', StopInv, CurveInv, [Next]_vars,
         cfg.rbDates # {}, stopped' => cfg.daily
  PROVE  /\ UNCHANGED <<inputs, QuotedDates, WalkedDates, CurveDates, FirstRb, LastRb>>
         /\ \A d : Before(d)' = Before(d)
         /\ CurveInv'
<1>1. UNCHANGED <<cfg, mkt>>
  BY DEF Next, Terminated, vars, inputs
<1>2. UNCHANGED <<inputs, QuotedDates, WalkedDates, CurveDates, FirstRb, LastRb>>
  <2>1. QuotedDates' = QuotedDates /\ FirstRb' = FirstRb /\ LastRb' = LastRb
    BY <1>1, Zenon DEF QuotedDates, FirstRb, LastRb
  <2>2. LastDate' = LastDate
    BY <2>1, Zenon DEF LastDate
  <2>3. WalkedDates' = WalkedDates /\ CurveDates' = CurveDates
    BY <1>1, <2>1, <2>2, Zenon DEF WalkedDates, CurveDates
  <2>. QED  BY <1>1, <2>1, <2>3 DEF inputs
<1>3. \A d : Before(d)' = Before(d)
  BY <1>2, Zenon DEF Before
<1>4. /\ day \in 0..Horizon /\ day' \in 0..Horizon /\ fill \in Int /\ fill' \in Int
      /\ InputsOK /\ InputsOK' /\ BookOK /\ CountersOK /\ LogsOK /\ Horizon \in Nat
  BY DateFacts DEF TypeInv, TypeOK, ControlOK
<1>5. stopped => cfg.daily
  BY StoppedBefore
<1>6. /\ PublishedDates = Before(Reach)
      /\ pc \in {"advance", "finish"} => day = 0 \/ day \in WalkedDates
      /\ pc \notin {"advance", "finish", "tail", "done"} => day \in WalkedDates
      /\ pc \in {"backfill", "tail"} => ~cfg.daily
      /\ pc = "backfill" => FirstRb <= fill /\ fill <= day
      /\ pc = "tail" => LastRb <= fill
      /\ pc \in {"finish", "tail", "done"} /\ ~stopped => \A d \in WalkedDates : d <= day
  BY <1>5, Zenon DEF CurveInv
<1>7. SUFFICES
      /\ PublishedDates' = Before(Reach')
      /\ pc' \in {"advance", "finish"} => day' = 0 \/ day' \in WalkedDates
      /\ pc' \notin {"advance", "finish", "tail", "done"} => day' \in WalkedDates
      /\ pc' \in {"backfill", "tail"} => ~cfg.daily
      /\ pc' = "backfill" => FirstRb <= fill' /\ fill' <= day'
      /\ pc' = "tail" => LastRb <= fill'
      /\ pc' \in {"finish", "tail", "done"} /\ ~stopped' => \A d \in WalkedDates : d <= day'
  <2>1. (PublishedDates = Before(Reach))' <=> PublishedDates' = Before(Reach')
    BY <1>2, Zenon DEF Before
  <2>. QED  BY <1>1, <1>2, <1>3, <2>1, Zenon DEF CurveInv
<1>8. /\ FirstRb \in cfg.rbDates /\ LastRb \in cfg.rbDates /\ LastDate \in QuotedDates
      /\ \A r \in cfg.rbDates : FirstRb <= r /\ r <= LastRb
      /\ \A d \in QuotedDates : d <= LastDate
      /\ \A d : d \in CurveDates
           <=> /\ d \in QuotedDates /\ FirstRb <= d
               /\ d < LastDate \/ (~cfg.daily /\ d < LastRb)
      /\ \A d \in cfg.rbDates \cup QuotedDates : d \in Nat /\ d > 0 /\ d <= Horizon
  BY <1>4, CalendarFacts
<1>9. /\ cfg.daily => WalkedDates = QuotedDates
      /\ ~cfg.daily => WalkedDates = cfg.rbDates
      /\ \A d \in WalkedDates : d \in Nat /\ d > 0
  BY <1>8 DEF WalkedDates
\* What was published is what is published, when nothing of the curve lies
\* between the two bounds.
<1>10. ASSUME NEW a \in Int, NEW b \in Int, a <= b,
              \A d \in CurveDates : d < b => d < a
       PROVE  Before(a) = Before(b)
  BY <1>8, <1>10 DEF Before
<1>11. UNCHANGED balance => PublishedDates' = PublishedDates
  BY DEF PublishedDates
\* The phases of a date.
<1>12. CASE /\ UNCHANGED <<day, balance>>
            /\ pc \in {"exits", "mark", "roll", "stocks", "reinvest", "calendar", "broke"}
            /\ pc' \in {"mark", "roll", "stocks", "reinvest", "calendar", "broke", "record"}
  <2>1. Reach = day /\ Reach' = day
    BY <1>12 DEF Reach
  <2>. QED  BY <1>6, <1>11, <1>12, <2>1
<1>13. CASE ExecuteExits \/ Marking \/ Entering \/ Investing \/ CheckBroke
  <2>1. CASE ExecuteExits \/ Marking \/ Investing \/ CheckBroke
    BY <1>12, <2>1 DEF ExecuteExits, Marking, MarkPortfolio, MarkForRoll, NoRoll, Investing,
       RebalanceStocks, ReinvestProceeds, NothingFreed, CheckBroke, logs
  <2>2. CASE Entering
    BY <1>12, <2>2 DEF Entering, NothingToSpend, OpenPosition, MissEntry, EntryPhase,
       AfterEntry, logs
  <2>. QED  BY <1>13, <2>1, <2>2
<1>14. CASE UNCHANGED vars
  <2>1. UNCHANGED <<pc, day, fill, stopped, balance, cfg>>
    BY <1>14 DEF vars, control, logs, inputs
  <2>2. Reach' = Reach
    <3>1. PrevRb' = PrevRb
      BY <2>1, Zenon DEF PrevRb
    <3>. QED  BY <2>1, <3>1, Zenon DEF Reach
  <2>. QED  BY <1>6, <1>11, <2>1, <2>2
<1>15. CASE NextDate
  <2>. DEFINE later == {d \in WalkedDates : d > day}
  <2>1. later # {} /\ day' = Min(later) /\ UNCHANGED <<fill, stopped, balance>>
          /\ pc = "advance" /\ pc' = IF day' \in cfg.rbDates THEN "rebalance" ELSE "ordinary"
    BY <1>1, <1>15 DEF NextDate, logs
  <2>2. day' \in WalkedDates /\ day < day' /\ \A d \in WalkedDates : d > day => day' <= d
    <3>1. later \in SUBSET Nat
      BY <1>9
    <3>. HIDE DEF later
    <3>2. day' \in later /\ \A d \in later : day' <= d
      BY <2>1, <3>1, MinOf
    <3>. QED  BY <3>2 DEF later
  <2>3. CASE cfg.daily
    <3>1. Reach = day + 1 /\ Reach' = day'
      BY <1>1, <2>1, <2>3 DEF Reach
    <3>2. Before(day + 1) = Before(day')
      <4>1. \A d \in CurveDates : d < day' => d < day + 1
        BY <1>4, <1>8, <1>9, <2>2, <2>3
      <4>. QED  BY <1>4, <1>10, <2>2, <4>1
    <3>. QED  BY <1>6, <1>11, <2>1, <2>2, <3>1, <3>2
  <2>4. CASE ~cfg.daily
    <3>1. pc' = "rebalance" /\ day' \in cfg.rbDates
      BY <1>9, <2>1, <2>2, <2>4
    <3>2. Reach = day /\ Reach' = PrevRb'
      BY <1>1, <2>1, <2>4, <3>1 DEF Reach
    <3>3. /\ PrevRb' \in cfg.rbDates /\ PrevRb' <= day'
          /\ \A r \in cfg.rbDates : r < day' => r <= PrevRb' /\ PrevRb' < day'
      <4>1. InputsOK' /\ Rebalancing'
        BY <1>1, <1>4, <3>1 DEF Rebalancing
      <4>2. PrevRbBefore'
        BY <4>1, PrevRbFacts, PTL
      <4>. QED  BY <1>1, <4>2 DEF PrevRbBefore
    <3>4. Before(day) = Before(PrevRb')
      <4>1. PrevRb' \in Int /\ day \in Int /\ day' \in Int
        BY <1>4, <1>8, <3>3
      <4>2. CASE day = 0
        <5>1. PrevRb' = FirstRb
          <6>1. day' <= FirstRb
            BY <1>8, <1>9, <2>2, <2>4, <4>2
          <6>. QED  BY <1>8, <3>3, <4>1, <6>1
        <5>2. \A d \in CurveDates : ~(d < FirstRb)
          BY <1>8
        <5>. QED  BY <1>8, <1>10, <4>1, <4>2, <5>1, <5>2
      <4>3. CASE day \in cfg.rbDates
        <5>1. PrevRb' = day
          BY <1>8, <1>9, <2>2, <2>4, <3>3, <4>1, <4>3
        <5>. QED  BY <5>1
      <4>. QED  BY <1>6, <1>9, <2>1, <2>4, <4>2, <4>3
    <3>. QED  BY <1>6, <1>11, <2>1, <2>2, <3>1, <3>2, <3>4
  <2>. QED  BY <2>3, <2>4
<1>16. CASE EndOfDates
  <2>1. /\ UNCHANGED <<day, balance, stopped>> /\ pc = "advance" /\ pc' = "finish"
        /\ \A d \in WalkedDates : ~(d > day)
    BY <1>16 DEF EndOfDates, logs
  <2>2. Reach' = Reach
    BY <1>1, <2>1 DEF Reach
  <2>3. \A d \in WalkedDates : d <= day
    BY <1>4, <1>9, <2>1
  <2>. QED  BY <1>6, <1>11, <2>1, <2>2, <2>3
<1>17. CASE BeginOrdinaryDay
  <2>1. UNCHANGED <<day, balance>> /\ pc = "ordinary" /\ pc' \in {"exits", "record"}
    BY <1>17 DEF BeginOrdinaryDay, logs
  <2>2. Reach = day /\ Reach' = day
    BY <2>1 DEF Reach
  <2>. QED  BY <1>6, <1>11, <2>1, <2>2
<1>18. CASE BeginRebalance
  <2>1. CASE cfg.daily
    <3>1. UNCHANGED <<day, balance>> /\ pc = "rebalance" /\ pc' = "exits"
      BY <1>18, <2>1 DEF BeginRebalance, logs
    <3>2. Reach = day /\ Reach' = day
      BY <2>1, <3>1 DEF Reach
    <3>. QED  BY <1>6, <1>11, <3>1, <3>2
  <2>2. CASE ~cfg.daily
    <3>1. UNCHANGED <<day, balance>> /\ pc = "rebalance" /\ pc' = "backfill" /\ fill' = PrevRb
      BY <1>18, <2>2 DEF BeginRebalance, logs
    <3>2. Reach = PrevRb /\ Reach' = PrevRb
      BY <2>2, <3>1 DEF Reach
    <3>3. day \in cfg.rbDates
      BY <1>6, <1>9, <2>2, <3>1
    <3>4. PrevRb \in cfg.rbDates /\ PrevRb <= day
      BY <1>4, <3>3, PrevRbFacts DEF PrevRbBefore, Rebalancing
    <3>. QED  BY <1>6, <1>8, <1>11, <2>2, <3>1, <3>2, <3>3, <3>4
  <2>. QED  BY <2>1, <2>2
<1>19. CASE Finish
  <2>1. UNCHANGED <<day, balance, stopped>> /\ pc = "finish"
    BY <1>19 DEF Finish, logs
  <2>2. CASE cfg.daily
    <3>1. pc' = "done"
      BY <1>19, <2>2 DEF Finish
    <3>2. Reach' = Reach
      BY <1>1, <2>1, <2>2, <3>1 DEF Reach
    <3>. QED  BY <1>6, <1>11, <2>1, <2>2, <3>1, <3>2
  <2>3. CASE ~cfg.daily
    <3>1. pc' = "tail" /\ fill' = LastRb
      BY <1>19, <2>3 DEF Finish, LastRb
    <3>2. Reach = day /\ Reach' = LastRb
      BY <1>1, <2>1, <2>3, <3>1 DEF Reach
    <3>3. day = LastRb
      <4>1. LastRb \in WalkedDates /\ ~stopped
        BY <1>5, <1>8, <1>9, <2>3
      <4>2. LastRb <= day /\ LastRb > 0
        BY <1>6, <1>9, <2>1, <4>1
      <4>3. day \in cfg.rbDates
        BY <1>4, <1>6, <1>8, <1>9, <2>1, <2>3, <4>2
      <4>. QED  BY <1>4, <1>8, <4>2, <4>3
    <3>4. LastRb <= LastRb
      BY <1>8
    <3>. QED  BY <1>6, <1>11, <2>1, <2>3, <3>1, <3>2, <3>3, <3>4
  <2>. QED  BY <2>2, <2>3
<1>20. CASE BackfillDone
  <2>1. UNCHANGED <<day, balance, stopped, fill>> /\ Pending = {}
    BY <1>20 DEF BackfillDone, logs
  <2>2. CASE pc = "tail"
    <3>1. pc' = "done"
      BY <1>20, <2>2 DEF BackfillDone
    <3>2. Reach = fill /\ Reach' = Horizon + 1 /\ ~cfg.daily /\ LastRb <= fill
      BY <1>1, <1>6, <2>2, <3>1 DEF Reach
    <3>3. \A d \in QuotedDates : ~(fill <= d /\ d < LastDate)
      BY <2>1, <2>2 DEF Pending, BackfillEnd
    <3>4. \A d \in CurveDates : d < fill /\ d < Horizon + 1
      BY <1>4, <1>8, <3>2, <3>3
    <3>5. Before(fill) = Before(Horizon + 1)
      BY <3>4 DEF Before
    <3>. QED  BY <1>6, <1>11, <2>1, <2>2, <3>1, <3>2, <3>5
  <2>3. CASE pc = "backfill"
    <3>1. pc' \in {"exits", "record"}
      BY <1>20, <2>3 DEF BackfillDone
    <3>2. Reach = fill /\ Reach' = day /\ ~cfg.daily /\ fill <= day
      BY <1>1, <1>6, <2>1, <2>3, <3>1 DEF Reach
    <3>3. \A d \in QuotedDates : ~(fill <= d /\ d < day)
      BY <2>1, <2>3 DEF Pending, BackfillEnd
    <3>4. \A d \in CurveDates : d < day => d < fill
      BY <1>4, <1>8, <3>2, <3>3
    <3>5. Before(fill) = Before(day)
      BY <1>4, <1>10, <3>2, <3>4
    <3>. QED  BY <1>6, <1>11, <2>1, <2>3, <3>1, <3>2, <3>5
  <2>. QED  BY <1>20, <2>2, <2>3 DEF BackfillDone
<1>21. CASE BackfillRow
  <2>. DEFINE d == Min(Pending)
  <2>1. /\ d \in CurveDates /\ PublishedDates = Before(d)
        /\ balance' = Append(balance, BalanceDay(d))
        /\ fill' = d + 1 /\ fill <= d
        /\ pc = "backfill" => d < day
    BY <1>5, <1>21, BackfillsNext
  <2>2. UNCHANGED <<pc, day, stopped>> /\ pc \in {"backfill", "tail"}
    BY <1>21 DEF BackfillRow
  <2>. HIDE DEF d
  <2>3. d \in QuotedDates /\ d \in Dates /\ d \in Int
    BY <1>4, <1>8, <2>1, MarketFacts
  <2>4. BalanceDay(d) \in Row /\ BalanceDay(d).date = d
    BY <1>4, <2>3, BalanceDayType DEF BalanceDay
  <2>5. PublishedDates' = PublishedDates \cup {d}
    BY <1>4, <2>1, <2>4, PublishedGrows
  <2>6. Before(d + 1) = Before(d) \cup {d}
    BY <1>8, <2>1, <2>3 DEF Before
  <2>7. Reach' = d + 1
    BY <2>1, <2>2 DEF Reach
  <2>8. pc = "backfill" => FirstRb <= d + 1 /\ d + 1 <= day
    BY <1>4, <1>8, <2>1, <2>3
  <2>9. pc = "tail" => LastRb <= d + 1
    BY <1>4, <1>6, <1>8, <2>1, <2>3
  <2>. QED  BY <1>6, <2>1, <2>2, <2>5, <2>6, <2>7, <2>8, <2>9
<1>22. CASE RecordDay
  <2>1. /\ UNCHANGED <<day, stopped>> /\ pc = "record"
        /\ pc' = IF stopped THEN "finish" ELSE "advance"
    BY <1>22 DEF RecordDay
  <2>2. /\ Reach = day /\ Reach' = IF cfg.daily THEN day + 1 ELSE day
        /\ day \in WalkedDates
    BY <1>1, <1>6, <2>1 DEF Reach
  <2>3. CASE cfg.daily /\ FirstRb <= day /\ day < LastDate
    <3>1. /\ day \in CurveDates /\ PublishedDates = Before(day)
          /\ balance' = Append(balance, BalanceDay(day))
      BY <1>5, <1>22, <2>3, RecordsNext
    <3>2. day \in Dates
      BY <1>4, <1>8, <3>1, MarketFacts
    <3>3. BalanceDay(day) \in Row /\ BalanceDay(day).date = day
      BY <1>4, <3>2, BalanceDayType DEF BalanceDay
    <3>4. PublishedDates' = PublishedDates \cup {day}
      BY <1>4, <3>1, <3>3, PublishedGrows
    <3>5. Before(day + 1) = Before(day) \cup {day}
      BY <1>4, <1>8, <3>1 DEF Before
    <3>. QED  BY <2>1, <2>2, <2>3, <3>1, <3>4, <3>5
  <2>4. CASE ~(cfg.daily /\ FirstRb <= day /\ day < LastDate)
    <3>1. UNCHANGED balance
      BY <1>22, <2>4 DEF RecordDay
    <3>2. cfg.daily => Before(day) = Before(day + 1)
      <4>1. cfg.daily => \A e \in CurveDates : e < day + 1 => e < day
        BY <1>4, <1>8, <2>4
      <4>. QED  BY <1>4, <1>10, <4>1
    <3>3. ~cfg.daily => ~stopped
      BY <1>5
    <3>. QED  BY <1>6, <1>11, <2>1, <2>2, <3>1, <3>2, <3>3
  <2>. QED  BY <2>3, <2>4
<1>. QED  BY <1>2, <1>3, <1>13, <1>14, <1>15, <1>16, <1>17, <1>18, <1>19, <1>20, <1>21, <1>22
          DEF Next, Terminated, Step, Recording, Walking

LEMMA CurveInvariant == Spec => [](StopInv /\ CurveInv)
<1>1. Init => StopInv /\ CurveInv
  <2>. SUFFICES ASSUME Init, cfg.rbDates # {} PROVE CurveInv
    BY DEF Init, StopInv, CurveInv
  <2>1. TypeInv
    BY InitType
  <2>2. pc = "advance" /\ day = 0 /\ balance = << >> /\ Reach \in {0, 1}
    BY DEF Init, Reach
  <2>3. \A d \in CurveDates : d > 0 /\ d \in Nat
    BY <2>1, CalendarFacts DEF TypeInv, TypeOK
  <2>4. Before(Reach) = {}
    BY <2>2, <2>3 DEF Before
  <2>5. PublishedDates = {}
    BY <2>2 DEF PublishedDates
  <2>. QED  BY <2>2, <2>4, <2>5 DEF CurveInv
<1>2. TypeInv /\ TypeInv' /\ StopInv /\ CurveInv /\ [Next]_vars => StopInv' /\ CurveInv'
  <2>. SUFFICES ASSUME TypeInv, TypeInv', StopInv, CurveInv, [Next]_vars
                PROVE  StopInv' /\ CurveInv'
    OBVIOUS
  <2>1. UNCHANGED cfg
    BY DEF Next, Terminated, vars, inputs
  <2>2. StopInv'
    BY NextStop
  <2>3. CASE cfg.rbDates # {} /\ (stopped' => cfg.daily)
    BY <2>2, <2>3, NextCurve
  <2>4. CASE ~(cfg.rbDates # {} /\ (stopped' => cfg.daily))
    BY <2>1, <2>2, <2>4 DEF CurveInv
  <2>. QED  BY <2>2, <2>3, <2>4
<1>. QED  BY <1>1, <1>2, TypeInvariant, PTL DEF Spec

\* The rows are in the order of their dates, each date once.
Increasing == \A i, j \in DOMAIN balance : i < j => balance[i].date < balance[j].date

OrderInv == cfg.rbDates # {} /\ (stopped => cfg.daily) => Increasing

\* A row for a date follows the rows of the dates before it.
LEMMA LaterRow ==
  ASSUME LogsOK, Increasing, NEW r \in Row, balance' = Append(balance, r),
         PublishedDates = Before(r.date)
  PROVE  Increasing'
<1>. DEFINE n == Len(balance')
<1>1. /\ balance'[n] = r /\ DOMAIN balance' = DOMAIN balance \cup {n}
      /\ \A i \in DOMAIN balance : balance'[i] = balance[i]
  BY LastRow
<1>2. \A i \in DOMAIN balance : i \in Nat /\ i < n
  <2>1. balance \in Seq(Row)
    BY DEF LogsOK
  <2>2. Len(balance') = Len(balance) + 1 /\ Len(balance) \in Nat
          /\ DOMAIN balance = 1..Len(balance)
    BY <2>1, AppendProperties, LenProperties
  <2>. QED  BY <2>2
<1>3. \A i \in DOMAIN balance : balance[i].date < r.date
  BY DEF PublishedDates, Before
<1>. HIDE DEF n
<1>4. ASSUME NEW i \in DOMAIN balance', NEW j \in DOMAIN balance', i < j, n \in Nat
      PROVE  balance'[i].date < balance'[j].date
  <2>1. i \in DOMAIN balance
    BY <1>1, <1>2, <1>4
  <2>2. CASE j \in DOMAIN balance
    BY <1>1, <1>4, <2>1, <2>2 DEF Increasing
  <2>3. CASE j = n
    BY <1>1, <1>3, <2>1, <2>3
  <2>. QED  BY <1>1, <2>2, <2>3
<1>5. n \in Nat
  <2>1. balance \in Seq(Row)
    BY DEF LogsOK
  <2>2. Len(balance') = Len(balance) + 1 /\ Len(balance) \in Nat
    BY <2>1, AppendProperties, LenProperties
  <2>. QED  BY <2>2 DEF n
<1>. QED  BY <1>4, <1>5 DEF Increasing

LEMMA NextOrder ==
  ASSUME TypeInv, CurveInv, Increasing, [Next]_vars,
         cfg.rbDates # {}, stopped => cfg.daily
  PROVE  Increasing'
<1>1. InputsOK /\ BookOK /\ CountersOK /\ LogsOK
  BY DEF TypeInv, TypeOK, ControlOK
<1>2. \A d \in CurveDates : d \in QuotedDates /\ d \in Nat
  BY <1>1, CalendarFacts
<1>3. ASSUME NEW d \in CurveDates, PublishedDates = Before(d),
             balance' = Append(balance, BalanceDay(d))
      PROVE  Increasing'
  <2>1. d \in Dates
    BY <1>1, <1>2, MarketFacts
  <2>2. BalanceDay(d) \in Row /\ BalanceDay(d).date = d
    BY <1>1, <2>1, BalanceDayType DEF BalanceDay
  <2>. QED  BY <1>1, <1>3, <2>2, LaterRow
<1>4. CASE BackfillRow
  <2>1. /\ Min(Pending) \in CurveDates /\ PublishedDates = Before(Min(Pending))
        /\ balance' = Append(balance, BalanceDay(Min(Pending)))
    BY <1>4, BackfillsNext
  <2>. QED  BY <1>3, <2>1
<1>5. CASE RecordDay /\ cfg.daily /\ FirstRb <= day /\ day < LastDate
  <2>1. /\ day \in CurveDates /\ PublishedDates = Before(day)
        /\ balance' = Append(balance, BalanceDay(day))
    BY <1>5, RecordsNext
  <2>. QED  BY <1>3, <2>1
<1>6. CASE ~BackfillRow /\ ~(RecordDay /\ cfg.daily /\ FirstRb <= day /\ day < LastDate)
  <2>1. UNCHANGED balance
    BY <1>6 DEF Next, Terminated, vars, logs, Step, Recording,
       BackfillDone, RecordDay, Walking, NextDate, EndOfDates, BeginRebalance,
       BeginOrdinaryDay, Finish, ExecuteExits, Marking, MarkPortfolio, MarkForRoll,
       NoRoll, Entering, NothingToSpend, OpenPosition, MissEntry, EntryPhase, Investing,
       RebalanceStocks, ReinvestProceeds, NothingFreed, CheckBroke
  <2>. QED  BY <2>1 DEF Increasing
<1>. QED  BY <1>4, <1>5, <1>6

LEMMA OrderInvariant == Spec => []OrderInv
<1>1. Init => OrderInv
  BY DEF Init, OrderInv, Increasing
<1>2. TypeInv /\ StopInv /\ CurveInv /\ OrderInv /\ [Next]_vars => OrderInv'
  <2>. SUFFICES ASSUME TypeInv, StopInv, CurveInv, OrderInv, [Next]_vars
                PROVE  OrderInv'
    OBVIOUS
  <2>1. UNCHANGED cfg
    BY DEF Next, Terminated, vars, inputs
  <2>2. ASSUME cfg.rbDates # {}, stopped' => cfg.daily PROVE Increasing'
    <3>1. stopped => cfg.daily
      BY <2>2, StoppedBefore
    <3>2. Increasing
      BY <2>2, <3>1 DEF OrderInv
    <3>. QED  BY <2>2, <3>1, <3>2, NextOrder
  <2>. QED  BY <2>1, <2>2 DEF OrderInv
<1>. QED  BY <1>1, <1>2, TypeInvariant, CurveInvariant, PTL DEF Spec

\* A run that was not stopped has a row for every date of the curve and for no
\* other, each once and in order, on the daily loop and on the fast path,
\* whatever the calendar.
THEOREM CurveCompletes == Spec => []CurveComplete
<1>1. TypeInv /\ CurveInv /\ OrderInv => CurveComplete
  <2>. SUFFICES ASSUME TypeInv, CurveInv, OrderInv, pc = "done", cfg.rbDates # {}, ~stopped
                PROVE  PublishedDates = CurveDates
    BY DEF CurveComplete, PublishedDates, OrderInv, Increasing
  <2>1. PublishedDates = Before(Reach) /\ \A d \in WalkedDates : d <= day
    BY Zenon DEF CurveInv
  <2>2. /\ InputsOK /\ day \in Int
        /\ \A d \in CurveDates : d \in QuotedDates /\ d \in Nat /\ d <= Horizon
        /\ Horizon \in Nat
    BY CalendarFacts, DateFacts DEF TypeInv, TypeOK, ControlOK
  <2>3. \A d \in CurveDates : d < Reach
    BY <2>1, <2>2 DEF Reach, WalkedDates
  <2>. QED  BY <2>1, <2>3 DEF Before
<1>. QED  BY <1>1, CurveInvariant, OrderInvariant, TypeInvariant, PTL

-----------------------------------------------------------------------------
(* The loop implements the equity curve.                                   *)

\* The refinement mapping of BacktestProperties, by name.
CurveRows == [i \in DOMAIN balance |-> ShownRow(balance[i])]

CurveCalendar == IF cfg.rbDates = {} THEN {} ELSE CurveDates

LEMMA CurvePublished == Curve!Published = PublishedDates
<1>1. \A i \in DOMAIN balance : ShownRow(balance[i]).date = balance[i].date
  BY DEF ShownRow
<1>2. DOMAIN CurveRows = DOMAIN balance
        /\ \A i \in DOMAIN balance : CurveRows[i] = ShownRow(balance[i])
  BY DEF CurveRows
<1>3. Curve!Published = {CurveRows[i].date : i \in DOMAIN CurveRows}
  BY Zenon DEF Curve!Published, CurveRows
<1>. QED  BY <1>1, <1>2, <1>3 DEF PublishedDates

\* A row shows the book.
LEMMA RowShowsBook ==
  ASSUME InputsOK, BookOK, CountersOK, NEW d \in Dates
  PROVE  ShownRow(BalanceDay(d)) = [date |-> d, book |-> Shown]
<1>. DEFINE lots == Lots(d)
            shown == [s \in DOMAIN holdings |-> holdings[s].qty]
<1>1. DOMAIN lots = Symbols /\ DOMAIN holdings \subseteq Symbols
  BY DEF Lots, BookOK, Partial
<1>2. ASSUME NEW s \in Symbols
      PROVE  /\ s \in DOMAIN holdings => lots[s] # None /\ lots[s].qty = holdings[s].qty
             /\ s \notin DOMAIN holdings => lots[s] = None
  <2>1. CASE s \in DOMAIN holdings
    <3>1. lots[s] = [qty   |-> holdings[s].qty,
                     value |-> MarkPrice(mkt[d], holdings, s) * holdings[s].qty]
      BY <2>1 DEF Lots
    <3>2. lots[s] \in Lot \cup {None}
      BY LotsType
    <3>3. None \notin [qty : Int, value : Int]
      BY BacktestAssumption
    <3>4. holdings[s].qty \in Int /\ MarkPrice(mkt[d], holdings, s) \in Int
      BY <2>1, MarketFacts, BookFacts, MarkPriceNat DEF HoldingsOf
    <3>5. lots[s] \in [qty : Int, value : Int]
      <4>. DEFINE price == MarkPrice(mkt[d], holdings, s)
                  qty == holdings[s].qty
      <4>1. price * qty \in Int
        <5>1. price \in Int /\ qty \in Int
          BY <3>4
        <5>. HIDE DEF price, qty
        <5>. QED  BY <5>1
      <4>. QED  BY <3>1, <3>4, <4>1
    <3>. QED  BY <2>1, <3>1, <3>3, <3>5
  <2>2. CASE s \notin DOMAIN holdings
    BY <2>2 DEF Lots
  <2>. QED  BY <2>1, <2>2
<1>3. Quantities(lots) = shown
  <2>1. {c \in DOMAIN lots : lots[c] # None} = DOMAIN holdings
    <3>. HIDE DEF lots
    <3>. QED  BY <1>1, <1>2
  <2>2. Quantities(lots) = [s \in {c \in DOMAIN lots : lots[c] # None} |-> lots[s].qty]
    BY Zenon DEF Quantities
  <2>3. \A s \in DOMAIN holdings : lots[s].qty = holdings[s].qty
    <3>. HIDE DEF lots
    <3>. QED  BY <1>1, <1>2
  <2>. HIDE DEF lots
  <2>4. Quantities(lots) = [s \in DOMAIN holdings |-> lots[s].qty]
    BY <2>1, <2>2, Zenon
  <2>. QED  BY <2>3, <2>4
<1>4. /\ BalanceDay(d).date = d /\ BalanceDay(d).cash = cash /\ BalanceDay(d).stocks = lots
      /\ BalanceDay(d).optionsQty
           = Total([p \in DOMAIN positions |-> positions[p].qty], attempts)
  BY DEF BalanceDay
<1>. HIDE DEF lots, shown
<1>5. Shown = <<cash, Total([p \in DOMAIN positions |-> positions[p].qty], attempts), shown>>
  BY Zenon DEF Shown, shown
<1>6. ShownRow(BalanceDay(d))
        = [date |-> BalanceDay(d).date,
           book |-> <<BalanceDay(d).cash, BalanceDay(d).optionsQty,
                      Quantities(BalanceDay(d).stocks)>>]
  BY Zenon DEF ShownRow
<1>. QED  BY <1>3, <1>4, <1>5, <1>6, Zenon

\* Appending a row to the balance sheet appends it to the curve.
LEMMA CurveRowsGrow ==
  ASSUME LogsOK, NEW r \in Row, balance' = Append(balance, r)
  PROVE  CurveRows' = Append(CurveRows, ShownRow(r))
<1>. DEFINE n == Len(balance)
            S == {ShownRow(balance[i]) : i \in DOMAIN balance} \cup {ShownRow(r)}
<1>1. n \in Nat /\ DOMAIN balance = 1..n
  BY LenProperties DEF LogsOK
<1>2. /\ DOMAIN balance' = 1..n+1 /\ balance'[n + 1] = r
      /\ \A i \in 1..n : balance'[i] = balance[i]
  <2>1. Len(balance') = n + 1 /\ balance'[n + 1] = r
          /\ DOMAIN balance' = DOMAIN balance \cup {n + 1}
          /\ \A i \in DOMAIN balance : balance'[i] = balance[i]
    BY LastRow
  <2>2. (1..n) \cup {n + 1} = 1..n+1
    BY <1>1
  <2>. QED  BY <1>1, <2>1, <2>2
<1>3. CurveRows \in [1..n -> S]
  BY <1>1 DEF CurveRows
<1>4. CurveRows \in Seq(S) /\ Len(CurveRows) = n
  <2>. HIDE DEF n, S
  <2>. QED  BY <1>1, <1>3
<1>5. ShownRow(r) \in S
  OBVIOUS
<1>. HIDE DEF n, S
<1>6. /\ Append(CurveRows, ShownRow(r)) \in Seq(S)
      /\ Len(Append(CurveRows, ShownRow(r))) = n + 1
      /\ \A i \in 1..n : Append(CurveRows, ShownRow(r))[i] = CurveRows[i]
      /\ Append(CurveRows, ShownRow(r))[n + 1] = ShownRow(r)
  BY <1>4, <1>5, AppendProperties
<1>7. Append(CurveRows, ShownRow(r)) \in [1..n+1 -> S]
  BY <1>6, LenProperties
<1>8. CurveRows' = [i \in 1..n+1 |-> ShownRow(balance'[i])]
  BY <1>2 DEF CurveRows, ShownRow, Quantities
<1>9. \A i \in 1..n+1 : ShownRow(balance'[i]) = Append(CurveRows, ShownRow(r))[i]
  <2>1. \A i \in 1..n : CurveRows[i] = ShownRow(balance[i])
    BY <1>1 DEF CurveRows
  <2>2. \A i \in 1..n+1 : i \in 1..n \/ i = n + 1
    BY <1>1
  <2>. QED  BY <1>2, <1>6, <2>1, <2>2
<1>. QED  BY <1>7, <1>8, <1>9

\* Every step of the loop is a step of the curve: time passes, the book changes
\* when the curve is published up to today, a row is published, or nothing is
\* seen.
LEMMA NextImplements ==
  ASSUME TypeInv, TypeInv', StopInv, CurveInv, [Next]_vars,
         stopped => cfg.daily, stopped' => cfg.daily
  PROVE  [Curve!Next]_(Curve!vars)
<1>1. /\ UNCHANGED <<cfg, mkt>> /\ InputsOK /\ BookOK /\ CountersOK /\ LogsOK
      /\ day \in 0..Horizon /\ day' \in 0..Horizon /\ Horizon \in Nat
  BY DateFacts DEF Next, Terminated, vars, inputs, TypeInv, TypeOK, ControlOK
<1>2. SUFFICES Curve!Tick \/ Curve!Trade \/ Curve!Publish
                 \/ UNCHANGED <<CurveCalendar, day, Shown, CurveRows>>
  BY Zenon DEF Curve!Next, Curve!vars, CurveRows, CurveCalendar
<1>3. UNCHANGED <<balance>> => UNCHANGED CurveRows
  BY Zenon DEF CurveRows, ShownRow, Quantities
<1>4. UNCHANGED <<cash, positions, holdings, attempts>> => UNCHANGED Shown
  BY Zenon DEF Shown
<1>5. CurveCalendar' = CurveCalendar
  <2>1. QuotedDates' = QuotedDates /\ FirstRb' = FirstRb
    BY <1>1, Zenon DEF QuotedDates, FirstRb
  <2>2. LastDate' = LastDate
    BY <2>1, Zenon DEF LastDate
  <2>. QED  BY <1>1, <2>1, <2>2, Zenon DEF CurveCalendar, CurveDates
<1>. DEFINE Hidden == UNCHANGED <<day, balance, cash, positions, holdings, attempts>>
<1>6. CASE Hidden
  BY <1>3, <1>4, <1>5, <1>6
<1>7. CASE UNCHANGED vars
  <2>1. Hidden
    BY <1>7 DEF vars, control, book, counters, logs
  <2>. QED  BY <1>6, <2>1
<1>8. CASE Step
  <2>1. cfg.rbDates # {}
    <3>1. pc # "done"
      BY <1>8 DEF Step, Recording, BackfillRow, BackfillDone, RecordDay, Walking, NextDate,
         EndOfDates, BeginRebalance, BeginOrdinaryDay, Finish, ExecuteExits, Marking,
         MarkPortfolio, MarkForRoll, NoRoll, Entering, NothingToSpend, OpenPosition,
         MissEntry, EntryPhase, Investing, RebalanceStocks, ReinvestProceeds,
         NothingFreed, CheckBroke
    <3>. QED  BY <3>1 DEF TypeInv, Located
  <2>2. CurveCalendar = CurveDates
    BY <2>1 DEF CurveCalendar
  <2>3. CASE NextDate
    <3>. DEFINE later == {d \in WalkedDates : d > day}
    <3>1. later # {} /\ day' = Min(later) /\ UNCHANGED <<balance, cash, positions, holdings,
            attempts>>
      BY <2>3 DEF NextDate, book, counters, logs
    <3>2. day' \in Nat /\ day' > day
      <4>1. later \in SUBSET Nat
        BY <1>1, <2>1, CalendarFacts DEF WalkedDates
      <4>. HIDE DEF later
      <4>2. day' \in later
        BY <3>1, <4>1, MinOf
      <4>. QED  BY <4>1, <4>2 DEF later
    <3>. QED  BY <1>3, <1>4, <1>5, <3>1, <3>2, Zenon
              DEF Curve!Tick, CurveRows, CurveCalendar
  <2>4. CASE /\ UNCHANGED <<day, balance>>
             /\ pc \in {"exits", "mark", "roll", "stocks", "reinvest", "calendar", "broke"}
    <3>1. PublishedDates = Before(day)
      BY <2>1, <2>4 DEF CurveInv, Reach
    <3>2. Curve!Published = {d \in CurveCalendar : d < day}
      BY <2>2, <3>1, CurvePublished DEF Before
    <3>3. CASE Shown' = Shown
      BY <1>3, <1>5, <2>4, <3>3
    <3>4. CASE Shown' # Shown
      BY <1>3, <1>5, <2>4, <3>2, <3>4, Zenon DEF Curve!Trade, CurveRows, CurveCalendar
    <3>. QED  BY <3>3, <3>4
  <2>5. CASE ExecuteExits \/ Marking \/ Entering \/ Investing \/ CheckBroke
    BY <2>4, <2>5 DEF ExecuteExits, Marking, MarkPortfolio, MarkForRoll, NoRoll, Entering,
       NothingToSpend, OpenPosition, MissEntry, EntryPhase, Investing, RebalanceStocks,
       ReinvestProceeds, NothingFreed, CheckBroke, logs
  <2>6. CASE BackfillDone \/ EndOfDates \/ BeginRebalance \/ BeginOrdinaryDay \/ Finish
    <3>1. Hidden
      BY <2>6 DEF BackfillDone, EndOfDates, BeginRebalance, BeginOrdinaryDay, Finish,
         book, counters, logs
    <3>. QED  BY <1>6, <3>1
  <2>7. ASSUME NEW d \in CurveDates, PublishedDates = Before(d),
               balance' = Append(balance, BalanceDay(d)),
               UNCHANGED <<day, cash, positions, holdings, attempts>>
        PROVE  Curve!Publish
    <3>1. d \in Dates
      BY <1>1, <2>1, CalendarFacts, MarketFacts
    <3>2. BalanceDay(d) \in Row
      BY <1>1, <3>1, BalanceDayType
    <3>3. CurveRows' = Append(CurveRows, [date |-> d, book |-> Shown])
      BY <1>1, <2>7, <3>1, <3>2, CurveRowsGrow, RowShowsBook
    <3>4. Curve!Published = {e \in CurveCalendar : e < d} /\ d \in CurveCalendar
      BY <2>2, <2>7, CurvePublished DEF Before
    <3>. QED  BY <1>4, <1>5, <2>7, <3>3, <3>4, Zenon DEF Curve!Publish, CurveRows, CurveCalendar
  <2>8. CASE BackfillRow
    <3>1. UNCHANGED <<day, cash, positions, holdings, attempts>>
      BY <2>8 DEF BackfillRow, book, counters
    <3>. QED  BY <2>1, <2>7, <2>8, <3>1, BackfillsNext
  <2>9. CASE RecordDay
    <3>1. UNCHANGED <<day, cash, positions, holdings, attempts>>
      BY <2>9 DEF RecordDay, book, counters
    <3>2. CASE UNCHANGED balance
      BY <1>6, <3>1, <3>2
    <3>3. CASE cfg.daily /\ FirstRb <= day /\ day < LastDate
      BY <2>1, <2>7, <2>9, <3>1, <3>3, RecordsNext
    <3>. QED  BY <2>9, <3>2, <3>3 DEF RecordDay
  <2>. QED  BY <1>8, <2>3, <2>5, <2>6, <2>8, <2>9 DEF Step, Recording, Walking
<1>. QED  BY <1>7, <1>8 DEF Next, Terminated

LEMMA InitImplements == Init => Curve!Init
<1>. SUFFICES ASSUME Init PROVE Curve!Init
  OBVIOUS
<1>1. InputsOK /\ day = 0 /\ balance = << >>
  BY InitType DEF TypeInv, TypeOK, Init
<1>2. CurveCalendar \subseteq Nat
  <2>1. CASE cfg.rbDates = {}
    BY <2>1 DEF CurveCalendar
  <2>2. CASE cfg.rbDates # {}
    BY <1>1, <2>2, CalendarFacts DEF CurveCalendar
  <2>. QED  BY <2>1, <2>2
<1>3. CurveRows = << >>
  BY <1>1 DEF CurveRows
<1>. QED  BY <1>1, <1>2, <1>3, Zenon DEF Curve!Init, CurveRows, CurveCalendar

\* Either loop publishes the curve in order, without holes and without look
\* ahead, although one records live and the other backfills: in every run in
\* which the fast path is not stopped, which would leave a hole.
THEOREM CurveImplemented ==
  Spec /\ [](stopped => cfg.daily) => ImplementsEquityCurve
<1>. DEFINE Kept == stopped => cfg.daily
<1>1. TypeInv /\ TypeInv' /\ StopInv /\ CurveInv /\ [Next]_vars /\ Kept /\ Kept'
        => [Curve!Next]_(Curve!vars)
  <2>1. [Next]_vars => UNCHANGED cfg
    BY DEF Next, Terminated, vars, inputs
  <2>. QED  BY <2>1, NextImplements
<1>. HIDE DEF Kept
<1>2. Spec /\ []Kept => ImplementsEquityCurve
  BY <1>1, InitImplements, CurveInvariant, TypeInvariant, PTL
  DEF Spec, ImplementsEquityCurve, Curve!Spec
<1>. QED  BY <1>2 DEF Kept
=============================================================================
