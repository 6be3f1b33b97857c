------------------------------ MODULE Convexity ------------------------------
(***************************************************************************)
(* The put overlay of convexity/backtest.py and the loop it hands its      *)
(* arrays to: all wealth in one stock; on the first stock date of a month  *)
(* the put of the month before is closed into stock, a fixed budget of     *)
(* stock is sold, the put nearest the target delta is bought with it, what *)
(* is left goes back into stock, and the rows of the month are valued at   *)
(* its shares.  A step is the top of the monthly loop or one row of the    *)
(* loop inside it.                                                         *)
(*                                                                         *)
(* Shares are counted in units of 1/Unit share and values in 1/Unit of     *)
(* money, so that the divisions by a stock price are exact; a contract is  *)
(* on one share.                                                           *)
(***************************************************************************)
EXTENDS Integers, Sequences, FiniteSets, SequencesExt, Totals

CONSTANTS
  Files,               \* the stock file and the put file a run may be given
  DaysPerMonth,
  Unit,                \* a common multiple of the stock prices
  Capital, Budget,     \* initial_capital, initial_capital * budget_pct
  TargetDelta, DteMin, DteMax,
  Drop                 \* tail_drop, in percent

StockRows == [date : Nat \ {0}, price : Nat \ {0}]
Quotes    == [strike : Nat, expires : Nat, delta : Int, ask : Nat, bid : Nat, underlying : Nat]

Sorted(rows) == \A i, j \in DOMAIN rows : i < j => rows[i].date <= rows[j].date

\* A put file is the chain of each date it quotes, in file order.
ASSUME ConvexityAssumption ==
  /\ DaysPerMonth \in Nat \ {0} /\ Unit \in Nat \ {0}
  /\ \A f \in Files :
       /\ f.stock \in Seq(StockRows) /\ Sorted(f.stock)
       /\ \A k \in DOMAIN f.stock : Unit % f.stock[k].price = 0
       /\ DOMAIN f.puts \subseteq Nat
       /\ \A d \in DOMAIN f.puts : f.puts[d] \in Seq(Quotes) \ {<< >>}
  /\ Capital \in Nat /\ Budget \in Nat
  /\ TargetDelta \in Int /\ DteMin \in Nat /\ DteMax \in Nat /\ Drop \in 0..100

VARIABLES
  stock, puts, \* the files of the run
  rebal,       \* rebal_date of the month at hand, 0 before the first
  si,          \* the stock row at hand, 0 at the top of the monthly loop
  shares, position,
  records,     \* the monthly rows
  daily,       \* the daily rows [date, balance]
  done         \* the result was returned

vars == <<stock, puts, rebal, si, shares, position, records, daily, done>>

-----------------------------------------------------------------------------
(* Scoring.                                                                *)

Chain(d) == IF d \in DOMAIN puts THEN puts[d] ELSE << >>

Distance(q) == IF q.delta >= TargetDelta THEN q.delta - TargetDelta
                                         ELSE TargetDelta - q.delta

Eligible(q, d) == q.ask > 0 /\ q.expires - d \in DteMin..DteMax

\* find_target_put: the first of the eligible rows nearest the target delta.
TargetPuts(d) ==
  { i \in DOMAIN Chain(d) :
      /\ Eligible(Chain(d)[i], d)
      /\ \A j \in DOMAIN Chain(d) : Eligible(Chain(d)[j], d) =>
           \/ Distance(Chain(d)[i]) < Distance(Chain(d)[j])
           \/ Distance(Chain(d)[i]) = Distance(Chain(d)[j]) /\ i <= j }

\* convexity_ratio, as the pair whose quotient it is.
Ratio(q) ==
  LET tail == q.strike * 100 - q.underlying * (100 - Drop)
  IN  <<IF tail > 0 THEN tail ELSE 0, q.ask * 12>>

\* compute_daily_scores: the row of a quoted date that has a target put.
Scores ==
  UNION { { [date |-> d, ratio |-> Ratio(puts[d][i]), strike |-> puts[d][i].strike]
              : i \in TargetPuts(d) } : d \in DOMAIN puts }

-----------------------------------------------------------------------------
(* The stock file.                                                         *)

LowerBound(d) ==
  Min({ k \in 1..Len(stock) + 1 : k = Len(stock) + 1 \/ stock[k].date >= d })

\* stock_price_on: the first row of the date, or the last one before it.
PriceOn(d, otherwise) ==
  LET k == LowerBound(d)
  IN  IF k <= Len(stock) /\ stock[k].date = d THEN stock[k].price
      ELSE IF k > 1 THEN stock[k - 1].price ELSE otherwise

Month(d) == (d - 1) \div DaysPerMonth

\* monthly_rebalance_dates: a month begins at a row of another than the row before.
Begins(k) == k = 1 \/ Month(stock[k].date) # Month(stock[k - 1].date)
RebalanceDates == { stock[k].date : k \in { j \in DOMAIN stock : Begins(j) } }
Later(d) == { e \in RebalanceDates : e > d }

FirstPrice == PriceOn(stock[1].date, stock[1].price)

\* run_backtest: without a put or a stock row nothing is run.
Runs == stock # << >> /\ DOMAIN puts # {}

-----------------------------------------------------------------------------
(* The month's trades.                                                     *)

Positive(n) == IF n > 0 THEN n ELSE 0
Shares(money, price) == money * (Unit \div price)

SameContract(q, pos) == q.strike = pos.strike /\ q.expires = pos.expires

\* close_position: intrinsic at expiry; before it the bid, intrinsic if unquoted.
ExitValue(pos, d, price) ==
  LET same == { i \in DOMAIN Chain(d) : SameContract(Chain(d)[i], pos) }
      unit == IF pos.expires <= d
                THEN Positive(pos.strike - PriceOn(pos.expires, price))
                ELSE IF same = {} THEN Positive(pos.strike - price)
                                  ELSE Chain(d)[Min(same)].bid
  IN  unit * pos.contracts

\* The position opened with the budget: a sequence of at most one.
OpenedFrom(d, rows) ==
  LET open(i) == [strike |-> Chain(d)[i].strike, expires |-> Chain(d)[i].expires,
                  ask |-> Chain(d)[i].ask, contracts |-> Budget \div Chain(d)[i].ask,
                  row |-> i]
  IN  SetToSeq({ p \in { open(i) : i \in rows } : p.contracts > 0 })
\* Mutation: the first put in the expiry window, whatever its delta.
OpenedFirst(d) ==
  OpenedFrom(d, { i \in DOMAIN Chain(d) :
    Eligible(Chain(d)[i], d) /\ \A j \in 1..i - 1 : ~Eligible(Chain(d)[j], d) })
Opened(d) == OpenedFrom(d, TargetPuts(d))

Cost(pos) == Total([i \in DOMAIN pos |-> pos[i].ask * pos[i].contracts], Len(pos))
Proceeds(d, price) ==
  Total([i \in DOMAIN position |-> ExitValue(position[i], d, price)], Len(position))

\* What is put back into stock: the budget, less what a put cost.
Leftover(new) == Budget - Cost(new)

MonthRecord(d, price, new, exit) ==
  [date |-> d, shares |-> shares', price |-> price, value |-> shares' * price,
   cost |-> Cost(new), exit |-> exit, pnl |-> exit - Cost(position),
   ratio |-> IF new = << >> THEN <<0, 1>> ELSE Ratio(Chain(d)[new[1].row]),
   strike |-> IF new = << >> THEN 0 ELSE new[1].strike]

\* Mutation: a month in which nothing can be bought keeps the old put.
TradeKeeping(d, price) ==
  LET new  == Opened(d)
      exit == Proceeds(d, price)
  IN  /\ shares' = shares + Shares(exit, price) - Shares(Budget, price) + Shares(Leftover(new), price)
      /\ position' = IF new = << >> THEN position ELSE new
      /\ records' = Append(records, MonthRecord(d, price, new, exit))
Trade(d, price) ==
  LET new  == Opened(d)
      exit == Proceeds(d, price)
  IN  /\ shares' = shares + Shares(exit, price) - Shares(Budget, price) + Shares(Leftover(new), price)
      /\ position' = new
      /\ records' = Append(records, MonthRecord(d, price, new, exit))

-----------------------------------------------------------------------------
(* The monthly loop, and the loop over the rows of a month inside it.      *)

Init ==
  /\ \E f \in Files : stock = f.stock /\ puts = f.puts
  /\ rebal = 0 /\ si = 0
  /\ shares = (IF Runs THEN Shares(Capital, FirstPrice) ELSE 0) /\ position = << >>
  /\ records = << >> /\ daily = << >> /\ done = FALSE

Rebalance ==
  /\ Runs /\ ~done /\ si = 0
  /\ \E d \in Later(rebal) :
       /\ \A e \in Later(rebal) : d <= e
       /\ Trade(d, PriceOn(d, FirstPrice))
       /\ rebal' = d /\ si' = LowerBound(d)
  /\ UNCHANGED <<stock, puts, daily, done>>

\* Mutation: the first row of the next month is still this month's.
MonthOverLate == si <= Len(stock) => \E e \in Later(rebal) : stock[si].date > e
MonthOver == si <= Len(stock) => \E e \in Later(rebal) : stock[si].date >= e

\* A row's balance is the month's shares at its price: the put is not in it.
RecordDay ==
  /\ si # 0 /\ ~MonthOver
  /\ daily' = Append(daily, [date |-> stock[si].date, balance |-> shares * stock[si].price])
  /\ si' = si + 1
  /\ UNCHANGED <<stock, puts, rebal, shares, position, records, done>>

EndMonth ==
  /\ si # 0 /\ MonthOver
  /\ si' = 0
  /\ UNCHANGED <<stock, puts, rebal, shares, position, records, daily, done>>

Return ==
  /\ ~done /\ si = 0 /\ (Runs => Later(rebal) = {})
  /\ done' = TRUE
  /\ UNCHANGED <<stock, puts, rebal, si, shares, position, records, daily>>

Rest == done /\ UNCHANGED vars

Next == Rebalance \/ RecordDay \/ EndMonth \/ Return \/ Rest

Spec == Init /\ [][Next]_vars

-----------------------------------------------------------------------------
(* run_unhedged: the first price's worth of shares on every stock row.     *)

Unhedged ==
  [k \in DOMAIN stock |->
     [date |-> stock[k].date, balance |-> Shares(Capital, stock[1].price) * stock[k].price]]
=============================================================================
