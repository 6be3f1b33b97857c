----------------------------- MODULE Valuation ------------------------------
(***************************************************************************)
(* The pure pricing rules of the backtest core: what a leg costs to enter, *)
(* what a position costs to leave, what stock and option holdings are      *)
(* worth on a day, and what a trade pays in commission.                    *)
(*                                                                         *)
(* Money is an integer.  A day of market data is a record                  *)
(*   opts    the option rows of the day, keyed by contract: bid, ask,      *)
(*           delta, and the legs whose entry and exit filters the row      *)
(*           passes (a filter is a predicate of the row, so its verdict is *)
(*           data);                                                        *)
(*   prices  the close of every stock symbol quoted that day;              *)
(*   spot    the unadjusted close of the underlying, 0 when unavailable;   *)
(*   gated   the symbols whose moving average is at or above their price.  *)
(* A leg is a record [dir, exits]: its direction and whether it has an     *)
(* exit filter.                                                            *)
(***************************************************************************)
EXTENDS Totals, Sequences

CONSTANTS
  Terms,   \* the contracts and their fixed terms: type and strike
  Stocks,  \* the stock symbols, as places in the portfolio's list
  SPC,     \* shares per contract
  DEN,     \* fractions of capital are numerators over DEN
  None     \* a limit that is not set

Contracts == DOMAIN Terms

ASSUME ValuationAssumption ==
  /\ Contracts \subseteq Nat
  /\ Terms \in [Contracts -> [type : {"call", "put"}, strike : Nat]]
  /\ Stocks \subseteq Nat
  /\ SPC \in Nat \ {0} /\ SPC % 2 = 0
  /\ DEN \in Nat \ {0}
  /\ None \notin Int

Quote == [bid : Nat, ask : Nat, delta : Int,
          entry : SUBSET Nat, exit : SUBSET Nat]

\* f is a function to T from a part of S.
Partial(f, S, T) == DOMAIN f \subseteq S /\ f \in [DOMAIN f -> T]

IsDay(d) ==
  /\ Partial(d.opts, Contracts, Quote)
  /\ Partial(d.prices, Stocks, Nat)
  /\ d.spot \in Nat
  /\ d.gated \subseteq Stocks

Leg == [dir : {"buy", "sell"}, exits : BOOLEAN]

-----------------------------------------------------------------------------
(* Entering: a long leg pays the ask, a short leg is paid the bid.         *)

EntrySign(dir) == IF dir = "buy" THEN 1 ELSE -1

\* The candidate cost column of compute_leg_entries, which sizing uses.
LegCost(today, leg, c) ==
  EntrySign(leg.dir)
    * (IF leg.dir = "buy" THEN today.opts[c].ask ELSE today.opts[c].bid) * SPC

\* The cost after the fill model re-prices it, which cash pays.
FillCost(today, leg, c, fillModel) ==
  IF fillModel = "mid"
  THEN EntrySign(leg.dir)
         * ((today.opts[c].bid + today.opts[c].ask) * (SPC \div 2))
  ELSE LegCost(today, leg, c)

-----------------------------------------------------------------------------
(* Leaving: a long leg is sold at the bid, a short leg bought at the ask;  *)
(* a contract without a row is settled at intrinsic value.                 *)

Intrinsic(c, spot) ==
  LET gain == IF Terms[c].type = "call" THEN spot - Terms[c].strike
                                        ELSE Terms[c].strike - spot
  IN  IF spot > 0 /\ gain > 0 THEN gain ELSE 0

ExitPrice(today, dir, c) ==
  IF c \in DOMAIN today.opts
  THEN IF dir = "buy" THEN today.opts[c].bid ELSE today.opts[c].ask
  ELSE Intrinsic(c, today.spot)

\* Cost of closing one unit of the position: negative when closing pays.
PositionExitCost(today, legs, p) ==
  Total([j \in 1..Len(legs) |->
           -EntrySign(legs[j].dir) * ExitPrice(today, legs[j].dir, p.contract[j])
             * SPC],
        Len(legs))

\* Mutation: the balance row marks a leg at the side it was entered on.
PositionCapitalAtEntrySide(today, legs, p, type) ==
  Total([j \in {i \in 1..Len(legs) : Terms[p.contract[i]].type = type} |->
           EntrySign(legs[j].dir)
             * ExitPrice(today, IF legs[j].dir = "buy" THEN "sell" ELSE "buy",
                         p.contract[j])
             * p.qty * SPC],
        Len(legs))

\* Mark-to-market value of the legs of one type ("call" or "put").
PositionCapital(today, legs, p, type) ==
  Total([j \in {i \in 1..Len(legs) : Terms[p.contract[i]].type = type} |->
           EntrySign(legs[j].dir) * ExitPrice(today, legs[j].dir, p.contract[j])
             * p.qty * SPC],
        Len(legs))

\* Market value of positions, a partial function on 1..n.
OptionsCapital(today, legs, positions, n) ==
  Total([i \in DOMAIN positions |->
           -PositionExitCost(today, legs, positions[i]) * positions[i].qty], n)

\* A contract without a row counts for nothing in the portfolio delta.
MarketDelta(today, legs, positions, n) ==
  Total([i \in DOMAIN positions |->
           Total([j \in {l \in 1..Len(legs) :
                           positions[i].contract[l] \in DOMAIN today.opts} |->
                    today.opts[positions[i].contract[j]].delta
                      * EntrySign(legs[j].dir) * positions[i].qty],
                 Len(legs))], n)

-----------------------------------------------------------------------------
(* Stocks.  compute_stock_capital takes a symbol with no close today as    *)
(* worth nothing; the balance row takes the price it was bought at.        *)

StockCapital(today, holdings, n) ==
  Total([s \in DOMAIN holdings |->
           (IF s \in DOMAIN today.prices THEN today.prices[s] ELSE 0)
             * holdings[s].qty], n)

MarkPrice(today, holdings, s) ==
  IF s \in DOMAIN today.prices THEN today.prices[s] ELSE holdings[s].price

StockValue(today, holdings, n) ==
  Total([s \in DOMAIN holdings |->
           MarkPrice(today, holdings, s) * holdings[s].qty], n)

\* alloc is scaled by DEN, the weights are numerators over DEN.
StockOrder(today, alloc, weights) ==
  [s \in {i \in 1..Len(weights) :
            i \in DOMAIN today.prices /\ today.prices[i] > 0} |->
     [qty   |-> IF s \in today.gated
                THEN 0
                ELSE (alloc * weights[s]) \div (DEN * DEN * today.prices[s]),
      price |-> today.prices[s]]]

StockCost(order, n) ==
  Total([s \in DOMAIN order |-> order[s].qty * order[s].price], n)

Commission(rate, qty) == rate * Magnitude(qty)

StockCommission(rate, order, n) ==
  Total([s \in DOMAIN order |-> Commission(rate, order[s].qty)], n)
=============================================================================
