------------------------- MODULE BacktestProperties -------------------------
(***************************************************************************)
(* What the backtest loop promises: of its books, its money, its limits    *)
(* and the curve it reports.  The last section states what a comment of    *)
(* the repository says and the code does not do.                           *)
(***************************************************************************)
EXTENDS Backtest

-----------------------------------------------------------------------------
(* Types.                                                                  *)

Phases == {"advance", "rebalance", "ordinary", "backfill", "tail", "exits",
           "mark", "roll", "stocks", "reinvest", "calendar", "broke", "record",
           "finish", "done"}

Position == [contract : [Legs -> Contracts], qty : Nat \ {0},
             entryCost : Int, delta : Int]

Holding == [qty : Int, price : Nat]

Trade == [id : 1..attempts, side : {"open", "close"}, date : Dates, cost : Int,
          qty : Nat \ {0}, contract : [Legs -> Contracts]]

Lot == [qty : Int, value : Int]

Row == [date : Dates, cash : Int, calls : Int, puts : Int, optionsQty : Int,
        stocks : [Symbols -> Lot \cup {None}]]

InputsOK == cfg \in Configs /\ mkt \in Markets

ControlOK ==
  pc \in Phases /\ day \in 0..Horizon /\ fill \in 0..Horizon + 1 /\ stopped \in BOOLEAN

BookOK ==
  /\ cash \in Int
  /\ Partial(positions, 1..attempts, Position)
  /\ Partial(holdings, Symbols, Holding)

MarksOK == peak \in Int /\ greeks \in Int /\ total \in Int /\ cashBefore \in Int

CountersOK == attempts \in Nat /\ unfilled \in 0..attempts

LogsOK == trades \subseteq Trade /\ balance \in Seq(Row)

\* Every variable stays in its domain: quantities of live positions are
\* positive, books are keyed by attempts that were made and symbols that are
\* configured, and no more entries go unfilled than were attempted.
TypeOK == InputsOK /\ ControlOK /\ BookOK /\ MarksOK /\ CountersOK /\ LogsOK

-----------------------------------------------------------------------------
(* The book of options.                                                    *)

\* Pure roll mode never holds two positions: an entry is attempted only on a
\* flat book and rebalance dates open nothing (WhenToBuy::Roll, "at most one
\* position is live at a time"), whatever the two loops interleave.
RollHoldsAtMostOne ==
  cfg.when = "roll" => \A p, q \in DOMAIN positions : p = q

\* A flat book in a roll mode is never left flat while the day offers a way
\* out: on every date with option rows that ends flat, there was no budget, or
\* no affordable candidate, or the selector could pick one the limits refuse.
\* The roll retries on every flat date, not only on the date of the exit.
RollSelfHeals ==
  pc = "record" /\ Rolls /\ Flat /\ day \in QuotedDates =>
    \/ ScaledBudget(0) <= 0
    \/ LET picks == Picks(Budget(0))
       IN  picks # {} => \E pick \in picks : ~Tradable(pick, Budget(0))

\* No contract is held by two positions: entries skip what is held, over
\* every mixture of stacking top-ups, partial exits and rolls.  Distinct legs
\* of one position may share a contract; the code does not rule that out.
NoContractHeldTwice ==
  \A p, q \in DOMAIN positions : \A i, j \in Legs :
    p # q => positions[p].contract[i] # positions[q].contract[j]

Opens  == {t \in trades : t.side = "open"}
Closes == {t \in trades : t.side = "close"}

\* The trade log and the live book tell one story: the live positions are the
\* entries not yet closed, each as it was opened; nothing is closed twice, in
\* part, or on the date it was opened; every attempt either opened a position
\* or is counted as unfilled.
BookIsReplayOfTrades ==
  /\ DOMAIN positions = {t.id : t \in Opens} \ {t.id : t \in Closes}
  /\ \A s, t \in trades : s.id = t.id /\ s.side = t.side => s = t
  /\ \A t \in Closes : \E s \in Opens :
       /\ s.id = t.id /\ s.date < t.date
       /\ s.qty = t.qty /\ s.contract = t.contract
  /\ \A p \in DOMAIN positions : \E s \in Opens :
       /\ s.id = p /\ s.cost = positions[p].entryCost
       /\ s.qty = positions[p].qty /\ s.contract = positions[p].contract
  /\ Cardinality(Opens) = attempts - unfilled

-----------------------------------------------------------------------------
(* Money.                                                                  *)

\* What an external budget has paid for the live positions and takes back
\* out of their proceeds.
OutstandingBasis ==
  IF External THEN Total([p \in DOMAIN positions |->
                            positions[p].entryCost * positions[p].qty], attempts)
              ELSE 0

\* The account as a reader of the balance sheet sees it, net of that basis.
Wealth == cash + StockValue(today, holdings, Len(cfg.weights)) + OptionsCap
            - OutstandingBasis

\* What the trades of one step may cost: the commission of an exit; the
\* spread of an entry and, unless the budget paid it, its commission.
TradeFriction(t) ==
  IF t.side = "close" THEN Commission(cfg.optionRate, t.qty)
  ELSE (t.cost + PositionExitCost(today, cfg.legs, t)) * t.qty
         + IF External THEN 0 ELSE Commission(cfg.optionRate, t.qty)

BuysStocks == pc = "stocks" \/ (pc = "reinvest" /\ Freed)

\* The trades of S keyed by the entry attempt they belong to, when they are
\* all of one side.
ByAttempt(S) == [p \in {t.id : t \in S} |-> CHOOSE t \in S : t.id = p]

\* What op says of each of them, added up.
LogTotal(op(_), S) ==
  Total([p \in DOMAIN ByAttempt(S) |-> op(ByAttempt(S)[p])], attempts)

NewTrades == trades' \ trades

Friction ==
  Total([p \in DOMAIN ByAttempt(NewTrades) |-> TradeFriction(ByAttempt(NewTrades)[p])],
        attempts')
    + IF BuysStocks
      THEN StockCommission(cfg.stockRate, holdings', Len(cfg.weights)) ELSE 0

AllPriced == DOMAIN holdings \subseteq DOMAIN today.prices

\* Within a date no phase creates or destroys money: wealth changes only by
\* the commissions and spreads of the trades made, in every funding mode
\* (the class A invariant, extended from exits to entries and stocks).  It is
\* claimed for dates that price every stock held.
Conservation ==
  [][day' = day /\ day > 0 /\ AllPriced => Wealth' = Wealth - Friction]_vars

TradeCash(t) == -(t.cost * t.qty) - Commission(cfg.optionRate, t.qty)

RealizedCash(t) ==
  TradeCash(t) - (CHOOSE s \in Opens : s.id = t.id).cost * t.qty

\* Over a whole run, cash is what the trade log says: with an external budget
\* the realized profit of the closed trades and nothing of the open ones,
\* self-funded the cash of every trade.  Claimed where no stock is bought or
\* sold short: a self-funded account in debt is allotted less than nothing.
NoStocksTraded == Symbols = {} \/ (External /\ cfg.stockShare = 0)

CashFollowsTradeLog ==
  NoStocksTraded =>
    cash = cfg.capital + IF External THEN LogTotal(RealizedCash, Closes)
                         ELSE LogTotal(TradeCash, Opens) + LogTotal(TradeCash, Closes)

WeightSum == Total(cfg.weights, Len(cfg.weights))

\* The quotes of the history are not crossed.
Uncrossed ==
  \A d \in Dates : \A c \in DOMAIN mkt[d].opts : mkt[d].opts[c].bid <= mkt[d].opts[c].ask

\* A self-funded account that buys on the calendar, holds no shorts, pays no
\* commissions, and is not promised a mid above the ask it is sized by.
CashAccount ==
  /\ ~External /\ ~cfg.freshSpend /\ cfg.when = "calendar"
  /\ \A l \in Legs : cfg.legs[l].dir = "buy"
  /\ cfg.optionRate = 0 /\ cfg.stockRate = 0
  /\ cfg.stockShare + cfg.budget.num <= DEN /\ WeightSum <= DEN
  /\ cfg.fill = "market" \/ Uncrossed

\* Such an account never spends cash it does not have: the stock allocation is
\* capped by what is not locked in options, and the top-up by what the stocks
\* leave, even when the allocations add up to all of the capital.
NoOverdraft == CashAccount => cash >= 0

-----------------------------------------------------------------------------
(* Limits.                                                                 *)

Entered == attempts' = attempts + 1 /\ unfilled' = unfilled

\* MaxDelta bounds the delta of the book that results from an entry, marked at
\* the quotes of the day, when entries follow the calendar.
DeltaLimitHonoured ==
  [][Entered /\ cfg.maxDelta # None /\ cfg.when = "calendar" =>
       Magnitude(MarketDelta(today, cfg.legs, positions', attempts'))
         <= cfg.maxDelta]_vars

\* What the account would pay if every short contract were assigned.
ShortExposure ==
  Total([p \in DOMAIN positions |->
           positions[p].qty * ShortNotional(positions[p].contract)], attempts)

\* Whatever was held before, the short notional of the whole book after an
\* entry is within max_notional_pct of the capital of the date.
NotionalLimitHonoured ==
  [][Entered /\ cfg.maxNotional # None /\ ShortExposure' > ShortExposure =>
       DEN * ShortExposure' <= cfg.maxNotional * total]_vars

-----------------------------------------------------------------------------
(* The curve.                                                              *)

\* From the first rebalance up to the last date of the data, which gets a row
\* only when the fast path is given a later rebalance date to backfill from.
CurveDates ==
  LET end == IF cfg.daily THEN LastDate ELSE Max({LastDate, Max(cfg.rbDates)})
  IN  {d \in QuotedDates : FirstRb <= d /\ d < end}

\* What a row shows of the book, prices aside.
Quantities(stocks) ==
  [s \in {c \in DOMAIN stocks : stocks[c] # None} |-> stocks[s].qty]

Shown == <<cash, Total([p \in DOMAIN positions |-> positions[p].qty], attempts),
           [s \in DOMAIN holdings |-> holdings[s].qty]>>

ShownRow(r) == [date |-> r.date,
                book |-> <<r.cash, r.optionsQty, Quantities(r.stocks)>>]

Curve == INSTANCE EquityCurve WITH
           calendar <- IF cfg.rbDates = {} THEN {} ELSE CurveDates,
           clock    <- day,
           book     <- Shown,
           rows     <- [i \in DOMAIN balance |-> ShownRow(balance[i])]

\* Either loop publishes the curve in order, without holes and without look
\* ahead, although one records live and the other backfills.
ImplementsEquityCurve == Curve!Spec

\* A run that was not stopped has one row for every date of the curve and for
\* no other, in the order of their dates.
CurveComplete ==
  pc = "done" /\ cfg.rbDates # {} /\ ~stopped =>
    /\ {balance[i].date : i \in DOMAIN balance} = CurveDates
    /\ \A i, j \in DOMAIN balance : i < j => balance[i].date < balance[j].date

\* A row values options as the trading phases of its date do: the calls and
\* puts of the balance sheet add up to what leaving every position would pay.
RowsMarkAtExitValue ==
  LET n == Len(balance)
  IN  pc \in {"advance", "finish"} /\ n > 0 /\ balance[n].date = day =>
        balance[n].calls + balance[n].puts = OptionsCap

\* The loop always comes to its end: no date is walked for ever, rebalance
\* dates without option rows included.
Termination == <>(pc = "done")

-----------------------------------------------------------------------------
(* Claims of the repository that the code does not meet.                   *)

\* The live book with an entry added is within MaxDelta.
LiveDeltaFits(pick, qty) ==
  Magnitude(MarketDelta(today, cfg.legs, positions, attempts)
              + EntryDelta(pick) * qty) <= cfg.maxDelta

\* "Reject trades that would push portfolio delta beyond a limit"
\* (RiskConstraint::MaxDelta): a roll entry is refused only when the market
\* offers nothing, the quantity is zero, or the book it would leave breaks the
\* limit.  The code adds it to a delta that still counts closed positions.
RefusalsAreJustified ==
  [][pc = "roll" /\ unfilled' > unfilled
       /\ cfg.maxDelta # None /\ cfg.maxDrawdown = None
       /\ Picks(Budget(0)) # {}
     => \E pick \in Picks(Budget(0)) :
          LET qty == Quantity(pick, Budget(0))
          IN  qty = 0 \/ ~LiveDeltaFits(pick, qty)]_vars
=============================================================================
