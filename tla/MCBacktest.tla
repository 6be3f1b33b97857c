----------------------------- MODULE MCBacktest -----------------------------
(***************************************************************************)
(* Small instances of Backtest.  A market is any sequence of day states    *)
(* from a named set, so that every order of calm days, crashes, exit       *)
(* signals, vanished contracts, missing prices and dates without option    *)
(* rows is walked; a configuration is a base record with a few fields      *)
(* changed.                                                                *)
(***************************************************************************)
EXTENDS BacktestProperties, TLC

MCTerms == << [type |-> "put", strike |-> 8], [type |-> "put", strike |-> 6],
              [type |-> "call", strike |-> 7] >>

Q(bid, ask, delta, entry, exit) ==
  [bid |-> bid, ask |-> ask, delta |-> delta, entry |-> entry, exit |-> exit]

DayState(opts, prices, spot) ==
  [opts |-> opts, prices |-> prices, spot |-> spot, gated |-> {}]

-----------------------------------------------------------------------------
(* Day states.  Contract 1 and 2 are puts, contract 3 is a call.           *)

\* Contracts 1 and 2 for sale at different prices, stock 1 at 4.
Calm == DayState(1 :> Q(1, 2, -2, {1}, {}) @@ 2 :> Q(1, 1, -1, {1, 2}, {}),
                 1 :> 4, 7)

\* Puts gain, stock falls.
Crash == DayState(1 :> Q(4, 5, -4, {1}, {}) @@ 2 :> Q(2, 4, -3, {1, 2}, {}),
                  1 :> 2, 4)

\* The exit filter of the first leg fires for contract 1 only.
ExitOne == DayState(1 :> Q(1, 3, -2, {}, {1}) @@ 2 :> Q(0, 3, -1, {1}, {}),
                    1 :> 3, 6)

\* Contract 1 has no row; with an exit filter its holder settles at intrinsic.
Delisted == DayState(2 :> Q(1, 2, -1, {2}, {1}) @@ 3 :> Q(1, 3, 2, {1}, {}),
                     1 :> 3, 5)

\* Nothing enters, the stock has no close and there is no spot.
Gap == DayState(2 :> Q(1, 2, -1, {}, {}), << >>, 0)

\* The moving average gates stock 1.
Gated == [Calm EXCEPT !.gated = {1}]

\* No option rows at all: not a date of the options data.
Closed == DayState(<< >>, 1 :> 3, 6)

MCHorizon == 4

Histories(states) ==
  {m \in [1..MCHorizon -> states] : \E d \in 1..MCHorizon : DOMAIN m[d].opts # {}}

-----------------------------------------------------------------------------
(* Configurations.                                                         *)

Put == [dir |-> "buy", exits |-> TRUE]
Short == [dir |-> "sell", exits |-> TRUE]
Kept == [dir |-> "buy", exits |-> FALSE]

\* 70% stocks and 30% options, self-funded, calendar entries, daily exits.
Base == [daily |-> TRUE, when |-> "calendar", rbDates |-> {1, 3},
         legs |-> <<Put>>, budget |-> [kind |-> "alloc", num |-> 3],
         freshSpend |-> FALSE, stockShare |-> 7, weights |-> <<10>>,
         fill |-> "market", optionRate |-> 0, stockRate |-> 0,
         profit |-> None, loss |-> None, maxDelta |-> None,
         maxDrawdown |-> None, maxNotional |-> None,
         stopIfBroke |-> FALSE, reinvest |-> TRUE, capital |-> 40]

\* Calendar entries: daily and fast loops, stacking top-ups, a rebalance date
\* without option rows, kept legs, thresholds, risk limits, mid fills.
CalendarConfigs ==
  { Base,
    [Base EXCEPT !.legs = <<Kept>>, !.profit = 5, !.loss = 5],
    [Base EXCEPT !.maxDelta = 3, !.maxDrawdown = 3],
    [Base EXCEPT !.rbDates = {2, 3, 4}, !.fill = "mid", !.reinvest = FALSE],
    [Base EXCEPT !.daily = FALSE, !.rbDates = {1, 2, 3}],
    [Base EXCEPT !.daily = FALSE, !.rbDates = {2, 3}, !.weights = <<5, 5>>] }

CalendarDays    == {Calm, Crash, ExitOne, Delisted, Gap, Closed}
CalendarMarkets == Histories(CalendarDays)

\* Roll entries, alone and with calendar top-ups, on both loops.
Roll == [Base EXCEPT !.when = "roll"]

RollConfigs ==
  { Roll,
    [Roll EXCEPT !.when = "roll+calendar"],
    [Roll EXCEPT !.rbDates = {2}, !.maxDelta = 4, !.profit = 5],
    [Roll EXCEPT !.budget = [kind |-> "pct", num |-> 2], !.stockShare = 10],
    [Roll EXCEPT !.daily = FALSE, !.rbDates = {1, 2, 3, 4}] }

\* Every funding mode, with commissions, mid fills, top-ups and fresh spends,
\* with and without stocks.
Pct(num)    == [kind |-> "pct", num |-> num]
Annual(num) == [kind |-> "annual", num |-> num]

FundingConfigs ==
  { [Base EXCEPT !.budget = Pct(2), !.stockShare = 10, !.optionRate = 1],
    [Base EXCEPT !.budget = Annual(9), !.stockShare = 0, !.optionRate = 1,
                 !.fill = "mid", !.rbDates = {1, 2, 4}],
    [Base EXCEPT !.freshSpend = TRUE, !.optionRate = 1, !.stockRate = 1,
                 !.stopIfBroke = TRUE],
    [Base EXCEPT !.stockShare = 0, !.weights = << >>, !.optionRate = 1,
                 !.when = "roll+calendar"],
    [Base EXCEPT !.budget = Pct(3), !.stockShare = 0, !.daily = FALSE,
                 !.rbDates = {1, 2, 3}, !.fill = "mid", !.freshSpend = TRUE] }

\* Short legs under a notional limit: naked shorts that stack, and a spread.
Writing == [Base EXCEPT !.legs = <<Short>>, !.maxNotional = 15, !.stockShare = 5,
                        !.freshSpend = TRUE, !.rbDates = {1, 2, 3}]
Spread  == [Base EXCEPT !.legs = <<Put, Short>>, !.maxNotional = 10,
                        !.rbDates = {1, 2, 3}, !.budget = Pct(4)]

ShortConfigs ==
  { Writing, [Writing EXCEPT !.daily = FALSE, !.budget = Pct(5)], Spread,
    [Spread EXCEPT !.freshSpend = TRUE, !.fill = "mid"] }

\* All of these on one set of histories.
ModesConfigs == RollConfigs \cup FundingConfigs \cup ShortConfigs
ModesMarkets == Histories(CalendarDays \cup {Gated})

-----------------------------------------------------------------------------
(* Instances of the claims the code does not meet.                         *)

StaleDeltaConfigs == {[Roll EXCEPT !.maxDelta = 6, !.rbDates = {1}]}
=============================================================================
