------------------------------ MODULE Backtest ------------------------------
(***************************************************************************)
(* The single-strategy loop of the backtest core:                          *)
(* run_backtest_with_filters, rebalance_date, try_enter_options,           *)
(* execute_exits, execute_entries, buy_stocks and the balance recorders.   *)
(*                                                                         *)
(* The program is sequential.  What is hard about it is the order: a date  *)
(* is a sequence of phases (exits, marking, roll entry, stocks, calendar   *)
(* entry, broke check, record) over shared books, walked by two different  *)
(* loops, with values read in one phase and used in a later one.  Each     *)
(* action is one phase; pc says which comes next.  The inputs, a           *)
(* configuration and a market, are chosen at the start and never change.   *)
(***************************************************************************)
EXTENDS Valuation, Sequences, FiniteSets, FiniteSetsExt

CONSTANTS
  Horizon,   \* the calendar: dates 1..Horizon
  YearLen,   \* dates in a year, for the annual budget
  Configs,   \* the configurations to run
  Markets    \* the market histories to run them on

Dates == 1..Horizon

Limit == Nat \cup {None}

Config == [daily       : BOOLEAN,
           when        : {"calendar", "roll", "roll+calendar"},
           rbDates     : SUBSET Dates,
           legs        : Seq(Leg),
           budget      : [kind : {"alloc", "pct", "annual"}, num : Nat],
           freshSpend  : BOOLEAN,
           stockShare  : Nat,
           weights     : Seq(Nat),
           fill        : {"market", "mid"},
           optionRate  : Nat,
           stockRate   : Nat,
           profit      : Limit,
           loss        : Limit,
           maxDelta    : Limit,
           maxDrawdown : Limit,
           maxNotional : Limit,
           stopIfBroke : BOOLEAN,
           reinvest    : BOOLEAN,
           capital     : Nat]

ASSUME BacktestAssumption ==
  /\ Horizon \in Nat \ {0}
  /\ YearLen \in Nat \ {0}
  /\ \A c \in Configs : c \in Config
  /\ \A m \in Markets :
       /\ DOMAIN m = Dates
       /\ \A d \in Dates : IsDay(m[d])
       /\ \E d \in Dates : DOMAIN m[d].opts # {}
  /\ None \notin [qty : Int, value : Int]

VARIABLES
  cfg, mkt,     \* the inputs
  pc,           \* the phase of the loop about to run
  day,          \* the date being walked, 0 before the first
  fill,         \* the next date a backfill looks at (fast path)
  stopped,      \* stop_if_broke has fired
  cash, positions, holdings,
  peak,         \* peak_value
  greeks,       \* portfolio_greeks, its delta
  total,        \* total_capital of the date, read by later phases
  cashBefore,   \* cash at the start of an ordinary day
  attempts, unfilled,
  trades,       \* trade_rows, keyed by the entry attempt they belong to
  balance       \* balance_days

inputs   == <<cfg, mkt>>
control  == <<pc, day, fill, stopped>>
book     == <<cash, positions, holdings>>
marks    == <<peak, greeks, total, cashBefore>>
counters == <<attempts, unfilled>>
logs     == <<trades, balance>>
vars     == <<inputs, control, book, marks, counters, logs>>

-----------------------------------------------------------------------------
(* What the phases read.                                                   *)

today == mkt[day]

\* all_dates_sorted: the dates with option rows.
QuotedDates == {d \in Dates : DOMAIN mkt[d].opts # {}}
LastDate    == Max(QuotedDates)
FirstRb     == Min(cfg.rbDates)

Rolls           == cfg.when \in {"roll", "roll+calendar"}
\* Mutation: rebalance dates open positions in every mode.
CalendarEntriesAlways == cfg.when \in {"calendar", "roll", "roll+calendar"}

CalendarEntries == cfg.when \in {"calendar", "roll+calendar"}
External        == cfg.budget.kind \in {"pct", "annual"}
Rebalancing     == day \in cfg.rbDates
Flat            == DOMAIN positions = {}

\* The daily loop walks every quoted date, the fast path the rebalance dates.
WalkedDates == IF cfg.daily THEN QuotedDates ELSE cfg.rbDates

PrevRb == LET earlier == {d \in cfg.rbDates : d < day}
          IN  IF earlier = {} THEN day ELSE Max(earlier)

Symbols == 1..Len(cfg.weights)
Legs    == 1..Len(cfg.legs)

StockCap   == StockCapital(today, holdings, Len(cfg.weights))
OptionsCap == OptionsCapital(today, cfg.legs, positions, attempts)
ExitCost(p) == PositionExitCost(today, cfg.legs, positions[p])

-----------------------------------------------------------------------------
(* Balance rows.                                                           *)

SideCapital(d, type) ==
  Total([p \in DOMAIN positions |->
           PositionCapital(mkt[d], cfg.legs, positions[p], type)], attempts)

\* stock_qtys and stock_values: an entry for each holding.
Lots(d) ==
  [s \in Symbols |->
     IF s \in DOMAIN holdings
     THEN [qty   |-> holdings[s].qty,
           value |-> MarkPrice(mkt[d], holdings, s) * holdings[s].qty]
     ELSE None]

BalanceDay(d) ==
  [date       |-> d,
   cash       |-> cash,
   calls      |-> SideCapital(d, "call"),
   puts       |-> SideCapital(d, "put"),
   stocks     |-> Lots(d),
   optionsQty |-> Total([p \in DOMAIN positions |-> positions[p].qty], attempts)]

\* compute_balance_period walks [start, end) one date at a time, from fill.
BackfillEnd == IF pc = "tail" THEN LastDate ELSE day
Pending     == {d \in QuotedDates : fill <= d /\ d < BackfillEnd}

BackfillRow ==
  /\ pc \in {"backfill", "tail"}
  /\ Pending # {}
  /\ balance' = Append(balance, BalanceDay(Min(Pending)))
  /\ fill' = Min(Pending) + 1
  /\ UNCHANGED <<pc, day, stopped, book, marks, counters, trades>>

\* Mutation: a skipped date is tried again.
BackfillDoneRetrying ==
  /\ pc \in {"backfill", "tail"}
  /\ Pending = {}
  /\ pc' = IF pc = "tail" THEN "done"
           ELSE IF day \in QuotedDates THEN "exits" ELSE pc
  /\ UNCHANGED <<day, fill, stopped, book, marks, counters, logs>>

\* A rebalance date without option rows ends here: SkipDate.
BackfillDone ==
  /\ pc \in {"backfill", "tail"}
  /\ Pending = {}
  /\ pc' = IF pc = "tail" THEN "done"
           ELSE IF day \in QuotedDates THEN "exits" ELSE "record"
  /\ UNCHANGED <<day, fill, stopped, book, marks, counters, logs>>

-----------------------------------------------------------------------------
(* The loop over dates.                                                    *)

NextDate ==
  /\ pc = "advance"
  /\ LET later == {d \in WalkedDates : d > day}
     IN  /\ later # {}
         /\ day' = Min(later)
  /\ pc' = IF day' \in cfg.rbDates THEN "rebalance" ELSE "ordinary"
  /\ UNCHANGED <<fill, stopped, book, marks, counters, logs>>

EndOfDates ==
  /\ pc = "advance"
  /\ {d \in WalkedDates : d > day} = {}
  /\ pc' = "finish"
  /\ UNCHANGED <<day, fill, stopped, book, marks, counters, logs>>

\* Mutation: the daily loop backfills at the next rebalance too.
BeginRebalanceBackfilling ==
  /\ pc = "rebalance"
  /\ pc' = "backfill" /\ fill' = PrevRb
  /\ UNCHANGED <<day, stopped, book, marks, counters, logs>>

\* The fast path first writes the rows of the period that ends today.
BeginRebalance ==
  /\ pc = "rebalance"
  /\ IF cfg.daily THEN pc' = "exits" /\ UNCHANGED fill
                  ELSE pc' = "backfill" /\ fill' = PrevRb
  /\ UNCHANGED <<day, stopped, book, marks, counters, logs>>

\* Mutation: a flat book is not looked at between rebalances.
BeginOrdinaryDayHolding ==
  /\ pc = "ordinary"
  /\ pc' = IF ~Flat THEN "exits" ELSE "record"
  /\ cashBefore' = cash
  /\ UNCHANGED <<day, fill, stopped, book, peak, greeks, total, counters, logs>>

BeginOrdinaryDay ==
  /\ pc = "ordinary"
  /\ pc' = IF ~Flat \/ Rolls THEN "exits" ELSE "record"
  /\ cashBefore' = cash
  /\ UNCHANGED <<day, fill, stopped, book, peak, greeks, total, counters, logs>>

\* Mutation: the first rebalance date gets no row.
RecordDayLate ==
  /\ pc = "record"
  /\ balance' = IF cfg.daily /\ FirstRb < day /\ day < LastDate
                THEN Append(balance, BalanceDay(day))
                ELSE balance
  /\ pc' = IF stopped THEN "finish" ELSE "advance"
  /\ UNCHANGED <<day, fill, stopped, book, marks, counters, trades>>

\* Daily rows: only from the first rebalance date, never the last date.
RecordDay ==
  /\ pc = "record"
  /\ balance' = IF cfg.daily /\ FirstRb <= day /\ day < LastDate
                THEN Append(balance, BalanceDay(day))
                ELSE balance
  /\ pc' = IF stopped THEN "finish" ELSE "advance"
  /\ UNCHANGED <<day, fill, stopped, book, marks, counters, trades>>

Finish ==
  /\ pc = "finish"
  /\ IF cfg.daily THEN pc' = "done" /\ UNCHANGED fill
                  ELSE pc' = "tail" /\ fill' = Max(cfg.rbDates)
  /\ UNCHANGED <<day, stopped, book, marks, counters, logs>>

-----------------------------------------------------------------------------
(* Exits.                                                                  *)

\* A leg with an exit filter leaves when its row passes it or has gone.
FilterExit(p) ==
  \E j \in Legs :
    LET c == positions[p].contract[j]
    IN  cfg.legs[j].exits /\ (c \in DOMAIN today.opts => j \in today.opts[c].exit)

\* The return on the entry cost, (curr / entry + 1) * -sign(entry), against
\* the profit and loss thresholds, multiplied out.
ThresholdExit(p) ==
  LET entry == positions[p].entryCost
      gain  == -(ExitCost(p) + entry)
  IN  /\ entry # 0
      /\ \/ cfg.profit # None /\ gain * DEN >= cfg.profit * Magnitude(entry)
         \/ cfg.loss # None   /\ gain * DEN <= -(cfg.loss * Magnitude(entry))

ShouldExit(p) == FilterExit(p) \/ ThresholdExit(p)

\* Mutation: the whole sale value of an externally funded entry is kept.
BasisReturnDropped(p) == 0

\* An external budget paid for the entry, so its cost goes back out of the
\* proceeds and cash keeps the realized profit or loss.
BasisReturn(p) == IF External THEN positions[p].entryCost * positions[p].qty ELSE 0

ExitCashFlow(p) ==
  -(ExitCost(p) * positions[p].qty) - BasisReturn(p)
    - Commission(cfg.optionRate, positions[p].qty)

CloseTrade(p) ==
  [id |-> p, side |-> "close", date |-> day, cost |-> ExitCost(p),
   qty |-> positions[p].qty, contract |-> positions[p].contract]

\* Mutation: a closed position stays in the book.
ExecuteExitsKeeping ==
  /\ pc = "exits"
  /\ LET closing == {p \in DOMAIN positions : ShouldExit(p)}
     IN  /\ cash' = cash + Total([p \in closing |-> ExitCashFlow(p)], attempts)
         /\ trades' = trades \cup {CloseTrade(p) : p \in closing}
  /\ pc' = "mark"
  /\ UNCHANGED <<day, fill, stopped, positions, holdings, marks, counters, balance>>

ExecuteExits ==
  /\ pc = "exits"
  /\ LET closing == {p \in DOMAIN positions : ShouldExit(p)}
     IN  /\ cash' = cash + Total([p \in closing |-> ExitCashFlow(p)], attempts)
         /\ positions' = [p \in DOMAIN positions \ closing |-> positions[p]]
         /\ trades' = trades \cup {CloseTrade(p) : p \in closing}
  /\ pc' = "mark"
  /\ UNCHANGED <<day, fill, stopped, holdings, marks, counters, balance>>

-----------------------------------------------------------------------------
(* Marking the portfolio.                                                  *)

\* Mutation: the portfolio delta is not marked to the quotes of the date.
MarkPortfolioStale ==
  /\ pc = "mark" /\ Rebalancing
  /\ total' = cash + StockCap + OptionsCap
  /\ peak' = Max({peak, total'})
  /\ pc' = IF Rolls /\ Flat THEN "roll" ELSE "stocks"
  /\ UNCHANGED <<day, fill, stopped, book, greeks, cashBefore, counters, logs>>

MarkPortfolio ==
  /\ pc = "mark" /\ Rebalancing
  /\ greeks' = MarketDelta(today, cfg.legs, positions, attempts)
  /\ total' = cash + StockCap + OptionsCap
  /\ peak' = Max({peak, total'})
  /\ pc' = IF Rolls /\ Flat THEN "roll" ELSE "stocks"
  /\ UNCHANGED <<day, fill, stopped, book, cashBefore, counters, logs>>

\* On an ordinary day the portfolio is only marked to size a roll entry.
MarkForRoll ==
  /\ pc = "mark" /\ ~Rebalancing
  /\ Rolls /\ Flat
  /\ total' = cash + StockCap
  /\ peak' = Max({peak, total'})
  /\ pc' = "roll"
  /\ UNCHANGED <<day, fill, stopped, book, greeks, cashBefore, counters, logs>>

NoRoll ==
  /\ pc = "mark" /\ ~Rebalancing
  /\ ~(Rolls /\ Flat)
  /\ pc' = "reinvest"
  /\ UNCHANGED <<day, fill, stopped, book, marks, counters, logs>>

-----------------------------------------------------------------------------
(* Entries: try_enter_options and execute_entries.                         *)

\* The share of total capital an entry may spend, as a fraction.
BudgetShare ==
  CASE cfg.budget.kind = "annual" /\ Cardinality(cfg.rbDates) >= 2 ->
         [num |-> cfg.budget.num * (Max(cfg.rbDates) - Min(cfg.rbDates)),
          den |-> DEN * YearLen * Cardinality(cfg.rbDates)]
    [] OTHER -> [num |-> cfg.budget.num, den |-> DEN]

\* remaining_budget, scaled by the denominator of the share.
ScaledBudget(optionsCap) ==
  total * BudgetShare.num
    - (IF cfg.freshSpend THEN 0 ELSE optionsCap * BudgetShare.den)

\* Entry costs are integers, so the floor buys the same quantities.
Budget(optionsCap) == ScaledBudget(optionsCap) \div BudgetShare.den

\* Mutation: held contracts are not excluded.
HeldIgnored == {}

Held == UNION {{positions[p].contract[j] : j \in Legs} : p \in DOMAIN positions}

\* compute_leg_entries: the rows a leg may enter, in row order.
Candidates(l) == {c \in DOMAIN today.opts \ Held : l \in today.opts[c].entry}

RowOf(S, c) == Cardinality({b \in S : b <= c})
AtRow(S, r) == CHOOSE c \in S : RowOf(S, c) = r

\* The candidate lists are aligned by row; a row whose combined cost the
\* budget cannot buy once is dropped from every leg.
RowCost(r) ==
  Total([l \in Legs |-> LegCost(today, cfg.legs[l], AtRow(Candidates(l), r))],
        Len(cfg.legs))

AffordableRows(budget) ==
  {r \in 1..Cardinality(Contracts) :
     /\ \A l \in Legs : r <= Cardinality(Candidates(l))
     /\ RowCost(r) # 0
     /\ budget \div Magnitude(RowCost(r)) >= 1}

\* The signal selector of each leg picks one of the remaining rows; which
\* one depends on columns the model does not carry.
Picks(budget) ==
  {pick \in [Legs -> DOMAIN today.opts] :
     \A l \in Legs : /\ pick[l] \in Candidates(l)
                     /\ RowOf(Candidates(l), pick[l]) \in AffordableRows(budget)}

OriginalCost(pick) ==
  Total([l \in Legs |-> LegCost(today, cfg.legs[l], pick[l])], Len(cfg.legs))

EntryCost(pick) ==
  Total([l \in Legs |-> FillCost(today, cfg.legs[l], pick[l], cfg.fill)],
        Len(cfg.legs))

EntryDelta(pick) ==
  Total([l \in Legs |-> today.opts[pick[l]].delta * EntrySign(cfg.legs[l].dir)],
        Len(cfg.legs))

\* Short notional of one unit of a combination of contracts.
ShortNotional(contract) ==
  Total([l \in {j \in Legs : cfg.legs[j].dir = "sell"} |->
           Terms[contract[l]].strike * SPC], Len(cfg.legs))

\* Mutation: the notional limit forgets the positions already held.
BookShortNotionalIgnored == 0

BookShortNotional ==
  Total([p \in DOMAIN positions |->
           ShortNotional(positions[p].contract) * positions[p].qty], attempts)

\* Units that still fit under max_notional_pct of total capital.
NotionalRoom(pick) ==
  Max({cfg.maxNotional * total - DEN * BookShortNotional, 0})
    \div (DEN * ShortNotional(pick))

\* Sized by the candidate cost, before the fill model re-prices it.
Quantity(pick, budget) ==
  LET fits == budget \div Magnitude(OriginalCost(pick))
  IN  IF cfg.maxNotional # None /\ ShortNotional(pick) > 0
      THEN Min({fits, NotionalRoom(pick)})
      ELSE fits

WithinDelta(delta) ==
  cfg.maxDelta # None => Magnitude(greeks + delta) <= cfg.maxDelta

WithinDrawdown ==
  cfg.maxDrawdown # None =>
    peak <= 0 \/ (peak - total) * DEN < cfg.maxDrawdown * peak

Tradable(pick, budget) ==
  /\ OriginalCost(pick) # 0
  /\ Quantity(pick, budget) > 0
  /\ WithinDelta(EntryDelta(pick) * Quantity(pick, budget))
  /\ WithinDrawdown

NewPosition(pick, qty) ==
  [contract |-> pick, qty |-> qty, entryCost |-> EntryCost(pick),
   delta |-> EntryDelta(pick) * qty]

OpenTrade(id, pos) ==
  [id |-> id, side |-> "open", date |-> day, cost |-> pos.entryCost,
   qty |-> pos.qty, contract |-> pos.contract]

\* Mutation: the unspent part of an external budget is not taken back.
EntryCashFlowKept(pos, budget) ==
  (IF External THEN budget ELSE 0)
    - (pos.entryCost * pos.qty + Commission(cfg.optionRate, pos.qty))

\* An external budget is paid in, the premium paid from it, and the rest
\* taken back.
EntryCashFlow(pos, budget) ==
  LET cost       == pos.entryCost * pos.qty
      commission == Commission(cfg.optionRate, pos.qty)
      injected   == IF External THEN budget ELSE 0
      clawback   == IF External THEN budget - cost - commission ELSE 0
  IN  injected - (cost + commission) - clawback

Enter(id, pos, budget) ==
  /\ cash' = cash + EntryCashFlow(pos, budget)
  /\ positions' = [p \in DOMAIN positions \cup {id} |->
                     IF p = id THEN pos ELSE positions[p]]
  /\ greeks' = greeks + pos.delta
  /\ trades' = trades \cup {OpenTrade(id, pos)}

\* The roll entry sees a flat book; the calendar entry what is held.
EntryPhase == pc \in {"roll", "calendar"}
CapAtEntry == IF pc = "roll" THEN 0 ELSE OptionsCap

AfterEntry ==
  IF pc = "calendar" THEN "broke"
  ELSE IF Rebalancing THEN "stocks" ELSE "reinvest"

NothingToSpend ==
  /\ EntryPhase
  /\ ScaledBudget(CapAtEntry) <= 0
  /\ pc' = AfterEntry
  /\ UNCHANGED <<day, fill, stopped, book, marks, counters, logs>>

OpenPosition ==
  /\ EntryPhase
  /\ ScaledBudget(CapAtEntry) > 0
  /\ attempts' = attempts + 1
  /\ \E pick \in Picks(Budget(CapAtEntry)) :
       /\ Tradable(pick, Budget(CapAtEntry))
       /\ Enter(attempts + 1,
                NewPosition(pick, Quantity(pick, Budget(CapAtEntry))),
                Budget(CapAtEntry))
  /\ pc' = AfterEntry
  /\ UNCHANGED <<day, fill, stopped, holdings, peak, total, cashBefore,
                 unfilled, balance>>

\* Mutation: an entry that found nothing was never attempted.
MissEntryUncounted ==
  /\ EntryPhase
  /\ ScaledBudget(CapAtEntry) > 0
  /\ LET budget == Budget(CapAtEntry)
     IN  Picks(budget) # {} => \E pick \in Picks(budget) : ~Tradable(pick, budget)
  /\ unfilled' = unfilled + 1
  /\ pc' = AfterEntry
  /\ UNCHANGED <<day, fill, stopped, book, marks, attempts, logs>>

\* No affordable candidate, or the selected one fails the checks.
MissEntry ==
  /\ EntryPhase
  /\ ScaledBudget(CapAtEntry) > 0
  /\ LET budget == Budget(CapAtEntry)
     IN  Picks(budget) # {} => \E pick \in Picks(budget) : ~Tradable(pick, budget)
  /\ attempts' = attempts + 1
  /\ unfilled' = unfilled + 1
  /\ pc' = AfterEntry
  /\ UNCHANGED <<day, fill, stopped, book, marks, logs>>

-----------------------------------------------------------------------------
(* Stocks.                                                                 *)

\* Mutation: stocks are bought with capital locked in options.
StocksAllocationUncapped(liquid, optionsCap) ==
  IF External THEN cfg.stockShare * liquid
              ELSE cfg.stockShare * (liquid + optionsCap)

\* The stock allocation scaled by DEN.  Self-funded, it cannot exceed what
\* is not locked in options.
StocksAllocation(liquid, optionsCap) ==
  IF External
  THEN cfg.stockShare * liquid
  ELSE Min({cfg.stockShare * (liquid + optionsCap), DEN * liquid})

\* Every holding is sold at today's price and bought again.
BuyStocks(liquid, alloc) ==
  LET order == StockOrder(today, alloc, cfg.weights)
      n     == Len(cfg.weights)
  IN  /\ holdings' = order
      /\ cash' = liquid - StockCost(order, n)
                        - StockCommission(cfg.stockRate, order, n)

RebalanceStocks ==
  /\ pc = "stocks"
  /\ LET liquid == cash + StockCap
     IN  BuyStocks(liquid, StocksAllocation(liquid, OptionsCap))
  /\ pc' = IF CalendarEntries THEN "calendar" ELSE "broke"
  /\ UNCHANGED <<day, fill, stopped, positions, marks, counters, logs>>

\* On an ordinary day the cash an exit freed goes back into stocks.
Freed == cfg.reinvest /\ cash > cashBefore

ReinvestProceeds ==
  /\ pc = "reinvest"
  /\ Freed
  /\ LET liquid == cash + StockCap
     IN  /\ BuyStocks(liquid, StocksAllocation(liquid, OptionsCap))
         /\ peak' = Max({peak, liquid + OptionsCap})
  /\ pc' = "record"
  /\ UNCHANGED <<day, fill, stopped, positions, greeks, total, cashBefore,
                 counters, logs>>

NothingFreed ==
  /\ pc = "reinvest"
  /\ ~Freed
  /\ pc' = "record"
  /\ UNCHANGED <<day, fill, stopped, book, marks, counters, logs>>

\* Checked on rebalance dates only.
CheckBroke ==
  /\ pc = "broke"
  /\ stopped' = (cfg.stopIfBroke /\ cash < 0)
  /\ pc' = "record"
  /\ UNCHANGED <<day, fill, book, marks, counters, logs>>

-----------------------------------------------------------------------------

Init ==
  /\ cfg \in Configs
  /\ mkt \in Markets
  /\ pc = IF cfg.rbDates = {} THEN "done" ELSE "advance"
  /\ day = 0
  /\ fill = 0
  /\ stopped = FALSE
  /\ cash = cfg.capital
  /\ positions = << >>
  /\ holdings = << >>
  /\ peak = cfg.capital
  /\ greeks = 0
  /\ total = 0
  /\ cashBefore = 0
  /\ attempts = 0
  /\ unfilled = 0
  /\ trades = {}
  /\ balance = << >>

Recording == BackfillRow \/ BackfillDone \/ RecordDay
Walking   == NextDate \/ EndOfDates \/ BeginRebalance \/ BeginOrdinaryDay \/ Finish
Marking   == MarkPortfolio \/ MarkForRoll \/ NoRoll
Entering  == NothingToSpend \/ OpenPosition \/ MissEntry
Investing == RebalanceStocks \/ ReinvestProceeds \/ NothingFreed

Step == Recording \/ Walking \/ ExecuteExits \/ Marking \/ Entering
          \/ Investing \/ CheckBroke

Terminated == pc = "done" /\ UNCHANGED vars

Next == (Step /\ UNCHANGED inputs) \/ Terminated

\* The loop is a single thread that always runs its next phase.
Spec == Init /\ [][Next]_vars /\ WF_vars(Step /\ UNCHANGED inputs)

=============================================================================
