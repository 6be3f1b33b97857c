# Options Portfolio Backtester: formal models

TLA+ models of the backtester in this repository, the TLC runs that check them
on small instances, and TLAPS proofs of the results that matter most. Sources
are named relative to the repository; `backtest.rs` is
`rust/ob_core/src/backtest.rs`, and Python modules are named below
`options_portfolio_backtester/`.

## 1. The system

The program simulates portfolios of stocks, options and cash over historical
data. Nothing in it is concurrent except a parameter sweep whose tasks share
only immutable data. What is hard is order and memory: a date is a sequence of
phases or algos over shared books, with values read in one and used in a later
one; objects keep settings, capital and filters between runs, and runs may
raise; files outlive the script that wrote them; and records are written by code
separate from the code that trades, and read back by code that has to guess what
was traded.

| component | state | operations | hard behaviour |
|---|---|---|---|
| Backtest core (`backtest.rs` 430-873, 1414-2282) | cash, positions, holdings, peak, greeks, trade rows, balance rows, counters | walk a date; exits; roll entry; stock rebalance; calendar entry; reinvest; record or backfill | order of phases, stale greeks and totals, external funding, skipped dates, two loops for one curve |
| Pricing, cost and fill rules (`types`, `entries`, `exits`, `fill_model`, `cost_model`) | none | cost of a leg, fill price, exit price, capital, commission | sides of the quote, missing quotes, two copies of the exit price |
| Python engine (`engine/engine.py`) | attributes, the strategy object, results | set attributes, choose a framing, add slots, run | runs that change what the next run sends, settings that contradict each other |
| Pipeline (`engine/pipeline.py`) | cash, positions, what each algo remembers | 41 algos, 3 combinators, the run loop | schedulers that lose a period, missing prices, a total kept by many hands |
| Multi-engine portfolios (`multi_strategy.py`, `strategy_tree.py`) | capital and balance of each engine | lend capital, run members, combine | runs that raise halfway, shared engines, rounding, caps |
| Fetch script (`scripts/fetch_data.py`) | cache, output files | download, convert, align, verify | kills, failed downloads, fallbacks, twins of a file |
| Trade log and its readers (`analytics/trade_log.py`, `summary.py`, `myrun.py`) | the log | pair entries and exits, P&L, margin, coverage | re-entry, order within a date |
| Convexity (`convexity/`, `convexity_backtest.rs`, `convexity_scoring.rs`) | shares, one put | monthly close and re-open, daily scores | dates without data, months without a put |
| Strategies, selectors, filters (`strategy/`, `execution/`, `data/schema.py`) | none | build legs, filter, sort, align, choose, size | legs filtered apart and aligned by row |
| Multi-strategy loop, partitioning, sweep, statistics, bindings, providers | various | not modelled, see 5 | |

The Python engine calls the core once per run with the whole configuration; the
core partitions the data, runs one of its loops, and returns balance rows, trade
rows and counters. Portfolios call engines; presets build the strategy an engine
is given; the script writes the files an engine loads; the readers take the log
it leaves. The components interact by calls, shared objects and files only.

`PROJECT.json` lists every component with its status and every hazard with the
line where it bites and the properties that would catch it.

## 2. Modules

| module | models | relation |
|---|---|---|
| `Totals` | sums over partial functions | used by all |
| `Valuation` | pricing, valuation, commission, stock orders | pure operators over a day of market data |
| `Backtest` | the single-strategy loop | one action per phase, uses `Valuation` |
| `EquityCurve` | the promise of the balance sheet | abstract specification |
| `BacktestProperties` | types, invariants, action properties, refinement, liveness | extends `Backtest`, instantiates `EquityCurve` |
| `PipelineAlgos` | every algo as a function of its state and the context | pure operators |
| `Pipeline`, `PipelineProperties` | the run loop; its properties | `Pipeline` extends `PipelineAlgos` |
| `Engine`, `EngineProperties` | the engine object and `run()` up to the configuration it sends | |
| `FetchData`, `FetchDataProperties` | the fetch script as steps on disk, with faults | |
| `Portfolios`, `PortfolioProperties` | the list and the tree over one pool of engines | |
| `TradeLog` | a book that writes a log, its readers, their properties | |
| `Convexity`, `ConvexityProperties` | the monthly put loop and the scorer | |
| `Presets` | presets, entry of one date, properties | |
| `MC...` | inputs of the runs | extend the modules they are named for |
| `TotalsProofs` | sums and how they split | extends `Totals` |
| `BacktestProofs` | proofs about the loop: types and entries; trades, money and limits; the balance sheet | |
| `PipelineProofs` | proofs about the pipeline: what each group of algos returns; money; schedules | extends `PipelineProperties` |
| `StrategyProofs` | proofs about the entry of a preset, and about the log | extends `Presets` and `TradeLog`, which share no constant and no variable |
| `EngineProofs`, `PortfolioProofs`, `FetchDataProofs`, `ConvexityProofs` | proofs | extend the properties they are named for |

### State and actions of `Backtest`

`cfg` and `mkt` are the inputs, chosen in `Init`. `cash`, `positions`,
`holdings`, `peak`, `greeks`, `trades`, `balance`, `attempts`, `unfilled` are the
variables of `run_backtest_with_filters` with (nearly) their names. Positions are
keyed by the entry attempt that opened them, which is their order in the code's
vector; `trades` carries the same key so that properties can follow a position.
`total` and `cashBefore` are locals that a later phase reads. `pc` names the
phase about to run, `day` the date being walked, `fill` the next date of a
backfill, `stopped` the local `stop_broke`.

    advance -> rebalance -> [backfill] -> exits -> mark -> [roll] -> stocks
                         -> [calendar] -> broke -> record -> advance
    advance -> ordinary  -> [exits -> mark -> [roll] -> reinvest] -> record
    advance -> finish    -> [tail] -> done

| action | code |
|---|---|
| `NextDate`, `EndOfDates` | the heads of the daily loop (492) and the fast path (598) |
| `BeginRebalance`, `BackfillRow`, `BackfillDone` | `rebalance_date` up to `SkipDate`, `compute_balance_period` |
| `ExecuteExits` | `execute_exits` |
| `MarkPortfolio` | greeks, capitals, peak (802-819) |
| `BeginOrdinaryDay`, `MarkForRoll`, `NoRoll` | the ordinary day (513-551) |
| `NothingToSpend`, `OpenPosition`, `MissEntry` | `try_enter_options` with `execute_entries`, called in phase `roll` or `calendar` |
| `RebalanceStocks`, `ReinvestProceeds`, `NothingFreed` | the stock reallocations with `buy_stocks` |
| `CheckBroke`, `RecordDay`, `Finish` | 868, 586-594, 617-637 |

### State and actions of the other models

- `Pipeline`: `OpenDate` draws a row of prices and builds the context,
  `CallNext` calls the next algo of the program on it, `RecordRow` reads the books
  back and writes the row. An algo is a record; what it remembers is in `states`,
  one entry per child of a combinator. A call returns state, context and status.
- `Engine`: an action per call a user makes: `SetAttribute`, `UseExternalBudget`,
  `UseAllocation`, `AddStrategy`, `RunSingle`, `RunMulti`. `strategies` is apart
  from `engines` because a strategy object can be given to two engines or to a
  slot, and `run()` changes it. A run over slots sends the legs, thresholds, dates
  and weights of the slots and nothing of the engine's own strategy. `last` holds the outcome, an exception included; what a run
  changed before it raised stays changed. `intent` only observes.
- `FetchData`: `cache` and `outputs` are the disk, everything else is lost by
  `Kill`. `Main` starts a run with any arguments; the other steps are the
  script's, one per symbol and source, output file and stage. A download may fail
  (the file is removed) or be cut short by a kill (it stays); a CSV cut short may
  keep its head or be unreadable, a parquet is unreadable.
- `Portfolios`: a tree is its nodes in depth-first order, each with the place of
  its parent; shares, balances and limits are of a node by its place.
  `RunMember` and `RunLeaf` have a branch in which the engine
  raises, which leaves the capital it was lent. `RunAlone` and `SetMaxShare` are
  the user in between. `lent` and `made` only observe.
- `TradeLog`: `LogExit`, `ExitsDone`, `LogEntry`, `EndDay` write the log as the
  core does, exits before entries; `book` names the row each position was entered
  by. A reader is an operator over sets of rows of the log: a table is a function
  of the row it was made for, a sort by date is the pairs of rows it puts in
  order. `ends` only observes.
- `Convexity`: the two loops of `run_backtest` over the arrays it is given.
  `Rebalance` is the top of the monthly loop with all trades of the month and the
  search for its first row (`LowerBound`), `RecordDay` one row of the loop inside
  it, `EndMonth` its end at the next rebalance date or the end of the file,
  `Return` the result. `stock` is the file as rows, in which a date may have
  several, `puts` the chain of each quoted date, `si` the index the inner loop
  walks. `Scores` is what the daily scorer computes from the same chains.
- `Presets`: `Quote` adds a row to the chain, `Enter` filters, sorts, aligns,
  drops what is not affordable, selects and sizes. Deltas are signed, a put's below
  zero, and the nearest-delta selector has one signed target for both types.

### Abstractions

- Money and prices are integers. A division the code floors is an integer
  division at the same place; a division of floats is exact where units allow
  (`Convexity` counts shares in 1/`Unit`, `Presets` costs in 1/(2·`FullVolume`))
  and is rounded down in `Pipeline` and `Portfolios`, whose properties are stated
  so that rounding cannot decide them. Where `Pipeline` floors a quotient of
  floats to shares and the exact quotient is whole, the float may lie just below:
  `Floored` then gives the whole number or one less, by a draw per symbol.
- In `Backtest` a contract's row carries bid, ask, delta and the legs whose
  filters it passes; the selector's choice is any affordable candidate, leg by
  leg, and `entry_sort` only permutes candidates. `Presets` carries the columns,
  filters, sorts and selectors themselves, and the fill models, on one date.
- Greeks are the delta. The moving average of a stock enters as the set `gated`
  of a day. Commissions are per contract and per share.
- In `Pipeline` a seeded generator, a covariance estimate and a least-squares
  solution are draws over everything they can return. A column a regular
  expression or a predicate accepts is a set. Combinators hold plain algos.
  Whether `pct_change` fills gaps depends on the version of pandas: it is a field
  of `HedgeRisks` (`fills`). A price that comes back from zero gives an infinite
  return, which is not followed into an estimate.
- In `Engine` a filter is the sequence of the clauses it conjoins, and the checks
  that data were set are left out: an engine without data sends nothing.
- In `FetchData` a file is a set of dates, or cut short; a row is a date, the
  source of its quotes and the source of its price. A canonical file is one that
  equals what the release offers. yfinance answers with a range whose last day is
  not in it, any of `Periods`, or with nothing.
- In `TradeLog` the legs of a position are one row, of one leg.
- Logging, data frames and the `assert_invariants` self-checks are left out;
  `Conservation` says what the cash-flow self-check says, of every phase.

## 3. Runs

| run | question | result |
|---|---|---|
| `Calendar` | calendar entries on both loops: do books, trade log, limits, cash and curve agree, and does every run end? | holds |
| `Modes` | rolls, every funding mode, short legs: one position at a time, retried; is money conserved by every phase and over a run; is the whole book limited? | holds |
| `Pipeline` | do schedulers follow the calendar, and the books survive every algo? | holds |
| `Engine` | does a run send what was set, after any calls? | holds |
| `Fetch` | are the files of a finished run consistent after kills and failures, and does every run end unless a request is never answered? | holds |
| `Portfolios` | are sheets sums of members, and engines given back? | holds |
| `TradeLog` | do the readers of a log rebuild the book that wrote it? | holds |
| `Convexity` | is wealth handed on exactly, and is the curve the stock file's, month by month? | holds |
| `Presets` | do the contracts of an entry do what the preset says, within budget? | holds |
| `StaleDelta` | are refusals by MaxDelta justified? | refuted |
| `LateBinding` | do the limits of a list of algos all reach the core? | refuted |
| `Condor` | does an iron condor buy wings outside what it sells? | refuted |

### Bounds

- `Calendar`, `Modes`, `StaleDelta`: four dates and every history over up to
  seven day states (calm, crash, an exit signal, a delisted contract, a gap
  without entries, close and spot, a date without option rows, a moving-average
  gate); three contracts, at most two stocks and two legs. Four dates are enough
  for open, top-up, exit and re-entry on different dates, for rebalance dates
  before, between and after ordinary ones, and for a skipped date at each place;
  the loop carries nothing from date to date but the books. There is no cap on a
  counter: `attempts` grows by at most two a date.
- `Pipeline`: two symbols, four dates over three months with a turn of a month, a
  quarter, a year and an ISO week that spans the two years, prices that rise,
  fall, vanish and are zero, and programs that between them use every algo and combinator.
  Draws happen only in programs that use them. A context whose cash became NaN
  ends the run.
- `Engine`: two engines that share one strategy object, slots of half the capital
  on it and on one of their own and a whole one that never rebalances, runs with
  dates given (an empty list too) and by frequency, five quote dates in three
  months, `MaxCalls` = 4 calls; enough for set, run, set, run, and for a run that
  raises between two.
- `Fetch`: two symbols, one with canonical hashes and a history file, three
  dates, `MaxRuns` = 2 starts and `MaxFaults` = 1 fault. One fault in either run
  is every place a kill or a failure can come, with a run after it to read what
  it left; a source that is absent for good costs no fault.
- `Portfolios`: three engines, lists of up to three members, trees of depth up to
  three with shared engines, repeated names, caps and weights of zero,
  `MaxRuns` = 2 runs with a raise anywhere. `WHOLE` = 144 makes the shares exact.
- `TradeLog`: two contracts over three days, so that one can be entered, sold and
  entered again, on the same date as well.
- `Convexity`: five dates in months of two. A date has no row, one, or, where a
  month may begin, two, so a month can start late, have none, or begin with a
  date repeated. Puts are quoted on every date or on each month's second, with an
  underlying that is not the stock's price; one can expire within its month, on a
  rebalance date or later.
- `Presets`, `Condor`: chains of up to four of eight quotes in any order, thirteen
  configurations over the eight presets, three selectors and three fill models.

### What the properties say

`Backtest`

- `NoContractHeldTwice`, `RollHoldsAtMostOne`, `RollSelfHeals`: the book of
  options over any mixture of top-ups, exits and rolls.
- `BookIsReplayOfTrades`: live positions are the opened minus the closed trades,
  each closed once, whole, on a later date; the counters add up.
- `Conservation`: wealth, net of the basis an external budget will take back,
  changes within a date only by commissions and spreads, on dates that price
  every stock held. `CashFollowsTradeLog`: cash at any time, from the log alone,
  of an account that trades no stock.
- `NoOverdraft`: a calendar-driven self-funded account without shorts and
  commissions stays at or above zero cash (`CashAccount`). Each hypothesis is needed:
  commissions are not reserved by `buy_stocks`, a roll is sized by total capital, and
  a mid fill of a crossed quote costs more than the ask the sizer reserved.
- `DeltaLimitHonoured`, `NotionalLimitHonoured`: the book after an entry is
  within the limit, valued at the quotes of the day.
- `ImplementsEquityCurve`: both loops refine `EquityCurve`, where the book may
  change at a date only after every earlier date is published and before its own
  row is. The mapping shows cash, option quantity and stock quantities; a fast
  path that backfilled after the rebalance, or a daily loop that backfilled at
  all, breaks it. `CurveComplete` says of the sheet a run ends with that its dates are
  those of the calendar, each once and in order, unless `stop_if_broke` ended it.
- `RowsMarkAtExitValue`: the recorder's own copy of the exit price agrees with
  the one that trades. `Termination`: every run ends.

`Pipeline`

- `SchedulersMatchCalendar` compares what a scheduler let through, from the
  period it remembers, with the dates the calendar alone says are due;
  `OrMissesNoPeriod` says that `Or`, which stops asking its children, still lets
  every date through on which a period of some child begins. Its one exception,
  a child that loses the cash, ends the run in the model.
- `TotalInSync`: between any two algos the total of the context is the value of
  its books. `UnleveredCashNonNegative`: programs that cannot borrow do not.
  `CashStaysNumber`: no missing price reaches the multiplication in `Rebalance`.
  `GradualEndsAtTarget`: the last instalment ends at the shares its target buys,
  or at one less, which the blend `cur + frac * (tgt - cur)` of floats can lose.

`Engine`

- `RerunSendsSameConfig`: two runs in a row with the same arguments send the same
  configuration, though the first consumed the algos and narrowed the strategy.
  `FramingHolds`: no budget set before `use_allocation` is sent after it.
  `RebalancesNotEarly`: snapping moves no date that a run is given before its
  request, and an empty list of dates brings no rebalance.

`FetchData`

- `WrittenTwinsAgree`, `AlignedInEveryFormat`: what a run that ends by itself
  leaves is whole and the same in both formats, whatever lay on disk.
  `OptionRowsPinned`: fallback rows are only in outputs of runs that asked for
  them. `VerifyExplainsDeath`: a run that dies reading a pinned file is explained
  by `verify`. `EveryRunEndsOrHangs`: a run comes to its end, or waits forever
  for a request that is not answered.

`Portfolios`

- `MultiSheetIsSum`, `TreeSheetKeepsCapital`: combined sheets against the shares
  and what each engine makes of them; `EnginesGivenBack`: an engine's capital
  after any runs. The hypotheses on names and engines are needed: a repeated name
  selects columns twice, and an engine listed twice has one balance.

`TradeLog`

- `FifoAccountsForCash`, `MarginIsOpenBasis`: the FIFO readers of `myrun.py`
  account for every dollar and every day, re-entries included.
  `RoundTripsComplete`, `CoverageMatchesOnceEntered`: the readers that take the
  first entry and exit of a contract are right while none is entered twice.

`Convexity`

- `MonthsAddUp`: every month hands its wealth to the next, whichever way it ends
  without a put. `CurveFollowsTheMonths`: the nested loops return the rows of the
  stock file, none lost and none twice where one month ends and the next begins,
  each at the shares of its own month, which are the unhedged benchmark's until a
  put is bought. `BoughtAsScored`: loop and scorer agree.

`Presets`

- `StockIsShielded`: covered call and collar bound the stock at expiry.
  `DebitWithinBudget`: no fill model makes an entry of quotes that are not crossed
  cost more than its budget.

Each property has a mutant in `PROJECT.json`: a plausible slip in one definition,
kept before it in the module with a `Mutation:` comment, that makes the run fail.

### Fairness

`Backtest` has weak fairness of its step: the loop is one thread that never
blocks. `FetchData` has weak fairness of the script's own steps except while it
waits for a request (`Waiting`), and none of `Main` and `Kill`. The script is one
thread whose local steps return or raise, but `urlopen` is called without a
timeout (`scripts/fetch_data.py` 119): a request need never return, and
`EveryRunEndsOrHangs` allows for it. Nothing stronger is assumed; the other models
state safety only and have no fairness.

### Refuted claims

`PROJECT.json` "findings" quotes the line each contradicts. The delta used for a
roll on an ordinary day still counts the position closed that morning
(`StaleDelta`). The constraints made from `MaxGreekExposure` read the loop
variable after the loop, so all of them send the limit of the last algo
(`LateBinding`). The legs of an iron condor that are sold and bought have the
same filter, and the wing width is not read (`Condor`).

### Known divergences

Found while modelling, and kept in the models as the code has them:

- With both triggers, the roll pays the ask and is then valued at what closing it
  pays, so the top-up of the same date buys the spread again (`backtest.rs` 835,
  862, against 115 "do not double-spend").
- A stock without a close on a rebalance date is sold for nothing (2208);
  `Conservation` is stated for dates that price every stock held.
- After `stop_if_broke` the fast path backfills from the last configured
  rebalance date, not from the one that stopped (620), so
  the dates between the two are lost; the refinement is proved for all other runs,
  and the fast-path configurations that are run do not set it.
- A self-funded account whose liquid capital is negative is allotted less than
  nothing for stocks, and floors it to a short position (843-844, 2274).
- Negative cash is looked for on rebalance dates only (868, against 57).
- The README (230) describes a full liquidation; positions whose exits do not
  fire stay, and `liquidate_all_positions` is not called (1578).
- The columns of the balance sheet come from its first row (2116), so a stock
  first priced later has none.
- `RunIfOutOfBounds.update_target` is called by nothing (`engine/pipeline.py`
  244), so the algo never lets a date through.
- The last instalment of `RebalanceOverTime` can end a share short of what
  `Rebalance` buys (1203-1221): holding 90 of 100 at price 1 with target 0.1, the
  blend is 0.0999..., which floors to 9.
- `RunEveryNPeriods(1)` runs on the first date only (188);
  `ClosePositionsAfterDates` takes positions without crediting cash (1092).
- The fetch script takes the price of an underlying from the fallbacks and from
  yfinance without `--allow-fallback` (168-206, 316, against 36-37 and the help
  text of the flag); options rows do wait for it.
- `Trade.gross_pnl` (`analytics/trade_log.py` 32) has the wrong sign for sold
  legs, and `from_legacy_trade_log` repeats the first round trip of a contract
  that is entered twice.
- `summary` compares orders with members of the enumeration `Order`
  (`analytics/summary.py` 25-28), the core logs their names: of its own log
  `summary` finds no entry, no win, and as many trades as rows. `trade_log.py`
  (71-77) converts both. `RoundTripsComplete` speaks of a log of members, which
  `test_summary.py` has.
- A butterfly's middle leg is one contract: its docstring leaves the double
  quantity to the sizer (`strategy/presets.py` 294), and the core calls none.
- Multi-strategy runs do not read algos, dates or frequency of the call
  (`engine/engine.py` 392).
- The convexity budget is fixed at the start: with less left than one month's
  budget, shares are owed (`MonthsAddUp` says when). The daily balance never
  counts the put.

## 4. Proofs

Everything here holds for every value of the constants that meets the named
assumptions: any calendar length, any set of markets, configurations, engines,
symbols, chains and parameters. Each of the invariants below was first checked by
TLC on the runs of its model, then proved in the usual three facts (`Init`, every
action of `Next`, what follows from it), one lemma per action.

The assumptions say that inputs are well typed, and:

- `ValuationAssumption`: shares per contract are even, so that mid prices are
  whole. `BacktestAssumption`: every market has a date with option rows, which the
  data an engine accepts always has; `None` is not a number and not a lot.
- `EngineAssumption`, `FetchAssumption`: types and a finite set of symbols only.
  `PortfolioAssumption`: the weights of a list are not all zero, by whose sum the
  code divides; the weights of a tree are not negative, which the code does not
  check: with a negative one beside it, an empty branch would leave its siblings more
  than the whole. `PresetsAssumption`: types only; quotes may be crossed.
- `TradeLogAssumption`: types, and there is a day. Prices may be zero, and a lot has
  at least one contract.
- `ConvexityAssumption`: the stock file is sorted by date, its prices are positive
  and divide `Unit`, the unit shares are counted in, and a quoted date has a quote.
- `PipelineAssumption`: the calendar is sorted, as the price table is
  (`engine/pipeline.py` 1242), prices are not negative, algos have the parameters
  their constructors take, and the children of a combinator are plain algos that
  draw nothing; `Or` has at least one.

### `BacktestProofs`, types and entries

- The pricing rules return integers whatever is quoted or missing that day, from
  `TotalInt` (`TotalsProofs`): the sum of a partial integer function is an integer,
  proved through a closed form of the sum's recursive function.
- `TypeCorrect`: `[]TypeOK`. It is not inductive: a phase of a date prices with
  `mkt[day]`, which needs `day # 0`, and the walk of the rebalance dates needs the
  set not to be empty. `TypeInv` adds both (`Located`).
- `RollSinglePosition`: `[]RollHoldsAtMostOne`. `RollInv` adds that in pure roll
  mode the phase `roll` is only reached with a flat book and `calendar` never.
- `ContractsHeldOnce`: `[]NoContractHeldTwice`, inductive with the types; the step
  that matters is `EntryIsFresh`: what an entry picks is outside `Held`.
- `RollHeals`: `[]RollSelfHeals`. `HealInv` states the reason a flat book was left
  flat from the phase that finds it to the end of the date: what later phases
  change (cash, stocks, the peak) must not remove the reason. The peak may only
  have grown since, which `DrawdownDeepens` shows to keep a drawdown a drawdown.

### `BacktestProofs`, trades and money

- `ReplayHolds`: `[]BookIsReplayOfTrades`. `ReplayInv` adds that the opens of the
  log are finitely many and that until the exits of a date have run every open is
  of an earlier date, without which a position could be closed the day it opens.
- `ConservationHolds`: `Conservation`. One lemma per phase: what an exit, an entry,
  a reallocation of stocks moves from one book to the other, with lemmas that split
  a `Total` at a key, over a union, or term by term. The cases that need the most
  care are the external budget, whose basis is taken out of wealth, and
  `buy_stocks`, which sells everything before it buys.
- `CashFollowsHolds`: `[]CashFollowsTradeLog`. `CashInv` adds that no stock is
  held in an account that trades none; `LogTotal` is counted trade by trade over
  the attempts, which `ReplayInv` makes a one-to-one keying of opens and of closes.
- `NoOverdraftHolds`: `[]NoOverdraft`. `SolventInv` says what the phases of a date
  hand on in a cash account: no holding is short, the stocks are bought with the
  capital just marked, and the calendar entry is left with the cash of its budget
  (`StocksLeaveBudget`: what the capped allotment leaves covers the other share).
  `OrderWithin` adds the rounded purchases up against the weights; `EntryWithin`
  compares the fill with the cost an entry was sized by.
- `DeltaLimitHolds`, `NotionalLimitHolds`: the two action properties. The delta
  limit needs `DeltaMarked`: on the calendar the delta an entry is checked against
  is that of the book at the quotes of the day, because no roll comes between.
  `StaleDelta` shows that with rolls it is not.

### `BacktestProofs`, the balance sheet

- `RowsMarkHolds`: `[]RowsMarkAtExitValue`. `RowsInv` adds that no row is dated
  today before today is recorded: a row says what the book was at its date, and
  the book changes after it.
- `CurveCompletes`: `[]CurveComplete`. `CurveInv` says how far the curve is
  published (`Reach`) when each phase begins: the daily loop is one row ahead
  between dates, the fast path one period behind until it has backfilled. That
  no date has two rows and none is out of order is `OrderInv`.
- `CurveImplemented`: initial states map to initial states and every action maps to
  a step of `EquityCurve` or a stutter, under `[](stopped => cfg.daily)`. The
  hypothesis is about the run, not the configuration, and is needed: the fast path
  of a run that `stop_if_broke` ends leaves a hole in the curve (Known divergences),
  so the statement without it is false. It is met by every run that does not go
  broke, and by every run of the daily loop.

### `EngineProofs`

`EngineInv` is `ShapeInv` (attributes, slots and configurations have their shape),
`SentInv` (a run that has just ended well sent what the engine would send again for
the same arguments, and left it no algo to translate: what the algos set stays in
the attributes, and narrowing a filter again adds nothing) and `FramingInv` (while an engine is framed
by its allocation its two budgets are unset). From it `RerunHolds`,
`FramingHoldsAlways` and `RebalancesHold`; the last compares
the two counts by an injection of the snapped dates into the requested ones.

### `PortfolioProofs`

`PortfolioInv` is `PlaceInv` (the books have an entry per engine and a run of the
list is at a member or at its end), `MadeSoFar` (an engine that has had its turn
holds what it made of its share) and the two properties: `MultiSheetHolds` and `EnginesGivenBackHolds`. The shares
of a list add up to its capital up to one unit a member by bounds on `Total`.

`TreeInv` speaks of a run of the tree: `TreeSoFar` (its shares are `LeafShares`, and
a leaf that has had its turn keeps what its engine made of its own, whatever the
engine made since of another leaf's) and `TreeSheetKeepsCapital`. Shares are
recursive along the path from the root. `SharesExist` shows that the function is
defined on every tree, a parent being before its children. That leaves are not
handed more than the whole is an induction on how many nodes have handed
theirs on: `Holders(t, m)` are the leaves among the first m nodes and the
nodes after them whose parents are among them. The root alone holds the whole; a
leaf keeps what it holds, a branch passes it to its children, who together get no
more (`KidsWorth`), so the sum does not grow (`HandedOn`), and in the end all is with
the leaves (`HoldersKeepWhole`, `SharesOfTree`). `HandedOut` bounds what Python's
rounding adds or takes per leaf and the fraction of the idle capital:
`TreeSheetHolds`. With both invariants, `PortfolioTypeCorrect`.

### `FetchDataProofs`

`FetchInv` has a part per idea: `FetchTypes`; `PlaceInv`, a step finds the symbol
and the source it reads; `WritesInv`, each file is left to be written once;
`PinInv`, rows that are not the release's are collected, waiting or written only
under the flag of the run; `TwinsInv` and `AlignInv`, which speak of what a file
`Becomes`: the content still waiting to be written to it, or what it holds if none
is, so that they hold in the middle of a run, where the files themselves disagree;
`DeathInv`, a run that died reading left that file cut short; `FaultsInv`. From it
`FetchTyped`, `RowsPinned`, `TwinsAgree`, `AlignedAlike` and `DeathExplained`.

### `ConvexityProofs`

`ConvexityInv` has the types and:

- `MonthsInv`: each record is of a month of its own, in order, the last of the month
  at hand.
- `RowsInv`: where the two loops stand. The rows written are those before the next
  rebalance date (`RowsBefore`); at the top of the monthly loop that date is the next
  row's (`AtTop`), and inside it the row at hand, or the one before, is of the month
  (`InMonth`). Without it neither the row that starts a month nor the one that ends
  it could be shown to be written once.
- `CarryInv`: the last record is what the loop carries on. `SharesInv`: until a put is
  bought the shares are those of the benchmark. `CurveInv`: each row is valued at the
  shares of its month's record.

From it `MonthsHold`, `CurveHolds` and `ScoresAgree`. That an exit is worth the stock
it becomes rests on `Unit` being a multiple of every price.

### `StrategyProofs`, presets

`PresetsInv` says what an entry leaves (`EntryInv`): a row for every leg, admitted by
that leg's filter, in the quantity the budget pays at the quotes. Between the chain
and that row lie the sort, the alignment by row number and the selector, each of
which must keep a leg's row among its own candidates (`OrderedAreAdmitted`,
`SelectedIsListed`; `FirstOfBest` shows that the selector's choice exists). From it
`DebitHolds`, by `FillWithinQuote` (no fill model is worse than the quote of its side,
if its bid is not above its ask), and `StockShielded`.

### `StrategyProofs`, trade log

The readers see the log, the properties speak of the book, which the log does not
hold. What joins them is `Closes(e, x)`: exit row `x` sold the position that entry row
`e` opened. The contract has no row in between, the dates differ, and there are as many
exits of the contract before `x` as entries before `e`. `LogInvariant` (`[]LogInv`,
checked by TLC on the run of `TradeLog` first):

- `DatedInv`: rows are in the order of their dates, and a day's entries come after
  all exits of that day. `OrdersInv`: orders and signs are those of the direction.
- `MatchedInv`: every exit closes an entry, an entry is out of the book exactly when
  it was closed, and a contract is entered again on a later date only.
- `CountedInv`: a contract has one entry more than exits while it is held, and as
  many otherwise; without it the next exit would not be the one FIFO expects.
- `EndsInv`: a past day ended with the entries of that day or before which no exit of
  that day or before closed, however much was written since.
- `AccountedInv`: round trips, summed by exit and by entry, are the cash of the log
  and the basis of what is held.

A row more changes nothing that is said of earlier rows (`EarlierRows`, `PairsKept`);
`ExitMatches` and `EntryMatches` are the steps that matter. From `LogInv`:

- `FifoHolds`: `PairedIsClosed` shows that counting pairs an exit with the entry it
  closed, in any order of the rows that is by date (`SortsByDate`, of which
  `BothSort` shows both sorts of the model to be). An entry of the day of the exit
  may come before it in such an order, and still has one entry too many before it.
- `MarginHolds`: with the pairs, a day's balance is the set of `EndsInv`.
- `RoundTripsHold` and `CoverageHolds`: entered once, a contract has one entry and
  at most one exit, which closes it (`OneRoundTrip`), so that taking the first of each
  is taking that one.

### `PipelineProofs`

A lemma for each group of algos says what a call may do to the context (`Asks`,
`Selects`, `Weighs`, `Pays`, `Books`), `Calls` puts them together, and `CallFits`
says the same of a combinator, child by child. An algo of the group keeps the
parts of the context that it does not write and keeps what it writes over a set
`T` of symbols; with all symbols that is the type, with the priced ones it is the
invariant of `CashStaysNumber`.

- `PipelineTypeCorrect`: `[]PipelineTypeOK`. Every division of an algo is by
  something its guard has just found positive.
- `TotalInSyncHolds`: a trade moves cash by what `MarkedValue` changes
  (`MarkedChange`, `FilledTrade`), a rebalance spends the total (`RebookedFits`),
  a flow changes cash and total alike (`CreditedContext`).
- `CashStaysNumberHolds`: `PricedOnly` adds that the selection and the target of a
  date are over symbols that have a price on it: nothing after the first
  selection brings in another, limits, hedges and instalments included.
- `GradualEndsAtTargetHolds`: `LastInstalment`; of what the algo remembers only the
  target counts, so no history is needed. `FlooredQuotient` bounds what the floor of
  a float quotient may lose.
- `SchedulersMatchCalendarHolds`: `ScheduleKept` says what the first algo of a
  program remembers of the last date it was asked about, and that its answers so
  far were those of the calendar. That one key is enough memory rests on
  `PeriodsConsecutive`: in a sorted calendar the dates of a period are next to
  each other.
- `OrMissesNoPeriodHolds`: under `Or` a child sees some dates only. `OrKept` says
  that it remembers no date to come, and `OrTurns` that `Or` skips a date only if
  each child it asked, which is then all of them, remembered the period.
- `UnleveredCashNonNegativeHolds`: `PaidFor` says of a program that is `Unlevered`
  that cash and holdings are not negative between dates and that every target an
  algo remembers is `Long`: its weights are not negative and add up to at most
  `ONE`. Within a date the context is `Solvent`: its total is at least
  cash and marked value (at least, not exactly: closing by date drops positions
  without telling the total), its targets are `Long`. Each way a weighting rounds or
  caps is shown to leave a target `Long` (`NormalisedLong`, `ClippedLong`,
  `MovedLong`, `MomentumPlaces`), a rebalance to a long target to cost at most the
  total (`SharesAffordable`), an instalment at most what is left of it
  (`InstalmentAffordable`).

### Only model-checked

- Liveness: `Termination` and `EveryRunEndsOrHangs`, which need fairness and `ENABLED`.
- The refuted claims.

## 5. Not modelled, and the plan

Every safety property a run checks is a theorem; what is left to prove is liveness,
which is out of the prover's reach.

Not modelled:

- The multi-strategy loop (`backtest.rs` 883-1286): slots that share cash and one
  option budget with dates and limits of their own. It repeats the phases of the
  single loop per slot and would need a module of the size of `Backtest`; what
  the engine sends to it is in `Engine`.
- Partitioning (`backtest.rs` 1292-1408): the loop takes its result as input.
- The text of filters, their parser, negation and arithmetic: the models take
  verdicts (`Backtest`) or conjunctions of comparisons (`Presets`).
- Exit filters and thresholds of presets, `remove_leg`, `clear_legs`; the
  selectors' fallback when a column is missing; position sizers and the Python
  cost models, which the core does not call; tiered commissions.
- The frames an engine builds from a result, run metadata and fill-rate warnings.
- The sweep: its runs own their state, so no interleaving differs.
- Statistics, charts and reports (numeric, without state) but for the pairing in
  `summary.py`; data loading; bindings; portfolio objects the loop does not use;
  the convexity allocator and charts; the experiments in `research`.
