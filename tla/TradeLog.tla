------------------------------ MODULE TradeLog ------------------------------
(***************************************************************************)
(* The trade log the engine leaves, and what reads it afterwards: the      *)
(* round trips of TradeLog, the summary table, the coverage, the FIFO      *)
(* pairing and the margin balance of myrun.py.  The log is written as the  *)
(* core writes it: on a date the exits, then the entries; a contract is    *)
(* never held twice, but may be entered again once it was sold.  A table   *)
(* made from the log is a function of the row it was made for.             *)
(***************************************************************************)
EXTENDS Integers, Sequences, FiniteSets, FiniteSetsExt, Functions, Totals

CONSTANTS Contracts, LastDay,
          Lots,                  \* what a date offers to enter: [price, qty]
          ExitPrices,
          Directions             \* {"BUY"}, or with "SELL"

ASSUME TradeLogAssumption ==
  /\ LastDay \in Nat \ {0}
  /\ Lots \subseteq [price : Nat, qty : Nat \ {0}] /\ ExitPrices \subseteq Nat
  /\ Directions \subseteq {"BUY", "SELL"}

VARIABLES
  direction,   \* of the strategy's leg
  day, stage,
  log,         \* rows [date, order, contract, cost, qty]
  book,        \* contract -> the row of its entry, of what is held
  ends         \* for the properties only: the book at the end of each day

logVars == <<direction, day, stage, log, book, ends>>

LogInit ==
  /\ direction \in Directions
  /\ day = 1 /\ stage = "exits"
  /\ log = << >> /\ book = << >> /\ ends = << >>

-----------------------------------------------------------------------------
(* The engine.                                                             *)

\* get_order, and the sign a cost has in the log: a debit is positive.
EntryOrder == IF direction = "BUY" THEN "BTO" ELSE "STO"
ExitOrder == IF direction = "BUY" THEN "STC" ELSE "BTC"
EntryCost(price) == IF direction = "BUY" THEN price ELSE -price

LogRow(order, c, cost, n) ==
  [date |-> day, order |-> order, contract |-> c, cost |-> cost, qty |-> n]

LogExit ==
  /\ stage = "exits" /\ day <= LastDay
  /\ \E c \in DOMAIN book, p \in ExitPrices :
       /\ log' = Append(log, LogRow(ExitOrder, c, -EntryCost(p), log[book[c]].qty))
       /\ book' = Restrict(book, DOMAIN book \ {c})
  /\ UNCHANGED <<direction, day, stage, ends>>

ExitsDone ==
  /\ stage = "exits" /\ day <= LastDay
  /\ stage' = "entries"
  /\ UNCHANGED <<direction, day, log, book, ends>>

LogEntry ==
  /\ stage = "entries"
  /\ \E c \in Contracts \ DOMAIN book, lot \in Lots :
       /\ log' = Append(log, LogRow(EntryOrder, c, EntryCost(lot.price), lot.qty))
       /\ book' = [x \in DOMAIN book \cup {c} |-> IF x = c THEN Len(log) + 1 ELSE book[x]]
  /\ UNCHANGED <<direction, day, stage, ends>>

EndDay ==
  /\ stage = "entries"
  /\ ends' = Append(ends, book)
  /\ day' = day + 1 /\ stage' = "exits"
  /\ UNCHANGED <<direction, log, book>>

Over == day > LastDay /\ UNCHANGED logVars

LogNext == LogExit \/ ExitsDone \/ LogEntry \/ EndDay \/ Over
LogSpec == LogInit /\ [][LogNext]_logVars

-----------------------------------------------------------------------------
(* analytics/trade_log.py.                                                 *)

EntryRows == {k \in DOMAIN log : log[k].order \in {"BTO", "STO"}}
ExitRows == DOMAIN log \ EntryRows
Of(K, c) == {k \in K : log[k].contract = c}
FirstEntry(c) == Min(Of(EntryRows, c))
FirstExit(c) == Min(Of(ExitRows, c))

\* Mutation: prices keep the sign of the log.
TradeSigned(e, x) ==
  [contract |-> e.contract, entry |-> e.date, exit |-> x.date,
   entryPrice |-> e.cost, exitPrice |-> x.cost, qty |-> e.qty]
Trade(e, x) ==
  [contract |-> e.contract, entry |-> e.date, exit |-> x.date,
   entryPrice |-> Magnitude(e.cost), exitPrice |-> Magnitude(x.cost), qty |-> e.qty]

\* One trade for every entry row whose contract has an exit: the first entry and
\* the first exit of the contract, each time.
Closed == {k \in EntryRows : Of(ExitRows, log[k].contract) # {}}
FromLegacyTradeLog ==
  [k \in Closed |-> LET c == log[k].contract
                    IN  Trade(log[FirstEntry(c)], log[FirstExit(c)])]

GrossPnl(t) == (t.exitPrice - t.entryPrice) * t.qty
Winners(trades) == {k \in DOMAIN trades : GrossPnl(trades[k]) > 0}

-----------------------------------------------------------------------------
(* analytics/summary.py.                                                   *)

LogTotal(f) == Total(f, Len(log))
Dollars(k) == log[k].cost * log[k].qty
\* An order is compared with the members of Order, which the log of a Python engine
\* held ("members"). The core writes their names: then no row is taken for an entry.
SummaryEntries(orders) == IF orders = "members" THEN EntryRows ELSE {}
SummaryExits(orders) == DOMAIN log \ SummaryEntries(orders)
\* Cost of each round trip: what was paid less what was received.
RoundTripCosts(orders) ==
  [k \in {j \in SummaryEntries(orders) : Of(SummaryExits(orders), log[j].contract) # {}} |->
     LET c == log[k].contract
     IN  Dollars(Min(Of(SummaryEntries(orders), c))) + Dollars(Min(Of(SummaryExits(orders), c)))]
Wins(orders) ==
  LET costs == RoundTripCosts(orders)
  IN  Cardinality({k \in DOMAIN costs : costs[k] < 0})
Losses(orders) == Cardinality(SummaryExits(orders)) - Wins(orders)

-----------------------------------------------------------------------------
(* myrun.py, for the log of a bought leg.                                  *)

\* Sorting by date may put rows of one date in any order: as written, which is
\* the exits first, or the entries first. A sort is the pairs it puts in order.
RowPairs == (DOMAIN log) \X (DOMAIN log)
AsWritten == {p \in RowPairs : p[1] < p[2]}
EntriesFirst ==
  {p \in RowPairs :
     \/ log[p[1]].date < log[p[2]].date
     \/ /\ log[p[1]].date = log[p[2]].date
        /\ \/ p[1] \in EntryRows /\ p[2] \in ExitRows
           \/ (p[1] \in EntryRows <=> p[2] \in EntryRows) /\ p[1] < p[2]}
Sorts == {AsWritten, EntriesFirst}

BoughtRows == {k \in DOMAIN log : log[k].order = "BTO"}
SoldRows == DOMAIN log \ BoughtRows
Before(sort, K, k) == {j \in K : <<j, k>> \in sort}

\* FIFO per contract: the k-th exit of a contract is paired with its k-th entry.
\* Mutation: an exit is paired with the latest entry.
PairedLast(sort, k) ==
  LET bought == Before(sort, Of(BoughtRows, log[k].contract), k)
  IN  CHOOSE e \in bought : Before(sort, bought, e) = bought \ {e}
Paired(sort, k) ==
  LET bought == Before(sort, Of(BoughtRows, log[k].contract), k)
      sold == Before(sort, Of(SoldRows, log[k].contract), k)
  IN  CHOOSE e \in bought : Cardinality(Before(sort, bought, e)) = Cardinality(sold)

\* write_trade_log: the columns an exit row gets.
Booked(sort) ==
  [k \in SoldRows |->
     LET e == Paired(sort, k)
     IN  [entry |-> e, holdingDays |-> log[k].date - log[e].date, basis |-> Dollars(e),
          pnl |-> -Dollars(k) - Dollars(e)]]

\* margin_cost: the entry basis, borrowed from the entry date to the day before the
\* exit, and to the end while there is none.
\* Mutation: still borrowed on the day of the sale.
BorrowedThroughExit(sort, d) ==
  LET exitsOf(e) == {k \in SoldRows : Paired(sort, k) = e}
      on == {e \in BoughtRows : /\ log[e].date <= d
                                /\ \A k \in exitsOf(e) : d <= log[k].date}
  IN  LogTotal([e \in on |-> Dollars(e)])
Borrowed(sort, d) ==
  LET exitsOf(e) == {k \in SoldRows : Paired(sort, k) = e}
      on == {e \in BoughtRows : /\ log[e].date <= d
                                /\ \A k \in exitsOf(e) : d < log[k].date}
  IN  LogTotal([e \in on |-> Dollars(e)])

\* coverage: a contract is held from its first BTO to before its first STC.
SoldToClose(c) == {k \in Of(DOMAIN log, c) : log[k].order = "STC"}
\* Mutation: from the day after it is bought.
OpenOnLate(c, d) ==
  LET bto == Of(BoughtRows, c)
      stc == SoldToClose(c)
  IN  bto # {} /\ d > log[Min(bto)].date /\ (stc = {} \/ d < log[Min(stc)].date)
OpenOn(c, d) ==
  LET bto == Of(BoughtRows, c)
      stc == SoldToClose(c)
  IN  bto # {} /\ d >= log[Min(bto)].date /\ (stc = {} \/ d < log[Min(stc)].date)
Uncovered == {d \in 1..Len(ends) : \A c \in Contracts : ~OpenOn(c, d)}

-----------------------------------------------------------------------------
(* What the readers promise, when the day is over.                         *)

DayOver == stage = "exits" /\ \A k \in DOMAIN log : log[k].date < day
EnteredOnce ==
  \A j, k \in EntryRows : log[j].contract = log[k].contract => j = k
\* What was paid for the positions of a book.
Basis(b) == LogTotal([k \in Range(b) |-> Dollars(k)])
LogCash == LogTotal([k \in DOMAIN log |-> -Dollars(k)])

LogRows == [date : 1..LastDay, order : {"BTO", "STO", "STC", "BTC"}, contract : Contracts,
            cost : Int, qty : Nat \ {0}]

\* Rows have the type of the log, and a book names the rows its positions were
\* entered by.
TradeLogTypeOK ==
  /\ direction \in Directions /\ day \in 1..(LastDay + 1) /\ stage \in {"exits", "entries"}
  /\ log \in Seq(LogRows)
  /\ DOMAIN book \subseteq Contracts /\ \A c \in DOMAIN book : book[c] \in Of(EntryRows, c)
  /\ ends \in Seq(Range(ends)) /\ Len(ends) = day - 1

\* write_trade_log pairs each exit with the entry of the very position that was
\* sold, re-entered contracts included and whatever order the sort gives rows of
\* one date: the booked P&L and the basis still open account for every dollar.
FifoAccountsForCash ==
  DayOver /\ direction = "BUY" =>
    \A sort \in Sorts :
      LET b == Booked(sort)
      IN  /\ \A k \in DOMAIN b : b[k].holdingDays > 0 /\ log[k].qty = log[b[k].entry].qty
          /\ LogTotal([k \in DOMAIN b |-> b[k].pnl]) = LogCash + Basis(book)

\* The margin balance of a day is the entry basis of the positions held at its
\* end, though it is rebuilt from the log alone.
MarginIsOpenBasis ==
  DayOver /\ direction = "BUY" =>
    \A sort \in Sorts, d \in 1..Len(ends) : Borrowed(sort, d) = Basis(ends[d])

\* While no contract was entered twice, TradeLog has one round trip per position
\* sold, and for a bought leg their P&L and the basis still open account for every
\* dollar, and its winners are the wins of the summary, which pairs the log on its
\* own, when its orders are members of Order.
RoundTripsComplete ==
  EnteredOnce =>
    LET trades == FromLegacyTradeLog
    IN  /\ Cardinality(DOMAIN trades) = Cardinality(ExitRows)
        /\ \A x \in ExitRows : \E k \in DOMAIN trades :
             /\ trades[k].contract = log[x].contract /\ trades[k].exit = log[x].date
             /\ trades[k].qty = log[x].qty
        /\ direction = "BUY" =>
             /\ LogTotal([k \in DOMAIN trades |-> GrossPnl(trades[k])]) = LogCash + Basis(book)
             /\ Wins("members") = Cardinality(Winners(trades)) /\ Losses("members") >= 0

\* For contracts entered once, the coverage is the days on which the book ended
\* empty.
CoverageMatchesOnceEntered ==
  DayOver /\ direction = "BUY" /\ EnteredOnce =>
    Uncovered = {d \in 1..Len(ends) : DOMAIN ends[d] = {}}
=============================================================================
