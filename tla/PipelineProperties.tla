------------------------- MODULE PipelineProperties -------------------------
(***************************************************************************)
(* What the pipeline backtester promises: schedulers that follow the       *)
(* calendar although they only see the dates they are asked about, a       *)
(* context whose total stays the value of its books, and books that are    *)
(* not overdrawn.                                                          *)
(***************************************************************************)
EXTENDS Pipeline

IsBook(f) == DOMAIN f \subseteq Symbols /\ \A x \in DOMAIN f : f[x] \in Int

PriceRow == [Symbols -> Nat \cup {NaN}]
Statuses == {"continue", "skip_day", "stop", "NaN"}

StateOK(s) ==
  /\ s = [key |-> s.key, count |-> s.count, peak |-> s.peak, target |-> s.target, left |-> s.left]
  /\ s.count \in Int /\ s.peak \in Int /\ s.left \in Int /\ IsBook(s.target)

ContextOK(c) ==
  /\ c = [day |-> c.day, prices |-> c.prices, history |-> c.history, total |-> c.total,
          cash |-> c.cash, positions |-> c.positions, selected |-> c.selected, target |-> c.target]
  /\ c.day \in 1..Len(Calendar)
  /\ c.prices \in PriceRow /\ c.history \in Seq(PriceRow)
  /\ c.total \in Int /\ c.cash \in Int
  /\ IsBook(c.positions) /\ IsBook(c.target) /\ c.selected \in Seq(Symbols)

StatesOK(a, ss) ==
  /\ ss = [i \in 1..Len(ss) |-> ss[i]]
  /\ Len(ss) = IF a.kind \in Combinators THEN Len(a.algos) ELSE 1
  /\ \A i \in 1..Len(ss) : StateOK(ss[i])

\* Types of the books, of what the algos remember, of the context, of the rows and
\* of the log; a row is its cash and its stocks, one row for each date.
PipelineTypeOK ==
  /\ program \in Programs
  /\ pc \in {"date", "algo", "record", "done", "NaN"}
  /\ states = [k \in 1..Len(program) |-> states[k]]
  /\ \A k \in 1..Len(program) : StatesOK(program[k], states[k])
  /\ prices \in Seq(PriceRow) /\ Len(prices) <= Len(Calendar)
  /\ cash \in Int /\ IsBook(positions)
  /\ step \in 0..(Len(program) + 1)
  /\ pc \in {"algo", "record"} =>
       ContextOK(ctx) /\ ctx.day = Len(prices) /\ ctx.history = prices /\ step > 0
  /\ rows = [i \in 1..Len(rows) |-> rows[i]]
  /\ Len(rows) = Len(prices) - (IF pc \in {"algo", "record", "NaN"} THEN 1 ELSE 0)
  /\ \A i \in 1..Len(rows) : rows[i].day = i /\ rows[i].total = rows[i].cash + rows[i].stocks
  /\ log \in Seq([day : 1..Len(prices), step : 1..Len(program), status : Statuses])

\* The algos of the program, those that a combinator holds included.
Inside(a) == IF a.kind \in Combinators THEN {a.algos[i] : i \in DOMAIN a.algos} ELSE {a}
Used == UNION {Inside(program[k]) : k \in DOMAIN program}
Uses(kinds) == \E a \in Used : a.kind \in kinds
At(k, d, status) == \E i \in DOMAIN log : log[i] = [day |-> d, step |-> k, status |-> status]
Asked(k, d) == \E i \in DOMAIN log : log[i].day = d /\ log[i].step = k

-----------------------------------------------------------------------------
(* Schedules.                                                              *)

\* The first date of the data whose key is the key of d.
FirstWith(key(_), d) == \A e \in 1..(d-1) : key(Calendar[e]) # key(Calendar[d])

\* The dates a scheduler is documented to allow, from the calendar alone.
Due(a, d) ==
  CASE a.kind = "RunMonthly" -> FirstWith(LAMBDA x : <<x.year, x.month>>, d)
    [] a.kind = "RunWeekly" -> FirstWith(LAMBDA x : <<x.isoyear, x.week>>, d)
    [] a.kind = "RunQuarterly" -> FirstWith(LAMBDA x : <<x.year, (x.month + 2) \div 3>>, d)
    [] a.kind = "RunYearly" -> FirstWith(LAMBDA x : x.year, d)
    [] a.kind = "RunOnce" -> d = 1
    [] a.kind = "RunDaily" -> TRUE
    [] a.kind = "RunOnDate" -> d \in a.dates
    [] a.kind = "RunAfterDate" -> d >= a.date
    [] a.kind = "RunAfterDays" -> d > a.n
    [] a.kind = "RunEveryNPeriods" -> \E i \in 0..d : d = 1 + i * a.n
    [] OTHER -> FALSE

PeriodSchedulers == {"RunMonthly", "RunWeekly", "RunQuarterly", "RunYearly", "RunOnce"}
Schedulers ==
  PeriodSchedulers \cup {"RunDaily", "RunOnDate", "RunAfterDate", "RunAfterDays", "RunEveryNPeriods"}

\* A scheduler at the head of a program, which remembers a key or a count from
\* date to date, allows exactly the dates the calendar says; every N periods is
\* stated for N above 1 (n = 1 allows the first date only).
SchedulersMatchCalendar ==
  \A d \in 1..Len(prices) :
    /\ program[1].kind \in Schedulers
    /\ program[1].kind = "RunEveryNPeriods" => program[1].n > 1
    /\ Asked(1, d)
    => (At(1, d, "continue") <=> Due(program[1], d))

\* Or stops asking at the first child that passes, so the others keep an old
\* period; still no date on which a period of some child begins is missed, unless
\* a child before it loses the cash.
OrMissesNoPeriod ==
  \A d \in 1..Len(prices) :
    /\ program[1].kind = "Or"
    /\ Asked(1, d)
    /\ \E i \in DOMAIN program[1].algos :
         program[1].algos[i].kind \in PeriodSchedulers /\ Due(program[1].algos[i], d)
    => At(1, d, "continue") \/ At(1, d, "NaN")

-----------------------------------------------------------------------------
(* Books.                                                                  *)

\* While the algos of a date run, each of them changing cash, positions or the
\* total by its own arithmetic, the total of the context is the value of its
\* books. Closing positions after a date takes them without payment.
TotalInSync ==
  /\ pc \in {"algo", "record"}
  /\ ~Uses({"ClosePositionsAfterDates"})
  => ctx.total = ctx.cash + MarkedValue(ctx.positions, ctx.prices)

LongOnly(a) ==
  /\ a.kind = "WeighSpecified" => \A x \in DOMAIN a.weights : a.weights[x] >= 0
  /\ a.kind = "WeighTarget" =>
       \A d \in DOMAIN a.table : \A x \in DOMAIN a.table[d] : a.table[d][x] >= 0
  /\ a.kind \in {"LimitWeights", "LimitDeltas"} => a.limit >= 0
  /\ a.kind = "CouponPayingPosition" => a.coupon >= 0

\* A pipeline of long weights without leverage, blotter or withdrawals never
\* borrows, through any sequence of selections, limits, instalments, dead prices
\* and missing prices.
UnleveredCashNonNegative ==
  /\ ~ Uses({"Margin", "ScaleWeights", "HedgeRisks", "ReplayTransactions", "CapitalFlow"})
  /\ \A a \in Used : LongOnly(a)
  => ctx.cash >= 0 /\ cash >= 0

\* Rebalance multiplies prices it does not look at: cash stays a number only
\* because the selections before it drop unpriced symbols, through every later
\* weighting, limit and hedge. SelectRegex and SelectHasData do not drop them.
CashStaysNumber ==
  ~ Uses({"SelectRegex", "SelectHasData"}) => pc # "NaN"

\* What a book of these weights holds of x, from the whole capital, in whole shares.
SharesOf(w, c, x) ==
  IF x \in DOMAIN w THEN (c.total * w[x]) \div (ONE * c.prices[x]) ELSE 0

Reached(w, c, x) ==
  \/ Quantity(c, x) = SharesOf(w, c, x)
  \/ Quantity(c, x) = SharesOf(w, c, x) - 1
  \/ Quantity(c, x) = 0 /\ SharesOf(w, c, x) <= 1

\* The last instalment of a gradual rebalance ends at the target, whatever prices
\* and flows did in between: it holds the shares that the target weights buy at
\* that date's prices, or one less where the float quotient falls short.
GradualEndsAtTarget ==
  LET k == step - 1
  IN  /\ pc = "algo" /\ step > 1
      /\ program[k].kind = "RebalanceOverTime"
      /\ states[k][1].left = 0
      /\ \A x \in Symbols : ctx.prices[x] > 0
      => \A x \in Symbols : Reached(states[k][1].target, ctx, x)
=============================================================================
