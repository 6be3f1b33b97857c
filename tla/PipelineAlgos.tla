--------------------------- MODULE PipelineAlgos ---------------------------
(***************************************************************************)
(* The algos of engine/pipeline.py.  An algo is a record with the name of  *)
(* its class and its parameters; what it remembers between dates is a      *)
(* state record; a call takes the algo, its state and the context of the   *)
(* date and returns an outcome: the new state, the new context, a status.  *)
(*                                                                         *)
(* Weights are counted in units of which ONE make 1.0, money in whole      *)
(* units, and a division the code makes on floats is rounded down.  What a *)
(* seeded generator or a numeric estimate returns is a draw, an argument   *)
(* that ranges over everything the code can compute there.                 *)
(***************************************************************************)
EXTENDS Integers, Sequences, SequencesExt, Totals

CONSTANTS NumSymbols,   \* columns of the price table, in their order
          Calendar,     \* the dates: records with year, month, week
          ONE           \* units of weight in 1.0

Symbols == 1..NumSymbols
Columns == [s \in Symbols |-> s]

NaN == -1
Nothing == << >>        \* an empty dict or list, and the draw nobody reads

\* What an algo remembers; each class uses some of the fields.
Fresh == [key |-> Nothing, count |-> 0, peak |-> 0, target |-> Nothing, left |-> 0]

Continue(s, c) == [s |-> s, c |-> c, status |-> "continue"]
Skip(s, c) == [s |-> s, c |-> c, status |-> "skip_day"]
Stop(s, c) == [s |-> s, c |-> c, status |-> "stop"]

\* The elements of seq that are in S, in their order.
Kept(seq, S) ==
  LET kept[k \in 0..Len(seq)] ==
        IF k = 0 THEN Nothing
        ELSE IF seq[k] \in S THEN Append(kept[k-1], seq[k]) ELSE kept[k-1]
  IN  kept[Len(seq)]

Priced(c, s) == c.prices[s] # NaN
Today(c) == Calendar[c.day]
Quantity(c, s) == IF s \in DOMAIN c.positions THEN c.positions[s] ELSE 0

\* Quantities at today's prices; a holding without a price counts for nothing.
MarkedValue(positions, prices) ==
  Total([s \in {t \in DOMAIN positions : prices[t] # NaN} |-> positions[s] * prices[s]],
        NumSymbols)

\* The share of the capital that is in s.
CurrentWeight(c, s) ==
  IF Priced(c, s) THEN (Quantity(c, s) * c.prices[s] * ONE) \div c.total ELSE 0

WeightSum(w) == Total(w, NumSymbols)
Normalised(w) == [s \in DOMAIN w |-> (w[s] * ONE) \div WeightSum(w)]
Scaled(w, num, den) == [s \in DOMAIN w |-> (w[s] * num) \div den]

-----------------------------------------------------------------------------
(* Schedulers.                                                             *)

OncePer(key, s, c) ==
  IF s.key = key THEN Skip(s, c) ELSE Continue([s EXCEPT !.key = key], c)

RunMonthly(a, s, c) == OncePer(<<Today(c).year, Today(c).month>>, s, c)
\* Mutation: the calendar year in the key of an ISO week.
RunWeekCalendarYear(a, s, c) == OncePer(<<Today(c).year, Today(c).week>>, s, c)
RunWeekly(a, s, c) == OncePer(<<Today(c).isoyear, Today(c).week>>, s, c)
RunQuarterly(a, s, c) == OncePer(<<Today(c).year, (Today(c).month - 1) \div 3>>, s, c)
RunYearly(a, s, c) == OncePer(<<Today(c).year>>, s, c)
RunOnce(a, s, c) == OncePer(<<"ran">>, s, c)
RunDaily(a, s, c) == Continue(s, c)
RunOnDate(a, s, c) == IF c.day \in a.dates THEN Continue(s, c) ELSE Skip(s, c)
RunAfterDate(a, s, c) == IF c.day < a.date THEN Skip(s, c) ELSE Continue(s, c)

RunEveryNPeriods(a, s, c) ==
  LET n == s.count + 1
      t == [s EXCEPT !.count = n]
  IN  IF n % a.n # 1 /\ n # 1 THEN Skip(t, c) ELSE Continue(t, c)

RunAfterDays(a, s, c) ==
  LET t == [s EXCEPT !.count = s.count + 1]
  IN  IF t.count <= a.n THEN Skip(t, c) ELSE Continue(t, c)

\* update_target is the only code that sets the target, and nothing calls it.
RunIfOutOfBounds(a, s, c) ==
  IF /\ s.target # Nothing
     /\ c.total > 0
     /\ \E x \in DOMAIN s.target :
          Magnitude(CurrentWeight(c, x) - s.target[x]) > a.tolerance
  THEN Continue(s, c) ELSE Skip(s, c)

-----------------------------------------------------------------------------
(* Selections.                                                             *)

Choose(seq, s, c) ==
  LET d == [c EXCEPT !.selected = seq]
  IN  IF seq = Nothing THEN Skip(s, d) ELSE Continue(s, d)

\* A selection works on the one before it, or on every symbol when that is empty.
CandidatesOr(c, all) == IF c.selected # Nothing THEN c.selected ELSE all
PricedSymbols(c) == {x \in Symbols : Priced(c, x)}
ActiveSymbols(c) == {x \in Symbols : Priced(c, x) /\ c.prices[x] > 0}
PricedColumns(c) == Kept(Columns, PricedSymbols(c))
Observed(c, x) == Kept([i \in DOMAIN c.history |-> c.history[i][x]], Nat)
LastOf(seq, n) == IF Len(seq) <= n THEN seq ELSE SubSeq(seq, Len(seq) - n + 1, Len(seq))

SelectThese(a, s, c) == Choose(Kept(a.symbols, PricedSymbols(c)), s, c)

\* Mutation: a symbol without a price is selected.
SelectAllUnfiltered(a, s, c) == Choose(Kept(Columns, {x \in Symbols : c.prices[x] # 0}), s, c)
SelectAll(a, s, c) == Choose(Kept(Columns, ActiveSymbols(c)), s, c)

SelectHasData(a, s, c) ==
  Choose(Kept(CandidatesOr(c, Columns), {x \in Symbols : Len(Observed(c, x)) >= a.days}), s, c)

SelectActive(a, s, c) == Choose(Kept(CandidatesOr(c, Columns), ActiveSymbols(c)), s, c)
SelectRegex(a, s, c) == Choose(Kept(CandidatesOr(c, Columns), a.matches), s, c)
SelectWhere(a, s, c) == Choose(Kept(CandidatesOr(c, PricedColumns(c)), a.accepts), s, c)

SelectN(a, s, c) == Choose(SubSeq(c.selected, 1, IF a.n < Len(c.selected) THEN a.n ELSE Len(c.selected)), s, c)

\* Trailing return over the lookback, highest first or lowest first, ties in
\* candidate order; a symbol is scored once. The k-th has k-1 ahead of it.
SelectMomentum(a, s, c) ==
  LET from   == CandidatesOr(c, PricedColumns(c))
      window(x) == LastOf(Observed(c, x), a.lookback)
      scored == {i \in DOMAIN from : /\ Len(window(from[i])) >= 2 /\ window(from[i])[1] > 0
                                     /\ \A j \in 1..(i-1) : from[j] # from[i]}
      grew(x, y) == Last(window(x)) * window(y)[1] > Last(window(y)) * window(x)[1]
      above(x, y) == IF a.descending THEN grew(x, y) ELSE grew(y, x)
      ahead(i) == {j \in scored : \/ above(from[j], from[i])
                                  \/ ~above(from[i], from[j]) /\ j < i}
      place(k) == CHOOSE i \in scored : Cardinality(ahead(i)) = k - 1
      n == Cardinality(scored)
  IN  Choose([k \in 1..(IF a.n < n THEN a.n ELSE n) |-> from[place(k)]], s, c)

\* The draw is the sorted sample; an empty one does not skip the day.
SelectRandomly(a, s, c, draw) ==
  IF CandidatesOr(c, PricedColumns(c)) = Nothing
  THEN Skip(s, c) ELSE Continue(s, [c EXCEPT !.selected = draw])

-----------------------------------------------------------------------------
(* Weights.                                                                *)

Weigh(w, s, c) ==
  IF w = Nothing \/ WeightSum(w) <= 0 THEN Skip(s, c)
                                      ELSE Continue(s, [c EXCEPT !.target = w])

Selected(c) == ToSet(c.selected)

WeighSpecified(a, s, c) ==
  LET raw == [x \in Selected(c) |-> IF x \in DOMAIN a.weights THEN a.weights[x] ELSE 0]
  IN  IF WeightSum(raw) <= 0 THEN Skip(s, c) ELSE Weigh(Normalised(raw), s, c)

WeighEqually(a, s, c) ==
  Weigh([x \in Selected(c) |-> ONE \div Len(c.selected)], s, c)

\* The last row of the weight table dated today or before.
WeighTarget(a, s, c) ==
  LET past == {d \in DOMAIN a.table : d <= c.day}
      row  == a.table[CHOOSE d \in past : \A e \in past : e <= d]
      raw  == [x \in Selected(c) \cap DOMAIN row |-> row[x]]
  IN  IF \/ c.selected = Nothing \/ past = {} THEN Skip(s, c)
      ELSE IF WeightSum(raw) <= 0 THEN Skip(s, c) ELSE Weigh(Normalised(raw), s, c)

\* The draw is any weights that sum to ONE.
WeighRandomly(a, s, c, draw) == Weigh(draw, s, c)

\* The draw leaves out the symbols without volatility, perhaps all of them.
WeighInvVol(a, s, c, draw) == Weigh(draw, s, c)

\* Dates of the history on which every symbol of S has a price.
CommonHistory(c, S) ==
  Kept(c.history, {p \in ToSet(c.history) : \A x \in S : p[x] # NaN})
Returns(c, S, lookback) == Len(LastOf(CommonHistory(c, S), lookback)) - 1

\* Below three returns the estimates skip; a singular covariance or a clipped
\* optimum gives equal weights, which are among the draws.
WeighMeanVar(a, s, c, draw) ==
  IF c.selected = Nothing \/ Returns(c, Selected(c), a.lookback) < 3
  THEN Skip(s, c) ELSE Weigh(draw, s, c)

WeighERC(a, s, c, draw) ==
  IF c.selected = Nothing \/ Returns(c, Selected(c), a.lookback) < 3
  THEN Skip(s, c) ELSE Weigh(draw, s, c)

\* The draw is the ratio target_vol / realized_vol, at most 1.
TargetVol(a, s, c, draw) ==
  IF c.target = Nothing THEN Skip(s, c)
  ELSE IF Returns(c, DOMAIN c.target, a.lookback) < 3 THEN Continue(s, c)
  ELSE Continue(s, [c EXCEPT !.target = Scaled(c.target, draw, ONE)])

-----------------------------------------------------------------------------
(* Limits.                                                                 *)

\* One pass: what is above the limit is cut to it, the excess is spread over
\* the rest in proportion.
ClipPass(w, limit) ==
  LET over   == {x \in DOMAIN w : w[x] > limit}
      rest   == [x \in DOMAIN w \ over |-> w[x]]
      excess == Total([x \in over |-> w[x] - limit], NumSymbols)
  IN  [x \in DOMAIN w |->
         IF x \in over THEN limit
         ELSE IF over # {} /\ WeightSum(rest) > 0
              THEN (w[x] * (WeightSum(rest) + excess)) \div WeightSum(rest)
              ELSE w[x]]


Clipped(w, limit) ==
  LET pass[i \in 0..10] == IF i = 0 THEN w ELSE ClipPass(pass[i-1], limit)
  IN  pass[10]

LimitWeights(a, s, c) == Continue(s, [c EXCEPT !.target = Clipped(@, a.limit)])

Bounded(x, lo, hi) == IF x < lo THEN lo ELSE IF x > hi THEN hi ELSE x

LimitDeltas(a, s, c) ==
  LET moved == [x \in DOMAIN c.target |->
                  CurrentWeight(c, x)
                    + Bounded(c.target[x] - CurrentWeight(c, x), -a.limit, a.limit)]
  IN  IF c.target = Nothing \/ c.total <= 0 THEN Continue(s, c)
      ELSE Continue(s, [c EXCEPT !.target =
             IF WeightSum(moved) > 0 /\ WeightSum(c.target) > 0
             THEN Scaled(moved, WeightSum(c.target), WeightSum(moved)) ELSE moved])

ScaleWeights(a, s, c) == Continue(s, [c EXCEPT !.target = Scaled(@, a.scale, ONE)])

-----------------------------------------------------------------------------
(* Flows, guards, financing.                                               *)

Credit(c, amount) == [c EXCEPT !.cash = @ + amount, !.total = @ + amount]

\* Mutation: the flow reaches cash only.
FlowToCashOnly(a, s, c) ==
  Continue(s, IF c.day \in DOMAIN a.flows THEN [c EXCEPT !.cash = @ + a.flows[c.day]] ELSE c)
CapitalFlow(a, s, c) ==
  Continue(s, IF c.day \in DOMAIN a.flows THEN Credit(c, a.flows[c.day]) ELSE c)

MaxDrawdownGuard(a, s, c) ==
  LET peak == IF c.total > s.peak THEN c.total ELSE s.peak
      t == [s EXCEPT !.peak = peak]
  IN  IF peak > 0 /\ (peak - c.total) * ONE > a.drawdown * peak
      THEN Skip(t, c) ELSE Continue(t, c)

\* The symbols whose weights are adjusted; the draw is the adjustments, which
\* the least-squares solution gives one sign.
Hedgers(a, c) ==
  Kept(IF a.hedgers # Nothing THEN a.hedgers ELSE c.selected, PricedSymbols(c))

\* The price of a date, or the one before it where pct_change fills gaps.
Filling(a, c, x, i) ==
  LET seen == Kept([j \in 1..i |-> c.history[j][x]], Nat)
  IN  IF a.fills /\ seen # Nothing THEN Last(seen) ELSE c.history[i][x]

\* The dates whose row of pct_change().dropna() is left: a return of every symbol,
\* and 0 to 0 is none.
Moves(a, c, S) ==
  {i \in 2..Len(c.history) : \A x \in S :
     /\ Filling(a, c, x, i-1) # NaN /\ Filling(a, c, x, i) # NaN
     /\ Filling(a, c, x, i-1) # 0 \/ Filling(a, c, x, i) # 0}

HedgeRisks(a, s, c, draw) ==
  LET hedgers == ToSet(Hedgers(a, c))
      weight(x) == IF x \in DOMAIN c.target THEN c.target[x] ELSE 0
  IN  IF \/ c.target = Nothing
         \/ hedgers = {}
         \/ Cardinality(Moves(a, c, hedgers \cup DOMAIN c.target)) < 3
      THEN Skip(s, c)
      ELSE Continue(s, [c EXCEPT !.target = [x \in DOMAIN c.target \cup hedgers |->
             weight(x) + IF x \in hedgers THEN draw[x] ELSE 0]])

\* Interest on what the stocks are worth beyond cash, then the margin call.
Margin(a, s, c) ==
  LET stock    == MarkedValue(c.positions, c.prices)
      borrowed == IF stock > c.cash THEN stock - c.cash ELSE 0
      d        == Credit(c, -((a.rate * borrowed) \div ONE))
      call     == stock > 0 /\ (d.cash + stock) * ONE < a.maintenance * stock
  IN  IF call THEN Stop(s, d)
      ELSE Continue(s, [d EXCEPT !.target = Scaled(@, a.leverage, ONE)])

MonthsBetween(k, d) == (d.year - k[1]) * 12 + (d.month - k[2])

CouponPayingPosition(a, s, c) ==
  LET month == <<Today(c).year, Today(c).month>>
  IN  IF c.day >= a.maturity THEN Stop(s, Credit(c, a.coupon))
      ELSE IF \/ c.day < a.start
              \/ s.key # Nothing /\ MonthsBetween(s.key, Today(c)) < a.months
           THEN Continue(s, c)
           ELSE Continue([s EXCEPT !.key = month], Credit(c, a.coupon))

\* A trade of a blotter at today's price; without a price it is dropped.
Filled(c, t) ==
  LET q == Quantity(c, t.symbol) + t.qty
  IN  IF ~(Priced(c, t.symbol) /\ c.prices[t.symbol] > 0) THEN c
      ELSE [c EXCEPT !.cash = @ - t.qty * c.prices[t.symbol],
                     !.positions = [x \in (DOMAIN c.positions \cup {t.symbol})
                                          \ (IF q = 0 THEN {t.symbol} ELSE {}) |->
                                      IF x = t.symbol THEN q ELSE c.positions[x]]]

\* The trades of the date, in order.
ReplayTransactions(a, s, c) ==
  LET after[k \in 0..Len(a.blotter)] ==
        IF k = 0 THEN c
        ELSE IF a.blotter[k].day = c.day THEN Filled(after[k-1], a.blotter[k]) ELSE after[k-1]
  IN  Continue(s, after[Len(a.blotter)])

-----------------------------------------------------------------------------
(* Positions.                                                              *)

Keeping(c, S) == [c EXCEPT !.positions = [x \in S |-> c.positions[x]]]

CloseDead(a, s, c) ==
  Continue(s, Keeping(c, {x \in DOMAIN c.positions : Priced(c, x) /\ c.prices[x] > 0}))

\* The position goes; cash is not credited.
ClosePositionsAfterDates(a, s, c) ==
  Continue(s, Keeping(c, {x \in DOMAIN c.positions :
                            ~(x \in DOMAIN a.schedule /\ c.day >= a.schedule[x])}))

\* The book after buying the quantities q, out of the whole capital.
Rebooked(c, q) == [c EXCEPT !.positions = q, !.cash = c.total - MarkedValue(q, c.prices)]

\* The floor of a quotient of floats: where the exact quotient is whole, rounding
\* may leave it one short.
Floored(num, den, short) ==
  IF short /\ num # 0 /\ num % den = 0 THEN (num \div den) - 1 ELSE num \div den

\* Mutation: shares are rounded up.
RebalanceUp(a, s, c, draw) ==
  LET bought == {x \in DOMAIN c.target : c.prices[x] > 0}
  IN  IF c.target = Nothing THEN Skip(s, c)
      ELSE Continue(s, Rebooked(c, [x \in bought |->
             -((-(c.total * c.target[x])) \div (ONE * c.prices[x]))]))
\* Whole shares of the target values, one short where x is in the draw; a target
\* without a price is NaN shares, and cash with it.
Rebalance(a, s, c, draw) ==
  LET bought == {x \in DOMAIN c.target : c.prices[x] > 0}
  IN  IF c.target = Nothing THEN Skip(s, c)
      ELSE IF \E x \in DOMAIN c.target : ~Priced(c, x)
           THEN [s |-> s, c |-> c, status |-> "NaN"]
      ELSE Continue(s, Rebooked(c, [x \in bought |->
             Floored(c.total * c.target[x], ONE * c.prices[x], x \in DOMAIN draw)]))

\* Mutation: each instalment is one period short of its share.
InstalmentShort(c, x, aim, left, short) ==
  Floored(Quantity(c, x) * c.prices[x] * ONE * left + c.total * aim,
          (left + 1) * ONE * c.prices[x], short)
\* Shares after going 1/left of the way from the weight held to the target weight.
Instalment(c, x, aim, left, short) ==
  Floored(Quantity(c, x) * c.prices[x] * ONE * (left - 1) + c.total * aim,
          left * ONE * c.prices[x], short)

\* A new target starts n instalments; the same target never starts them again.
RebalanceOverTime(a, s, c, draw) ==
  LET fresh  == c.target # Nothing /\ c.target # s.target
      target == IF fresh THEN c.target ELSE s.target
      left   == IF fresh THEN a.n ELSE s.left
      t      == [s EXCEPT !.target = target, !.left = left]
      qty(x) == Instalment(c, x, IF x \in DOMAIN target THEN target[x] ELSE 0, left,
                           x \in DOMAIN draw)
      kept   == {x \in DOMAIN target \cup DOMAIN c.positions : c.prices[x] > 0 /\ qty(x) > 0}
  IN  IF left <= 0 \/ target = Nothing \/ c.total <= 0 THEN Skip(t, c)
      ELSE Continue([t EXCEPT !.left = left - 1], Rebooked(c, [x \in kept |-> qty(x)]))

-----------------------------------------------------------------------------
(* Dispatch.                                                               *)

Weightings(S) == {w \in [S -> 0..ONE] : WeightSum(w) = ONE}

Combinators == {"Or", "Not", "Require"}

\* What the generator or the estimate of an algo can return; for shares, the symbols
\* whose quotient comes out short.
Draws(a, c) ==
  LET chosen == Selected(c)
      from   == CandidatesOr(c, PricedColumns(c))
  IN  CASE a.kind = "SelectRandomly" ->
             {Kept(Columns, T) :
                T \in kSubset(IF a.n < Len(from) THEN a.n ELSE Len(from), ToSet(from))}
        [] a.kind \in {"WeighRandomly", "WeighMeanVar", "WeighERC"} /\ chosen # {} ->
             Weightings(chosen)
        [] a.kind = "WeighInvVol" ->
             {Nothing} \cup UNION {Weightings(T) : T \in
               SUBSET {x \in chosen : Len(LastOf(Observed(c, x), a.lookback)) >= 3} \ {{}}}
        [] a.kind = "TargetVol" -> 1..ONE
        [] a.kind = "HedgeRisks" ->
             LET H == ToSet(Hedgers(a, c))
             IN  [H -> 0..a.bound] \cup [H -> -a.bound..0]
        [] a.kind \in {"Rebalance", "RebalanceOverTime"} \cup Combinators ->
             UNION {[S -> {1}] : S \in SUBSET Symbols}
        [] OTHER -> {Nothing}

\* The classes, by what a call may change in the context: nothing, the
\* selection, the target, the money (and the target), the books.
Asking ==
  {"RunMonthly", "RunWeekly", "RunQuarterly", "RunYearly", "RunOnce", "RunDaily", "RunOnDate",
   "RunAfterDate", "RunEveryNPeriods", "RunAfterDays", "RunIfOutOfBounds", "MaxDrawdownGuard"}
Selecting ==
  {"SelectThese", "SelectAll", "SelectHasData", "SelectActive", "SelectRegex", "SelectWhere",
   "SelectN", "SelectMomentum", "SelectRandomly"}
Weighing ==
  {"WeighSpecified", "WeighEqually", "WeighTarget", "WeighRandomly", "WeighInvVol", "WeighMeanVar",
   "WeighERC", "TargetVol", "LimitWeights", "LimitDeltas", "ScaleWeights", "HedgeRisks"}
Paying == {"CapitalFlow", "Margin", "CouponPayingPosition"}
Booking ==
  {"ReplayTransactions", "CloseDead", "ClosePositionsAfterDates", "Rebalance", "RebalanceOverTime"}

CallAlgo(a, s, c, draw) ==
  CASE a.kind = "RunMonthly" -> RunMonthly(a, s, c)
    [] a.kind = "RunWeekly" -> RunWeekly(a, s, c)
    [] a.kind = "RunQuarterly" -> RunQuarterly(a, s, c)
    [] a.kind = "RunYearly" -> RunYearly(a, s, c)
    [] a.kind = "RunOnce" -> RunOnce(a, s, c)
    [] a.kind = "RunDaily" -> RunDaily(a, s, c)
    [] a.kind = "RunOnDate" -> RunOnDate(a, s, c)
    [] a.kind = "RunAfterDate" -> RunAfterDate(a, s, c)
    [] a.kind = "RunEveryNPeriods" -> RunEveryNPeriods(a, s, c)
    [] a.kind = "RunAfterDays" -> RunAfterDays(a, s, c)
    [] a.kind = "RunIfOutOfBounds" -> RunIfOutOfBounds(a, s, c)
    [] a.kind = "SelectThese" -> SelectThese(a, s, c)
    [] a.kind = "SelectAll" -> SelectAll(a, s, c)
    [] a.kind = "SelectHasData" -> SelectHasData(a, s, c)
    [] a.kind = "SelectActive" -> SelectActive(a, s, c)
    [] a.kind = "SelectRegex" -> SelectRegex(a, s, c)
    [] a.kind = "SelectWhere" -> SelectWhere(a, s, c)
    [] a.kind = "SelectN" -> SelectN(a, s, c)
    [] a.kind = "SelectMomentum" -> SelectMomentum(a, s, c)
    [] a.kind = "SelectRandomly" -> SelectRandomly(a, s, c, draw)
    [] a.kind = "WeighSpecified" -> WeighSpecified(a, s, c)
    [] a.kind = "WeighEqually" -> WeighEqually(a, s, c)
    [] a.kind = "WeighTarget" -> WeighTarget(a, s, c)
    [] a.kind = "WeighRandomly" -> WeighRandomly(a, s, c, draw)
    [] a.kind = "WeighInvVol" -> WeighInvVol(a, s, c, draw)
    [] a.kind = "WeighMeanVar" -> WeighMeanVar(a, s, c, draw)
    [] a.kind = "WeighERC" -> WeighERC(a, s, c, draw)
    [] a.kind = "TargetVol" -> TargetVol(a, s, c, draw)
    [] a.kind = "LimitWeights" -> LimitWeights(a, s, c)
    [] a.kind = "LimitDeltas" -> LimitDeltas(a, s, c)
    [] a.kind = "ScaleWeights" -> ScaleWeights(a, s, c)
    [] a.kind = "CapitalFlow" -> CapitalFlow(a, s, c)
    [] a.kind = "MaxDrawdownGuard" -> MaxDrawdownGuard(a, s, c)
    [] a.kind = "HedgeRisks" -> HedgeRisks(a, s, c, draw)
    [] a.kind = "Margin" -> Margin(a, s, c)
    [] a.kind = "CouponPayingPosition" -> CouponPayingPosition(a, s, c)
    [] a.kind = "ReplayTransactions" -> ReplayTransactions(a, s, c)
    [] a.kind = "CloseDead" -> CloseDead(a, s, c)
    [] a.kind = "ClosePositionsAfterDates" -> ClosePositionsAfterDates(a, s, c)
    [] a.kind = "Rebalance" -> Rebalance(a, s, c, draw)
    [] a.kind = "RebalanceOverTime" -> RebalanceOverTime(a, s, c, draw)

\* What the constructors are given; the calendar's dates are its indices.
IntValued(f) == \A x \in DOMAIN f : f[x] \in Int

WellFormedAlgo(a) ==
  /\ a.kind \in UNION {Asking, Selecting, Weighing, Paying, Booking}
  /\ a.kind = "RunEveryNPeriods" => a.n \in Nat \ {0}
  /\ a.kind = "RunAfterDays" => a.n \in Int
  /\ a.kind = "RunAfterDate" => a.date \in Int
  /\ a.kind = "SelectThese" => a.symbols \in Seq(Symbols)
  /\ a.kind \in {"SelectN", "SelectMomentum", "SelectRandomly"} => a.n \in Nat
  /\ a.kind = "SelectMomentum" => a.lookback \in Nat \ {0} /\ a.descending \in BOOLEAN
  /\ a.kind = "WeighSpecified" => IntValued(a.weights)
  /\ a.kind = "WeighTarget" => DOMAIN a.table \subseteq Nat /\ \A d \in DOMAIN a.table : IntValued(a.table[d])
  /\ a.kind \in {"LimitWeights", "LimitDeltas"} => a.limit \in Int
  /\ a.kind = "ScaleWeights" => a.scale \in Int
  /\ a.kind = "HedgeRisks" => a.hedgers \in Seq(Symbols) /\ a.bound \in Nat /\ a.fills \in BOOLEAN
  /\ a.kind = "CapitalFlow" => IntValued(a.flows)
  /\ a.kind = "Margin" => a.rate \in Int /\ a.maintenance \in Int /\ a.leverage \in Int
  /\ a.kind = "CouponPayingPosition" => a.coupon \in Int
  /\ a.kind = "ReplayTransactions" => a.blotter \in Seq([day : Nat, symbol : Symbols, qty : Int])
  /\ a.kind = "RebalanceOverTime" => a.n \in Int

\* Combinators hold algos of their own and keep a state for each; an algo with a
\* generator or an estimate is called from the program only.
Drawing == {"SelectRandomly", "WeighRandomly", "WeighInvVol", "WeighMeanVar", "WeighERC",
            "TargetVol", "HedgeRisks"}
WellFormed(a) ==
  IF a.kind \in Combinators
  THEN /\ a.algos = [i \in 1..Len(a.algos) |-> a.algos[i]]
       /\ IF a.kind = "Or" THEN Len(a.algos) \in Nat \ {0} ELSE Len(a.algos) = 1
       /\ \A i \in 1..Len(a.algos) : WellFormedAlgo(a.algos[i]) /\ a.algos[i].kind \notin Drawing
  ELSE WellFormedAlgo(a)
StatesOf(a) == IF a.kind \in Combinators THEN [i \in DOMAIN a.algos |-> Fresh] ELSE <<Fresh>>

\* Asks one child; a NaN is nobody's to swallow.
AskChild(acc, a, s, draw) ==
  LET r == CallAlgo(a, s, acc.c, draw)
  IN  [s |-> Append(acc.s, r.s), c |-> r.c,
       status |-> IF r.status \in {"continue", "NaN"} THEN r.status ELSE "skip_day"]

Unasked(c) == [s |-> Nothing, c |-> c, status |-> "skip_day"]

\* Mutation: every child is asked and the last one decides.
OrLast(a, ss, c, draw) ==
  LET asked[i \in 0..Len(ss)] ==
        IF i = 0 THEN Unasked(c) ELSE AskChild(asked[i-1], a.algos[i], ss[i], draw)
  IN  asked[Len(ss)]

\* The children in order until one continues; the rest do not see the date.
AskNext(acc, a, s, draw) ==
  IF acc.status = "skip_day" THEN AskChild(acc, a, s, draw) ELSE [acc EXCEPT !.s = Append(@, s)]
Or(a, ss, c, draw) ==
  LET asked[i \in 0..Len(ss)] ==
        IF i = 0 THEN Unasked(c) ELSE AskNext(asked[i-1], a.algos[i], ss[i], draw)
  IN  asked[Len(ss)]

Not(a, ss, c, draw) ==
  LET r == CallAlgo(a.algos[1], ss[1], c, draw)
  IN  [s |-> <<r.s>>, c |-> r.c,
       status |-> IF r.status = "skip_day" THEN "continue"
                  ELSE IF r.status = "NaN" THEN "NaN" ELSE "skip_day"]

\* A stop of the child only skips the day.
Require(a, ss, c, draw) == AskChild(Unasked(c), a.algos[1], ss[1], draw)

Call(a, ss, c, draw) ==
  CASE a.kind = "Or" -> Or(a, ss, c, draw)
    [] a.kind = "Not" -> Not(a, ss, c, draw)
    [] a.kind = "Require" -> Require(a, ss, c, draw)
    [] OTHER -> LET r == CallAlgo(a, ss[1], c, draw) IN [r EXCEPT !.s = <<r.s>>]
=============================================================================
