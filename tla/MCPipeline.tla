----------------------------- MODULE MCPipeline -----------------------------
(***************************************************************************)
(* Small instances of Pipeline: two symbols, four dates over three months  *)
(* of two years, and programs that use every algo.                         *)
(***************************************************************************)
EXTENDS PipelineProperties

Date(y, m, iy, w) == [year |-> y, month |-> m, isoyear |-> iy, week |-> w]

\* Two weeks of one month, then two dates of one ISO week in different months,
\* years and quarters.
MCCalendar == << Date(1, 11, 1, 47), Date(1, 11, 1, 48), Date(1, 12, 2, 1), Date(2, 1, 2, 1) >>

\* Calm, a gain of the first symbol, a missing price, a crash, a dead symbol.
MCRows == { <<2, 3>>, <<4, 3>>, <<NaN, 3>>, <<1, 5>>, <<0, 2>> }

K(kind) == [kind |-> kind]
N(kind, n) == [kind |-> kind, n |-> n]

Monthly == <<K("RunMonthly"), K("SelectAll"),
             [kind |-> "WeighSpecified", weights |-> <<9, 3>>],
             [kind |-> "LimitWeights", limit |-> 4], K("Rebalance")>>
Weekly == <<K("RunWeekly"), [kind |-> "SelectThese", symbols |-> <<2, 1>>], N("SelectN", 1),
            K("WeighEqually"), N("RebalanceOverTime", 2)>>
Drift == <<[kind |-> "Or", algos |-> <<K("RunQuarterly"),
              [kind |-> "RunIfOutOfBounds", tolerance |-> 1]>>],
           K("SelectAll"), K("WeighEqually"), K("Rebalance")>>
Either == <<[kind |-> "Or", algos |-> <<K("RunWeekly"), K("RunMonthly"), K("RunOnce")>>],
            K("SelectActive"), K("WeighEqually"), [kind |-> "LimitDeltas", limit |-> 2],
            K("Rebalance")>>
Guarded == <<[kind |-> "MaxDrawdownGuard", drawdown |-> 2], K("SelectAll"), K("WeighEqually"),
             K("Rebalance")>>
Flows == <<[kind |-> "CapitalFlow", flows |-> [d \in {2, 4} |-> IF d = 2 THEN 9 ELSE -6]],
           K("RunDaily"), K("SelectAll"), [kind |-> "WeighSpecified", weights |-> <<2, 1>>],
           N("RebalanceOverTime", 3)>>
Levered == <<N("RunEveryNPeriods", 2), K("SelectAll"), K("WeighEqually"),
             [kind |-> "Margin", rate |-> 1, maintenance |-> 2, leverage |-> 12], K("Rebalance")>>
Bond(start, maturity) ==
  [kind |-> "CouponPayingPosition", coupon |-> 3, months |-> 1, start |-> start, maturity |-> maturity]
Momentum(desc) == [kind |-> "SelectMomentum", n |-> 1, lookback |-> 3, descending |-> desc]
Coupons == <<Bond(2, 4), N("RunAfterDays", 1), Momentum(TRUE),
             K("WeighEqually"), K("Rebalance")>>
Matured == <<[kind |-> "Require", algos |-> <<Bond(1, 3)>>], K("RunYearly"), K("SelectAll"),
             K("WeighEqually"), K("Rebalance")>>
Blotter == <<[kind |-> "ReplayTransactions",
              blotter |-> <<[day |-> 1, symbol |-> 1, qty |-> 4], [day |-> 2, symbol |-> 2, qty |-> 3],
                            [day |-> 2, symbol |-> 1, qty |-> -4], [day |-> 3, symbol |-> 1, qty |-> -2]>>],
             K("CloseDead")>>
Named == <<N("RunEveryNPeriods", 3), [kind |-> "SelectRegex", matches |-> {1}], K("WeighEqually"),
           K("Rebalance")>>
Sampled(n) == <<K("RunOnce"), N("SelectRandomly", n), K("WeighEqually"), K("Rebalance")>>
InvVol == <<[kind |-> "RunAfterDate", date |-> 3], K("RunOnce"), [kind |-> "SelectHasData", days |-> 2],
            [kind |-> "SelectWhere", accepts |-> {1, 2}], [kind |-> "WeighInvVol", lookback |-> 3],
            [kind |-> "TargetVol", lookback |-> 4], [kind |-> "ScaleWeights", scale |-> 3],
            K("Rebalance")>>
Target == <<[kind |-> "Not", algos |-> <<K("RunOnce")>>], K("SelectAll"),
            [kind |-> "WeighTarget", table |-> [d \in {2, 3} |-> IF d = 2 THEN <<1, 1>> ELSE <<1, 5>>]],
            N("RebalanceOverTime", 2),
            [kind |-> "ClosePositionsAfterDates", schedule |-> [x \in {1} |-> 3]]>>
Losers == <<K("RunWeekly"), Momentum(FALSE), K("WeighEqually"), K("Rebalance")>>
Optimised(kind, fills) ==
  <<[kind |-> "RunOnDate", dates |-> {2, 4}], K("SelectAll"), [kind |-> kind, lookback |-> 5],
    [kind |-> "HedgeRisks", hedgers |-> <<2>>, bound |-> 2, fills |-> fills], K("Rebalance")>>

MCPrograms ==
  { Monthly, Weekly, Drift, Either, Guarded, Flows, Levered, Coupons, Matured, Blotter, Named,
    Sampled(0), Sampled(1), InvVol, Target, Losers, Optimised("WeighMeanVar", FALSE),
    Optimised("WeighERC", TRUE), RandomProgram }
=============================================================================
