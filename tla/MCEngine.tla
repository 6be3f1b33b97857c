------------------------------ MODULE MCEngine ------------------------------
(***************************************************************************)
(* Small instances of Engine: two engines that share one strategy object,  *)
(* algo lists with every kind and an unsupported one, slots on it and on a *)
(* strategy of their own, five quote dates in three months.                *)
(***************************************************************************)
EXTENDS EngineProperties

MCStrategyOf == [e \in Engines |-> "shared"]
MCQuoted == {1, 2, 5, 12, 13}

Percent(p) == [kind |-> "BudgetPercent", pct |-> p]
InRange(c) == [kind |-> "RangeFilter", clause |-> c]
GreekLimit(d, v) == [kind |-> "MaxGreekExposure", delta |-> d, vega |-> v]
Thresholds(p, l) == [kind |-> "ExitOnThreshold", profit |-> p, loss |-> l]

MCAlgoLists ==
  { << >>,
    <<[kind |-> "RunMonthly"], Percent(2), InRange("dte")>>,
    <<Thresholds(5, None), InRange("delta"), Thresholds(None, 3), GreekLimit(4, None)>>,
    <<InRange("iv"), [kind |-> "Custom"]>>,
    <<GreekLimit(2, None), InRange("dte")>> }

\* Two limits in one list.
TwoLimits == { <<GreekLimit(2, None), GreekLimit(5, 1)>> }

Dated(freq, dates) == [daily |-> None, freq |-> freq, given |-> TRUE, dates |-> dates]
Every(daily, freq) == [daily |-> daily, freq |-> freq, given |-> FALSE, dates |-> << >>]
MCRunArgs == { Every(None, 1), Every(1, 2), Dated(1, << >>), Dated(0, <<3, 4, 12, 14>>) }

\* Halves on the shared strategy and on one of their own, and a whole that never
\* rebalances.
Slot(strategy, weight, freq, daily) ==
  [strategy |-> strategy, weight |-> weight, freq |-> freq, daily |-> daily]
MCSlots == { Slot("shared", 5, 1, FALSE), Slot("own", 5, 2, TRUE), Slot("own", 10, 0, FALSE) }

MCAllocations == { [stocks |-> 7, options |-> 2, cash |-> 1], [stocks |-> 7, options |-> 2, cash |-> 0] }
=============================================================================
