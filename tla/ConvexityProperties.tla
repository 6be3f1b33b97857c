------------------------ MODULE ConvexityProperties ------------------------
(***************************************************************************)
(* What the monthly put overlay promises: wealth is handed from month to   *)
(* month, the curve is complete, and what is bought is what was scored.    *)
(***************************************************************************)
EXTENDS Convexity

\* The months add up: what the shares of the last record are worth at today's
\* price, and what its put paid, is what today's record holds in stock and paid
\* for its put, whichever of the ways a month can end without a put it took.  A
\* put pays once, in the record after the one that paid for it.  Shares are owed
\* only when what there was to spend was less than the month's budget.
MonthsAddUp ==
  \A k \in DOMAIN records :
    LET r == records[k]
        paid   == IF k = 1 THEN 0 ELSE records[k-1].cost
        before == IF k = 1 THEN Capital * Unit
                           ELSE records[k-1].shares * r.price + r.exit * Unit
    IN  /\ r.value + r.cost * Unit = before
        /\ r.pnl = r.exit - paid
        /\ r.exit > 0 => paid > 0
        /\ r.shares < 0 => before < Budget * Unit

\* The returned curve has the rows of the stock file, none lost and none twice
\* where one month's rows end and the next one's begin, each at the shares of
\* its own month's only record; a month that follows no bought put is that of
\* run_unhedged.
CurveFollowsTheMonths ==
  done /\ Runs =>
    /\ Len(daily) = Len(stock)
    /\ \A k \in DOMAIN daily : \E m \in DOMAIN records :
         /\ \A n \in DOMAIN records : Month(records[n].date) = Month(stock[k].date) <=> n = m
         /\ daily[k] = [date |-> stock[k].date, balance |-> records[m].shares * stock[k].price]
         /\ (\A n \in 1..m : records[n].cost = 0) => daily[k] = Unhedged[k]

\* The monthly loop and the daily scorer choose the same put: a month that
\* bought one has its date's score, and one that did not has no score or one
\* of a put dearer than the budget (its ratio's divisor is the annual cost).
BoughtAsScored ==
  \A k \in DOMAIN records :
    LET r == records[k]
        of == { s \in Scores : s.date = r.date }
    IN  IF r.cost > 0
          THEN \E s \in of : s.ratio = r.ratio /\ s.strike = r.strike
          ELSE \A s \in of : s.ratio[2] > Budget * 12
=============================================================================
