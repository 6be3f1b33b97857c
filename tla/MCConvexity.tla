----------------------------- MODULE MCConvexity -----------------------------
(***************************************************************************)
(* Three months of two dates, the last one cut short; stock dates may be   *)
(* missing, so a month may start late or have no date at all, and a date   *)
(* may have two rows.  Puts are quoted on every date or on a month's       *)
(* second one, at an underlying price that need not be the stock's; they   *)
(* expire within the month, on a rebalance date and after it; a chain may  *)
(* quote a put at no ask, too dear for the budget, or twice as near the    *)
(* target.                                                                 *)
(***************************************************************************)
EXTENDS ConvexityProperties

Put(strike, expires, delta, ask, bid, underlying) ==
  [strike |-> strike, expires |-> expires, delta |-> delta, ask |-> ask, bid |-> bid,
   underlying |-> underlying]

MCChains ==
  { << >>,
    <<Put(3, 4, 1, 2, 1, 3), Put(2, 4, 2, 1, 1, 1)>>,
    <<Put(2, 5, 2, 0, 0, 2), Put(3, 4, 0, 2, 2, 2), Put(2, 3, 4, 1, 0, 2)>>,
    <<Put(2, 5, 2, 6, 5, 1), Put(3, 4, 4, 1, 3, 1)>> }

\* The rows of a date: none, one, or two on the dates a month may begin with.
RowsOf(d) ==
  { << >>, <<[date |-> d, price |-> 1]>>, <<[date |-> d, price |-> 3]>> } \cup
  IF d \in {3, 4} THEN { <<[date |-> d, price |-> 3], [date |-> d, price |-> 1]>> } ELSE {}

MCStocks ==
  { a \o b \o c \o d \o e :
      a \in RowsOf(1), b \in RowsOf(2), c \in RowsOf(3), d \in RowsOf(4), e \in RowsOf(5) }

\* The chain of each month on the dates quoted.
MCPuts ==
  { [d \in { x \in dates : month[(x + 1) \div 2] # << >> } |-> month[(d + 1) \div 2]] :
      month \in [1..3 -> MCChains], dates \in {1..5, {2, 4}} }

MCFiles == [stock : MCStocks, puts : MCPuts]
=============================================================================
