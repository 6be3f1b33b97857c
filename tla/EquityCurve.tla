----------------------------- MODULE EquityCurve ----------------------------
(***************************************************************************)
(* What the balance sheet of a backtest promises, whichever of the two     *)
(* loops produced it: one row per date of the calendar, in order and       *)
(* without holes, and no look-ahead.  A row shows the book as it stood     *)
(* when its date closed, because the book may change at a date only when   *)
(* every earlier date is already published and the date itself is not.     *)
(*                                                                         *)
(* Nothing here says when a row is written.  The daily loop publishes a    *)
(* date as it walks it; the fast path publishes a whole period just before *)
(* the rebalance that ends it.  Both are shown to implement this module.   *)
(***************************************************************************)
EXTENDS Integers, Sequences

VARIABLES
  calendar,  \* the dates that get a row; fixed
  clock,     \* the date the simulation has reached
  book,      \* the composition of the portfolio
  rows       \* the published rows: [date, book]

vars == <<calendar, clock, book, rows>>

Published == {rows[i].date : i \in DOMAIN rows}

Init ==
  /\ calendar \subseteq Nat
  /\ clock = 0
  /\ rows = << >>

\* Simulated time only moves forward.
Tick ==
  /\ clock' \in Nat /\ clock' > clock
  /\ UNCHANGED <<calendar, book, rows>>

Trade ==
  /\ Published = {d \in calendar : d < clock}
  /\ book' # book
  /\ UNCHANGED <<calendar, clock, rows>>

Publish ==
  /\ \E d \in calendar :
       /\ Published = {e \in calendar : e < d}
       /\ rows' = Append(rows, [date |-> d, book |-> book])
  /\ UNCHANGED <<calendar, clock, book>>

Next == Tick \/ Trade \/ Publish

Spec == Init /\ [][Next]_vars
=============================================================================
