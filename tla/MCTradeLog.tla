----------------------------- MODULE MCTradeLog -----------------------------
(***************************************************************************)
(* Two contracts over three days, either of which can be sold and bought   *)
(* again on a later or on the same day, at a gain or a loss.               *)
(***************************************************************************)
EXTENDS TradeLog

MCLots == { [price |-> 3, qty |-> 1], [price |-> 1, qty |-> 2] }
=============================================================================
