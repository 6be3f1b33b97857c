------------------------------- MODULE Totals -------------------------------
(***************************************************************************)
(* Sums over the partial functions the engine's books are modelled by:     *)
(* live positions keyed by the entry attempt that opened them, holdings    *)
(* keyed by the index of their symbol, legs keyed by their place in the    *)
(* strategy.  Written as a recursive function over the index, the loop the *)
(* Rust iterators run, so that TotalsProofs can prove what it returns.     *)
(***************************************************************************)
EXTENDS Integers

\* The sum of f over the indices of 1..n at which it is defined.
Total(f, n) ==
  LET sum[k \in 0..n] ==
        IF k = 0 THEN 0
                 ELSE sum[k-1] + (IF k \in DOMAIN f THEN f[k] ELSE 0)
  IN  sum[n]

Magnitude(x) == IF x < 0 THEN -x ELSE x
=============================================================================
