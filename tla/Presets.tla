------------------------------ MODULE Presets ------------------------------
(***************************************************************************)
(* The strategies of strategy/presets.py, from the filters their legs are  *)
(* given to the contracts one entry buys and sells.  A chain is quoted row *)
(* by row; an entry filters and sorts it for every leg, aligns the lists   *)
(* of the legs by row, drops the rows the budget cannot pay once, lets the *)
(* signal selector choose, and prices the choice with the fill model.      *)
(*                                                                         *)
(* Percentages and deltas are whole percents, a put's delta is negative, a *)
(* contract is on one share, and costs are counted in units of             *)
(* 1/(2 * FullVolume) so that the fill models are exact.                   *)
(***************************************************************************)
EXTENDS Integers, Sequences, FiniteSets, SequencesExt, Totals

CONSTANTS
  Rows,        \* what the chain of a date can quote
  MaxRows,     \* bound: rows of a chain
  Configs,     \* presets with their arguments, selector, fill model, budget
  Underlying, Spot,
  FullVolume,  \* VolumeAwareFill's full_volume_threshold
  TargetDelta  \* NearestDelta's target, signed, for calls and puts alike

Row == [underlying : STRING, type : {"call", "put"}, strike : Nat, dte : Nat,
        delta : Int, bid : Nat, ask : Nat, volume : Nat, interest : Nat]

Names == {"deep_otm_put", "near_atm_put", "strangle", "iron_condor", "covered_call",
          "cash_secured_put", "collar", "butterfly"}

Config == [preset : Names, dir : {"buy", "sell"}, type : {"call", "put"},
           dte : Nat \X Nat, delta : Int \X Int,
           otm : Nat, putOtm : Nat, tol : Nat,
           selector : {"first", "delta", "interest"},
           fill : {"market", "mid", "volume"}, budget : Nat]

ASSUME PresetsAssumption ==
  /\ Rows \subseteq Row /\ Configs \subseteq Config
  /\ MaxRows \in Nat /\ Spot \in Nat \ {0} /\ FullVolume \in Nat \ {0}
  /\ TargetDelta \in Int

VARIABLES
  cfg,
  legs,        \* of the strategy built: [type, dir, entry, sort]
  chain,       \* the rows quoted, in file order
  position,    \* leg -> the row it holds; empty when nothing was entered
  qty,
  phase

vars == <<cfg, legs, chain, position, qty, phase>>

-----------------------------------------------------------------------------
(* Legs: what they trade, the conjunction of conditions that is their      *)
(* entry filter, and their entry sort.                                     *)

Cond(field, range) == [field |-> field, lo |-> range[1], hi |-> range[2]]

Unsorted == [by |-> "file", ascending |-> TRUE]
By(field, ascending) == [by |-> field, ascending |-> ascending]

Leg(type, dir, conds, sort) ==
  [type |-> type, dir |-> dir, sort |-> sort, entry |-> {Cond("dte", cfg.dte)} \cup conds]

\* The strike bands, in percent of the underlying's price.
Above(otm) == {Cond("strike", <<100 + otm - cfg.tol, 100 + otm + cfg.tol>>)}
BelowBy(otm, tol) == {Cond("strike", <<100 - otm - tol, 100 - otm + tol>>)}
Below(otm) == BelowBy(otm, cfg.tol)

\* The sort is by descending delta: a put's delta is negative, so the deepest
\* out of the money comes first.
DeepOtmPut ==
  << Leg("put", cfg.dir, {Cond("delta", cfg.delta)}, By("delta", FALSE)) >>

NearAtmPutProtection == << Leg("put", cfg.dir, BelowBy(cfg.otm, 1), Unsorted) >>

Strangle == << Leg("call", cfg.dir, Above(cfg.otm), Unsorted),
               Leg("put", cfg.dir, Below(cfg.otm), Unsorted) >>

IronCondor == << Leg("call", "sell", {}, Unsorted), Leg("call", "buy", {}, Unsorted),
                 Leg("put", "sell", {}, Unsorted), Leg("put", "buy", {}, Unsorted) >>

CoveredCall    == << Leg("call", "sell", Above(cfg.otm), Unsorted) >>
CashSecuredPut == << Leg("put", "sell", Below(cfg.otm), Unsorted) >>

\* Mutation: the put is taken from the call's band.
CollarOneBand == << Leg("call", "sell", Above(cfg.otm), Unsorted),
                    Leg("put", "buy", Above(cfg.putOtm), Unsorted) >>
Collar == << Leg("call", "sell", Above(cfg.otm), Unsorted),
             Leg("put", "buy", Below(cfg.putOtm), Unsorted) >>

Butterfly == << Leg(cfg.type, "buy", {}, By("strike", TRUE)),
                Leg(cfg.type, "sell", {}, Unsorted),
                Leg(cfg.type, "buy", {}, By("strike", FALSE)) >>

Built == [deep_otm_put |-> DeepOtmPut, near_atm_put |-> NearAtmPutProtection,
           strangle |-> Strangle, iron_condor |-> IronCondor,
           covered_call |-> CoveredCall, cash_secured_put |-> CashSecuredPut,
           collar |-> Collar, butterfly |-> Butterfly][cfg.preset]

Init ==
  /\ cfg \in Configs /\ legs = Built
  /\ chain = << >> /\ position = << >> /\ qty = 0
  /\ phase = "quoting"

-----------------------------------------------------------------------------
(* Candidates of a leg.                                                    *)

Holds(row, c) ==
  IF c.field = "strike" THEN c.lo * Spot <= 100 * row.strike /\ 100 * row.strike <= c.hi * Spot
                        ELSE c.lo <= row[c.field] /\ row[c.field] <= c.hi

\* A leg never trades at a quote of zero on its own side.
BaseEntryFilter(leg, row) ==
  row.type = leg.type /\ (IF leg.dir = "buy" THEN row.ask > 0 ELSE row.bid > 0)

Admits(leg, row) ==
  /\ BaseEntryFilter(leg, row)
  /\ row.underlying = Underlying
  /\ \A c \in leg.entry : Holds(row, c)

\* What a sort compares; unsorted candidates come in file order.
Key(row, by) ==
  IF by = "file" THEN CHOOSE i \in DOMAIN chain : chain[i] = row ELSE row[by]

Sorted(s, sort) ==
  \A i, j \in DOMAIN s : i < j =>
    IF sort.ascending THEN Key(s[i], sort.by) <= Key(s[j], sort.by)
                      ELSE Key(s[i], sort.by) >= Key(s[j], sort.by)

\* The orders a leg's candidates can come in: an entry sort is not stable.
Orders(leg) ==
  { s \in SetToSeqs({ r \in ToSet(chain) : Admits(leg, r) }) : Sorted(s, leg.sort) }

-----------------------------------------------------------------------------
(* Choice and price.                                                       *)

Scale == 2 * FullVolume
Sign(dir) == IF dir = "buy" THEN 1 ELSE -1

\* get_fill_price.  A thin contract fills between the mid and its own side.
FillPrice(fill, row, dir) ==
  LET side == IF dir = "buy" THEN row.ask ELSE row.bid
      mid  == FullVolume * (row.bid + row.ask)
  IN  IF fill = "market" \/ (fill = "volume" /\ row.volume >= FullVolume)
        THEN Scale * side
      ELSE IF fill = "mid" THEN mid
      ELSE mid + row.volume * (2 * side - row.bid - row.ask)

Cost(fill, rows) ==
  Total([l \in DOMAIN rows |-> Sign(legs[l].dir) * FillPrice(fill, rows[l], legs[l].dir)],
        Len(rows))

\* Mutation: a part of a contract is bought whole.
QuantityRoundedUp(rows) ==
  (Scale * cfg.budget + Magnitude(Cost("market", rows)) - 1)
    \div Magnitude(Cost("market", rows))
\* The quantity is taken before the fill model re-prices the choice.
Quantity(rows) == (Scale * cfg.budget) \div Magnitude(Cost("market", rows))

AtRow(order, r) == [l \in DOMAIN order |-> order[l][r]]

AffordableRows(order) ==
  { r \in 1..MaxRows :
      /\ \A l \in DOMAIN order : r <= Len(order[l])
      /\ Cost("market", AtRow(order, r)) # 0
      /\ Quantity(AtRow(order, r)) >= 1 }

\* FirstMatch, NearestDelta, MaxOpenInterest: the first of the best rows.
Badness(row) ==
  IF cfg.selector = "first" THEN 0
  ELSE IF cfg.selector = "delta" THEN Magnitude(row.delta - TargetDelta)
  ELSE -row.interest

Select(list, rows) ==
  list[CHOOSE r \in rows : \A q \in rows :
         \/ Badness(list[r]) < Badness(list[q])
         \/ Badness(list[r]) = Badness(list[q]) /\ r <= q]

-----------------------------------------------------------------------------
Quote ==
  /\ phase = "quoting" /\ Len(chain) < MaxRows
  /\ \E r \in Rows : r \notin ToSet(chain) /\ chain' = Append(chain, r)
  /\ UNCHANGED <<cfg, legs, position, qty, phase>>

Selected(order) ==
  LET rows == AffordableRows(order)
  IN  IF rows = {} THEN << >> ELSE [l \in DOMAIN order |-> Select(order[l], rows)]

\* A choice made of several rows can be free, or dearer than the budget.
Enter ==
  /\ phase = "quoting"
  /\ \E order \in [DOMAIN legs -> UNION { Orders(legs[l]) : l \in DOMAIN legs }] :
       /\ \A l \in DOMAIN legs : order[l] \in Orders(legs[l])
       /\ LET rows == Selected(order)
              buys == rows # << >> /\ Cost("market", rows) # 0 /\ Quantity(rows) > 0
          IN  /\ position' = IF buys THEN rows ELSE << >>
              /\ qty' = IF buys THEN Quantity(rows) ELSE 0
  /\ phase' = "entered"
  /\ UNCHANGED <<cfg, legs, chain>>

Rest == phase = "entered" /\ UNCHANGED vars

Next == Quote \/ Enter \/ Rest

Spec == Init /\ [][Next]_vars

-----------------------------------------------------------------------------
(* What a position pays when its contracts expire.                         *)

Intrinsic(row, spot) ==
  LET in == IF row.type = "call" THEN spot - row.strike ELSE row.strike - spot
  IN  IF in > 0 THEN in ELSE 0

Payoff(spot) ==
  Total([l \in DOMAIN position |-> Sign(legs[l].dir) * Intrinsic(position[l], spot)],
        Len(position))

ExpireTogether == Cardinality({ position[l].dte : l \in DOMAIN position }) = 1

-----------------------------------------------------------------------------
(* Properties.                                                             *)

\* The wings of collar and covered_call hold: with the stock they are
\* written on, an entered position is worth at expiry no less than the put's
\* strike and no more than the call's, wherever the stock ends, as long as
\* the two bands do not reach past each other.
StockIsShielded ==
  /\ cfg.preset = "covered_call" /\ position # << >> =>
       \A spot \in 0..2 * Spot : spot + Payoff(spot) <= position[1].strike
  /\ cfg.preset = "collar" /\ position # << >> /\ ExpireTogether
       /\ cfg.otm + cfg.putOtm >= 2 * cfg.tol =>
       \A spot \in 0..2 * Spot :
         spot + Payoff(spot) \in position[2].strike..position[1].strike

\* The quantity is taken at the quotes and paid at the fill: no fill model
\* makes an entry cost more than its budget, nor pay less for what it sells, of
\* quotes that are not crossed (the mid of a crossed quote is above its ask).
DebitWithinBudget ==
  position # << >> /\ (\A l \in DOMAIN position : position[l].bid <= position[l].ask) =>
    /\ Cost(cfg.fill, position) * qty <= Scale * cfg.budget
    /\ Cost(cfg.fill, position) <= Cost("market", position)

\* iron_condor "sell inner, buy outer wings".
CondorWingsOutside ==
  cfg.preset = "iron_condor" /\ position # << >> =>
    /\ position[2].strike > position[1].strike
    /\ position[4].strike < position[3].strike
=============================================================================
