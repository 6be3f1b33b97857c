------------------------------- MODULE Engine -------------------------------
(***************************************************************************)
(* BacktestEngine of engine/engine.py as its users see it: an object whose *)
(* attributes are set in any order, whose strategy object may be shared    *)
(* with another engine, and whose run() turns what was set into the        *)
(* configuration the Rust core receives.  A run may raise, and what it     *)
(* changed before it raised stays.                                         *)
(*                                                                         *)
(* Fractions are whole units of which WHOLE make 1.0.  A filter is the     *)
(* sequence of the clauses it conjoins.                                    *)
(***************************************************************************)
EXTENDS Integers, Sequences, SequencesExt

CONSTANTS Engines,
          StrategyOf,    \* the strategy object each engine is given
          Legs,          \* legs of the strategy
          AlgoLists,     \* values the attribute algos is set to
          RunArgs,       \* arguments of run()
          Allocations,   \* arguments of use_allocation
          Budgets,       \* premium budgets
          Slots,         \* arguments of add_strategy: each with a strategy object
          Quoted,        \* quote dates of the options data: a set of naturals
          MonthLength,   \* a date d is in business month d \div MonthLength
          WHOLE,
          MaxCalls       \* bound on the calls of a session

None == -1

ASSUME EngineAssumption ==
  /\ WHOLE \in Nat \ {0} /\ MonthLength \in Nat \ {0} /\ MaxCalls \in Nat
  /\ Quoted \subseteq Nat /\ Budgets \subseteq Nat
  /\ \A algos \in AlgoLists : algos \in Seq(ToSet(algos))
  /\ \A args \in RunArgs : args.dates \in Seq(Nat)

Strategies == {StrategyOf[e] : e \in Engines} \cup {slot.strategy : slot \in Slots}

VARIABLES
  engines,    \* the attributes of each engine
  strategies, \* the strategy objects: entry filters, profit and loss thresholds
  sent,       \* the configuration the latest run of an engine gave the core
  last,       \* the latest call and how it ended
  calls,
  intent      \* observed only: the framing chosen last, and the algos run last

vars == <<engines, strategies, sent, last, calls, intent>>

Attributes ==
  [allocation |-> [stocks |-> WHOLE - 3, options |-> 3, cash |-> 0],
   perRebalance |-> None, annual |-> None, checkDaily |-> FALSE, whenToBuy |-> "calendar",
   algos |-> << >>, constraints |-> << >>, slots |-> << >>]

NoConfig == << >>

Init ==
  /\ engines = [e \in Engines |-> Attributes]
  /\ strategies = [o \in Strategies |->
                     [filters |-> [leg \in Legs |-> <<"base">>], profit |-> None, loss |-> None]]
  /\ sent = [e \in Engines |-> NoConfig]
  /\ last = [op |-> "new", engine |-> CHOOSE e \in Engines : TRUE, arg |-> None, outcome |-> "ok"]
  /\ calls = 0
  /\ intent = [e \in Engines |-> [framing |-> "none", algos |-> << >>]]

Called(op, e, arg, outcome) ==
  /\ calls < MaxCalls
  /\ calls' = calls + 1
  /\ last' = [op |-> op, engine |-> e, arg |-> arg, outcome |-> outcome]

-----------------------------------------------------------------------------
(* Attributes.                                                             *)

Values ==
  [perRebalance |-> Budgets \cup {None}, annual |-> Budgets, checkDaily |-> BOOLEAN,
   whenToBuy |-> {"roll"}, algos |-> AlgoLists]

\* __setattr__ after the seal: a name that is not declared is refused.
SetAttribute(e, name, value) ==
  LET known == name \in DOMAIN engines[e]
  IN  /\ Called("set", e, name, IF known THEN "ok" ELSE "AttributeError")
      /\ engines' = IF known THEN [engines EXCEPT ![e][name] = value] ELSE engines
      /\ intent' = IF name \in {"perRebalance", "annual"}
                   THEN [intent EXCEPT ![e].framing = "none"] ELSE intent
      /\ UNCHANGED <<strategies, sent>>

Misspelt(e) == SetAttribute(e, "check_exit_daily", TRUE)

UseExternalBudget(e, annual) ==
  /\ Called("use_external_budget", e, annual, "ok")
  /\ engines' = [engines EXCEPT
       ![e].allocation = [stocks |-> WHOLE, options |-> 0, cash |-> 0],
       ![e].annual = annual]
  /\ intent' = [intent EXCEPT ![e].framing = "external"]
  /\ UNCHANGED <<strategies, sent>>

\* Mutation: the budgets of the other framing stay.
UseAllocationOnly(e, a) ==
  LET fits == a.stocks + a.options + a.cash = WHOLE
  IN  /\ Called("use_allocation", e, a, IF fits THEN "ok" ELSE "ValueError")
      /\ engines' = IF fits THEN [engines EXCEPT ![e].allocation = a] ELSE engines
      /\ intent' = IF fits THEN [intent EXCEPT ![e].framing = "allocation"] ELSE intent
      /\ UNCHANGED <<strategies, sent>>
UseAllocation(e, a) ==
  LET fits == a.stocks + a.options + a.cash = WHOLE
  IN  /\ Called("use_allocation", e, a, IF fits THEN "ok" ELSE "ValueError")
      /\ engines' = IF fits
                    THEN [engines EXCEPT ![e].allocation = a, ![e].annual = None,
                                         ![e].perRebalance = None]
                    ELSE engines
      /\ intent' = IF fits THEN [intent EXCEPT ![e].framing = "allocation"] ELSE intent
      /\ UNCHANGED <<strategies, sent>>

AddStrategy(e, slot) ==
  /\ Called("add_strategy", e, slot, "ok")
  /\ engines' = [engines EXCEPT ![e].slots = Append(@, slot)]
  /\ UNCHANGED <<strategies, sent, intent>>

-----------------------------------------------------------------------------
(* Rebalance dates.                                                        *)

\* The first quote of every group of freq business months, counted from the
\* month of the first quote.
MonthOf(d) == d \div MonthLength
FirstQuote == CHOOSE d \in Quoted : \A q \in Quoted : d <= q
GroupStarts(freq) ==
  LET group(d) == (MonthOf(d) - MonthOf(FirstQuote)) \div freq
  IN  {d \in Quoted : \A q \in Quoted : group(q) = group(d) => d <= q}

\* searchsorted: each requested date goes to the first quote not before it.
\* Mutation: to the nearest quote before it as well.
SnappedBack(dates) ==
  {q \in Quoted : \E d \in dates : q <= d /\ \A p \in Quoted : p <= d => p <= q}
Snapped(dates) ==
  {q \in Quoted : \E d \in dates : d <= q /\ \A p \in Quoted : d <= p => q <= p}

Starts(freq) == IF freq = 0 THEN {} ELSE GroupStarts(freq)

\* Dates that are given override the frequency, an empty list included.
RebalanceDates(args) ==
  IF args.given THEN Snapped(ToSet(args.dates)) ELSE Starts(args.freq)

-----------------------------------------------------------------------------
(* run().                                                                  *)

Supported == {"RunMonthly", "BudgetPercent", "RangeFilter", "MaxGreekExposure", "ExitOnThreshold"}

\* The algos the loop of _translate_algos_to_config handles before it raises.
Handled(algos) ==
  IF \E i \in DOMAIN algos : algos[i].kind \notin Supported
  THEN SubSeq(algos, 1, (CHOOSE i \in DOMAIN algos :
         /\ algos[i].kind \notin Supported
         /\ \A j \in 1..(i-1) : algos[j].kind \in Supported) - 1)
  ELSE algos
Translates(algos) == Handled(algos) = algos

OfKind(algos, kind) == SelectSeq(algos, LAMBDA a : a.kind = kind)

\* Every constraint of one translation reads the loop variable when it is asked
\* for its limit, so it carries the algo the loop ended on.
LoopVariable(algos) ==
  IF Translates(algos) THEN Last(algos) ELSE algos[Len(Handled(algos)) + 1]
LimitsOf(a) ==
  (IF a.delta # None THEN <<"MaxDelta">> ELSE << >>) \o (IF a.vega # None THEN <<"MaxVega">> ELSE << >>)
NewConstraints(algos) ==
  LET types == FlattenSeq([i \in DOMAIN OfKind(algos, "MaxGreekExposure") |->
                             LimitsOf(OfKind(algos, "MaxGreekExposure")[i])])
  IN  [i \in DOMAIN types |-> [type |-> types[i], from |-> LoopVariable(algos)]]

Final(seq, default) == IF seq = << >> THEN default ELSE Last(seq)

\* The strategy after its filters are narrowed and its thresholds overridden.
Narrowed(s, algos) ==
  LET ranges == OfKind(Handled(algos), "RangeFilter")
      exits  == OfKind(Handled(algos), "ExitOnThreshold")
      finite(f(_)) == SelectSeq([i \in DOMAIN exits |-> f(exits[i])], LAMBDA x : x # None)
  IN  [filters |-> [leg \in Legs |-> s.filters[leg] \o [i \in DOMAIN ranges |-> ranges[i].clause]],
       profit  |-> Final(finite(LAMBDA x : x.profit), s.profit),
       loss    |-> Final(finite(LAMBDA x : x.loss), s.loss)]

\* Every BudgetPercent replaces the budget: the last one stands.
HasKind(algos, kind) == \E i \in DOMAIN algos : algos[i].kind = kind
LastOfKind(algos, kind) ==
  algos[CHOOSE i \in DOMAIN algos :
          algos[i].kind = kind /\ \A j \in DOMAIN algos : algos[j].kind = kind => j <= i]
BudgetAfter(algos, budget) ==
  IF HasKind(algos, "BudgetPercent") THEN LastOfKind(algos, "BudgetPercent").pct ELSE budget

\* Mutation: the algos are not cleared, and the next run translates them again.
TranslatedTwice(g) ==
  [g EXCEPT !.perRebalance = BudgetAfter(Handled(g.algos), @),
            !.constraints = @ \o NewConstraints(g.algos)]
Translated(g) ==
  [g EXCEPT !.perRebalance = BudgetAfter(Handled(g.algos), @),
            !.constraints = @ \o NewConstraints(g.algos),
            !.algos = IF Translates(g.algos) THEN << >> ELSE @]

\* The limit the core is given, None when the algo read has no such limit.
LimitOf(c) == IF c.type = "MaxDelta" THEN c.from.delta ELSE c.from.vega
\* An algo without the attribute makes the conversion raise.
Convertible(constraints) ==
  \A i \in DOMAIN constraints : constraints[i].from.kind = "MaxGreekExposure"
RiskConfig(constraints) ==
  [i \in DOMAIN constraints |-> [type |-> constraints[i].type, limit |-> LimitOf(constraints[i])]]

Daily(g, args) == IF args.daily = None THEN g.checkDaily ELSE args.daily = 1

CoreConfig(g, s, args) ==
  [mode |-> "single", allocation |-> g.allocation, perRebalance |-> g.perRebalance,
   annual |-> g.annual, daily |-> Daily(g, args), whenToBuy |-> g.whenToBuy,
   filters |-> s.filters, profit |-> s.profit, loss |-> s.loss,
   constraints |-> RiskConfig(g.constraints), dates |-> RebalanceDates(args), slots |-> << >>]

SlotConfig(slot) ==
  LET s == strategies[slot.strategy]
  IN  [weight |-> slot.weight, dates |-> Starts(slot.freq), daily |-> slot.daily,
       filters |-> s.filters, profit |-> s.profit, loss |-> s.loss]

\* Legs, thresholds and dates are those of the slots: of the call only its daily
\* flag is read, and the strategy and the algos of the engine are not.
MultiConfig(g, args) ==
  [mode |-> "multi", allocation |-> g.allocation, perRebalance |-> g.perRebalance,
   annual |-> g.annual, daily |-> Daily(g, args), whenToBuy |-> g.whenToBuy,
   filters |-> << >>, profit |-> None, loss |-> None,
   constraints |-> RiskConfig(g.constraints), dates |-> {},
   slots |-> [i \in DOMAIN g.slots |-> SlotConfig(g.slots[i])]]

TotalWeight(slots) == FoldLeft(LAMBDA total, slot : total + slot.weight, 0, slots)

RunSingle(e, args) ==
  LET g == engines[e]
      s == strategies[StrategyOf[e]]
      h == IF g.algos = << >> THEN g ELSE Translated(g)
      t == IF g.algos = << >> THEN s ELSE Narrowed(s, g.algos)
      outcome == IF ~Translates(g.algos) THEN "ValueError"
                 ELSE IF ~Convertible(h.constraints) THEN "AttributeError" ELSE "ok"
  IN  /\ g.slots = << >>
      /\ Called("run", e, args, outcome)
      /\ engines' = [engines EXCEPT ![e] = h]
      /\ strategies' = [strategies EXCEPT ![StrategyOf[e]] = t]
      /\ sent' = IF outcome = "ok" THEN [sent EXCEPT ![e] = CoreConfig(h, t, args)] ELSE sent
      /\ intent' = [intent EXCEPT
           ![e].algos = g.algos,
           ![e].framing = IF HasKind(g.algos, "BudgetPercent") THEN "none" ELSE @]

RunMulti(e, args) ==
  LET g == engines[e]
      outcome == IF TotalWeight(g.slots) # WHOLE THEN "AssertionError"
                 ELSE IF ~Convertible(g.constraints) THEN "AttributeError" ELSE "ok"
  IN  /\ g.slots # << >>
      /\ Called("run", e, args, outcome)
      /\ sent' = IF outcome = "ok" THEN [sent EXCEPT ![e] = MultiConfig(g, args)] ELSE sent
      /\ UNCHANGED <<engines, strategies, intent>>

Next ==
  \/ \E e \in Engines :
       \/ \E name \in DOMAIN Values : \E value \in Values[name] : SetAttribute(e, name, value)
       \/ Misspelt(e)
       \/ \E b \in Budgets : UseExternalBudget(e, b)
       \/ \E a \in Allocations : UseAllocation(e, a)
       \/ \E slot \in Slots : AddStrategy(e, slot)
       \/ \E args \in RunArgs : RunSingle(e, args) \/ RunMulti(e, args)
  \/ calls = MaxCalls /\ UNCHANGED vars

Spec == Init /\ [][Next]_vars
=============================================================================
