---------------------------- MODULE EngineProofs ----------------------------
(***************************************************************************)
(* Theorems about the engine object, for every pool of engines, strategy   *)
(* objects, algo lists and arguments, and any number of calls.             *)
(***************************************************************************)
EXTENDS EngineProperties, TotalsProofs, FiniteSetTheorems, SequenceTheorems

\* The objects keep their shape: every engine has its attributes, its strategy
\* object and an entry in what is observed.
ShapeInv ==
  /\ DOMAIN engines = Engines
  /\ \A e \in Engines : DOMAIN engines[e] = DOMAIN Attributes
  /\ DOMAIN strategies = Strategies
  /\ DOMAIN sent = Engines
  /\ DOMAIN intent = Engines
  /\ \A e \in Engines : DOMAIN intent[e] = {"framing", "algos"}
  /\ \A e \in Engines : engines[e].algos \in Seq(ToSet(engines[e].algos))

\* What an engine would send if it ran now with the same arguments.
WouldSend(e, args) ==
  IF engines[e].slots = << >>
  THEN CoreConfig(engines[e], strategies[StrategyOf[e]], args)
  ELSE MultiConfig(engines[e], args)

\* A run that has just ended well sent what the engine holds now, and left no
\* algo to translate.
SentInv ==
  RanOk(last) =>
    /\ last.engine \in Engines /\ last.arg \in RunArgs
    /\ sent[last.engine] = WouldSend(last.engine, last.arg)
    /\ engines[last.engine].slots = << >> => engines[last.engine].algos = << >>

\* While the framing is an allocation, no budget is set.
FramingInv ==
  \A e \in Engines :
    intent[e].framing = "allocation" =>
      engines[e].perRebalance = None /\ engines[e].annual = None

EngineInv == ShapeInv /\ SentInv /\ FramingInv

LEMMA InitEngine == Init => EngineInv
<1>. SUFFICES ASSUME Init PROVE EngineInv
  OBVIOUS
<1>1. /\ DOMAIN engines = Engines /\ DOMAIN sent = Engines /\ DOMAIN intent = Engines
      /\ \A e \in Engines : engines[e] = Attributes
      /\ \A e \in Engines : intent[e].framing = "none" /\ DOMAIN intent[e] = {"framing", "algos"}
      /\ DOMAIN strategies = Strategies
      /\ last.op = "new"
  BY DEF Init
<1>2. Attributes.algos \in Seq(ToSet(Attributes.algos))
  BY DEF Attributes, ToSet
<1>. QED  BY <1>1, <1>2 DEF EngineInv, ShapeInv, SentInv, FramingInv, RanOk

LEMMA TranslatedShape ==
  ASSUME NEW g, DOMAIN g = DOMAIN Attributes
  PROVE  /\ DOMAIN Translated(g) = DOMAIN Attributes
         /\ Translated(g).slots = g.slots
         /\ Translated(g).annual = g.annual
         /\ Translated(g).algos = IF Translates(g.algos) THEN << >> ELSE g.algos
  BY DEF Translated, Attributes

-----------------------------------------------------------------------------
(* Algos of a kind.                                                        *)

\* The algos handled before the loop ends are the first ones of the list.
LEMMA HandledAreAlgos ==
  ASSUME NEW S, NEW algos \in Seq(S)
  PROVE  /\ Handled(algos) \in Seq(S)
         /\ \A i \in DOMAIN Handled(algos) :
              i \in DOMAIN algos /\ Handled(algos)[i] = algos[i]
<1>. DEFINE bad(i) == algos[i].kind \notin Supported
            T == {i \in DOMAIN algos : bad(i)}
            first(i) == bad(i) /\ \A j \in 1..(i-1) : algos[j].kind \in Supported
            m == CHOOSE i \in DOMAIN algos : first(i)
<1>1. CASE T = {}
  <2>1. Handled(algos) = algos
    BY <1>1 DEF Handled
  <2>. QED  BY <2>1
<1>2. CASE T # {}
  <2>1. T \in SUBSET Nat
    OBVIOUS
  <2>2. PICK i \in T : \A k \in T : i <= k
    BY <1>2, <2>1, LeastNatural
  <2>3. \E k \in DOMAIN algos : first(k)
    <3>1. ASSUME NEW j \in 1..(i-1) PROVE algos[j].kind \in Supported
      BY <2>2
    <3>. QED  BY <2>2, <3>1
  <2>4. m \in DOMAIN algos
    BY <2>3
  <2>5. Handled(algos) = SubSeq(algos, 1, m - 1)
    BY <1>2 DEF Handled
  <2>. HIDE DEF m
  <2>6. m \in 1..Len(algos)
    BY <2>4
  <2>. QED  BY <2>5, <2>6, SubSeqProperties
<1>. QED  BY <1>1, <1>2

LEMMA BudgetKept ==
  ASSUME NEW g, DOMAIN g = DOMAIN Attributes, g.algos \in Seq(ToSet(g.algos)),
         ~ HasKind(g.algos, "BudgetPercent")
  PROVE  Translated(g).perRebalance = g.perRebalance
<1>1. ~ HasKind(Handled(g.algos), "BudgetPercent")
  BY HandledAreAlgos DEF HasKind
<1>2. BudgetAfter(Handled(g.algos), g.perRebalance) = g.perRebalance
  BY <1>1 DEF BudgetAfter
<1>. QED  BY <1>2 DEF Translated, Attributes

-----------------------------------------------------------------------------
(* The actions.                                                            *)

\* What is observed of the engines changes for one of them.
Updates(f, e, n) ==
  DOMAIN f = Engines /\ f[e] = n /\ \A x \in Engines \ {e} : f[x] = intent[x]

\* A call that is not a run, and touches the attributes of one engine only.
LEMMA OtherCallKeeps ==
  ASSUME EngineInv, NEW e \in Engines, NEW g, NEW n,
         engines' = [engines EXCEPT ![e] = g], DOMAIN g = DOMAIN Attributes,
         g.algos \in Seq(ToSet(g.algos)),
         Updates(intent', e, n), DOMAIN n = {"framing", "algos"},
         n.framing = "allocation" => g.perRebalance = None /\ g.annual = None,
         strategies' = strategies, sent' = sent, ~ RanOk(last')
  PROVE  EngineInv'
<1>1. ShapeInv'
  BY DEF ShapeInv, EngineInv, Updates
<1>2. FramingInv'
  BY DEF FramingInv, ShapeInv, EngineInv, Updates
<1>3. SentInv'
  BY DEF SentInv
<1>. QED  BY <1>1, <1>2, <1>3 DEF EngineInv

LEMMA SetAttributeKeeps ==
  ASSUME EngineInv, NEW e \in Engines, NEW name \in DOMAIN Values,
         NEW value \in Values[name], SetAttribute(e, name, value)
  PROVE  EngineInv'
<1>. DEFINE g == [engines[e] EXCEPT ![name] = value]
            n == IF name \in {"perRebalance", "annual"}
                 THEN [intent[e] EXCEPT !.framing = "none"] ELSE intent[e]
<1>1. /\ DOMAIN engines[e] = DOMAIN Attributes /\ DOMAIN intent[e] = {"framing", "algos"}
      /\ engines[e].algos \in Seq(ToSet(engines[e].algos))
      /\ DOMAIN engines = Engines /\ DOMAIN intent = Engines
  BY DEF EngineInv, ShapeInv
<1>2. name \in DOMAIN Attributes
  BY DEF Values, Attributes
<1>3. engines' = [engines EXCEPT ![e] = g]
  BY <1>1, <1>2 DEF SetAttribute
<1>4. Updates(intent', e, n)
  BY <1>1 DEF SetAttribute, Updates
<1>5. DOMAIN g = DOMAIN Attributes /\ DOMAIN n = {"framing", "algos"}
  BY <1>1
<1>6. g.algos \in Seq(ToSet(g.algos))
  <2>1. CASE name = "algos"
    <3>1. g.algos = value /\ value \in AlgoLists
      BY <2>1, <1>1, <1>2 DEF Values
    <3>. QED  BY <3>1, EngineAssumption
  <2>2. CASE name # "algos"
    <3>1. g.algos = engines[e].algos
      BY <2>2, <1>1
    <3>. QED  BY <3>1, <1>1
  <2>. QED  BY <2>1, <2>2
<1>7. n.framing = "allocation" => g.perRebalance = None /\ g.annual = None
  <2>. SUFFICES ASSUME n.framing = "allocation"
                PROVE  g.perRebalance = None /\ g.annual = None
    OBVIOUS
  <2>1. name \notin {"perRebalance", "annual"} /\ intent[e].framing = "allocation"
    BY <1>1
  <2>2. g.perRebalance = engines[e].perRebalance /\ g.annual = engines[e].annual
    BY <2>1, <1>1
  <2>. QED  BY <2>1, <2>2 DEF EngineInv, FramingInv
<1>8. strategies' = strategies /\ sent' = sent /\ ~ RanOk(last')
  BY DEF SetAttribute, Called, RanOk
<1>. HIDE DEF g, n
<1>. QED  BY <1>3, <1>4, <1>5, <1>6, <1>7, <1>8, OtherCallKeeps

LEMMA MisspeltKeeps ==
  ASSUME EngineInv, NEW e \in Engines, Misspelt(e)
  PROVE  EngineInv'
<1>1. "check_exit_daily" \notin DOMAIN engines[e]
  BY DEF EngineInv, ShapeInv, Attributes
<1>2. UNCHANGED <<engines, strategies, sent, intent>> /\ ~ RanOk(last')
  BY <1>1 DEF Misspelt, SetAttribute, Called, RanOk
<1>. QED  BY <1>2 DEF EngineInv, ShapeInv, SentInv, FramingInv

LEMMA ExternalBudgetKeeps ==
  ASSUME EngineInv, NEW e \in Engines, NEW b, UseExternalBudget(e, b)
  PROVE  EngineInv'
<1>. DEFINE g == [engines[e] EXCEPT
                    !.allocation = [stocks |-> WHOLE, options |-> 0, cash |-> 0],
                    !.annual = b]
            n == [intent[e] EXCEPT !.framing = "external"]
<1>1. /\ DOMAIN engines[e] = DOMAIN Attributes /\ DOMAIN intent[e] = {"framing", "algos"}
      /\ engines[e].algos \in Seq(ToSet(engines[e].algos))
      /\ DOMAIN engines = Engines /\ DOMAIN intent = Engines
  BY DEF EngineInv, ShapeInv
<1>2. engines' = [engines EXCEPT ![e] = g] /\ Updates(intent', e, n)
  BY <1>1 DEF UseExternalBudget, Updates
<1>3. DOMAIN g = DOMAIN Attributes /\ DOMAIN n = {"framing", "algos"}
  BY <1>1
<1>4. g.algos = engines[e].algos /\ n.framing = "external"
  BY <1>1
<1>5. strategies' = strategies /\ sent' = sent /\ ~ RanOk(last')
  BY DEF UseExternalBudget, Called, RanOk
<1>. HIDE DEF g, n
<1>. QED  BY <1>1, <1>2, <1>3, <1>4, <1>5, OtherCallKeeps

LEMMA AllocationKeeps ==
  ASSUME EngineInv, NEW e \in Engines, NEW a, UseAllocation(e, a)
  PROVE  EngineInv'
<1>. DEFINE fits == a.stocks + a.options + a.cash = WHOLE
            g == [engines[e] EXCEPT !.allocation = a, !.annual = None, !.perRebalance = None]
            n == [intent[e] EXCEPT !.framing = "allocation"]
<1>1. /\ DOMAIN engines[e] = DOMAIN Attributes /\ DOMAIN intent[e] = {"framing", "algos"}
      /\ engines[e].algos \in Seq(ToSet(engines[e].algos))
      /\ DOMAIN engines = Engines /\ DOMAIN intent = Engines
  BY DEF EngineInv, ShapeInv
<1>2. strategies' = strategies /\ sent' = sent /\ ~ RanOk(last')
  BY DEF UseAllocation, Called, RanOk
<1>3. CASE fits
  <2>1. engines' = [engines EXCEPT ![e] = g] /\ Updates(intent', e, n)
    BY <1>1, <1>3 DEF UseAllocation, Updates
  <2>2. DOMAIN g = DOMAIN Attributes /\ DOMAIN n = {"framing", "algos"}
    BY <1>1
  <2>3. g.algos = engines[e].algos /\ g.annual = None /\ g.perRebalance = None
    BY <1>1 DEF Attributes
  <2>. HIDE DEF g, n
  <2>. QED  BY <1>1, <1>2, <2>1, <2>2, <2>3, OtherCallKeeps
<1>4. CASE ~ fits
  <2>1. engines' = engines /\ intent' = intent
    BY <1>4 DEF UseAllocation
  <2>. QED  BY <2>1, <1>2 DEF EngineInv, ShapeInv, SentInv, FramingInv
<1>. QED  BY <1>3, <1>4

LEMMA AddStrategyKeeps ==
  ASSUME EngineInv, NEW e \in Engines, NEW slot, AddStrategy(e, slot)
  PROVE  EngineInv'
<1>. DEFINE g == [engines[e] EXCEPT !.slots = Append(@, slot)]
<1>1. /\ DOMAIN engines[e] = DOMAIN Attributes /\ DOMAIN intent[e] = {"framing", "algos"}
      /\ engines[e].algos \in Seq(ToSet(engines[e].algos))
      /\ DOMAIN engines = Engines /\ DOMAIN intent = Engines
  BY DEF EngineInv, ShapeInv
<1>2. engines' = [engines EXCEPT ![e] = g] /\ Updates(intent', e, intent[e])
  BY <1>1 DEF AddStrategy, Updates
<1>3. DOMAIN g = DOMAIN Attributes
  BY <1>1
<1>4. /\ g.algos = engines[e].algos
      /\ g.perRebalance = engines[e].perRebalance /\ g.annual = engines[e].annual
  BY <1>1
<1>5. strategies' = strategies /\ sent' = sent /\ ~ RanOk(last')
  BY DEF AddStrategy, Called, RanOk
<1>6. intent[e].framing = "allocation" => g.perRebalance = None /\ g.annual = None
  BY <1>4 DEF EngineInv, FramingInv
<1>. HIDE DEF g
<1>. QED  BY <1>1, <1>2, <1>3, <1>4, <1>5, <1>6, OtherCallKeeps

\* A run consumes its algos and sends what the engine then holds.
LEMMA RunSingleKeeps ==
  ASSUME EngineInv, NEW e \in Engines, NEW args \in RunArgs, RunSingle(e, args)
  PROVE  EngineInv'
<1>. DEFINE g == engines[e]
            o == StrategyOf[e]
            h == IF g.algos = << >> THEN g ELSE Translated(g)
            t == IF g.algos = << >> THEN strategies[o] ELSE Narrowed(strategies[o], g.algos)
            outcome == IF ~Translates(g.algos) THEN "ValueError"
                       ELSE IF ~Convertible(h.constraints) THEN "AttributeError" ELSE "ok"
            n == [intent[e] EXCEPT
                    !.algos = g.algos,
                    !.framing = IF HasKind(g.algos, "BudgetPercent") THEN "none" ELSE @]
<1>1. /\ DOMAIN g = DOMAIN Attributes /\ DOMAIN intent[e] = {"framing", "algos"}
      /\ g.algos \in Seq(ToSet(g.algos)) /\ o \in DOMAIN strategies
      /\ DOMAIN engines = Engines /\ DOMAIN intent = Engines /\ DOMAIN sent = Engines
  BY DEF EngineInv, ShapeInv, Strategies
<1>2. /\ g.slots = << >>
      /\ engines' = [engines EXCEPT ![e] = h]
      /\ strategies' = [strategies EXCEPT ![o] = t]
      /\ sent' = IF outcome = "ok" THEN [sent EXCEPT ![e] = CoreConfig(h, t, args)] ELSE sent
      /\ last' = [op |-> "run", engine |-> e, arg |-> args, outcome |-> outcome]
  BY DEF RunSingle, Called
<1>3. Updates(intent', e, n)
  BY <1>1 DEF RunSingle, Updates
<1>4. /\ DOMAIN h = DOMAIN Attributes /\ h.slots = << >> /\ h.annual = g.annual
      /\ h.algos = << >> \/ h.algos = g.algos
      /\ Translates(g.algos) => h.algos = << >>
  BY <1>1, <1>2, TranslatedShape
<1>5. ~ HasKind(g.algos, "BudgetPercent") => h.perRebalance = g.perRebalance
  BY <1>1, BudgetKept
<1>6. DOMAIN n = {"framing", "algos"}
      /\ (n.framing = "allocation" =>
            intent[e].framing = "allocation" /\ ~ HasKind(g.algos, "BudgetPercent"))
  BY <1>1
<1>. HIDE DEF h, t, n
<1>7. ShapeInv'
  <2>1. h.algos \in Seq(ToSet(h.algos))
    <3>1. << >> \in Seq(ToSet(<< >>))
      OBVIOUS
    <3>. QED  BY <3>1, <1>4, <1>1
  <2>. QED  BY <2>1, <1>2, <1>3, <1>4, <1>6 DEF ShapeInv, EngineInv, Updates
<1>8. FramingInv'
  <2>1. n.framing = "allocation" => h.perRebalance = None /\ h.annual = None
    BY <1>4, <1>5, <1>6 DEF EngineInv, FramingInv
  <2>. QED  BY <2>1, <1>1, <1>2, <1>3 DEF FramingInv, EngineInv, Updates
<1>9. SentInv'
  <2>. SUFFICES ASSUME outcome = "ok"
                PROVE  /\ sent'[e] = WouldSend(e, args)'
                       /\ engines'[e].algos = << >>
    BY <1>2 DEF SentInv, RanOk
  <2>1. engines'[e] = h /\ strategies'[o] = t /\ sent'[e] = CoreConfig(h, t, args)
    BY <1>1, <1>2
  <2>2. h.algos = << >>
    BY <1>4
  <2>3. WouldSend(e, args)' = CoreConfig(h, t, args)
    BY <2>1, <1>4 DEF WouldSend, CoreConfig, Daily
  <2>. QED  BY <2>1, <2>2, <2>3
<1>. QED  BY <1>7, <1>8, <1>9 DEF EngineInv

LEMMA RunMultiKeeps ==
  ASSUME EngineInv, NEW e \in Engines, NEW args \in RunArgs, RunMulti(e, args)
  PROVE  EngineInv'
<1>. DEFINE g == engines[e]
            m == MultiConfig(g, args)
<1>1. DOMAIN sent = Engines
  BY DEF EngineInv, ShapeInv
<1>2. /\ g.slots # << >> /\ UNCHANGED <<engines, strategies, intent>>
      /\ last'.op = "run" /\ last'.engine = e /\ last'.arg = args
      /\ sent' = IF last'.outcome = "ok" THEN [sent EXCEPT ![e] = m] ELSE sent
  BY DEF RunMulti, Called
<1>. HIDE DEF m
<1>3. ShapeInv' /\ FramingInv'
  BY <1>1, <1>2 DEF EngineInv, ShapeInv, FramingInv
<1>4. WouldSend(e, args)' = m
  <2>1. MultiConfig(g, args)' = MultiConfig(g, args)
    BY <1>2 DEF MultiConfig, SlotConfig
  <2>. QED  BY <1>2, <2>1, Zenon DEF WouldSend, m
<1>5. SentInv'
  BY <1>1, <1>2, <1>4 DEF SentInv, RanOk
<1>. QED  BY <1>3, <1>5 DEF EngineInv

LEMMA NextEngine == EngineInv /\ [Next]_vars => EngineInv'
<1>. SUFFICES ASSUME EngineInv, [Next]_vars PROVE EngineInv'
  OBVIOUS
<1>1. CASE UNCHANGED vars
  <2>1. UNCHANGED <<engines, strategies, sent, last, intent>>
    BY <1>1 DEF vars
  <2>2. ShapeInv' /\ FramingInv'
    BY <2>1 DEF EngineInv, ShapeInv, FramingInv
  <2>3. SentInv'
    <3>1. WouldSend(last.engine, last.arg)' = WouldSend(last.engine, last.arg)
      BY <2>1 DEF WouldSend, MultiConfig, SlotConfig
    <3>. QED  BY <2>1, <3>1 DEF EngineInv, SentInv
  <2>. QED  BY <2>2, <2>3 DEF EngineInv
<1>2. ASSUME NEW e \in Engines, NEW name \in DOMAIN Values, NEW value \in Values[name],
             SetAttribute(e, name, value)
      PROVE  EngineInv'
  BY <1>2, SetAttributeKeeps
<1>3. ASSUME NEW e \in Engines, Misspelt(e) PROVE EngineInv'
  BY <1>3, MisspeltKeeps
<1>4. ASSUME NEW e \in Engines, NEW b \in Budgets, UseExternalBudget(e, b) PROVE EngineInv'
  BY <1>4, ExternalBudgetKeeps
<1>5. ASSUME NEW e \in Engines, NEW a \in Allocations, UseAllocation(e, a) PROVE EngineInv'
  BY <1>5, AllocationKeeps
<1>6. ASSUME NEW e \in Engines, NEW slot, AddStrategy(e, slot) PROVE EngineInv'
  BY <1>6, AddStrategyKeeps
<1>7. ASSUME NEW e \in Engines, NEW args \in RunArgs, RunSingle(e, args) PROVE EngineInv'
  BY <1>7, RunSingleKeeps
<1>8. ASSUME NEW e \in Engines, NEW args \in RunArgs, RunMulti(e, args) PROVE EngineInv'
  BY <1>8, RunMultiKeeps
<1>. QED  BY <1>1, <1>2, <1>3, <1>4, <1>5, <1>6, <1>7, <1>8 DEF Next

\* The invariant of the engine objects: shapes, what the last run sent, and the
\* budgets of a framing.
THEOREM EngineInvariant == Spec => []EngineInv
  BY InitEngine, NextEngine, PTL DEF Spec

-----------------------------------------------------------------------------
(* The properties.                                                         *)

\* A run with the arguments of the run before it finds no algo to translate and
\* sends the same configuration again.
LEMMA RerunStep ==
  EngineInv /\ [Next]_vars =>
    (RanOk(last) /\ RanOk(last')
     /\ last'.engine = last.engine /\ last'.arg = last.arg
     => sent'[last.engine] = sent[last.engine])
<1>. SUFFICES ASSUME EngineInv, [Next]_vars, RanOk(last), RanOk(last'),
                     last'.engine = last.engine, last'.arg = last.arg
              PROVE  sent'[last.engine] = sent[last.engine]
  OBVIOUS
<1>. DEFINE r == last.engine
            a == last.arg
<1>1. /\ r \in Engines /\ a \in RunArgs /\ sent[r] = WouldSend(r, a)
      /\ engines[r].slots = << >> => engines[r].algos = << >>
      /\ DOMAIN sent = Engines
  BY DEF EngineInv, SentInv, ShapeInv
<1>2. ASSUME NEW e \in Engines, NEW args, RunSingle(e, args)
      PROVE  sent'[r] = sent[r]
  <2>1. e = r /\ args = a /\ last'.outcome = "ok"
    BY <1>2 DEF RunSingle, Called, RanOk
  <2>2. engines[r].slots = << >> /\ engines[r].algos = << >>
    BY <1>1, <1>2, <2>1 DEF RunSingle
  <2>3. sent'[r] = CoreConfig(engines[r], strategies[StrategyOf[r]], a)
    BY <1>1, <1>2, <2>1, <2>2 DEF RunSingle, Called
  <2>. QED  BY <1>1, <2>2, <2>3 DEF WouldSend
<1>3. ASSUME NEW e \in Engines, NEW args, RunMulti(e, args)
      PROVE  sent'[r] = sent[r]
  <2>1. e = r /\ args = a /\ last'.outcome = "ok"
    BY <1>3 DEF RunMulti, Called, RanOk
  <2>2. engines[r].slots # << >>
    BY <1>3, <2>1 DEF RunMulti
  <2>3. sent'[r] = MultiConfig(engines[r], a)
    BY <1>1, <1>3, <2>1 DEF RunMulti, Called
  <2>. QED  BY <1>1, <2>2, <2>3 DEF WouldSend
<1>4. CASE UNCHANGED vars
  BY <1>4 DEF vars
<1>5. ASSUME NEW e \in Engines, NEW op, NEW arg, NEW outcome,
             Called(op, e, arg, outcome), op # "run"
      PROVE  FALSE
  BY <1>5 DEF Called, RanOk
<1>. QED
  BY <1>2, <1>3, <1>4, <1>5
  DEF Next, SetAttribute, Misspelt, UseExternalBudget, UseAllocation, AddStrategy

\* Running again with the same arguments sends the same configuration.
THEOREM RerunHolds == Spec => RerunSendsSameConfig
<1>1. EngineInv /\ [Next]_vars =>
        [RanOk(last) /\ RanOk(last')
           /\ last'.engine = last.engine /\ last'.arg = last.arg
           => sent'[last.engine] = sent[last.engine]]_vars
  BY RerunStep
<1>. QED  BY <1>1, EngineInvariant, PTL DEF Spec, RerunSendsSameConfig

\* No run is sent an external budget while an allocation is the framing chosen last.
THEOREM FramingHoldsAlways == Spec => []FramingHolds
<1>1. EngineInv => FramingHolds
  <2>. SUFFICES ASSUME EngineInv, NEW e \in Engines, RanOk(last), last.engine = e,
                       intent[e].framing = "allocation"
                PROVE  sent[e].perRebalance = None /\ sent[e].annual = None
    BY DEF FramingHolds
  <2>1. engines[e].perRebalance = None /\ engines[e].annual = None
    BY DEF EngineInv, FramingInv
  <2>2. sent[e] = WouldSend(e, last.arg)
    BY DEF EngineInv, SentInv
  <2>. QED  BY <2>1, <2>2 DEF WouldSend, CoreConfig, MultiConfig
<1>. QED  BY <1>1, EngineInvariant, PTL

\* There are finitely many dates up to a date.
LEMMA EarlyFinite ==
  ASSUME NEW Q \in SUBSET Nat, NEW d \in Nat
  PROVE  IsFiniteSet({q \in Q : q <= d})
<1>. DEFINE T == {q \in Q : q <= d}
<1>1. IsFiniteSet(0..d)
  BY FS_Interval
<1>2. ASSUME NEW x \in T PROVE x \in 0..d
  OBVIOUS
<1>. HIDE DEF T
<1>3. IsFiniteSet(T)
  BY <1>1, <1>2, FS_Subset
<1>. QED  BY <1>3 DEF T

\* Up to any date, the quotes that requests are moved to are no more than the
\* requests: each quote has a request of its own that is not after it.
LEMMA SnapIsNotEarly ==
  ASSUME NEW dates \in Seq(Nat), NEW d \in Nat
  PROVE  Cardinality({q \in Snapped(ToSet(dates)) : q <= d})
           <= Cardinality({q \in ToSet(dates) : q <= d})
<1>. DEFINE S == {q \in Snapped(ToSet(dates)) : q <= d}
            T == {r \in ToSet(dates) : r <= d}
            meets(q, r) == r \in T /\ r <= q /\ \A p \in Quoted : r <= p => q <= p
            f == [q \in S |-> CHOOSE r \in T : meets(q, r)]
<1>1. ToSet(dates) \subseteq Nat
  BY DEF ToSet
<1>2. IsFiniteSet(T)
  BY <1>1, EarlyFinite
<1>3. ASSUME NEW q \in S PROVE f[q] \in T /\ meets(q, f[q])
  <2>1. \E r \in T : meets(q, r)
    <3>1. PICK r \in ToSet(dates) : r <= q /\ \A p \in Quoted : r <= p => q <= p
      BY DEF Snapped
    <3>2. r \in Nat /\ q \in Nat /\ q <= d
      <4>1. q \in Quoted /\ q <= d
        BY DEF Snapped
      <4>. QED  BY <1>1, <4>1, EngineAssumption
    <3>. QED  BY <3>1, <3>2
  <2>. QED  BY <2>1
<1>4. ASSUME NEW p \in S, NEW q \in S, f[p] = f[q] PROVE p = q
  <2>1. meets(p, f[p]) /\ meets(q, f[p])
    BY <1>3, <1>4
  <2>2. p \in Quoted /\ q \in Quoted /\ p \in Nat /\ q \in Nat
    BY EngineAssumption DEF Snapped
  <2>. HIDE DEF f, T, S
  <2>3. p <= q /\ q <= p
    BY <2>1, <2>2
  <2>. QED  BY <2>2, <2>3
<1>5. f \in Injection(S, T)
  BY <1>3, <1>4 DEF Injection, IsInjective
<1>. HIDE DEF S, T, f
<1>6. Cardinality(S) <= Cardinality(T)
  BY <1>2, <1>5, FS_Injection
<1>. QED  BY <1>6 DEF S, T

\* No requested rebalance is moved before its request.
THEOREM RebalancesHold == Spec => []RebalancesNotEarly
<1>1. EngineInv => RebalancesNotEarly
  <2>. SUFFICES ASSUME EngineInv, RanOk(last), last.arg.given,
                       sent[last.engine].mode = "single", NEW d \in Quoted
                PROVE  Cardinality({q \in sent[last.engine].dates : q <= d})
                         <= Cardinality({q \in ToSet(last.arg.dates) : q <= d})
    BY DEF RebalancesNotEarly
  <2>. DEFINE D == last.arg.dates
  <2>1. /\ sent[last.engine] = WouldSend(last.engine, last.arg)
        /\ D \in Seq(Nat) /\ d \in Nat
    BY EngineAssumption DEF EngineInv, SentInv
  <2>2. sent[last.engine].dates = Snapped(ToSet(D))
    BY <2>1 DEF WouldSend, CoreConfig, MultiConfig, RebalanceDates
  <2>. QED  BY <2>1, <2>2, SnapIsNotEarly
<1>. QED  BY <1>1, EngineInvariant, PTL
=============================================================================
