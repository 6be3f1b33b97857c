-------------------------- MODULE EngineProperties --------------------------
(***************************************************************************)
(* What a user of the engine relies on: that the configuration a run sends *)
(* is the one that was set, whatever was called before, and that running   *)
(* again runs the same thing.                                              *)
(***************************************************************************)
EXTENDS Engine, FiniteSets

\* Every engine keeps a whole allocation and known budgets through any calls.
EngineTypeOK ==
  \A e \in Engines :
    LET g == engines[e]
    IN  /\ g.allocation.stocks + g.allocation.options + g.allocation.cash = WHOLE
        /\ g.perRebalance \in Nat \cup {None} /\ g.annual \in Nat \cup {None}
        /\ DOMAIN g = DOMAIN Attributes
        /\ sent[e] # NoConfig => sent[e].dates \subseteq Quoted

RanOk(c) == c.op = "run" /\ c.outcome = "ok"

\* run() consumes the algos it translates into attributes and into the shared
\* strategy: running again with the same arguments sends the same configuration,
\* with no budget, clause or constraint lost or applied twice.
RerunSendsSameConfig ==
  [][ /\ RanOk(last) /\ RanOk(last')
      /\ last'.engine = last.engine /\ last'.arg = last.arg
      => sent'[last.engine] = sent[last.engine] ]_vars

\* After use_allocation, and until a budget is set again by an attribute, an
\* algo or use_external_budget, no run is sent an external budget, whatever
\* budgets were set before.
FramingHolds ==
  \A e \in Engines :
    /\ RanOk(last) /\ last.engine = e
    /\ intent[e].framing = "allocation"
    => sent[e].perRebalance = None /\ sent[e].annual = None

\* The dates a single-strategy run is given are moved to quote dates, never to
\* an earlier one: up to any date there are no more rebalances than requests, so
\* no signal is acted on before it is given, and where none is given the
\* frequency brings none.
RebalancesNotEarly ==
  /\ RanOk(last) /\ last.arg.given /\ sent[last.engine].mode = "single"
  => \A d \in Quoted :
       Cardinality({q \in sent[last.engine].dates : q <= d})
         <= Cardinality({q \in ToSet(last.arg.dates) : q <= d})

-----------------------------------------------------------------------------
(* Refuted claim.                                                          *)

\* engine.py:469 "MaxGreekExposure -> risk_constraints (MaxDelta/MaxVega)": the
\* limit of every MaxGreekExposure of the list reaches the core.
GreekLimitsSent ==
  /\ RanOk(last) /\ sent[last.engine].mode = "single"
  => \A a \in ToSet(intent[last.engine].algos) :
       a.kind = "MaxGreekExposure" /\ a.delta # None
       => [type |-> "MaxDelta", limit |-> a.delta] \in ToSet(sent[last.engine].constraints)
=============================================================================
