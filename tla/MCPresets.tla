----------------------------- MODULE MCPresets -----------------------------
(***************************************************************************)
(* Calls and puts around a spot of 20, a strike step being 5 percent of    *)
(* it: in, at and out of the money, thin, without a bid, of another        *)
(* expiration or of another underlying, in any order of the file.          *)
(***************************************************************************)
EXTENDS Presets

Q(type, strike, dte, delta, bid, ask, volume, interest) ==
  [underlying |-> "SPY", type |-> type, strike |-> strike, dte |-> dte, delta |-> delta,
   bid |-> bid, ask |-> ask, volume |-> volume, interest |-> interest]

MCRows ==
  { Q("call", 19, 30, 70, 2, 3, 2, 1), Q("call", 21, 30, 30, 1, 1, 0, 2), Q("call", 21, 35, 40, 0, 2, 2, 2),
    Q("put", 22, 30, -70, 2, 3, 2, 2), Q("put", 20, 35, -50, 1, 3, 1, 1),
    Q("put", 19, 30, -30, 1, 2, 0, 3), Q("put", 18, 30, -10, 0, 1, 2, 2),
    [Q("put", 19, 30, -20, 1, 1, 2, 9) EXCEPT !.underlying = "XYZ"] }

MCTargetDelta == -30

C(preset, dir, otm, tol, selector, fill, budget) ==
  [preset |-> preset, dir |-> dir, type |-> "call", dte |-> <<28, 35>>, delta |-> <<-50, -10>>,
   otm |-> otm, putOtm |-> 5, tol |-> tol,
   selector |-> selector, fill |-> fill, budget |-> budget]

MCConfigs ==
  { C("deep_otm_put", "buy", 0, 0, "first", "mid", 2),
    C("deep_otm_put", "sell", 0, 0, "interest", "volume", 1),
    C("near_atm_put", "buy", 5, 1, "delta", "volume", 4),
    C("strangle", "sell", 5, 5, "first", "market", 3),
    C("strangle", "buy", 0, 5, "interest", "volume", 5),
    C("covered_call", "sell", 5, 5, "delta", "mid", 2),
    C("cash_secured_put", "sell", 5, 5, "interest", "volume", 1),
    C("collar", "sell", 5, 5, "first", "volume", 2),
    C("collar", "sell", 0, 5, "delta", "mid", 3),
    C("butterfly", "buy", 0, 0, "first", "volume", 4),
    [C("butterfly", "buy", 0, 0, "delta", "mid", 3) EXCEPT !.type = "put"],
    C("iron_condor", "sell", 0, 0, "first", "mid", 2),
    C("iron_condor", "sell", 0, 0, "delta", "volume", 3) }
=============================================================================
