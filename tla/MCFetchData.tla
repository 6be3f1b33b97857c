----------------------------- MODULE MCFetchData -----------------------------
(***************************************************************************)
(* A pinned symbol with a historical mirror and another with neither, over *)
(* three dates: all sources up; the release down and then empty; a release *)
(* whose options and prices share one date; a symbol nobody has.           *)
(***************************************************************************)
EXTENDS FetchDataProperties

\* Options of the release and the CDN, prices of the release, hist and CDN.
Offer(ro, co, ru, hu, cu) ==
  [f \in Files |->
     CASE f.symbol = "XYZ" -> IF f.source = "release" THEN {1, 3} ELSE Absent
       [] f.kind = "options" /\ f.source = "release" -> ro
       [] f.kind = "options" /\ f.source = "cdn" -> co
       [] f.kind = "underlying" /\ f.source = "release" -> ru
       [] f.kind = "underlying" /\ f.source = "hist" -> hu
       [] OTHER -> cu]

MCNets ==
  { Offer({1, 2}, {1, 2, 3}, {2, 3}, {1, 2}, Absent),
    Offer(Absent, {1, 2}, {}, {1}, {2, 3}),
    Offer({2, 3}, Absent, {1, 2}, Absent, Absent) }

\* One ends on a trading date, one on the day after the last.
MCPeriods == { [start |-> 1, end |-> 3], [start |-> 2, end |-> 4] }
AllFlags == [force : BOOLEAN, allow : BOOLEAN]
=============================================================================
