---------------------------- MODULE MCPortfolios ----------------------------
(***************************************************************************)
(* Three engines, one of which starts a date later; strategy lists with    *)
(* and without repeated names and engines; a tree with a branch that has   *)
(* no weight and leaves that share an engine.                              *)
(***************************************************************************)
EXTENDS PortfolioProperties

MCOwn == [e \in Engines |-> IF e = "a" THEN 50 ELSE 70]
MCGrowth == [e \in Engines |-> CASE e = "a" -> [d \in {1, 2} |-> d]
                                 [] e = "b" -> [d \in {1, 2} |-> 1]
                                 [] OTHER -> [d \in {2} |-> 3]]

M(name, engine, weight) == [name |-> name, engine |-> engine, weight |-> weight]
MCMembers ==
  { << M("x", "a", 1), M("y", "b", 2) >>,
    << M("x", "a", 1), M("y", "b", 3), M("z", "c", 2) >>,
    << M("x", "b", 1), M("x", "a", 1) >>,
    << M("x", "a", 2), M("y", "a", 1) >> }

Leaf(parent, name, weight, max, engine) ==
  [name |-> name, weight |-> weight, max |-> max, engine |-> engine, parent |-> parent]
Branch(parent, weight) ==
  [name |-> "branch", weight |-> weight, max |-> None, engine |-> None, parent |-> parent]

MCTrees ==
  { << Leaf(0, "p", 1, None, "a") >>,
    << Branch(0, 1), Leaf(1, "p", 1, 36, "a"), Branch(1, 2),
                       Leaf(3, "q", 1, None, "b"), Leaf(3, "r", 3, None, "a") >>,
    << Branch(0, 1), Leaf(1, "p", 3, None, "b"), Branch(1, 1), Leaf(3, "q", 0, None, "c") >> }
MCLimits == { None, 20 }
=============================================================================
