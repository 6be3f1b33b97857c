------------------------- MODULE PortfolioProperties -------------------------
(***************************************************************************)
(* That the sheet of a portfolio is the sum of its members' runs, that no  *)
(* capital appears or is lost in handing it out, and that borrowed engines *)
(* are given back.                                                         *)
(***************************************************************************)
EXTENDS Portfolios

Distinct(names) == \A j, k \in DOMAIN names : j # k => names[j] # names[k]
LeafNames(t) == [n \in Leaves(t) |-> t[n].name]

\* A run of the list is at a member or at its end, a run of the tree hands out
\* shares, and what an engine made of one is kept under the leaf it was made for.
PortfolioTypeOK ==
  /\ members \in Members /\ IsTree(tree)
  /\ DOMAIN capital = Engines /\ DOMAIN balance = Engines /\ DOMAIN sheet = {"multi", "tree"}
  /\ job = "multi" => at \in 1..(Len(members) + 1)
  /\ job = "tree" => /\ allocs \in [Leaves(tree) -> 0..WHOLE] /\ DOMAIN parts \subseteq Leaves(tree)
                     /\ \A n \in DOMAIN parts : parts[n].name = tree[n].name

\* The combined sheet of strategies with names and engines of their own is at any
\* time the sum of what each makes of the share it was given, whatever raised,
\* ran alone or was lent elsewhere since; the shares add up to the capital but
\* for what truncation takes of each.
MultiSheetIsSum ==
  /\ sheet.multi # None
  /\ Distinct([k \in DOMAIN members |-> members[k].name])
  /\ Distinct([k \in DOMAIN members |-> members[k].engine])
  => LET share(k) == (InitialCapital * members[k].weight) \div TotalWeight
         lost == InitialCapital - SumSeq([k \in DOMAIN members |-> share(k)])
     IN  /\ lost \in 0..(Len(members) - 1)
         /\ \A d \in DOMAIN sheet.multi :
              sheet.multi[d] =
                SumSeq([k \in DOMAIN members |->
                          LET b == Balance(members[k].engine, share(k))
                          IN  IF d \in DOMAIN b THEN b[d] ELSE 0])

\* The tree's sheet is the sum of its leaves and of the capital no leaf took: on a
\* date all engines have, with no growth, it is the initial capital but for half
\* a unit of rounding per leaf, an engine two leaves share included.
TreeSheetKeepsCapital ==
  /\ sheet.tree # None
  /\ Distinct(LeafNames(made))
  => \A d \in DOMAIN sheet.tree :
       (\A n \in Leaves(made) :
          LET e == made[n].engine
          IN  d \in DOMAIN Growth[e] /\ Growth[e][d] = 1)
       => 2 * (sheet.tree[d] - InitialCapital)
            \in -(Cardinality(Leaves(made)) + 1)..Cardinality(Leaves(made))

\* Outside a run an engine has the capital it was built with, unless a strategy
\* list took it or its run raised under the tree.
EnginesGivenBack ==
  \A e \in Engines \ lent : capital[e] = Own[e]
=============================================================================
