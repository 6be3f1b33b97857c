------------------------------ MODULE Portfolios ------------------------------
(***************************************************************************)
(* MultiStrategyEngine and StrategyTreeEngine over one pool of engines:    *)
(* both lend their members a share of the capital, run them one after the  *)
(* other and add their balances up. A member's run may raise, which ends   *)
(* the whole run where it is; engines are also run alone, and limits       *)
(* edited, in between.                                                     *)
(***************************************************************************)
EXTENDS Integers, Sequences, FiniteSets, SequencesExt, Totals

CONSTANTS Engines,
          Own,          \* the capital each engine was built with
          Growth,       \* engine -> date -> factor: the balance it makes of a capital
          Members,      \* lists of [name, engine, weight]
          Trees,        \* their nodes, depth first
          Limits,       \* values of max_share a user may set
          WHOLE,        \* a share of one
          InitialCapital, None, MaxRuns

SumSeq(s) == Total(s, Len(s))

\* A child names its parent, which has no engine; the first node is the root.
TreeNode == [name : STRING, weight : Nat, max : Nat \cup {None},
             engine : Engines \cup {None}, parent : Nat]
IsTree(t) ==
  /\ t \in Seq(TreeNode) /\ Len(t) > 0
  /\ \A n \in DOMAIN t : /\ t[n].parent < n /\ (t[n].parent = 0 <=> n = 1)
                         /\ n # 1 => t[t[n].parent].engine = None

ASSUME PortfolioAssumption ==
  /\ WHOLE \in Nat \ {0} /\ InitialCapital \in Nat
  /\ DOMAIN Own = Engines
  /\ \A e \in Engines : \A d \in DOMAIN Growth[e] : Growth[e][d] \in Int
  /\ \A l \in Members :
       /\ l \in Seq(ToSet(l))
       /\ \A k \in DOMAIN l : l[k].engine \in Engines /\ l[k].weight \in Nat
       /\ \E k \in DOMAIN l : l[k].weight > 0
  /\ \A t \in Trees : IsTree(t)
  /\ Limits \subseteq Nat \cup {None} /\ None \notin Int

VARIABLES
  members, tree,       \* the two portfolios
  capital, balance,    \* initial_capital and balance of each engine
  job, at,             \* the run in progress; the next member of a list
  allocs, parts,       \* of a tree: leaf -> share, leaf -> the balance it made
  throttles,           \* self.throttles
  sheet,               \* self.balance["total capital"] of each portfolio
  made, lent, runs     \* for the properties only: the tree a sheet was made from,
                       \* engines whose capital a run left changed

vars == <<members, tree, capital, balance, job, at, parts, allocs, throttles, sheet,
          made, lent, runs>>

Init ==
  /\ members \in Members
  /\ tree \in Trees
  /\ capital = Own
  /\ balance = [e \in Engines |-> None]
  /\ job = "none" /\ at = 0 /\ parts = << >>
  /\ allocs = << >> /\ throttles = << >>
  /\ sheet = [multi |-> None, tree |-> None]
  /\ made = None /\ lent = {} /\ runs = 0

\* What an engine makes of its capital.
Balance(e, c) == [d \in DOMAIN Growth[e] |-> c * Growth[e][d]]

\* Balances side by side, the last of which is at n: a date one of them lacks
\* counts nothing there. A name selects every column that has it.
Column(name, values) == [name |-> name, values |-> values]
DatesOf(columns) == UNION {DOMAIN columns[k].values : k \in DOMAIN columns}
At(column, d) == IF d \in DOMAIN column.values THEN column.values[d] ELSE 0
AddUp(columns, n) ==
  [d \in DatesOf(columns) |->
     Total([k \in DOMAIN columns |->
       LET same == {j \in DOMAIN columns : columns[j].name = columns[k].name}
       IN  Cardinality(same) * At(columns[k], d)], n)]

-----------------------------------------------------------------------------
(* MultiStrategyEngine.                                                    *)

\* The weights are kept by name, the last of a name.
Weight(name) ==
  members[SelectLastInSeq(members, LAMBDA s : s.name = name)].weight
TotalWeight == SumSeq([k \in DOMAIN members |-> members[k].weight])
\* Mutation: every member gets its weight of the largest, not of the sum.
CapitalShareOfFirst(k) == (InitialCapital * Weight(members[k].name)) \div members[1].weight
CapitalShare(k) == (InitialCapital * Weight(members[k].name)) \div TotalWeight

RunMulti ==
  /\ job = "none" /\ runs < MaxRuns
  /\ job' = "multi" /\ at' = 1 /\ runs' = runs + 1
  /\ UNCHANGED <<members, tree, capital, balance, parts, allocs, throttles, sheet, made, lent>>

\* The share replaces the engine's capital for good. A run that raises leaves
\* the balance of an earlier one.
RunMember ==
  /\ job = "multi" /\ at <= Len(members)
  /\ LET e == members[at].engine IN
       /\ capital' = [capital EXCEPT ![e] = CapitalShare(at)]
       /\ lent' = lent \cup {e}
       /\ \/ balance' = [balance EXCEPT ![e] = Balance(e, CapitalShare(at))]
             /\ at' = at + 1 /\ UNCHANGED job
          \/ job' = "none" /\ UNCHANGED <<balance, at>>
  /\ UNCHANGED <<members, tree, parts, allocs, throttles, sheet, made, runs>>

\* The balances are read when all members have run.
MemberColumns ==
  [k \in DOMAIN members |-> Column(members[k].name, balance[members[k].engine])]
CombineMulti ==
  /\ job = "multi" /\ at > Len(members)
  /\ sheet' = [sheet EXCEPT !.multi = AddUp(MemberColumns, Len(members))]
  /\ job' = "none"
  /\ UNCHANGED <<members, tree, capital, balance, at, parts, allocs, throttles, made, lent, runs>>

-----------------------------------------------------------------------------
(* StrategyTreeEngine.                                                     *)

IsLeaf(t, n) == t[n].engine # None
Children(t, n) == {c \in DOMAIN t : t[c].parent = n}
ChildWeight(t, n) == Total([c \in Children(t, n) |-> t[c].weight], Len(t))

\* A node is asked for a part of its parent's share, by weight among its siblings;
\* below a branch whose weights add up to nothing, for None.
Requested(t) ==
  LET share[n \in DOMAIN t] ==
        IF n = 1 THEN WHOLE
        ELSE LET p == t[n].parent
             IN  IF share[p] = None \/ ChildWeight(t, p) <= 0 THEN None
                 ELSE (share[p] * t[n].weight) \div ChildWeight(t, p)
  IN  share
Leaves(t) == {n \in DOMAIN t : IsLeaf(t, n) /\ Requested(t)[n] # None}

Applied(t, n) ==
  LET r == Requested(t)[n]
  IN  IF t[n].max = None \/ r <= t[n].max THEN r ELSE t[n].max

LeafShares(t) == [n \in Leaves(t) |-> Applied(t, n)]
\* Only leaves a limit cuts are recorded, under their names, the last of a name;
\* nothing is removed.
Throttles(t) ==
  LET cut == {n \in Leaves(t) : Applied(t, n) < Requested(t)[n]}
  IN  [nm \in {t[n].name : n \in cut} |->
         LET n == Max({k \in cut : t[k].name = nm})
         IN  [requested |-> Requested(t)[n], applied |-> Applied(t, n)]]

Allocated(shares) == Total(shares, Len(tree))
\* Mutation: capped shares are not missed.
UnallocatedNothing(shares) == 0
Unallocated(shares) == IF Allocated(shares) >= WHOLE THEN 0 ELSE WHOLE - Allocated(shares)

\* Python's round: to the even neighbour from half way.
Rounded(n, d) ==
  LET q == n \div d
      r == 2 * (n % d)
  IN  IF r > d \/ (r = d /\ q % 2 = 1) THEN q + 1 ELSE q
LeafCapital(share) == Rounded(InitialCapital * share, WHOLE)

RunTree ==
  /\ job = "none" /\ runs < MaxRuns
  /\ allocs' = LeafShares(tree)
  /\ throttles' = Throttles(tree) @@ throttles
  /\ job' = "tree" /\ parts' = << >> /\ runs' = runs + 1
  /\ UNCHANGED <<members, tree, capital, balance, at, sheet, made, lent>>

LeavesToRun == DOMAIN allocs \ DOMAIN parts
\* The first leaf that has not run lends its engine the capital of its share, and
\* keeps the balance it makes of it.
LeafRuns(n) ==
  LET b == Balance(tree[n].engine, LeafCapital(allocs[n]))
  IN  /\ balance' = [balance EXCEPT ![tree[n].engine] = b]
      /\ parts' = [k \in DOMAIN parts \cup {n} |->
                    IF k = n THEN Column(tree[n].name, b) ELSE parts[k]]

\* Mutation: the engine keeps the leaf's capital.
RunLeafKeeping ==
  /\ job = "tree" /\ LeavesToRun # {}
  /\ LET n == Min(LeavesToRun)
     IN  /\ LeafRuns(n)
         /\ capital' = [capital EXCEPT ![tree[n].engine] = LeafCapital(allocs[n])]
  /\ UNCHANGED <<members, tree, job, at, allocs, throttles, sheet, made, lent, runs>>
\* The engine gets its own capital back when its run ends, but not when it raises.
RunLeaf ==
  /\ job = "tree" /\ LeavesToRun # {}
  /\ LET n == Min(LeavesToRun)
         e == tree[n].engine
     IN  \/ LeafRuns(n) /\ UNCHANGED <<capital, job, lent>>
         \/ /\ capital' = [capital EXCEPT ![e] = LeafCapital(allocs[n])]
            /\ job' = "none" /\ lent' = lent \cup {e}
            /\ UNCHANGED <<balance, parts>>
  /\ UNCHANGED <<members, tree, at, allocs, throttles, sheet, made, runs>>

CombineTree ==
  /\ job = "tree" /\ LeavesToRun = {}
  /\ LET idle == (InitialCapital * Unallocated(allocs)) \div WHOLE
         total == AddUp(parts, Len(tree))
     IN  sheet' = [sheet EXCEPT !.tree = [d \in DOMAIN total |-> total[d] + idle]]
  /\ made' = tree
  /\ job' = "none"
  /\ UNCHANGED <<members, tree, capital, balance, at, parts, allocs, throttles, lent, runs>>

-----------------------------------------------------------------------------
(* The user in between.                                                    *)

RunAlone(e) ==
  /\ job = "none" /\ runs < MaxRuns
  /\ balance' = [balance EXCEPT ![e] = Balance(e, capital[e])]
  /\ runs' = runs + 1
  /\ UNCHANGED <<members, tree, capital, job, at, parts, allocs, throttles, sheet, made, lent>>

SetMaxShare(n, limit) ==
  /\ job = "none" /\ IsLeaf(tree, n)
  /\ tree' = [tree EXCEPT ![n].max = limit]
  /\ UNCHANGED <<members, capital, balance, job, at, parts, allocs, throttles, sheet, made, lent, runs>>

\* MaxRuns bounds the runs a user starts.
Rest == job = "none" /\ runs = MaxRuns /\ UNCHANGED vars

Next ==
  \/ RunMulti \/ RunMember \/ CombineMulti
  \/ RunTree \/ RunLeaf \/ CombineTree
  \/ \E e \in Engines : RunAlone(e)
  \/ \E n \in DOMAIN tree, l \in Limits : SetMaxShare(n, l)
  \/ Rest

Spec == Init /\ [][Next]_vars
=============================================================================
