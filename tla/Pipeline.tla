------------------------------ MODULE Pipeline ------------------------------
(***************************************************************************)
(* AlgoPipelineBacktester.run: for each date of the price table a context  *)
(* is built from the books, the algos of the program are called on it in   *)
(* order until one skips the day or stops the run, and the books are read  *)
(* back from it.                                                           *)
(***************************************************************************)
EXTENDS PipelineAlgos

CONSTANTS Programs,        \* the pipelines to run: sequences of algos
          PriceRows,       \* the rows the price table may have
          InitialCapital

\* The price table is sorted by date.
NotBefore(year, part, otheryear, otherpart) ==
  year > otheryear \/ (year = otheryear /\ part >= otherpart)

ASSUME PipelineAssumption ==
  /\ NumSymbols \in Nat \ {0}
  /\ ONE \in Nat \ {0}
  /\ Calendar \in Seq([year : Nat, month : 1..12, isoyear : Nat, week : 1..53])
  /\ \A d \in DOMAIN Calendar : \A e \in 1..d :
       /\ NotBefore(Calendar[d].year, Calendar[d].month, Calendar[e].year, Calendar[e].month)
       /\ NotBefore(Calendar[d].isoyear, Calendar[d].week, Calendar[e].isoyear, Calendar[e].week)
  /\ \A p \in Programs : /\ p = [k \in 1..Len(p) |-> p[k]] /\ Len(p) \in Nat
                         /\ \A k \in 1..Len(p) : WellFormed(p[k])
  /\ PriceRows \subseteq [Symbols -> Nat \cup {NaN}]
  /\ InitialCapital \in Nat

VARIABLES
  program,      \* self.algos
  states,       \* what each algo remembers; a sequence, one entry per child
  prices,       \* the rows of the price table up to the date
  ctx,          \* PipelineContext of the date
  step,         \* the algo to call next
  cash, positions,
  rows,         \* the balance sheet
  log,          \* self.logs
  pc

vars == <<program, states, prices, ctx, step, cash, positions, rows, log, pc>>

NoContext ==
  [day |-> 0, prices |-> Nothing, history |-> Nothing, total |-> 0, cash |-> 0,
   positions |-> Nothing, selected |-> Nothing, target |-> Nothing]

Context(p) ==
  [day |-> Len(prices) + 1, prices |-> p, history |-> Append(prices, p),
   total |-> cash + MarkedValue(positions, p), cash |-> cash,
   positions |-> positions, selected |-> Nothing, target |-> Nothing]

Init ==
  /\ program \in Programs
  /\ states = [k \in DOMAIN program |-> StatesOf(program[k])]
  /\ prices = Nothing
  /\ ctx = NoContext
  /\ step = 0
  /\ cash = InitialCapital
  /\ positions = Nothing
  /\ rows = Nothing
  /\ log = Nothing
  /\ pc = "date"

OpenDate ==
  /\ pc = "date"
  /\ Len(prices) < Len(Calendar)
  /\ \E p \in PriceRows : prices' = Append(prices, p) /\ ctx' = Context(p)
  /\ step' = 1
  /\ pc' = "algo"
  /\ UNCHANGED <<program, states, cash, positions, rows, log>>

\* A context whose cash became NaN is not followed further.
CallNext ==
  /\ pc = "algo"
  /\ step <= Len(program)
  /\ \E draw \in Draws(program[step], ctx) :
       LET r == Call(program[step], states[step], ctx, draw)
       IN  /\ states' = [states EXCEPT ![step] = r.s]
           /\ ctx' = r.c
           /\ log' = Append(log, [day |-> ctx.day, step |-> step, status |-> r.status])
           /\ pc' = CASE r.status = "continue" -> "algo"
                      [] r.status = "NaN" -> "NaN"
                      [] OTHER -> "record"
  /\ step' = step + 1
  /\ UNCHANGED <<program, prices, cash, positions, rows>>

AlgosDone == pc = "record" \/ (pc = "algo" /\ step > Len(program))
StopAll == log # Nothing /\ Last(log).status = "stop"

\* The books are read back, and valued again for the row.
RecordRow ==
  /\ AlgosDone
  /\ cash' = ctx.cash
  /\ positions' = ctx.positions
  /\ rows' = Append(rows, [day |-> ctx.day, cash |-> ctx.cash, positions |-> ctx.positions,
                           stocks |-> MarkedValue(ctx.positions, ctx.prices),
                           total |-> ctx.cash + MarkedValue(ctx.positions, ctx.prices)])
  /\ pc' = IF StopAll THEN "done" ELSE "date"
  /\ UNCHANGED <<program, states, prices, ctx, step, log>>

EndOfData ==
  /\ pc = "date"
  /\ Len(prices) = Len(Calendar)
  /\ pc' = "done"
  /\ UNCHANGED <<program, states, prices, ctx, step, cash, positions, rows, log>>

Ended == pc \in {"done", "NaN"} /\ UNCHANGED vars

Next == OpenDate \/ CallNext \/ RecordRow \/ EndOfData \/ Ended

Spec == Init /\ [][Next]_vars

-----------------------------------------------------------------------------
(* Random benchmark.                                                       *)

\* The program each random portfolio runs.
RandomProgram ==
  <<[kind |-> "RunMonthly"], [kind |-> "SelectAll"], [kind |-> "WeighRandomly"],
    [kind |-> "Rebalance"]>>
=============================================================================
