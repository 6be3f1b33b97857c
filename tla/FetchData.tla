------------------------------ MODULE FetchData ------------------------------
(***************************************************************************)
(* scripts/fetch_data.py: raw parquets are downloaded into a cache, turned *)
(* into the engine's input files, and the dates of the two inputs aligned. *)
(* A run is a sequence of steps on disk. Any download may fail, the script *)
(* may be killed at any step and be started again with other flags: what   *)
(* it finds on disk is what an earlier run left.                           *)
(***************************************************************************)
EXTENDS Integers, Sequences, FiniteSets, SequencesExt

CONSTANTS Symbols, Hashed,   \* the symbols, and those with canonical hashes
          Hist,              \* HIST_SYMBOLS
          Dates, Periods,    \* trading dates; the first and last day a run may ask for
          Nets,              \* what the sources offer
          Commands, Flags,   \* what a run may be called with
          MaxRuns, MaxFaults

CONSTANTS Absent, Partial    \* no file; a file cut short by a kill

ASSUME FetchAssumption ==
  /\ Hashed \subseteq Symbols /\ Hist \subseteq Symbols
  /\ Dates \subseteq Int /\ Periods \subseteq [start : Int, end : Int]
  /\ Commands \subseteq {"all", "stocks", "options"}
  /\ Flags \subseteq [force : BOOLEAN, allow : BOOLEAN]
  /\ IsFiniteSet(Symbols) /\ MaxFaults \in Nat

VARIABLES
  net,       \* dates each source offers, Absent where it has no file
  cache,     \* data/raw: [source, kind, symbol] -> file
  outputs,   \* data/processed: [name, format] -> file
  run,       \* the arguments of the run
  pc, stage, \* where the run is; "options" or "stocks"
  todo,      \* symbols left in the stage
  sources,   \* files left to try for the symbol
  quotes,    \* option dates kept for the symbol
  frames,    \* rows collected in the stage
  writes,    \* output files still to write
  last,      \* how the run went
  faults, runs

vars == <<net, cache, outputs, run, pc, stage, todo, sources, quotes, frames, writes, last,
          faults, runs>>

File(source, kind, symbol) == [source |-> source, kind |-> kind, symbol |-> symbol]
Files ==
  { File(src, k, s) : src \in {"release", "cdn"}, k \in {"options", "underlying"}, s \in Symbols }
    \cup { File("hist", "underlying", s) : s \in Hist }
Outputs == {"stocks", "options"} \X {"csv", "parquet"}

\* A row is a date of a symbol, with the sources of its quotes and of its price.
Sources == {"release", "cdn", "hist", "yfinance", "none"}
Rows == [symbol : Symbols, date : Dates, source : Sources, price : Sources]
Row(s, d, source, price) == [symbol |-> s, date |-> d, source |-> source, price |-> price]
DatesOf(rows) == { r.date : r \in rows }
\* An output file: its rows, and whether its run had --allow-fallback.
Output == [rows : SUBSET Rows, allow : BOOLEAN]
Whole(file) == file \notin {Absent, Partial}

\* Sources have files or none, and no file is taken for a missing or a cut one.
ASSUME FileAssumption ==
  /\ Nets \subseteq [Files -> {Absent} \cup SUBSET Dates]
  /\ Absent # Partial /\ Absent \notin Files
  /\ Absent \notin Output /\ Partial \notin Output
  /\ \A days \in SUBSET Dates : days \notin {Absent, Partial}

NoQuotes == [source |-> "none", dates |-> {}]
Idle == [wrote |-> {}, aligned |-> FALSE, outcome |-> "none", read |-> Absent]

Init ==
  /\ net \in Nets
  /\ cache = [f \in Files |-> Absent]
  /\ outputs = [o \in Outputs |-> Absent]
  /\ run = [command |-> "none", force |-> FALSE, allow |-> FALSE, range |-> {}, end |-> 0]
  /\ pc = "idle" /\ stage = "none"
  /\ todo = << >> /\ sources = << >> /\ quotes = NoQuotes /\ frames = {} /\ writes = << >>
  /\ last = Idle
  /\ faults = 0 /\ runs = 0

-----------------------------------------------------------------------------
(* Stages.                                                                 *)

\* main: the options first, then the stocks, then the alignment.
StageAfter(command, s) ==
  CASE s = "none" /\ command \in {"all", "options"} -> "options"
    [] s \in {"none", "options"} /\ command \in {"all", "stocks"} -> "stocks"
    [] OTHER -> "align"

EnterStage(s) ==
  /\ stage' = s
  /\ todo' = IF s = "align" THEN << >> ELSE SetToSeq(Symbols)
  /\ pc' = IF s = "align" THEN "align" ELSE "symbol"

Main ==
  /\ pc = "idle" /\ runs < MaxRuns
  /\ \E c \in Commands, f \in Flags, p \in Periods :
       /\ run' = [command |-> c, force |-> f.force, allow |-> f.allow,
                  range |-> {d \in Dates : p.start <= d /\ d <= p.end}, end |-> p.end]
       /\ EnterStage(StageAfter(c, "none"))
  /\ runs' = runs + 1
  /\ last' = Idle
  /\ sources' = << >> /\ quotes' = NoQuotes /\ frames' = {} /\ writes' = << >>
  /\ UNCHANGED <<net, cache, outputs, faults>>

\* Mutation: the cached fallback is taken without asking for the flag.
OptionsSourcesCached(s) ==
  <<File("release", "options", s)>>
    \o (IF run.allow \/ cache[File("cdn", "options", s)] # Absent
        THEN <<File("cdn", "options", s)>> ELSE << >>)
OptionsSources(s) ==
  <<File("release", "options", s)>>
    \o (IF run.allow THEN <<File("cdn", "options", s)>> ELSE << >>)

\* download_underlying never asks for the flag.
UnderlyingSources(s) ==
  <<File("release", "underlying", s)>>
    \o (IF s \in Hist THEN <<File("hist", "underlying", s)>> ELSE << >>)
    \o <<File("cdn", "underlying", s)>>

BeginSymbol ==
  /\ pc = "symbol" /\ todo # << >>
  /\ IF stage = "options"
     THEN pc' = "options" /\ sources' = OptionsSources(Head(todo))
     ELSE pc' = "underlying" /\ sources' = UnderlyingSources(Head(todo))
  /\ UNCHANGED <<net, cache, outputs, run, stage, todo, quotes, frames, writes, last, faults, runs>>

-----------------------------------------------------------------------------
(* Downloads.                                                              *)

\* A cached file is used as it is. A download that fails, at the request or
\* half way, removes the file that was there.
Downloads(f) ==
  IF cache[f] # Absent /\ ~run.force
  THEN {[file |-> cache[f], got |-> TRUE, fault |-> 0]}
  ELSE (IF net[f] = Absent THEN {} ELSE {[file |-> net[f], got |-> TRUE, fault |-> 0]})
       \cup (IF net[f] = Absent \/ faults < MaxFaults
             THEN {[file |-> Absent, got |-> FALSE,
                    fault |-> IF net[f] = Absent THEN 0 ELSE 1]} ELSE {})

\* read_parquet of a file cut short raises, and nothing catches it.
Die(f) ==
  /\ pc' = "idle" /\ last' = [last EXCEPT !.outcome = "died", !.read = f]
  /\ UNCHANGED <<todo, sources, quotes, frames>>

\* Mutation: the symbol is tried again until it is there.
SkipSymbolRetrying ==
  /\ pc' = "symbol" /\ sources' = << >> /\ quotes' = NoQuotes
  /\ UNCHANGED <<todo, frames, last>>
SkipSymbol ==
  /\ pc' = "symbol" /\ todo' = Tail(todo) /\ sources' = << >> /\ quotes' = NoQuotes
  /\ UNCHANGED <<frames, last>>

\* The options of the range, each with the close of its date or without one; or
\* the rows of the underlying itself.
Frame(s, source, prices) ==
  IF stage = "options"
  THEN { Row(s, d, quotes.source, IF d \in prices THEN source ELSE "none") : d \in quotes.dates }
  ELSE { Row(s, d, source, source) : d \in prices }

AddFrame(source, prices) ==
  /\ frames' = frames \cup Frame(Head(todo), source, prices)
  /\ pc' = "symbol" /\ todo' = Tail(todo) /\ sources' = << >> /\ quotes' = NoQuotes
  /\ UNCHANGED last

TryNext ==
  /\ sources' = Tail(sources)
  /\ pc' = IF sources' = << >> THEN "yfinance" ELSE "underlying"
  /\ UNCHANGED <<todo, quotes, frames, last>>

DownloadOptions ==
  /\ pc = "options"
  /\ LET f == Head(sources) IN \E d \in Downloads(f) :
       /\ cache' = [cache EXCEPT ![f] = d.file]
       /\ faults' = faults + d.fault
       /\ CASE ~d.got /\ Len(sources) > 1 ->
                 sources' = Tail(sources) /\ UNCHANGED <<pc, todo, quotes, frames, last>>
            [] ~d.got /\ Len(sources) = 1 -> SkipSymbol
            [] d.got /\ d.file = Partial -> Die(f)
            [] d.got /\ d.file # Partial /\ d.file \cap run.range = {} -> SkipSymbol
            [] OTHER ->
                 /\ quotes' = [source |-> f.source, dates |-> d.file \cap run.range]
                 /\ pc' = "underlying" /\ sources' = UnderlyingSources(f.symbol)
                 /\ UNCHANGED <<todo, frames, last>>
  /\ UNCHANGED <<net, outputs, run, stage, writes, runs>>

\* An empty file is passed over for the next source; a file with no row in the
\* range is not: the script then asks yfinance.
DownloadUnderlying ==
  /\ pc = "underlying"
  /\ LET f == Head(sources) IN \E d \in Downloads(f) :
       /\ cache' = [cache EXCEPT ![f] = d.file]
       /\ faults' = faults + d.fault
       /\ CASE ~d.got \/ d.file = {} -> TryNext
            [] d.got /\ d.file = Partial -> Die(f)
            [] d.got /\ d.file \notin {Partial, {}} /\ d.file \cap run.range = {} ->
                 pc' = "yfinance" /\ sources' = << >> /\ UNCHANGED <<todo, quotes, frames, last>>
            [] OTHER -> AddFrame(f.source, d.file \cap run.range)
  /\ UNCHANGED <<net, outputs, run, stage, writes, runs>>

\* The last resort: what it knows of the range, whose end it leaves out; nothing
\* when it is not installed.
FetchYfinance ==
  /\ pc = "yfinance"
  /\ \E prices \in SUBSET {d \in run.range : d < run.end} : AddFrame("yfinance", prices)
  /\ UNCHANGED <<net, cache, outputs, run, stage, writes, faults, runs>>

-----------------------------------------------------------------------------
(* Output files.                                                           *)

Write(o, rows) == [file |-> o, content |-> [rows |-> rows, allow |-> run.allow]]

\* Nothing is written, and older outputs stay, when no symbol gave rows.
EndStage ==
  /\ pc = "symbol" /\ todo = << >>
  /\ IF frames = {}
     THEN EnterStage(StageAfter(run.command, stage)) /\ UNCHANGED <<writes, last>>
     ELSE /\ writes' = << Write(<<stage, "csv">>, frames), Write(<<stage, "parquet">>, frames) >>
          /\ last' = [last EXCEPT !.wrote = @ \cup {stage}]
          /\ pc' = "write"
          /\ UNCHANGED <<stage, todo>>
  /\ frames' = {}
  /\ UNCHANGED <<net, cache, outputs, run, sources, quotes, faults, runs>>

\* Mutation: a parquet that exists is not written again.
WriteNextFresh ==
  /\ pc = "write" /\ writes # << >>
  /\ LET w == Head(writes)
     IN  outputs' = IF w.file[2] = "parquet" /\ outputs[w.file] # Absent THEN outputs
                    ELSE [outputs EXCEPT ![w.file] = w.content]
  /\ writes' = Tail(writes)
  /\ UNCHANGED <<net, cache, run, pc, stage, todo, sources, quotes, frames, last, faults, runs>>
WriteNext ==
  /\ pc = "write" /\ writes # << >>
  /\ outputs' = [outputs EXCEPT ![Head(writes).file] = Head(writes).content]
  /\ writes' = Tail(writes)
  /\ UNCHANGED <<net, cache, run, pc, stage, todo, sources, quotes, frames, last, faults, runs>>

Written ==
  /\ pc = "write" /\ writes = << >>
  /\ IF stage = "align" THEN pc' = "end" /\ UNCHANGED <<stage, todo>>
                        ELSE EnterStage(StageAfter(run.command, stage))
  /\ UNCHANGED <<net, cache, outputs, run, sources, quotes, frames, writes, last, faults, runs>>

Stocks == outputs[<<"stocks", "csv">>]
Options == outputs[<<"options", "csv">>]

On(file, dates) == [file EXCEPT !.rows = {r \in @ : r.date \in dates}]
Aligned(name, format, shared) ==
  [file |-> <<name, format>>, content |-> On(outputs[<<name, "csv">>], shared)]
\* Mutation: the twins are left as the fetch wrote them.
AlignedCsvOnly(shared) ==
  << Aligned("stocks", "csv", shared), Aligned("options", "csv", shared) >>
\* Both CSVs, then the parquet twins that exist.
AlignedTwin(name, shared) ==
  IF outputs[<<name, "parquet">>] = Absent THEN << >>
  ELSE << Aligned(name, "parquet", shared) >>
AlignedWrites(shared) ==
  << Aligned("stocks", "csv", shared), Aligned("options", "csv", shared) >>
    \o AlignedTwin("stocks", shared) \o AlignedTwin("options", shared)

AlignDates ==
  /\ pc = "align"
  /\ CASE run.command # "all" \/ Absent \in {Stocks, Options} ->
            pc' = "end" /\ UNCHANGED <<writes, last>>
       [] run.command = "all" /\ Absent \notin {Stocks, Options} /\ Partial \in {Stocks, Options} ->
            pc' = "idle" /\ last' = [last EXCEPT !.outcome = "died"] /\ UNCHANGED writes
       [] OTHER ->
            LET shared == DatesOf(Stocks.rows) \cap DatesOf(Options.rows)
            IN  IF shared = {} THEN pc' = "end" /\ UNCHANGED <<writes, last>>
                ELSE /\ pc' = "write" /\ writes' = AlignedWrites(shared)
                     /\ last' = [last EXCEPT !.aligned = TRUE]
  /\ UNCHANGED <<net, cache, outputs, run, stage, todo, sources, quotes, frames, faults, runs>>

Done ==
  /\ pc = "end"
  /\ pc' = "idle" /\ last' = [last EXCEPT !.outcome = "done"]
  /\ UNCHANGED <<net, cache, outputs, run, stage, todo, sources, quotes, frames, writes, faults, runs>>

-----------------------------------------------------------------------------
(* A kill loses what the process held; the file it was writing is cut short.*)

Requesting == pc \in {"options", "underlying"} /\ (run.force \/ cache[Head(sources)] = Absent)
Downloading == Requesting /\ net[Head(sources)] # Absent

\* What a cut leaves of an output: a CSV loses its tail, or all of it.
Cut(w) ==
  {Partial} \cup IF w.file[2] = "csv"
                 THEN {On(w.content, {d \in Dates : d <= k}) : k \in Dates} ELSE {}

Kill ==
  /\ pc # "idle" /\ faults < MaxFaults
  /\ \/ Downloading /\ cache' = [cache EXCEPT ![Head(sources)] = Partial] /\ UNCHANGED outputs
     \/ /\ pc = "write" /\ writes # << >>
        /\ \E left \in Cut(Head(writes)) : outputs' = [outputs EXCEPT ![Head(writes).file] = left]
        /\ UNCHANGED cache
     \/ UNCHANGED <<cache, outputs>>
  /\ pc' = "idle" /\ last' = [last EXCEPT !.outcome = "killed"]
  /\ faults' = faults + 1
  /\ UNCHANGED <<net, run, stage, todo, sources, quotes, frames, writes, runs>>

\* MaxRuns bounds the number of times the script is started.
Rest == pc = "idle" /\ runs = MaxRuns /\ UNCHANGED vars

Step ==
  \/ BeginSymbol \/ DownloadOptions \/ DownloadUnderlying \/ FetchYfinance
  \/ EndStage \/ WriteNext \/ Written \/ AlignDates \/ Done
Next == Main \/ Step \/ Kill \/ Rest

\* urlopen has no timeout: a source may never answer. All other steps are taken.
Waiting == Requesting \/ pc = "yfinance"

Spec == Init /\ [][Next]_vars /\ WF_vars(Step /\ ~Waiting)

-----------------------------------------------------------------------------
(* verify_local_assets: the exit status, 1 when a cached file of the       *)
(* release is not the canonical one. Missing files are fine.               *)
CanonicalFiles == { f \in Files : f.source = "release" /\ f.symbol \in Hashed }
\* Mutation: a file that is there is taken for good.
VerifyPresence == IF \E f \in CanonicalFiles : cache[f] = Absent THEN 1 ELSE 0
VerifyLocalAssets ==
  IF \E f \in CanonicalFiles : cache[f] \notin {Absent, net[f]} THEN 1 ELSE 0
=============================================================================
