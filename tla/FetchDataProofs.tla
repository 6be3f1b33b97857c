-------------------------- MODULE FetchDataProofs ---------------------------
(***************************************************************************)
(* Theorems about the files the fetch script leaves, for every set of      *)
(* symbols, dates, sources and flags, and any number of runs, failures and *)
(* kills.                                                                  *)
(***************************************************************************)
EXTENDS FetchDataProperties, FiniteSetTheorems, SequenceTheorems, TLAPS

Names == {"stocks", "options"}
Formats == {"csv", "parquet"}

\* Every variable is in its domain.
Places == {"idle", "symbol", "options", "underlying", "yfinance", "write", "align", "end"}

\* The type invariant, with the types of what only a step in progress reads.
FetchTypes ==
  /\ net \in Nets
  /\ cache \in [Files -> {Absent, Partial} \cup SUBSET Dates]
  /\ outputs \in [Outputs -> {Absent, Partial} \cup Output]
  /\ run.allow \in BOOLEAN /\ run.range \in SUBSET Dates
  /\ pc \in Places /\ stage \in Names \cup {"none", "align"}
  /\ todo \in Seq(Symbols) /\ sources \in Seq(Files)
  /\ quotes \in [source : Sources, dates : SUBSET Dates]
  /\ frames \in SUBSET Rows
  /\ writes \in Seq([file : Outputs, content : Output])
  /\ last \in [wrote : SUBSET Names, aligned : BOOLEAN,
               outcome : {"none", "done", "died", "killed"}, read : Files \cup {Absent}]

\* A step finds what it reads: a symbol and a source, in the stage it belongs to.
PlaceInv ==
  /\ pc \in {"options", "underlying", "yfinance"} => todo # << >>
  /\ pc \in {"options", "underlying"} => sources # << >>
  /\ pc \in {"symbol", "options", "underlying", "yfinance"} => stage \in Names
  /\ pc = "options" => stage = "options"
  /\ pc = "align" => stage = "align"
  /\ pc = "write" => stage \in Names \cup {"align"}

\* A run that is under way or has ended by itself.
Alive == pc # "idle" \/ last.outcome = "done"

\* What is left to write is left only while files are written, each file once.
WritesInv ==
  /\ Alive /\ pc # "write" => writes = << >>
  /\ \A i, j \in DOMAIN writes : writes[i].file = writes[j].file => i = j

\* Rows of options that did not come from the release are in what a run collects,
\* is about to write or has written only if the run has the flag.
Pinned(content) == content.allow \/ \A r \in content.rows : r.source = "release"
PinInv ==
  /\ stage = "options" /\ ~ run.allow =>
       /\ pc # "idle" => \A r \in frames : r.source = "release"
       /\ pc = "options" => \A i \in DOMAIN sources : sources[i].source = "release"
       /\ pc \in {"underlying", "yfinance"} => quotes.source = "release"
  /\ \A i \in DOMAIN writes : writes[i].file[1] = "options" => Pinned(writes[i].content)
  /\ \A format \in Formats :
       Whole(outputs[<<"options", format>>]) => Pinned(outputs[<<"options", format>>])

\* What a file will hold when everything left to write is written.
Becomes(o, content) ==
  \/ \E i \in DOMAIN writes : writes[i].file = o /\ writes[i].content = content
  \/ outputs[o] = content /\ \A i \in DOMAIN writes : writes[i].file # o

\* The two formats of everything a run writes will be the same.
TwinsInv ==
  Alive => \A n \in last.wrote :
    \E content \in Output : \A format \in Formats : Becomes(<<n, format>>, content)

\* Once the dates are aligned, what exists will have the shared dates.
AlignInv ==
  /\ last.aligned => pc \in {"write", "end", "idle"} /\ stage = "align"
  /\ Alive /\ last.aligned =>
       \E shared \in SUBSET Dates : \A o \in Outputs :
         \/ Becomes(o, Absent)
         \/ \E content \in Output : Becomes(o, content) /\ DatesOf(content.rows) = shared

\* A run that died reading a file left it cut short.
DeathInv ==
  /\ pc # "idle" => last.read = Absent
  /\ pc = "idle" /\ last.outcome = "died" /\ last.read # Absent => cache[last.read] = Partial

\* Failures and kills are counted.
FaultsInv == faults \in Nat /\ faults <= MaxFaults

FetchInv ==
  /\ FetchTypes /\ PlaceInv /\ WritesInv /\ PinInv
  /\ TwinsInv /\ AlignInv /\ DeathInv /\ FaultsInv

-----------------------------------------------------------------------------
(* What the operators give the steps.                                      *)

LEMMA SymbolsInOrder == SetToSeq(Symbols) \in Seq(Symbols)
<1>. DEFINE F == [1..Cardinality(Symbols) -> Symbols]
<1>1. IsFiniteSet(Symbols)
  BY FetchAssumption
<1>2. Cardinality(Symbols) \in Nat /\ ExistsBijection(1..Cardinality(Symbols), Symbols)
  BY <1>1, FS_CardinalityType
<1>3. PICK f \in Bijection(1..Cardinality(Symbols), Symbols) : TRUE
  BY <1>2 DEF ExistsBijection
<1>4. f \in F /\ IsInjective(f)
  BY <1>3 DEF Bijection, Injection, IsInjective
<1>5. SetToSeq(Symbols) \in F
  BY <1>4 DEF SetToSeq
<1>. QED  BY <1>2, <1>5

LEMMA FileFacts ==
  ASSUME NEW f \in Files
  PROVE  /\ f.symbol \in Symbols
         /\ f.source \in {"release", "cdn", "hist"} /\ f.source \in Sources
  BY FetchAssumption DEF Files, File, Sources

LEMMA SourceLists ==
  ASSUME NEW s \in Symbols
  PROVE  /\ OptionsSources(s) \in Seq(Files) /\ OptionsSources(s) # << >>
         /\ ~ run.allow => \A i \in DOMAIN OptionsSources(s) :
                             OptionsSources(s)[i].source = "release"
         /\ UnderlyingSources(s) \in Seq(Files) /\ UnderlyingSources(s) # << >>
<1>1. \A src \in {"release", "cdn"}, k \in {"options", "underlying"} : File(src, k, s) \in Files
  BY DEF Files
<1>2. s \in Hist => File("hist", "underlying", s) \in Files
  BY DEF Files
<1>3. File("release", "options", s).source = "release"
  BY DEF File
<1>. DEFINE ro == File("release", "options", s)
            co == File("cdn", "options", s)
            ru == File("release", "underlying", s)
            hu == File("hist", "underlying", s)
            cu == File("cdn", "underlying", s)
<1>4. /\ ro \in Files /\ co \in Files /\ ru \in Files /\ cu \in Files
      /\ s \in Hist => hu \in Files
  BY <1>1, <1>2
<1>5. ro.source = "release"
  BY <1>3
<1>6. /\ OptionsSources(s) = IF run.allow THEN <<ro>> \o <<co>> ELSE <<ro>> \o << >>
      /\ UnderlyingSources(s) = IF s \in Hist THEN <<ru>> \o <<hu>> \o <<cu>>
                                ELSE <<ru>> \o << >> \o <<cu>>
  BY DEF OptionsSources, UnderlyingSources
<1>. HIDE DEF ro, co, ru, hu, cu
<1>7. /\ <<ro>> \in Seq(Files) /\ <<co>> \in Seq(Files) /\ << >> \in Seq(Files)
      /\ <<ru>> \in Seq(Files) /\ <<cu>> \in Seq(Files)
      /\ s \in Hist => <<hu>> \in Seq(Files)
      /\ Len(<<ro>>) = 1 /\ Len(<<co>>) = 1 /\ Len(<<ru>>) = 1 /\ Len(<<cu>>) = 1
      /\ Len(<<hu>>) = 1 /\ Len(<< >>) = 0
  BY <1>4
<1>8. OptionsSources(s) \in Seq(Files) /\ Len(OptionsSources(s)) > 0
  <2>1. CASE run.allow
    <3>1. <<ro>> \o <<co>> \in Seq(Files) /\ Len(<<ro>> \o <<co>>) = 2
      BY <1>7, ConcatProperties
    <3>. QED  BY <1>6, <2>1, <3>1
  <2>2. CASE ~ run.allow
    <3>1. <<ro>> \o << >> \in Seq(Files) /\ Len(<<ro>> \o << >>) = 1
      BY <1>7, ConcatProperties
    <3>. QED  BY <1>6, <2>2, <3>1
  <2>. QED  BY <2>1, <2>2
<1>9. ASSUME ~ run.allow, NEW i \in DOMAIN OptionsSources(s)
      PROVE  OptionsSources(s)[i].source = "release"
  <2>1. OptionsSources(s) = <<ro>> \o << >>
    BY <1>6, <1>9
  <2>2. <<ro>> \o << >> = <<ro>>
    BY <1>7, ConcatEmptySeq
  <2>3. i = 1
    BY <1>9, <2>1, <2>2
  <2>. QED  BY <1>5, <2>1, <2>2, <2>3
<1>10. UnderlyingSources(s) \in Seq(Files) /\ Len(UnderlyingSources(s)) > 0
  <2>. DEFINE middle == IF s \in Hist THEN <<hu>> ELSE << >>
  <2>1. middle \in Seq(Files) /\ Len(middle) \in Nat
    BY <1>7
  <2>2. UnderlyingSources(s) = (<<ru>> \o middle) \o <<cu>>
    BY <1>6
  <2>. HIDE DEF middle
  <2>3. <<ru>> \o middle \in Seq(Files) /\ Len(<<ru>> \o middle) = 1 + Len(middle)
    BY <1>7, <2>1, ConcatProperties
  <2>4. (<<ru>> \o middle) \o <<cu>> \in Seq(Files)
        /\ Len((<<ru>> \o middle) \o <<cu>>) = 1 + Len(middle) + 1
    <3>. DEFINE front == <<ru>> \o middle
    <3>. HIDE DEF front
    <3>1. front \in Seq(Files) /\ Len(front) = 1 + Len(middle)
      BY <2>3 DEF front
    <3>2. front \o <<cu>> \in Seq(Files) /\ Len(front \o <<cu>>) = Len(front) + Len(<<cu>>)
      BY <1>7, <3>1, ConcatProperties
    <3>. QED  BY <3>1, <3>2 DEF front
  <2>. QED  BY <2>1, <2>2, <2>4
<1>. QED  BY <1>8, <1>9, <1>10

LEMMA DownloadFacts ==
  ASSUME FetchTypes, NEW f \in Files, NEW d \in Downloads(f)
  PROVE  /\ d.file \in {Absent, Partial} \cup SUBSET Dates
         /\ d.got => d.file # Absent /\ (d.file # Partial => d.file \in SUBSET Dates)
<1>1. cache[f] \in {Absent, Partial} \cup SUBSET Dates
  BY DEF FetchTypes
<1>2. net[f] \in {Absent} \cup SUBSET Dates
  BY FileAssumption DEF FetchTypes
<1>3. \A days \in SUBSET Dates : days # Absent /\ days # Partial
  BY FileAssumption
<1>4. Absent # Partial
  BY FileAssumption
<1>5. CASE cache[f] # Absent /\ ~ run.force
  <2>1. d.file = cache[f]
    BY <1>5 DEF Downloads
  <2>. QED  BY <1>1, <1>4, <1>5, <2>1
<1>6. CASE ~ (cache[f] # Absent /\ ~ run.force)
  <2>1. \/ net[f] # Absent /\ d.file = net[f]
        \/ d.file = Absent /\ d.got = FALSE
    BY <1>6 DEF Downloads
  <2>. QED  BY <1>2, <1>3, <1>4, <2>1
<1>. QED  BY <1>5, <1>6

\* Cutting dates out of an output leaves an output, and its rows in their place.
LEMMA OnFacts ==
  ASSUME NEW content \in Output, NEW D
  PROVE  /\ On(content, D) \in Output
         /\ On(content, D).rows = {r \in content.rows : r.date \in D}
         /\ On(content, D).allow = content.allow
         /\ Pinned(content) => Pinned(On(content, D))
  BY DEF On, Output, Pinned

\* An output is neither missing nor cut short.
LEMMA OutputIsWhole ==
  ASSUME NEW content \in Output
  PROVE  content # Absent /\ content # Partial /\ Whole(content)
  BY FileAssumption DEF Whole

LEMMA FrameFacts ==
  ASSUME FetchTypes, NEW s \in Symbols, NEW source \in Sources, NEW prices \in SUBSET Dates
  PROVE  /\ Frame(s, source, prices) \in SUBSET Rows
         /\ stage = "options" => \A r \in Frame(s, source, prices) : r.source = quotes.source
<1>1. quotes.source \in Sources /\ quotes.dates \in SUBSET Dates /\ "none" \in Sources
  BY DEF FetchTypes, Sources
<1>2. ASSUME NEW d \in Dates, NEW a \in Sources, NEW b \in Sources
      PROVE  Row(s, d, a, b) \in Rows /\ Row(s, d, a, b).source = a
  BY DEF Row, Rows
<1>. QED  BY <1>1, <1>2 DEF Frame

-----------------------------------------------------------------------------
(* Types and places, step by step.                                         *)

LEMMA InitTypes == Init => FetchTypes /\ PlaceInv
<1>. SUFFICES ASSUME Init PROVE FetchTypes /\ PlaceInv
  OBVIOUS
<1>1. quotes \in [source : Sources, dates : SUBSET Dates]
  BY DEF Init, NoQuotes, Sources
<1>2. last \in [wrote : SUBSET Names, aligned : BOOLEAN,
                outcome : {"none", "done", "died", "killed"}, read : Files \cup {Absent}]
  BY DEF Init, Idle
<1>3. /\ cache \in [Files -> {Absent, Partial} \cup SUBSET Dates]
      /\ outputs \in [Outputs -> {Absent, Partial} \cup Output]
  BY DEF Init
<1>. QED  BY <1>1, <1>2, <1>3 DEF Init, FetchTypes, PlaceInv, Places, Names

\* The next stage starts at a symbol, or at the alignment.
LEMMA EnterStageFacts ==
  ASSUME NEW c, NEW s, EnterStage(StageAfter(c, s))
  PROVE  /\ stage' \in Names \cup {"align"} /\ todo' \in Seq(Symbols)
         /\ pc' \in {"symbol", "align"}
         /\ pc' = "symbol" => stage' \in Names
         /\ pc' = "align" => stage' = "align"
<1>1. StageAfter(c, s) \in Names \cup {"align"}
  BY DEF StageAfter, Names
<1>2. << >> \in Seq(Symbols)
  OBVIOUS
<1>. QED  BY <1>1, <1>2, SymbolsInOrder DEF EnterStage, Names

LEMMA NoQuotesType == NoQuotes \in [source : Sources, dates : SUBSET Dates]
  BY DEF NoQuotes, Sources

LEMMA MainTypes ==
  ASSUME FetchTypes, Main PROVE FetchTypes' /\ PlaceInv'
<1>1. PICK c \in Commands, f \in Flags, p \in Periods :
        /\ run' = [command |-> c, force |-> f.force, allow |-> f.allow,
                   range |-> {d \in Dates : p.start <= d /\ d <= p.end}, end |-> p.end]
        /\ EnterStage(StageAfter(c, "none"))
  BY DEF Main
<1>2. run'.allow \in BOOLEAN /\ run'.range \in SUBSET Dates
  BY <1>1, FetchAssumption
<1>3. Idle \in [wrote : SUBSET Names, aligned : BOOLEAN,
                outcome : {"none", "done", "died", "killed"}, read : Files \cup {Absent}]
  BY DEF Idle
<1>4. /\ last' = Idle /\ sources' = << >> /\ quotes' = NoQuotes /\ frames' = {}
      /\ writes' = << >> /\ UNCHANGED <<net, cache, outputs>>
  BY DEF Main
<1>5. FetchTypes'
  BY <1>1, <1>2, <1>3, <1>4, EnterStageFacts, NoQuotesType DEF FetchTypes, Places
<1>6. PlaceInv'
  BY <1>1, EnterStageFacts DEF PlaceInv
<1>. QED  BY <1>5, <1>6

\* The head of a list that is not empty, and what is left of it.
LEMMA HeadFacts ==
  ASSUME NEW S, NEW q \in Seq(S), q # << >>
  PROVE  /\ Head(q) \in S /\ Head(q) = q[1] /\ Tail(q) \in Seq(S) /\ 1 \in DOMAIN q
         /\ DOMAIN q = 1..Len(q) /\ Len(q) \in Nat \ {0}
         /\ DOMAIN Tail(q) = 1..(Len(q) - 1)
         /\ \A i \in DOMAIN Tail(q) : i + 1 \in DOMAIN q /\ Tail(q)[i] = q[i + 1]
  BY HeadTailProperties

LEMMA BeginSymbolTypes ==
  ASSUME FetchTypes, PlaceInv, BeginSymbol PROVE FetchTypes' /\ PlaceInv'
<1>1. Head(todo) \in Symbols
  BY HeadFacts DEF FetchTypes, BeginSymbol
<1>2. /\ pc = "symbol" /\ todo # << >> /\ stage \in Names
      /\ \/ stage = "options" /\ pc' = "options" /\ sources' = OptionsSources(Head(todo))
         \/ pc' = "underlying" /\ sources' = UnderlyingSources(Head(todo))
      /\ UNCHANGED <<net, cache, outputs, run, stage, todo, quotes, frames, writes, last>>
  BY DEF BeginSymbol, PlaceInv
<1>3. sources' \in Seq(Files) /\ sources' # << >>
  BY <1>1, <1>2, SourceLists
<1>4. FetchTypes'
  BY <1>2, <1>3 DEF FetchTypes, Places
<1>5. PlaceInv'
  BY <1>2, <1>3 DEF PlaceInv
<1>. QED  BY <1>4, <1>5

LEMMA DieTypes ==
  ASSUME FetchTypes, NEW f \in Files, Die(f), cache' \in [Files -> {Absent, Partial} \cup SUBSET Dates],
         UNCHANGED <<net, outputs, run, stage, writes>>
  PROVE  FetchTypes' /\ PlaceInv'
<1>1. last' \in [wrote : SUBSET Names, aligned : BOOLEAN,
                 outcome : {"none", "done", "died", "killed"}, read : Files \cup {Absent}]
  BY DEF FetchTypes, Die
<1>2. pc' = "idle" /\ UNCHANGED <<todo, sources, quotes, frames>>
  BY DEF Die
<1>. QED  BY <1>1, <1>2 DEF FetchTypes, PlaceInv, Places

LEMMA SkipSymbolTypes ==
  ASSUME FetchTypes, todo # << >>, stage \in Names, SkipSymbol,
         cache' \in [Files -> {Absent, Partial} \cup SUBSET Dates],
         UNCHANGED <<net, outputs, run, stage, writes>>
  PROVE  FetchTypes' /\ PlaceInv'
<1>1. Tail(todo) \in Seq(Symbols)
  BY HeadFacts DEF FetchTypes
<1>2. /\ pc' = "symbol" /\ todo' = Tail(todo) /\ sources' = << >> /\ quotes' = NoQuotes
      /\ UNCHANGED <<frames, last>>
  BY DEF SkipSymbol
<1>. QED  BY <1>1, <1>2, NoQuotesType DEF FetchTypes, PlaceInv, Places

LEMMA AddFrameTypes ==
  ASSUME FetchTypes, todo # << >>, stage \in Names,
         NEW source \in Sources, NEW prices \in SUBSET Dates, AddFrame(source, prices),
         cache' \in [Files -> {Absent, Partial} \cup SUBSET Dates],
         UNCHANGED <<net, outputs, run, stage, writes>>
  PROVE  FetchTypes' /\ PlaceInv'
<1>1. Tail(todo) \in Seq(Symbols) /\ Head(todo) \in Symbols
  BY HeadFacts DEF FetchTypes
<1>2. /\ pc' = "symbol" /\ todo' = Tail(todo) /\ sources' = << >> /\ quotes' = NoQuotes
      /\ frames' = frames \cup Frame(Head(todo), source, prices) /\ last' = last
  BY DEF AddFrame
<1>3. frames' \in SUBSET Rows
  BY <1>1, <1>2, FrameFacts DEF FetchTypes
<1>. QED  BY <1>1, <1>2, <1>3, NoQuotesType DEF FetchTypes, PlaceInv, Places

LEMMA DownloadOptionsTypes ==
  ASSUME FetchTypes, PlaceInv, DownloadOptions PROVE FetchTypes' /\ PlaceInv'
<1>. DEFINE f == Head(sources)
<1>1. /\ pc = "options" /\ stage = "options" /\ stage \in Names
      /\ todo # << >> /\ sources # << >>
      /\ UNCHANGED <<net, outputs, run, stage, writes>>
  BY DEF DownloadOptions, PlaceInv, Names
<1>2. f \in Files /\ Tail(sources) \in Seq(Files) /\ Len(sources) \in Nat \ {0}
        /\ Len(Tail(sources)) = Len(sources) - 1
  BY <1>1, HeadFacts, HeadTailProperties DEF FetchTypes
<1>3. PICK d \in Downloads(f) :
        /\ cache' = [cache EXCEPT ![f] = d.file]
        /\ \/ ~d.got /\ Len(sources) > 1
                /\ sources' = Tail(sources) /\ UNCHANGED <<pc, todo, quotes, frames, last>>
           \/ SkipSymbol
           \/ Die(f)
           \/ /\ d.got /\ d.file # Partial
              /\ quotes' = [source |-> f.source, dates |-> d.file \cap run.range]
              /\ pc' = "underlying" /\ sources' = UnderlyingSources(f.symbol)
              /\ UNCHANGED <<todo, frames, last>>
  <2>1. Len(sources) > 1 \/ Len(sources) = 1
    BY <1>2
  <2>. QED  BY <1>1, <2>1 DEF DownloadOptions
<1>4. cache' \in [Files -> {Absent, Partial} \cup SUBSET Dates]
  BY <1>2, <1>3, DownloadFacts DEF FetchTypes
<1>5. CASE Len(sources) > 1 /\ sources' = Tail(sources) /\ UNCHANGED <<pc, todo, quotes, frames, last>>
  <2>1. sources' # << >>
    <3>1. Len(sources') > 0
      BY <1>2, <1>5
    <3>. QED  BY <3>1
  <2>. QED  BY <1>1, <1>2, <1>4, <1>5, <2>1 DEF FetchTypes, PlaceInv
<1>6. CASE SkipSymbol
  BY <1>1, <1>4, <1>6, SkipSymbolTypes
<1>7. CASE Die(f)
  BY <1>1, <1>2, <1>4, <1>7, DieTypes
<1>8. CASE /\ d.got /\ d.file # Partial
           /\ quotes' = [source |-> f.source, dates |-> d.file \cap run.range]
           /\ pc' = "underlying" /\ sources' = UnderlyingSources(f.symbol)
           /\ UNCHANGED <<todo, frames, last>>
  <2>1. f.source \in Sources /\ f.symbol \in Symbols
    BY <1>2, FileFacts
  <2>2. d.file \in SUBSET Dates
    BY <1>2, <1>8, DownloadFacts
  <2>3. quotes' \in [source : Sources, dates : SUBSET Dates]
    BY <1>8, <2>1, <2>2
  <2>4. sources' \in Seq(Files) /\ sources' # << >>
    BY <1>8, <2>1, SourceLists
  <2>. QED  BY <1>1, <1>4, <1>8, <2>3, <2>4 DEF FetchTypes, PlaceInv, Places
<1>. QED  BY <1>3, <1>5, <1>6, <1>7, <1>8

LEMMA DownloadUnderlyingTypes ==
  ASSUME FetchTypes, PlaceInv, DownloadUnderlying PROVE FetchTypes' /\ PlaceInv'
<1>. DEFINE f == Head(sources)
<1>1. /\ pc = "underlying" /\ stage \in Names
      /\ todo # << >> /\ sources # << >>
      /\ UNCHANGED <<net, outputs, run, stage, writes>>
  BY DEF DownloadUnderlying, PlaceInv
<1>2. f \in Files /\ Tail(sources) \in Seq(Files)
  BY <1>1, HeadFacts DEF FetchTypes
<1>3. PICK d \in Downloads(f) :
        /\ cache' = [cache EXCEPT ![f] = d.file]
        /\ \/ TryNext
           \/ Die(f)
           \/ pc' = "yfinance" /\ sources' = << >> /\ UNCHANGED <<todo, quotes, frames, last>>
           \/ d.got /\ d.file # Partial /\ AddFrame(f.source, d.file \cap run.range)
  BY <1>1 DEF DownloadUnderlying
<1>4. cache' \in [Files -> {Absent, Partial} \cup SUBSET Dates]
  BY <1>2, <1>3, DownloadFacts DEF FetchTypes
<1>5. CASE TryNext
  <2>1. /\ sources' = Tail(sources) /\ UNCHANGED <<todo, quotes, frames, last>>
        /\ pc' \in {"yfinance", "underlying"} /\ (pc' = "underlying" => sources' # << >>)
    BY <1>5 DEF TryNext
  <2>. QED  BY <1>1, <1>2, <1>4, <2>1 DEF FetchTypes, PlaceInv, Places
<1>6. CASE Die(f)
  BY <1>1, <1>2, <1>4, <1>6, DieTypes
<1>7. CASE pc' = "yfinance" /\ sources' = << >> /\ UNCHANGED <<todo, quotes, frames, last>>
  BY <1>1, <1>4, <1>7 DEF FetchTypes, PlaceInv, Places
<1>8. CASE d.got /\ d.file # Partial /\ AddFrame(f.source, d.file \cap run.range)
  <2>1. f.source \in Sources /\ d.file \cap run.range \in SUBSET Dates
    BY <1>2, <1>8, FileFacts, DownloadFacts
  <2>. QED  BY <1>1, <1>4, <1>8, <2>1, AddFrameTypes
<1>. QED  BY <1>3, <1>5, <1>6, <1>7, <1>8

LEMMA FetchYfinanceTypes ==
  ASSUME FetchTypes, PlaceInv, FetchYfinance PROVE FetchTypes' /\ PlaceInv'
<1>1. /\ todo # << >> /\ stage \in Names /\ UNCHANGED <<net, cache, outputs, run, stage, writes>>
  BY DEF FetchYfinance, PlaceInv
<1>2. PICK prices \in SUBSET {d \in run.range : d < run.end} : AddFrame("yfinance", prices)
  BY DEF FetchYfinance
<1>3. prices \in SUBSET Dates /\ "yfinance" \in Sources
  BY DEF FetchTypes, Sources
<1>4. cache' \in [Files -> {Absent, Partial} \cup SUBSET Dates]
  BY <1>1 DEF FetchTypes
<1>. QED  BY <1>1, <1>2, <1>3, <1>4, AddFrameTypes

\* The files a stage writes: a CSV and a parquet with one content.
LEMMA WriteFacts ==
  ASSUME FetchTypes, NEW n \in Names, NEW format \in Formats, NEW rows \in SUBSET Rows
  PROVE  /\ Write(<<n, format>>, rows) \in [file : Outputs, content : Output]
         /\ Write(<<n, format>>, rows).file = <<n, format>>
         /\ Write(<<n, format>>, rows).content = [rows |-> rows, allow |-> run.allow]
         /\ [rows |-> rows, allow |-> run.allow] \in Output
  BY DEF FetchTypes, Write, Outputs, Output, Names, Formats

LEMMA EndStageTypes ==
  ASSUME FetchTypes, PlaceInv, EndStage PROVE FetchTypes' /\ PlaceInv'
<1>1. /\ stage \in Names /\ frames' = {}
      /\ UNCHANGED <<net, cache, outputs, run, sources, quotes>>
  BY DEF EndStage, PlaceInv
<1>2. CASE frames = {}
  <2>1. EnterStage(StageAfter(run.command, stage)) /\ UNCHANGED <<writes, last>>
    BY <1>2 DEF EndStage
  <2>2. FetchTypes'
    BY <1>1, <2>1, EnterStageFacts DEF FetchTypes, Places
  <2>3. PlaceInv'
    BY <2>1, EnterStageFacts DEF PlaceInv
  <2>. QED  BY <2>2, <2>3
<1>3. CASE frames # {}
  <2>. DEFINE a == Write(<<stage, "csv">>, frames)
              b == Write(<<stage, "parquet">>, frames)
  <2>1. /\ writes' = <<a, b>> /\ pc' = "write" /\ UNCHANGED <<stage, todo>>
        /\ last' = [last EXCEPT !.wrote = @ \cup {stage}]
    BY <1>3 DEF EndStage
  <2>2. a \in [file : Outputs, content : Output] /\ b \in [file : Outputs, content : Output]
    BY <1>1, WriteFacts DEF FetchTypes, Formats
  <2>. HIDE DEF a, b
  <2>3. writes' \in Seq([file : Outputs, content : Output])
    BY <2>1, <2>2
  <2>4. last' \in [wrote : SUBSET Names, aligned : BOOLEAN,
                   outcome : {"none", "done", "died", "killed"}, read : Files \cup {Absent}]
    BY <1>1, <2>1 DEF FetchTypes
  <2>. QED  BY <1>1, <2>1, <2>3, <2>4 DEF FetchTypes, PlaceInv, Places
<1>. QED  BY <1>2, <1>3

LEMMA WriteNextTypes ==
  ASSUME FetchTypes, PlaceInv, WriteNext PROVE FetchTypes' /\ PlaceInv'
<1>1. /\ pc = "write" /\ writes # << >> /\ writes' = Tail(writes)
      /\ outputs' = [outputs EXCEPT ![Head(writes).file] = Head(writes).content]
      /\ UNCHANGED <<net, cache, run, pc, stage, todo, sources, quotes, frames, last>>
  BY DEF WriteNext
<1>2. Head(writes) \in [file : Outputs, content : Output]
        /\ Tail(writes) \in Seq([file : Outputs, content : Output])
  BY <1>1, HeadFacts DEF FetchTypes
<1>3. outputs' \in [Outputs -> {Absent, Partial} \cup Output]
  BY <1>1, <1>2 DEF FetchTypes
<1>. QED  BY <1>1, <1>2, <1>3 DEF FetchTypes, PlaceInv

LEMMA WrittenTypes ==
  ASSUME FetchTypes, PlaceInv, Written PROVE FetchTypes' /\ PlaceInv'
<1>1. UNCHANGED <<net, cache, outputs, run, sources, quotes, frames, writes, last>>
  BY DEF Written
<1>2. CASE stage = "align"
  <2>1. pc' = "end" /\ UNCHANGED <<stage, todo>>
    BY <1>2 DEF Written
  <2>. QED  BY <1>1, <2>1 DEF FetchTypes, PlaceInv, Places
<1>3. CASE stage # "align"
  <2>1. EnterStage(StageAfter(run.command, stage))
    BY <1>3 DEF Written
  <2>2. FetchTypes'
    BY <1>1, <2>1, EnterStageFacts DEF FetchTypes, Places
  <2>3. PlaceInv'
    BY <2>1, EnterStageFacts DEF PlaceInv
  <2>. QED  BY <2>2, <2>3
<1>. QED  BY <1>2, <1>3

\* A list with one more entry, written out.
LEMMA Longer ==
  ASSUME NEW S, NEW a \in S, NEW b \in S, NEW c \in S
  PROVE  <<a, b>> \o <<c>> = <<a, b, c>>
<1>. DEFINE s == <<a, b>>
            t == <<c>>
            u == <<a, b, c>>
<1>1. s \in Seq(S) /\ t \in Seq(S) /\ u \in Seq(S) /\ Len(s) = 2 /\ Len(t) = 1 /\ Len(u) = 3
  OBVIOUS
<1>2. s[1] = a /\ s[2] = b /\ t[1] = c /\ u[1] = a /\ u[2] = b /\ u[3] = c
  OBVIOUS
<1>. HIDE DEF s, t, u
<1>3. /\ s \o t \in Seq(S) /\ Len(s \o t) = Len(s) + Len(t)
      /\ \A i \in 1..(Len(s) + Len(t)) :
           (s \o t)[i] = IF i <= Len(s) THEN s[i] ELSE t[i - Len(s)]
  BY <1>1, ConcatProperties
<1>4. \A i \in 1..3 : (s \o t)[i] = u[i]
  BY <1>1, <1>2, <1>3
<1>5. s \o t = u
  BY <1>1, <1>3, <1>4, SeqEqual
<1>. QED  BY <1>5 DEF s, t, u

LEMMA LongerYet ==
  ASSUME NEW S, NEW a \in S, NEW b \in S, NEW c \in S, NEW d \in S
  PROVE  <<a, b, c>> \o <<d>> = <<a, b, c, d>>
<1>. DEFINE s == <<a, b, c>>
            t == <<d>>
            u == <<a, b, c, d>>
<1>1. s \in Seq(S) /\ t \in Seq(S) /\ u \in Seq(S) /\ Len(s) = 3 /\ Len(t) = 1 /\ Len(u) = 4
  OBVIOUS
<1>2. /\ s[1] = a /\ s[2] = b /\ s[3] = c /\ t[1] = d
      /\ u[1] = a /\ u[2] = b /\ u[3] = c /\ u[4] = d
  OBVIOUS
<1>. HIDE DEF s, t, u
<1>3. /\ s \o t \in Seq(S) /\ Len(s \o t) = Len(s) + Len(t)
      /\ \A i \in 1..(Len(s) + Len(t)) :
           (s \o t)[i] = IF i <= Len(s) THEN s[i] ELSE t[i - Len(s)]
  BY <1>1, ConcatProperties
<1>4. \A i \in 1..4 : (s \o t)[i] = u[i]
  BY <1>1, <1>2, <1>3
<1>5. s \o t = u
  <2>1. Len(s \o t) = 4 /\ Len(u) = 4
    BY <1>1, <1>3
  <2>. QED  BY <1>1, <1>3, <1>4, <2>1, SeqEqual
<1>. QED  BY <1>5 DEF s, t, u

\* What the alignment rewrites: the CSVs, which are whole, and every twin there is.
LEMMA AlignFacts ==
  ASSUME FetchTypes, AlignDates, pc' = "write"
  PROVE  \E shared \in SUBSET Dates :
           LET a == Aligned("stocks", "csv", shared)
               b == Aligned("options", "csv", shared)
               c == Aligned("stocks", "parquet", shared)
               d == Aligned("options", "parquet", shared)
               A == outputs[<<"stocks", "parquet">>]
               B == outputs[<<"options", "parquet">>]
           IN  /\ shared = DatesOf(Stocks.rows) \cap DatesOf(Options.rows)
               /\ Stocks \in Output /\ Options \in Output
               /\ {a, b, c, d} \subseteq [file : Outputs, content : Output]
               /\ writes' = IF A = Absent /\ B = Absent THEN <<a, b>>
                            ELSE IF A = Absent THEN <<a, b, d>>
                            ELSE IF B = Absent THEN <<a, b, c>>
                            ELSE <<a, b, c, d>>
               /\ last' = [last EXCEPT !.aligned = TRUE]
<1>. DEFINE shared == DatesOf(Stocks.rows) \cap DatesOf(Options.rows)
<1>1. Stocks \notin {Absent, Partial} /\ Options \notin {Absent, Partial}
      /\ writes' = AlignedWrites(shared) /\ last' = [last EXCEPT !.aligned = TRUE]
  BY DEF AlignDates
<1>2. Stocks \in Output /\ Options \in Output
  BY <1>1 DEF FetchTypes, Stocks, Options, Outputs
<1>3. shared \in SUBSET Dates
  BY <1>2 DEF DatesOf, Output, Rows
<1>. HIDE DEF shared
<1>. DEFINE W == [file : Outputs, content : Output]
            a == Aligned("stocks", "csv", shared)
            b == Aligned("options", "csv", shared)
            c == Aligned("stocks", "parquet", shared)
            d == Aligned("options", "parquet", shared)
            A == outputs[<<"stocks", "parquet">>]
            B == outputs[<<"options", "parquet">>]
<1>4. On(Stocks, shared) \in Output /\ On(Options, shared) \in Output
  BY <1>2, OnFacts
<1>5. a \in W /\ b \in W /\ c \in W /\ d \in W
  BY <1>4 DEF Aligned, Outputs, Stocks, Options
<1>6. writes' = (<<a, b>> \o AlignedTwin("stocks", shared)) \o AlignedTwin("options", shared)
  BY <1>1 DEF AlignedWrites
<1>7. /\ AlignedTwin("stocks", shared) = IF A = Absent THEN << >> ELSE <<c>>
      /\ AlignedTwin("options", shared) = IF B = Absent THEN << >> ELSE <<d>>
  BY DEF AlignedTwin
<1>. HIDE DEF a, b, c, d, W, A, B
<1>8. <<a, b>> \in Seq(W) /\ <<c>> \in Seq(W) /\ <<d>> \in Seq(W) /\ << >> \in Seq(W)
      /\ <<a, b, c>> \in Seq(W)
  BY <1>5
<1>9. <<a, b>> \o << >> = <<a, b>> /\ <<a, b>> \o <<c>> = <<a, b, c>>
  <2>1. <<a, b>> \o << >> = <<a, b>>
    BY <1>8, ConcatEmptySeq
  <2>2. <<a, b>> \o <<c>> = <<a, b, c>>
    BY <1>5, Longer
  <2>. QED  BY <2>1, <2>2
<1>10. /\ <<a, b>> \o << >> = <<a, b>> /\ <<a, b>> \o <<d>> = <<a, b, d>>
       /\ <<a, b, c>> \o << >> = <<a, b, c>> /\ <<a, b, c>> \o <<d>> = <<a, b, c, d>>
  <2>1. <<a, b>> \o << >> = <<a, b>> /\ <<a, b, c>> \o << >> = <<a, b, c>>
    BY <1>8, ConcatEmptySeq
  <2>2. <<a, b>> \o <<d>> = <<a, b, d>>
    BY <1>5, Longer
  <2>3. <<a, b, c>> \o <<d>> = <<a, b, c, d>>
    BY <1>5, LongerYet
  <2>. QED  BY <2>1, <2>2, <2>3
<1>11. writes' = IF A = Absent /\ B = Absent THEN <<a, b>>
                 ELSE IF A = Absent THEN <<a, b, d>>
                 ELSE IF B = Absent THEN <<a, b, c>>
                 ELSE <<a, b, c, d>>
  BY <1>6, <1>7, <1>9, <1>10
<1>12. {a, b, c, d} \subseteq W
  BY <1>5
<1>. WITNESS shared \in SUBSET Dates
<1>. QED  BY <1>1, <1>2, <1>11, <1>12, Zenon DEF shared, a, b, c, d, A, B, W

LEMMA AlignDatesTypes ==
  ASSUME FetchTypes, PlaceInv, AlignDates PROVE FetchTypes' /\ PlaceInv'
<1>. DEFINE W == [file : Outputs, content : Output]
            L == [wrote : SUBSET Names, aligned : BOOLEAN,
                  outcome : {"none", "done", "died", "killed"}, read : Files \cup {Absent}]
<1>1. /\ pc = "align" /\ stage = "align"
      /\ UNCHANGED <<net, cache, outputs, run, stage, todo, sources, quotes, frames>>
  BY DEF AlignDates, PlaceInv
<1>2. \/ pc' = "end" /\ UNCHANGED <<writes, last>>
      \/ pc' = "idle" /\ last' = [last EXCEPT !.outcome = "died"] /\ UNCHANGED writes
      \/ pc' = "write"
  BY DEF AlignDates
<1>3. writes \in Seq(W) /\ last \in L
  BY DEF FetchTypes
<1>4. writes' \in Seq(W) /\ last' \in L /\ pc' \in {"end", "idle", "write"}
  <2>1. CASE pc' = "end" /\ UNCHANGED <<writes, last>>
    BY <1>3, <2>1
  <2>2. CASE pc' = "idle" /\ last' = [last EXCEPT !.outcome = "died"] /\ UNCHANGED writes
    BY <1>3, <2>2
  <2>3. CASE pc' = "write"
    <3>1. PICK a \in W, b \in W, c \in W, d \in W :
            /\ writes' \in {<<a, b>>, <<a, b, d>>, <<a, b, c>>, <<a, b, c, d>>}
            /\ last' = [last EXCEPT !.aligned = TRUE]
      BY <2>3, AlignFacts
    <3>. HIDE DEF W
    <3>2. /\ <<a, b>> \in Seq(W) /\ <<a, b, d>> \in Seq(W)
          /\ <<a, b, c>> \in Seq(W) /\ <<a, b, c, d>> \in Seq(W)
      OBVIOUS
    <3>3. writes' \in Seq(W)
      BY <3>1, <3>2, Zenon
    <3>. QED  BY <1>3, <2>3, <3>1, <3>3
  <2>. QED  BY <1>2, <2>1, <2>2, <2>3
<1>5. FetchTypes'
  BY <1>1, <1>4 DEF FetchTypes, Places
<1>6. PlaceInv'
  BY <1>1, <1>4 DEF PlaceInv
<1>. QED  BY <1>5, <1>6

LEMMA DoneTypes ==
  ASSUME FetchTypes, PlaceInv, Done PROVE FetchTypes' /\ PlaceInv'
<1>1. /\ pc' = "idle" /\ last' = [last EXCEPT !.outcome = "done"]
      /\ UNCHANGED <<net, cache, outputs, run, stage, todo, sources, quotes, frames, writes>>
  BY DEF Done
<1>2. last' \in [wrote : SUBSET Names, aligned : BOOLEAN,
                 outcome : {"none", "done", "died", "killed"}, read : Files \cup {Absent}]
  BY <1>1 DEF FetchTypes
<1>. QED  BY <1>1, <1>2 DEF FetchTypes, PlaceInv, Places

\* A kill cuts at most the file that was being downloaded or written.
LEMMA KillFacts ==
  ASSUME FetchTypes, PlaceInv, Kill
  PROVE  /\ pc' = "idle" /\ last' = [last EXCEPT !.outcome = "killed"]
         /\ UNCHANGED <<net, run, stage, todo, sources, quotes, frames, writes>>
         /\ \/ UNCHANGED cache
            \/ \E f \in Files : cache' = [cache EXCEPT ![f] = Partial]
         /\ \/ UNCHANGED outputs
            \/ \E i \in DOMAIN writes, left \in {Partial} \cup Output :
                 /\ outputs' = [outputs EXCEPT ![writes[i].file] = left]
                 /\ left = Partial \/ (Pinned(writes[i].content) => Pinned(left))
<1>1. \/ /\ Downloading /\ cache' = [cache EXCEPT ![Head(sources)] = Partial]
         /\ UNCHANGED outputs
      \/ /\ pc = "write" /\ writes # << >>
         /\ \E left \in Cut(Head(writes)) : outputs' = [outputs EXCEPT ![Head(writes).file] = left]
         /\ UNCHANGED cache
      \/ UNCHANGED <<cache, outputs>>
  BY DEF Kill
<1>2. /\ pc' = "idle" /\ last' = [last EXCEPT !.outcome = "killed"]
      /\ UNCHANGED <<net, run, stage, todo, sources, quotes, frames, writes>>
  BY DEF Kill
<1>3. CASE Downloading /\ cache' = [cache EXCEPT ![Head(sources)] = Partial] /\ UNCHANGED outputs
  <2>1. sources # << >>
    BY <1>3 DEF Downloading, Requesting, PlaceInv
  <2>2. Head(sources) \in Files
    BY <2>1, HeadFacts DEF FetchTypes
  <2>. QED  BY <1>2, <1>3, <2>2
<1>4. CASE /\ pc = "write" /\ writes # << >>
           /\ \E left \in Cut(Head(writes)) : outputs' = [outputs EXCEPT ![Head(writes).file] = left]
           /\ UNCHANGED cache
  <2>1. PICK left \in Cut(Head(writes)) : outputs' = [outputs EXCEPT ![Head(writes).file] = left]
    BY <1>4
  <2>2. /\ Head(writes) \in [file : Outputs, content : Output]
        /\ Head(writes) = writes[1] /\ 1 \in DOMAIN writes
    BY <1>4, HeadFacts DEF FetchTypes
  <2>3. Head(writes).content \in Output
    BY <2>2
  <2>4. left = Partial \/ \E k \in Dates : left = On(Head(writes).content, {d \in Dates : d <= k})
    BY <2>1 DEF Cut
  <2>5. left = Partial \/ (left \in Output /\ (Pinned(Head(writes).content) => Pinned(left)))
    <3>1. CASE left = Partial
      BY <3>1
    <3>2. CASE \E k \in Dates : left = On(Head(writes).content, {d \in Dates : d <= k})
      <4>1. PICK k \in Dates : left = On(Head(writes).content, {d \in Dates : d <= k})
        BY <3>2
      <4>. QED  BY <2>3, <4>1, OnFacts
    <3>. QED  BY <2>4, <3>1, <3>2
  <2>6. /\ outputs' = [outputs EXCEPT ![writes[1].file] = left]
        /\ left = Partial \/ (Pinned(writes[1].content) => Pinned(left))
        /\ left \in {Partial} \cup Output
    BY <2>1, <2>2, <2>5
  <2>. QED  BY <1>2, <1>4, <2>2, <2>6, Zenon
<1>5. CASE UNCHANGED <<cache, outputs>>
  BY <1>2, <1>5
<1>. QED  BY <1>1, <1>3, <1>4, <1>5

LEMMA KillTypes ==
  ASSUME FetchTypes, PlaceInv, Kill PROVE FetchTypes' /\ PlaceInv'
<1>1. /\ pc' = "idle" /\ last' = [last EXCEPT !.outcome = "killed"]
      /\ UNCHANGED <<net, run, stage, todo, sources, quotes, frames, writes>>
  BY KillFacts
<1>2. cache' \in [Files -> {Absent, Partial} \cup SUBSET Dates]
  <2>1. UNCHANGED cache \/ \E f \in Files : cache' = [cache EXCEPT ![f] = Partial]
    BY KillFacts
  <2>. QED  BY <2>1 DEF FetchTypes
<1>3. outputs' \in [Outputs -> {Absent, Partial} \cup Output]
  <2>1. \/ UNCHANGED outputs
        \/ \E i \in DOMAIN writes, left \in {Partial} \cup Output :
             outputs' = [outputs EXCEPT ![writes[i].file] = left]
    BY KillFacts
  <2>. QED  BY <2>1 DEF FetchTypes
<1>4. last' \in [wrote : SUBSET Names, aligned : BOOLEAN,
                 outcome : {"none", "done", "died", "killed"}, read : Files \cup {Absent}]
  BY <1>1 DEF FetchTypes
<1>. QED  BY <1>1, <1>2, <1>3, <1>4 DEF FetchTypes, PlaceInv, Places

LEMMA RestTypes ==
  ASSUME FetchTypes, PlaceInv, UNCHANGED vars PROVE FetchTypes' /\ PlaceInv'
<1>1. UNCHANGED <<net, cache, outputs, run, pc, stage, todo, sources, quotes, frames, writes, last>>
  BY DEF vars
<1>. QED  BY <1>1 DEF FetchTypes, PlaceInv

\* The steps there are.
LEMMA Steps ==
  ASSUME [Next]_vars
  PROVE  \/ Main \/ BeginSymbol \/ DownloadOptions \/ DownloadUnderlying \/ FetchYfinance
         \/ EndStage \/ WriteNext \/ Written \/ AlignDates \/ Done \/ Kill \/ UNCHANGED vars
BY DEF Next, Step, Rest

LEMMA NextTypes ==
  ASSUME FetchTypes, PlaceInv, [Next]_vars PROVE FetchTypes' /\ PlaceInv'
BY Steps, MainTypes, BeginSymbolTypes, DownloadOptionsTypes, DownloadUnderlyingTypes,
   FetchYfinanceTypes, EndStageTypes, WriteNextTypes, WrittenTypes, AlignDatesTypes, DoneTypes,
   KillTypes, RestTypes

-----------------------------------------------------------------------------
(* What each kind of step does to the files and to how the run went.       *)

Fetching == {"symbol", "options", "underlying", "yfinance"}

\* A step that fetches writes no output; it goes on, or dies at a file cut short.
LEMMA FetchingFacts ==
  ASSUME FetchTypes, PlaceInv,
         BeginSymbol \/ DownloadOptions \/ DownloadUnderlying \/ FetchYfinance
  PROVE  /\ UNCHANGED <<net, outputs, run, stage, writes>>
         /\ pc \in Fetching /\ stage \in Names
         /\ \/ pc' \in Fetching /\ last' = last
            \/ /\ pc' = "idle"
               /\ \E f \in Files : /\ last' = [last EXCEPT !.outcome = "died", !.read = f]
                                   /\ cache'[f] = Partial
<1>1. CASE BeginSymbol
  BY <1>1 DEF BeginSymbol, PlaceInv, Fetching
<1>2. CASE DownloadOptions
  <2>. DEFINE f == Head(sources)
  <2>1. /\ pc = "options" /\ stage \in Names /\ sources # << >>
        /\ UNCHANGED <<net, outputs, run, stage, writes>>
    BY <1>2 DEF DownloadOptions, PlaceInv, Names
  <2>2. f \in Files
    BY <2>1, HeadFacts DEF FetchTypes
  <2>3. PICK d \in Downloads(f) :
          /\ cache' = [cache EXCEPT ![f] = d.file]
          /\ \/ UNCHANGED <<pc, last>>
             \/ SkipSymbol
             \/ d.file = Partial /\ Die(f)
             \/ pc' = "underlying" /\ last' = last
    BY <1>2 DEF DownloadOptions
  <2>4. d.file = Partial => cache'[f] = Partial
    BY <2>2, <2>3 DEF FetchTypes
  <2>. QED  BY <2>1, <2>2, <2>3, <2>4 DEF Fetching, SkipSymbol, Die
<1>3. CASE DownloadUnderlying
  <2>. DEFINE f == Head(sources)
  <2>1. /\ pc = "underlying" /\ stage \in Names /\ sources # << >>
        /\ UNCHANGED <<net, outputs, run, stage, writes>>
    BY <1>3 DEF DownloadUnderlying, PlaceInv
  <2>2. f \in Files
    BY <2>1, HeadFacts DEF FetchTypes
  <2>3. PICK d \in Downloads(f) :
          /\ cache' = [cache EXCEPT ![f] = d.file]
          /\ \/ TryNext
             \/ d.file = Partial /\ Die(f)
             \/ pc' = "yfinance" /\ last' = last
             \/ AddFrame(f.source, d.file \cap run.range)
    BY <1>3 DEF DownloadUnderlying
  <2>4. d.file = Partial => cache'[f] = Partial
    BY <2>2, <2>3 DEF FetchTypes
  <2>. QED  BY <2>1, <2>2, <2>3, <2>4 DEF Fetching, TryNext, AddFrame, Die
<1>4. CASE FetchYfinance
  BY <1>4 DEF FetchYfinance, AddFrame, PlaceInv, Fetching
<1>. QED  BY <1>1, <1>2, <1>3, <1>4

\* Writing takes the first of what is left.
LEMMA WriteNextFacts ==
  ASSUME FetchTypes, WriteNext
  PROVE  /\ pc = "write" /\ writes # << >> /\ 1 \in DOMAIN writes
         /\ writes[1] \in [file : Outputs, content : Output]
         /\ outputs' = [outputs EXCEPT ![writes[1].file] = writes[1].content]
         /\ UNCHANGED <<cache, run, pc, stage, sources, quotes, frames, last>>
         /\ DOMAIN writes \subseteq Nat \ {0} /\ DOMAIN writes' \subseteq Nat \ {0}
         /\ \A i \in DOMAIN writes' : i + 1 \in DOMAIN writes /\ writes'[i] = writes[i + 1]
         /\ \A i \in DOMAIN writes : i # 1 => i - 1 \in DOMAIN writes'
<1>1. /\ pc = "write" /\ writes # << >> /\ writes' = Tail(writes)
      /\ outputs' = [outputs EXCEPT ![Head(writes).file] = Head(writes).content]
      /\ UNCHANGED <<cache, run, pc, stage, sources, quotes, frames, last>>
  BY DEF WriteNext
<1>2. writes \in Seq([file : Outputs, content : Output])
  BY DEF FetchTypes
<1>3. /\ Head(writes) \in [file : Outputs, content : Output] /\ Head(writes) = writes[1]
      /\ 1 \in DOMAIN writes
      /\ DOMAIN writes = 1..Len(writes) /\ Len(writes) \in Nat \ {0}
      /\ DOMAIN Tail(writes) = 1..(Len(writes) - 1)
      /\ \A i \in DOMAIN Tail(writes) :
           i + 1 \in DOMAIN writes /\ Tail(writes)[i] = writes[i + 1]
  BY <1>1, <1>2, HeadFacts
<1>4. DOMAIN writes' = 1..(Len(writes) - 1)
  BY <1>1, <1>3
<1>5. \A i \in DOMAIN writes' : i + 1 \in DOMAIN writes /\ writes'[i] = writes[i + 1]
  BY <1>1, <1>3
<1>6. DOMAIN writes \subseteq Nat \ {0} /\ DOMAIN writes' \subseteq Nat \ {0}
  BY <1>3, <1>4
<1>7. \A i \in DOMAIN writes : i # 1 => i - 1 \in DOMAIN writes'
  BY <1>3, <1>4
<1>. QED  BY <1>1, <1>3, <1>5, <1>6, <1>7

\* A stage ends with nothing to write, or with its two files.
LEMMA EndStageFacts ==
  ASSUME FetchTypes, PlaceInv, EndStage
  PROVE  /\ pc = "symbol" /\ stage \in Names /\ UNCHANGED <<outputs, run, cache>> /\ frames' = {}
         /\ \/ /\ pc' \in {"symbol", "align"} /\ stage' \in Names \cup {"align"}
               /\ UNCHANGED <<writes, last>>
            \/ /\ pc' = "write" /\ stage' = stage
               /\ last' = [last EXCEPT !.wrote = @ \cup {stage}]
               /\ \E content \in Output :
                    /\ content.rows = frames /\ content.allow = run.allow
                    /\ DOMAIN writes' = 1..2
                    /\ writes'[1].file = <<stage, "csv">> /\ writes'[1].content = content
                    /\ writes'[2].file = <<stage, "parquet">> /\ writes'[2].content = content
<1>1. /\ pc = "symbol" /\ stage \in Names /\ UNCHANGED <<outputs, run, cache>> /\ frames' = {}
  BY DEF EndStage, PlaceInv
<1>2. CASE frames = {}
  <2>1. EnterStage(StageAfter(run.command, stage)) /\ UNCHANGED <<writes, last>>
    BY <1>2 DEF EndStage
  <2>. QED  BY <1>1, <2>1, EnterStageFacts
<1>3. CASE frames # {}
  <2>. DEFINE a == Write(<<stage, "csv">>, frames)
              b == Write(<<stage, "parquet">>, frames)
              content == [rows |-> frames, allow |-> run.allow]
  <2>1. /\ writes' = <<a, b>> /\ pc' = "write" /\ UNCHANGED <<stage, todo>>
        /\ last' = [last EXCEPT !.wrote = @ \cup {stage}]
    BY <1>3 DEF EndStage
  <2>2. /\ a.file = <<stage, "csv">> /\ a.content = content
        /\ b.file = <<stage, "parquet">> /\ b.content = content
    BY DEF Write
  <2>3. content \in Output
    BY <1>1 DEF FetchTypes, Output
  <2>4. content.rows = frames /\ content.allow = run.allow
    OBVIOUS
  <2>. HIDE DEF a, b, content
  <2>5. DOMAIN writes' = 1..2 /\ writes'[1] = a /\ writes'[2] = b
    BY <2>1
  <2>6. /\ writes'[1].file = <<stage, "csv">> /\ writes'[1].content = content
        /\ writes'[2].file = <<stage, "parquet">> /\ writes'[2].content = content
    BY <2>2, <2>5
  <2>. QED  BY <1>1, <2>1, <2>3, <2>4, <2>5, <2>6
<1>. QED  BY <1>2, <1>3

LEMMA WrittenFacts ==
  ASSUME FetchTypes, PlaceInv, Written
  PROVE  /\ pc = "write" /\ writes = << >> /\ stage \in Names \cup {"align"}
         /\ UNCHANGED <<cache, outputs, run, frames, writes, last>>
         /\ \/ stage = "align" /\ stage' = "align" /\ pc' = "end"
            \/ /\ stage \in Names /\ pc' \in {"symbol", "align"}
               /\ stage' \in Names \cup {"align"}
<1>1. /\ pc = "write" /\ writes = << >> /\ stage \in Names \cup {"align"}
      /\ UNCHANGED <<cache, outputs, run, frames, writes, last>>
  BY DEF Written, PlaceInv
<1>2. CASE stage = "align"
  BY <1>1, <1>2 DEF Written
<1>3. CASE stage # "align"
  <2>1. EnterStage(StageAfter(run.command, stage))
    BY <1>3 DEF Written
  <2>. QED  BY <1>1, <1>3, <2>1, EnterStageFacts
<1>. QED  BY <1>2, <1>3

\* The alignment rewrites every output that exists, once, with the shared dates of
\* its CSV, and no other.
LEMMA AlignEffect ==
  ASSUME FetchTypes, AlignDates, pc' = "write"
  PROVE  \E shared \in SUBSET Dates :
           /\ shared = DatesOf(Stocks.rows) \cap DatesOf(Options.rows)
           /\ Stocks \in Output /\ Options \in Output
           /\ last' = [last EXCEPT !.aligned = TRUE]
           /\ \A i \in DOMAIN writes' : \E n \in Names, format \in Formats :
                outputs[<<n, format>>] # Absent /\ writes'[i] = Aligned(n, format, shared)
           /\ \A n \in Names, format \in Formats :
                outputs[<<n, format>>] # Absent =>
                  \E i \in DOMAIN writes' : writes'[i] = Aligned(n, format, shared)
           /\ \A i, j \in DOMAIN writes' : writes'[i].file = writes'[j].file => i = j
<1>. DEFINE A == outputs[<<"stocks", "parquet">>]
            B == outputs[<<"options", "parquet">>]
<1>1. PICK shared \in SUBSET Dates :
        /\ shared = DatesOf(Stocks.rows) \cap DatesOf(Options.rows)
        /\ Stocks \in Output /\ Options \in Output
        /\ writes' = IF A = Absent /\ B = Absent
                     THEN <<Aligned("stocks", "csv", shared), Aligned("options", "csv", shared)>>
                     ELSE IF A = Absent
                     THEN <<Aligned("stocks", "csv", shared), Aligned("options", "csv", shared),
                            Aligned("options", "parquet", shared)>>
                     ELSE IF B = Absent
                     THEN <<Aligned("stocks", "csv", shared), Aligned("options", "csv", shared),
                            Aligned("stocks", "parquet", shared)>>
                     ELSE <<Aligned("stocks", "csv", shared), Aligned("options", "csv", shared),
                            Aligned("stocks", "parquet", shared),
                            Aligned("options", "parquet", shared)>>
        /\ last' = [last EXCEPT !.aligned = TRUE]
  BY AlignFacts
<1>. DEFINE a == Aligned("stocks", "csv", shared)
            b == Aligned("options", "csv", shared)
            c == Aligned("stocks", "parquet", shared)
            d == Aligned("options", "parquet", shared)
<1>2. /\ a.file = <<"stocks", "csv">> /\ b.file = <<"options", "csv">>
      /\ c.file = <<"stocks", "parquet">> /\ d.file = <<"options", "parquet">>
  BY DEF Aligned
<1>3. a.file # b.file /\ a.file # c.file /\ a.file # d.file
      /\ b.file # c.file /\ b.file # d.file /\ c.file # d.file
  BY <1>2
<1>4. outputs[<<"stocks", "csv">>] # Absent /\ outputs[<<"options", "csv">>] # Absent
  BY <1>1, OutputIsWhole DEF Stocks, Options
<1>. DEFINE FromOne == \A i \in DOMAIN writes' : \E n \in Names, format \in Formats :
                       outputs[<<n, format>>] # Absent /\ writes'[i] = Aligned(n, format, shared)
            ForEvery == \A n \in Names, format \in Formats :
                       outputs[<<n, format>>] # Absent =>
                         \E i \in DOMAIN writes' : writes'[i] = Aligned(n, format, shared)
            Once == \A i, j \in DOMAIN writes' : writes'[i].file = writes'[j].file => i = j
            Entry(e) == \E n \in Names, format \in Formats :
                          outputs[<<n, format>>] # Absent /\ e = Aligned(n, format, shared)
<1>5. /\ Entry(a) /\ Entry(b) /\ (A # Absent => Entry(c)) /\ (B # Absent => Entry(d))
  BY <1>4 DEF Names, Formats
<1>6. writes' = IF A = Absent /\ B = Absent THEN <<a, b>>
                ELSE IF A = Absent THEN <<a, b, d>>
                ELSE IF B = Absent THEN <<a, b, c>> ELSE <<a, b, c, d>>
  BY <1>1
<1>. DEFINE Has(e) == \E i \in DOMAIN writes' : writes'[i] = e
<1>7. ASSUME Has(a), Has(b), A # Absent => Has(c), B # Absent => Has(d) PROVE ForEvery
  BY <1>7 DEF Names, Formats
<1>8. ASSUME \A i \in DOMAIN writes' : Entry(writes'[i]) PROVE FromOne
  BY <1>8
<1>0. /\ shared = DatesOf(Stocks.rows) \cap DatesOf(Options.rows)
      /\ Stocks \in Output /\ Options \in Output
      /\ last' = [last EXCEPT !.aligned = TRUE]
  BY <1>1
<1>. SUFFICES FromOne /\ ForEvery /\ Once
  BY <1>0, Zenon
<1>. HIDE DEF a, b, c, d, A, B, Entry, FromOne, ForEvery
<1>9. CASE A = Absent /\ B = Absent
  <2>1. DOMAIN writes' = 1..2 /\ writes'[1] = a /\ writes'[2] = b
    BY <1>6, <1>9
  <2>2. Has(a) /\ Has(b) /\ \A i \in DOMAIN writes' : Entry(writes'[i])
    BY <1>5, <2>1
  <2>3. Once
    BY <1>3, <2>1
  <2>4. FromOne
    BY <1>8, <2>2
  <2>5. ForEvery
    BY <1>7, <1>9, <2>2
  <2>. QED  BY <2>3, <2>4, <2>5
<1>10. CASE A = Absent /\ B # Absent
  <2>1. DOMAIN writes' = 1..3 /\ writes'[1] = a /\ writes'[2] = b /\ writes'[3] = d
    BY <1>6, <1>10
  <2>2. Has(a) /\ Has(b) /\ Has(d) /\ \A i \in DOMAIN writes' : Entry(writes'[i])
    BY <1>5, <1>10, <2>1
  <2>3. Once
    BY <1>3, <2>1
  <2>4. FromOne
    BY <1>8, <2>2
  <2>5. ForEvery
    BY <1>7, <1>10, <2>2
  <2>. QED  BY <2>3, <2>4, <2>5
<1>11. CASE A # Absent /\ B = Absent
  <2>1. DOMAIN writes' = 1..3 /\ writes'[1] = a /\ writes'[2] = b /\ writes'[3] = c
    BY <1>6, <1>11
  <2>2. Has(a) /\ Has(b) /\ Has(c) /\ \A i \in DOMAIN writes' : Entry(writes'[i])
    BY <1>5, <1>11, <2>1
  <2>3. Once
    BY <1>3, <2>1
  <2>4. FromOne
    BY <1>8, <2>2
  <2>5. ForEvery
    BY <1>7, <1>11, <2>2
  <2>. QED  BY <2>3, <2>4, <2>5
<1>12. CASE A # Absent /\ B # Absent
  <2>1. /\ DOMAIN writes' = 1..4 /\ writes'[1] = a /\ writes'[2] = b
        /\ writes'[3] = c /\ writes'[4] = d
    BY <1>6, <1>12
  <2>2. Has(a) /\ Has(b) /\ Has(c) /\ Has(d) /\ \A i \in DOMAIN writes' : Entry(writes'[i])
    BY <1>5, <1>12, <2>1
  <2>3. Once
    BY <1>3, <2>1
  <2>4. FromOne
    BY <1>8, <2>2
  <2>5. ForEvery
    BY <1>7, <1>12, <2>2
  <2>. QED  BY <2>3, <2>4, <2>5
<1>. QED  BY <1>9, <1>10, <1>11, <1>12

\* The alignment does nothing, dies, or rewrites.
LEMMA AlignCases ==
  ASSUME PlaceInv, AlignDates
  PROVE  /\ pc = "align" /\ stage = "align" /\ stage' = "align"
         /\ UNCHANGED <<cache, outputs, run, frames>>
         /\ \/ pc' = "end" /\ UNCHANGED <<writes, last>>
            \/ pc' = "idle" /\ last' = [last EXCEPT !.outcome = "died"] /\ UNCHANGED writes
            \/ pc' = "write"
BY DEF AlignDates, PlaceInv

-----------------------------------------------------------------------------
(* What is left to write.                                                  *)

LEMMA WritesKept ==
  ASSUME FetchTypes, PlaceInv, WritesInv, [Next]_vars PROVE WritesInv'
<1>1. CASE Main
  <2>1. writes' = << >>
    BY <1>1 DEF Main
  <2>. QED  BY <2>1 DEF WritesInv
<1>2. CASE BeginSymbol \/ DownloadOptions \/ DownloadUnderlying \/ FetchYfinance
  BY <1>2, FetchingFacts DEF WritesInv, Alive, Fetching
<1>3. CASE EndStage
  <2>1. pc = "symbol" /\ writes = << >>
    BY <1>3, EndStageFacts DEF WritesInv, Alive
  <2>2. CASE pc' \in {"symbol", "align"} /\ UNCHANGED writes
    BY <2>1, <2>2 DEF WritesInv
  <2>3. CASE /\ pc' = "write" /\ DOMAIN writes' = 1..2
             /\ writes'[1].file = <<stage, "csv">> /\ writes'[2].file = <<stage, "parquet">>
    BY <2>3 DEF WritesInv
  <2>. QED  BY <1>3, <2>2, <2>3, EndStageFacts
<1>4. CASE WriteNext
  <2>1. pc' = "write"
    BY <1>4, WriteNextFacts
  <2>2. /\ DOMAIN writes' \subseteq Nat
        /\ \A i \in DOMAIN writes' : i + 1 \in DOMAIN writes /\ writes'[i] = writes[i + 1]
    BY <1>4, WriteNextFacts
  <2>3. ASSUME NEW i \in DOMAIN writes', NEW j \in DOMAIN writes', writes'[i].file = writes'[j].file
        PROVE  i = j
    <3>1. i + 1 = j + 1
      BY <2>2, <2>3 DEF WritesInv
    <3>. QED  BY <2>2, <3>1
  <2>. QED  BY <2>1, <2>3 DEF WritesInv
<1>5. CASE Written
  BY <1>5, WrittenFacts DEF WritesInv
<1>6. CASE AlignDates
  <2>1. pc = "align" /\ writes = << >>
    BY <1>6, AlignCases DEF WritesInv, Alive
  <2>2. CASE UNCHANGED writes
    BY <2>1, <2>2 DEF WritesInv
  <2>3. CASE pc' = "write"
    BY <1>6, <2>3, AlignEffect DEF WritesInv
  <2>. QED  BY <1>6, <2>2, <2>3, AlignCases
<1>7. CASE Done
  BY <1>7 DEF Done, WritesInv, Alive
<1>8. CASE Kill
  <2>1. ~ Alive' /\ UNCHANGED writes
    <3>1. pc' = "idle" /\ last' = [last EXCEPT !.outcome = "killed"] /\ UNCHANGED writes
      BY <1>8, KillFacts
    <3>. QED  BY <3>1 DEF FetchTypes, Alive
  <2>. QED  BY <2>1 DEF WritesInv
<1>9. CASE UNCHANGED vars
  BY <1>9 DEF vars, WritesInv, Alive
<1>. QED  BY Steps, <1>1, <1>2, <1>3, <1>4, <1>5, <1>6, <1>7, <1>8, <1>9

-----------------------------------------------------------------------------
(* Where the option rows come from.                                        *)

\* Outputs and what is left to write are pinned.
FilesPinned ==
  /\ \A i \in DOMAIN writes : writes[i].file[1] = "options" => Pinned(writes[i].content)
  /\ \A format \in Formats :
       Whole(outputs[<<"options", format>>]) => Pinned(outputs[<<"options", format>>])
\* So is what the run has collected.
RunPinned ==
  stage = "options" /\ ~ run.allow =>
    /\ pc # "idle" => \A r \in frames : r.source = "release"
    /\ pc = "options" => \A i \in DOMAIN sources : sources[i].source = "release"
    /\ pc \in {"underlying", "yfinance"} => quotes.source = "release"

LEMMA PinParts == (PinInv <=> RunPinned /\ FilesPinned) /\ (PinInv' <=> RunPinned' /\ FilesPinned')
BY DEF PinInv, RunPinned, FilesPinned

LEMMA AddFramePinned ==
  ASSUME FetchTypes, todo # << >>, PinInv, pc \in {"underlying", "yfinance"},
         NEW source \in Sources, NEW prices \in SUBSET Dates, AddFrame(source, prices),
         UNCHANGED <<run, stage>>
  PROVE  RunPinned'
<1>. SUFFICES ASSUME stage = "options", ~ run.allow
              PROVE  pc' = "symbol" /\ \A r \in frames' : r.source = "release"
  BY DEF RunPinned
<1>1. pc' = "symbol" /\ frames' = frames \cup Frame(Head(todo), source, prices)
  BY DEF AddFrame
<1>2. quotes.source = "release" /\ \A r \in frames : r.source = "release"
  BY DEF PinInv
<1>3. \A r \in Frame(Head(todo), source, prices) : r.source = "release"
  BY <1>2, HeadFacts, FrameFacts DEF FetchTypes
<1>. QED  BY <1>1, <1>2, <1>3

\* A fetching step collects only pinned rows.
LEMMA FetchingPinned ==
  ASSUME FetchTypes, PlaceInv, PinInv,
         BeginSymbol \/ DownloadOptions \/ DownloadUnderlying \/ FetchYfinance
  PROVE  RunPinned'
<1>1. UNCHANGED <<run, stage>>
  BY FetchingFacts
<1>. SUFFICES ASSUME stage = "options", ~ run.allow PROVE RunPinned'
  BY <1>1 DEF RunPinned
<1>2. CASE BeginSymbol
  <2>1. /\ pc' = "options" /\ sources' = OptionsSources(Head(todo)) /\ todo # << >>
        /\ frames' = frames /\ pc = "symbol"
    BY <1>2 DEF BeginSymbol
  <2>2. Head(todo) \in Symbols
    BY <2>1, HeadFacts DEF FetchTypes
  <2>3. \A i \in DOMAIN sources' : sources'[i].source = "release"
    BY <2>1, <2>2, SourceLists
  <2>. QED  BY <2>1, <2>3 DEF PinInv, RunPinned
<1>3. CASE DownloadOptions
  <2>. DEFINE f == Head(sources)
  <2>1. pc = "options" /\ sources # << >> /\ frames' = frames
    BY <1>3 DEF DownloadOptions, PlaceInv, SkipSymbol, Die
  <2>2. /\ f = sources[1] /\ 1 \in DOMAIN sources
        /\ \A i \in DOMAIN Tail(sources) :
             i + 1 \in DOMAIN sources /\ Tail(sources)[i] = sources[i + 1]
    BY <2>1, HeadFacts DEF FetchTypes
  <2>3. /\ \A r \in frames : r.source = "release"
        /\ \A i \in DOMAIN sources : sources[i].source = "release"
    BY <2>1 DEF PinInv
  <2>4. f.source = "release" /\ \A i \in DOMAIN Tail(sources) : Tail(sources)[i].source = "release"
    BY <2>2, <2>3
  <2>5. \/ pc' = "options" /\ sources' = Tail(sources)
        \/ pc' \in {"symbol", "idle"}
        \/ pc' = "underlying" /\ quotes'.source = f.source
    BY <1>3 DEF DownloadOptions, SkipSymbol, Die
  <2>. QED  BY <2>1, <2>3, <2>4, <2>5 DEF RunPinned
<1>4. CASE DownloadUnderlying
  <2>. DEFINE f == Head(sources)
  <2>1. pc = "underlying" /\ sources # << >> /\ todo # << >>
    BY <1>4 DEF DownloadUnderlying, PlaceInv
  <2>2. f \in Files
    BY <2>1, HeadFacts DEF FetchTypes
  <2>3. PICK d \in Downloads(f) :
          \/ pc' \in {"underlying", "yfinance", "idle"} /\ UNCHANGED <<quotes, frames>>
          \/ d.got /\ d.file # Partial /\ AddFrame(f.source, d.file \cap run.range)
    BY <1>4 DEF DownloadUnderlying, TryNext, Die
  <2>4. CASE pc' \in {"underlying", "yfinance", "idle"} /\ UNCHANGED <<quotes, frames>>
    BY <2>1, <2>4 DEF PinInv, RunPinned
  <2>5. CASE d.got /\ d.file # Partial /\ AddFrame(f.source, d.file \cap run.range)
    <3>1. f.source \in Sources /\ d.file \cap run.range \in SUBSET Dates
      BY <2>2, <2>5, FileFacts, DownloadFacts
    <3>. QED  BY <1>1, <2>1, <2>5, <3>1, AddFramePinned
  <2>. QED  BY <2>3, <2>4, <2>5
<1>5. CASE FetchYfinance
  <2>1. pc = "yfinance" /\ todo # << >>
    BY <1>5 DEF FetchYfinance, PlaceInv
  <2>2. PICK prices \in SUBSET {d \in run.range : d < run.end} : AddFrame("yfinance", prices)
    BY <1>5 DEF FetchYfinance
  <2>3. prices \in SUBSET Dates /\ "yfinance" \in Sources
    BY DEF FetchTypes, Sources
  <2>. QED  BY <1>1, <2>1, <2>2, <2>3, AddFramePinned
<1>. QED  BY <1>2, <1>3, <1>4, <1>5

LEMMA PinKept ==
  ASSUME FetchTypes, PlaceInv, PinInv, [Next]_vars PROVE PinInv'
<1>. SUFFICES RunPinned' /\ FilesPinned'
  BY PinParts
<1>0. RunPinned /\ FilesPinned
  BY PinParts
<1>1. CASE Main
  <2>1. /\ writes' = << >> /\ frames' = {} /\ outputs' = outputs
    BY <1>1 DEF Main
  <2>2. pc' \in {"symbol", "align"}
    BY <1>1, EnterStageFacts DEF Main
  <2>. QED  BY <1>0, <2>1, <2>2 DEF RunPinned, FilesPinned
<1>2. CASE BeginSymbol \/ DownloadOptions \/ DownloadUnderlying \/ FetchYfinance
  <2>1. UNCHANGED <<writes, outputs>>
    BY <1>2, FetchingFacts
  <2>. QED  BY <1>0, <1>2, <2>1, FetchingPinned DEF FilesPinned
<1>3. CASE EndStage
  <2>1. pc = "symbol" /\ frames' = {} /\ UNCHANGED <<outputs, run>> /\ stage \in Names
    BY <1>3, EndStageFacts
  <2>2. RunPinned'
    <3>1. pc' \in {"symbol", "align", "write"}
      BY <1>3, EndStageFacts
    <3>. QED  BY <2>1, <3>1 DEF RunPinned
  <2>3. CASE UNCHANGED writes
    BY <1>0, <2>1, <2>2, <2>3 DEF FilesPinned
  <2>4. CASE \E content \in Output :
               /\ content.rows = frames /\ content.allow = run.allow
               /\ DOMAIN writes' = 1..2
               /\ writes'[1].file = <<stage, "csv">> /\ writes'[1].content = content
               /\ writes'[2].file = <<stage, "parquet">> /\ writes'[2].content = content
    <3>1. PICK content \in Output :
               /\ content.rows = frames /\ content.allow = run.allow
               /\ DOMAIN writes' = 1..2
               /\ writes'[1].file = <<stage, "csv">> /\ writes'[1].content = content
               /\ writes'[2].file = <<stage, "parquet">> /\ writes'[2].content = content
      BY <2>4
    <3>2. stage = "options" => Pinned(content)
      BY <1>0, <2>1, <3>1 DEF RunPinned, Pinned
    <3>3. \A i \in DOMAIN writes' :
            writes'[i].file[1] = "options" => stage = "options" /\ writes'[i].content = content
      BY <3>1
    <3>4. \A i \in DOMAIN writes' : writes'[i].file[1] = "options" => Pinned(writes'[i].content)
      BY <3>2, <3>3
    <3>. QED  BY <1>0, <2>1, <2>2, <3>4 DEF FilesPinned, Pinned
  <2>. QED  BY <1>3, <2>3, <2>4, EndStageFacts
<1>4. CASE WriteNext
  <2>1. /\ outputs' = [outputs EXCEPT ![writes[1].file] = writes[1].content]
        /\ UNCHANGED <<run, pc, stage, sources, quotes, frames>>
    BY <1>4, WriteNextFacts
  <2>2. /\ 1 \in DOMAIN writes /\ writes[1] \in [file : Outputs, content : Output]
        /\ \A i \in DOMAIN writes' : i + 1 \in DOMAIN writes /\ writes'[i] = writes[i + 1]
    BY <1>4, WriteNextFacts
  <2>3. \A i \in DOMAIN writes' : writes'[i].file[1] = "options" => Pinned(writes'[i].content)
    BY <1>0, <2>2 DEF FilesPinned
  <2>4. ASSUME NEW format \in Formats, Whole(outputs'[<<"options", format>>])
        PROVE  Pinned(outputs'[<<"options", format>>])
    <3>. DEFINE o == <<"options", format>>
    <3>1. o \in Outputs /\ o[1] = "options"
      BY DEF Outputs, Formats
    <3>2. CASE writes[1].file = o
      <4>1. outputs'[o] = writes[1].content /\ writes[1].file = o
        BY <2>1, <2>2, <3>1, <3>2 DEF FetchTypes
      <4>2. Pinned(writes[1].content)
        BY <1>0, <2>2, <3>1, <4>1 DEF FilesPinned
      <4>. QED  BY <4>1, <4>2
    <3>3. CASE writes[1].file # o
      <4>1. outputs'[o] = outputs[o]
        BY <2>1, <2>2, <3>1, <3>3 DEF FetchTypes
      <4>. QED  BY <1>0, <2>4, <4>1 DEF FilesPinned
    <3>. QED  BY <3>2, <3>3
  <2>5. RunPinned'
    BY <1>0, <2>1 DEF RunPinned
  <2>. QED  BY <2>3, <2>4, <2>5 DEF FilesPinned, Pinned
<1>5. CASE Written
  <2>1. /\ pc = "write" /\ stage \in Names \cup {"align"}
        /\ UNCHANGED <<outputs, run, frames, writes>>
        /\ pc' \in {"end", "symbol", "align"}
    BY <1>5, WrittenFacts
  <2>2. RunPinned'
    <3>1. stage' = "options" => FALSE
      BY <1>5 DEF Written, EnterStage, StageAfter, PlaceInv, Names
    <3>. QED  BY <3>1 DEF RunPinned
  <2>. QED  BY <1>0, <2>1, <2>2 DEF FilesPinned
<1>6. CASE AlignDates
  <2>1. stage' = "align" /\ outputs' = outputs
    BY <1>6, AlignCases
  <2>2. RunPinned'
    BY <2>1 DEF RunPinned
  <2>3. CASE UNCHANGED writes
    BY <1>0, <2>1, <2>2, <2>3 DEF FilesPinned
  <2>4. CASE pc' = "write"
    <3>1. PICK shared \in SUBSET Dates :
            /\ Options \in Output
            /\ \A i \in DOMAIN writes' : \E n \in Names, format \in Formats :
                 outputs[<<n, format>>] # Absent /\ writes'[i] = Aligned(n, format, shared)
      BY <1>6, <2>4, AlignEffect
    <3>2. Pinned(Options)
      BY <1>0, <3>1, OutputIsWhole DEF FilesPinned, Options, Formats
    <3>3. Pinned(On(Options, shared))
      BY <3>1, <3>2, OnFacts
    <3>4. ASSUME NEW i \in DOMAIN writes', writes'[i].file[1] = "options"
          PROVE  Pinned(writes'[i].content)
      <4>1. PICK n \in Names, format \in Formats : writes'[i] = Aligned(n, format, shared)
        BY <3>1
      <4>2. writes'[i].file = <<n, format>> /\ writes'[i].content = On(outputs[<<n, "csv">>], shared)
        BY <4>1 DEF Aligned
      <4>3. n = "options"
        BY <3>4, <4>2
      <4>. QED  BY <3>3, <4>2, <4>3 DEF Options
    <3>. QED  BY <1>0, <2>1, <2>2, <3>4 DEF FilesPinned, Pinned
  <2>. QED  BY <1>6, <2>3, <2>4, AlignCases
<1>7. CASE Done
  BY <1>0, <1>7 DEF Done, RunPinned, FilesPinned
<1>8. CASE Kill
  <2>1. pc' = "idle" /\ UNCHANGED writes
    BY <1>8, KillFacts
  <2>2. ASSUME NEW format \in Formats, Whole(outputs'[<<"options", format>>])
        PROVE  Pinned(outputs'[<<"options", format>>])
    <3>. DEFINE o == <<"options", format>>
    <3>1. o \in Outputs /\ o[1] = "options"
      BY DEF Outputs, Formats
    <3>2. CASE outputs' = outputs
      BY <1>0, <2>2, <3>2 DEF FilesPinned
    <3>3. CASE \E i \in DOMAIN writes, left \in {Partial} \cup Output :
                 /\ outputs' = [outputs EXCEPT ![writes[i].file] = left]
                 /\ left = Partial \/ (Pinned(writes[i].content) => Pinned(left))
      <4>1. PICK i \in DOMAIN writes, left \in {Partial} \cup Output :
                 /\ outputs' = [outputs EXCEPT ![writes[i].file] = left]
                 /\ left = Partial \/ (Pinned(writes[i].content) => Pinned(left))
        BY <3>3
      <4>2. CASE writes[i].file = o
        <5>1. outputs'[o] = left
          BY <3>1, <4>1, <4>2 DEF FetchTypes
        <5>2. left # Partial
          BY <2>2, <5>1 DEF Whole
        <5>3. Pinned(writes[i].content)
          BY <1>0, <3>1, <4>2 DEF FilesPinned
        <5>. QED  BY <4>1, <5>1, <5>2, <5>3
      <4>3. CASE writes[i].file # o
        <5>1. outputs'[o] = outputs[o]
          BY <3>1, <4>1, <4>3 DEF FetchTypes
        <5>. QED  BY <1>0, <2>2, <5>1 DEF FilesPinned
      <4>. QED  BY <4>2, <4>3
    <3>. QED  BY <1>8, <3>2, <3>3, KillFacts
  <2>3. RunPinned'
    BY <2>1 DEF RunPinned
  <2>4. \A i \in DOMAIN writes' : writes'[i].file[1] = "options" => Pinned(writes'[i].content)
    BY <1>0, <2>1 DEF FilesPinned
  <2>. QED  BY <2>2, <2>3, <2>4 DEF FilesPinned, Pinned
<1>9. CASE UNCHANGED vars
  BY <1>0, <1>9 DEF vars, RunPinned, FilesPinned
<1>. QED  BY Steps, <1>1, <1>2, <1>3, <1>4, <1>5, <1>6, <1>7, <1>8, <1>9

-----------------------------------------------------------------------------
(* What the outputs become.                                                *)

LEMMA WriteNextBecomes ==
  ASSUME FetchTypes, WritesInv, WriteNext, NEW o \in Outputs, NEW content, Becomes(o, content)
  PROVE  Becomes(o, content)'
<1>1. /\ 1 \in DOMAIN writes /\ writes[1] \in [file : Outputs, content : Output]
      /\ outputs' = [outputs EXCEPT ![writes[1].file] = writes[1].content]
      /\ DOMAIN writes \subseteq Nat \ {0} /\ DOMAIN writes' \subseteq Nat \ {0}
      /\ \A i \in DOMAIN writes' : i + 1 \in DOMAIN writes /\ writes'[i] = writes[i + 1]
      /\ \A i \in DOMAIN writes : i # 1 => i - 1 \in DOMAIN writes'
  BY WriteNextFacts
<1>2. CASE writes[1].file = o
  <2>1. outputs'[o] = writes[1].content
    BY <1>1, <1>2 DEF FetchTypes
  <2>2. \A i \in DOMAIN writes' : writes'[i].file # o
    <3>1. SUFFICES ASSUME NEW i \in DOMAIN writes', writes'[i].file = o PROVE FALSE
      OBVIOUS
    <3>2. i + 1 \in DOMAIN writes /\ writes[i + 1].file = writes[1].file /\ i \in Nat \ {0}
      BY <1>1, <1>2, <3>1
    <3>3. i + 1 = 1
      BY <1>1, <3>2 DEF WritesInv
    <3>. QED  BY <3>2, <3>3
  <2>3. content = writes[1].content
    BY <1>1, <1>2 DEF Becomes, WritesInv
  <2>. QED  BY <2>1, <2>2, <2>3 DEF Becomes
<1>3. CASE writes[1].file # o
  <2>1. outputs'[o] = outputs[o]
    BY <1>1, <1>3 DEF FetchTypes
  <2>2. CASE \E i \in DOMAIN writes : writes[i].file = o /\ writes[i].content = content
    <3>1. PICK i \in DOMAIN writes : writes[i].file = o /\ writes[i].content = content
      BY <2>2
    <3>2. i # 1 /\ i \in Nat \ {0}
      BY <1>1, <1>3, <3>1
    <3>3. i - 1 \in DOMAIN writes' /\ (i - 1) + 1 = i
      BY <1>1, <3>2
    <3>4. writes'[i - 1] = writes[i]
      BY <1>1, <3>3
    <3>. QED  BY <3>1, <3>3, <3>4 DEF Becomes
  <2>3. CASE outputs[o] = content /\ \A i \in DOMAIN writes : writes[i].file # o
    <3>1. \A i \in DOMAIN writes' : writes'[i].file # o
      BY <1>1, <2>3
    <3>. QED  BY <2>1, <2>3, <3>1 DEF Becomes
  <2>. QED  BY <2>2, <2>3 DEF Becomes
<1>. QED  BY <1>2, <1>3

LEMMA SameBecomes ==
  ASSUME UNCHANGED <<writes, outputs>>, NEW o, NEW content, Becomes(o, content)
  PROVE  Becomes(o, content)'
BY DEF Becomes

\* With nothing left to write, an output is what it is.
LEMMA NothingLeft ==
  ASSUME writes = << >>, NEW o, NEW content
  PROVE  Becomes(o, content) <=> outputs[o] = content
BY DEF Becomes

\* Twins go on being twins when nothing is written.
LEMMA QuietTwins ==
  ASSUME TwinsInv, Alive' => Alive, last'.wrote = last.wrote, UNCHANGED <<writes, outputs>>
  PROVE  TwinsInv'
<1>. SUFFICES ASSUME Alive', NEW n \in last'.wrote
              PROVE  \E content \in Output : \A format \in Formats : Becomes(<<n, format>>, content)'
  BY DEF TwinsInv
<1>1. PICK content \in Output : \A format \in Formats : Becomes(<<n, format>>, content)
  BY DEF TwinsInv
<1>2. \A format \in Formats : Becomes(<<n, format>>, content)'
  BY <1>1, SameBecomes
<1>. QED  BY <1>2

\* A killed or dead run makes no promise.
LEMMA Ended ==
  ASSUME FetchTypes, pc' = "idle",
         \/ last' = [last EXCEPT !.outcome = "killed"]
         \/ last' = [last EXCEPT !.outcome = "died"]
         \/ \E f \in Files : last' = [last EXCEPT !.outcome = "died", !.read = f]
  PROVE  ~ Alive' /\ last'.wrote = last.wrote /\ last'.aligned = last.aligned
BY DEF FetchTypes, Alive

LEMMA TwinsKept ==
  ASSUME FetchTypes, PlaceInv, WritesInv, TwinsInv, [Next]_vars PROVE TwinsInv'
<1>1. CASE Main
  <2>1. last'.wrote = {}
    BY <1>1 DEF Main, Idle
  <2>. QED  BY <2>1 DEF TwinsInv
<1>2. CASE BeginSymbol \/ DownloadOptions \/ DownloadUnderlying \/ FetchYfinance
  <2>1. UNCHANGED <<writes, outputs>> /\ Alive
    BY <1>2, FetchingFacts DEF Alive, Fetching
  <2>2. last'.wrote = last.wrote
    BY <1>2, FetchingFacts, Ended
  <2>. QED  BY <2>1, <2>2, QuietTwins
<1>3. CASE EndStage
  <2>1. pc = "symbol" /\ outputs' = outputs /\ writes = << >> /\ Alive /\ stage \in Names
    BY <1>3, EndStageFacts DEF WritesInv, Alive
  <2>2. CASE UNCHANGED <<writes, last>>
    BY <2>1, <2>2, QuietTwins
  <2>3. CASE /\ last' = [last EXCEPT !.wrote = @ \cup {stage}]
             /\ \E content \in Output :
                  /\ DOMAIN writes' = 1..2
                  /\ writes'[1].file = <<stage, "csv">> /\ writes'[1].content = content
                  /\ writes'[2].file = <<stage, "parquet">> /\ writes'[2].content = content
    <3>1. PICK content \in Output :
            /\ DOMAIN writes' = 1..2
            /\ writes'[1].file = <<stage, "csv">> /\ writes'[1].content = content
            /\ writes'[2].file = <<stage, "parquet">> /\ writes'[2].content = content
      BY <2>3
    <3>2. last'.wrote = last.wrote \cup {stage}
      BY <2>3 DEF FetchTypes
    <3>3. ASSUME NEW n, n = stage
          PROVE  \A format \in Formats : Becomes(<<n, format>>, content)'
      BY <3>1, <3>3 DEF Becomes, Formats
    <3>4. ASSUME NEW n \in last.wrote, n # stage
          PROVE  \E c \in Output : \A format \in Formats : Becomes(<<n, format>>, c)'
      <4>1. PICK c \in Output : \A format \in Formats : Becomes(<<n, format>>, c)
        BY <2>1 DEF TwinsInv
      <4>2. \A format \in Formats : outputs[<<n, format>>] = c
        BY <2>1, <4>1, NothingLeft
      <4>3. \A format \in Formats : \A i \in DOMAIN writes' : writes'[i].file # <<n, format>>
        BY <3>1, <3>4
      <4>4. \A format \in Formats : Becomes(<<n, format>>, c)'
        BY <2>1, <4>2, <4>3 DEF Becomes
      <4>. QED  BY <4>4
    <3>5. ASSUME NEW n \in last'.wrote
          PROVE  \E c \in Output : \A format \in Formats : Becomes(<<n, format>>, c)'
      <4>1. CASE n = stage
        BY <3>3, <4>1
      <4>2. CASE n # stage
        BY <3>2, <3>4, <4>2
      <4>. QED  BY <4>1, <4>2
    <3>. QED  BY <3>5 DEF TwinsInv
  <2>. QED  BY <1>3, <2>2, <2>3, EndStageFacts
<1>4. CASE WriteNext
  <2>1. UNCHANGED <<pc, last>>
    BY <1>4, WriteNextFacts
  <2>. SUFFICES ASSUME Alive', NEW n \in last'.wrote
                PROVE  \E content \in Output : \A format \in Formats : Becomes(<<n, format>>, content)'
    BY DEF TwinsInv
  <2>2. PICK content \in Output : \A format \in Formats : Becomes(<<n, format>>, content)
    BY <2>1 DEF TwinsInv, Alive
  <2>3. n \in Names
    BY <2>1 DEF FetchTypes
  <2>4. \A format \in Formats : <<n, format>> \in Outputs
    BY <2>3 DEF Outputs, Names, Formats
  <2>5. \A format \in Formats : Becomes(<<n, format>>, content)'
    BY <1>4, <2>2, <2>4, WriteNextBecomes
  <2>. QED  BY <2>5
<1>5. CASE Written
  <2>1. UNCHANGED <<writes, outputs, last>> /\ Alive
    BY <1>5, WrittenFacts DEF Alive
  <2>. QED  BY <2>1, QuietTwins
<1>6. CASE AlignDates
  <2>1. pc = "align" /\ outputs' = outputs /\ writes = << >> /\ Alive
    BY <1>6, AlignCases DEF WritesInv, Alive
  <2>2. CASE UNCHANGED <<writes, last>>
    BY <2>1, <2>2, QuietTwins
  <2>3. CASE pc' = "idle" /\ last' = [last EXCEPT !.outcome = "died"] /\ UNCHANGED writes
    BY <2>1, <2>3, Ended, QuietTwins
  <2>4. CASE pc' = "write"
    <3>1. PICK shared \in SUBSET Dates :
            /\ last' = [last EXCEPT !.aligned = TRUE]
            /\ \A n \in Names, format \in Formats :
                 outputs[<<n, format>>] # Absent =>
                   \E i \in DOMAIN writes' : writes'[i] = Aligned(n, format, shared)
      BY <1>6, <2>4, AlignEffect
    <3>. SUFFICES ASSUME NEW n \in last'.wrote
                  PROVE  \E c \in Output : \A format \in Formats : Becomes(<<n, format>>, c)'
      BY DEF TwinsInv
    <3>2. n \in last.wrote /\ n \in Names
      BY <3>1 DEF FetchTypes
    <3>3. PICK c \in Output : \A format \in Formats : Becomes(<<n, format>>, c)
      BY <2>1, <3>2 DEF TwinsInv
    <3>4. \A format \in Formats : outputs[<<n, format>>] = c
      BY <2>1, <3>3, NothingLeft
    <3>5. \A format \in Formats : outputs[<<n, format>>] # Absent
      BY <3>4, OutputIsWhole
    <3>6. On(c, shared) \in Output
      BY OnFacts
    <3>7. \A format \in Formats : Aligned(n, format, shared).file = <<n, format>>
                                  /\ Aligned(n, format, shared).content = On(c, shared)
      BY <3>4 DEF Aligned, Formats
    <3>8. ASSUME NEW format \in Formats PROVE Becomes(<<n, format>>, On(c, shared))'
      <4>1. PICK i \in DOMAIN writes' : writes'[i] = Aligned(n, format, shared)
        BY <3>1, <3>2, <3>5
      <4>2. writes'[i].file = <<n, format>> /\ writes'[i].content = On(c, shared)
        BY <3>7, <4>1
      <4>. QED  BY <4>2 DEF Becomes
    <3>. QED  BY <3>6, <3>8
  <2>. QED  BY <1>6, <2>2, <2>3, <2>4, AlignCases
<1>7. CASE Done
  <2>1. pc = "end" /\ last' = [last EXCEPT !.outcome = "done"] /\ UNCHANGED <<writes, outputs>>
    BY <1>7 DEF Done
  <2>2. last'.wrote = last.wrote /\ Alive
    BY <2>1 DEF FetchTypes, Alive
  <2>. QED  BY <2>1, <2>2, QuietTwins
<1>8. CASE Kill
  <2>1. ~ Alive'
    BY <1>8, KillFacts, Ended
  <2>. QED  BY <2>1 DEF TwinsInv
<1>9. CASE UNCHANGED vars
  <2>1. UNCHANGED <<writes, outputs, last, pc>>
    BY <1>9 DEF vars
  <2>. QED  BY <2>1, QuietTwins DEF Alive
<1>. QED  BY Steps, <1>1, <1>2, <1>3, <1>4, <1>5, <1>6, <1>7, <1>8, <1>9

-----------------------------------------------------------------------------
(* The shared dates.                                                       *)

\* What an aligned run promises of every output.
WillShare(shared) ==
  \A o \in Outputs :
    \/ Becomes(o, Absent)
    \/ \E content \in Output : Becomes(o, content) /\ DatesOf(content.rows) = shared

LEMMA QuietAlign ==
  ASSUME AlignInv, last.aligned, Alive' => Alive, UNCHANGED <<writes, outputs>>
  PROVE  Alive' => \E shared \in SUBSET Dates : WillShare(shared)'
<1>. SUFFICES ASSUME Alive' PROVE \E shared \in SUBSET Dates : WillShare(shared)'
  OBVIOUS
<1>1. PICK shared \in SUBSET Dates : WillShare(shared)
  BY DEF AlignInv, WillShare
<1>2. WillShare(shared)'
  BY <1>1, SameBecomes DEF WillShare
<1>. QED  BY <1>2

\* Cutting an output to dates it has leaves those dates.
LEMMA OnDates ==
  ASSUME NEW content \in Output, NEW D \in SUBSET DatesOf(content.rows)
  PROVE  DatesOf(On(content, D).rows) = D
<1>1. On(content, D).rows = {r \in content.rows : r.date \in D}
  BY OnFacts
<1>. QED  BY <1>1 DEF DatesOf

LEMMA AlignWrites ==
  ASSUME FetchTypes, AlignDates, writes = << >>, pc' = "write", outputs' = outputs
  PROVE  last'.aligned /\ \E shared \in SUBSET Dates : WillShare(shared)'
<1>1. PICK shared \in SUBSET Dates :
        /\ shared = DatesOf(Stocks.rows) \cap DatesOf(Options.rows)
        /\ Stocks \in Output /\ Options \in Output
        /\ last' = [last EXCEPT !.aligned = TRUE]
        /\ \A i \in DOMAIN writes' : \E n \in Names, format \in Formats :
             outputs[<<n, format>>] # Absent /\ writes'[i] = Aligned(n, format, shared)
        /\ \A n \in Names, format \in Formats :
             outputs[<<n, format>>] # Absent =>
               \E i \in DOMAIN writes' : writes'[i] = Aligned(n, format, shared)
  BY AlignEffect
<1>2. ASSUME NEW n \in Names
      PROVE  On(outputs[<<n, "csv">>], shared) \in Output
             /\ DatesOf(On(outputs[<<n, "csv">>], shared).rows) = shared
  <2>1. On(Stocks, shared) \in Output /\ DatesOf(On(Stocks, shared).rows) = shared
    BY <1>1, OnFacts, OnDates
  <2>2. On(Options, shared) \in Output /\ DatesOf(On(Options, shared).rows) = shared
    BY <1>1, OnFacts, OnDates
  <2>. QED  BY <2>1, <2>2 DEF Stocks, Options, Names
<1>3. ASSUME NEW n \in Names, NEW format \in Formats
      PROVE  \/ Becomes(<<n, format>>, Absent)'
             \/ \E content \in Output :
                  Becomes(<<n, format>>, content)' /\ DatesOf(content.rows) = shared
  <2>1. \A m \in Names, g \in Formats :
          /\ Aligned(m, g, shared).file = <<m, g>>
          /\ Aligned(m, g, shared).content = On(outputs[<<m, "csv">>], shared)
    BY DEF Aligned
  <2>2. CASE outputs[<<n, format>>] = Absent
    <3>1. ASSUME NEW i \in DOMAIN writes' PROVE writes'[i].file # <<n, format>>
      <4>1. PICK m \in Names, g \in Formats :
              outputs[<<m, g>>] # Absent /\ writes'[i] = Aligned(m, g, shared)
        BY <1>1
      <4>2. writes'[i].file = <<m, g>>
        BY <2>1, <4>1
      <4>. QED  BY <2>2, <4>1, <4>2
    <3>. QED  BY <2>2, <3>1 DEF Becomes
  <2>3. CASE outputs[<<n, format>>] # Absent
    <3>1. PICK i \in DOMAIN writes' : writes'[i] = Aligned(n, format, shared)
      BY <1>1, <2>3
    <3>2. /\ writes'[i].file = <<n, format>>
          /\ writes'[i].content = On(outputs[<<n, "csv">>], shared)
      BY <2>1, <3>1
    <3>3. Becomes(<<n, format>>, On(outputs[<<n, "csv">>], shared))'
      BY <3>2 DEF Becomes
    <3>. QED  BY <1>2, <3>3
  <2>. QED  BY <2>2, <2>3
<1>4. \A o \in Outputs : \E n \in Names, format \in Formats : o = <<n, format>>
  BY DEF Outputs, Names, Formats
<1>5. WillShare(shared)'
  BY <1>3, <1>4 DEF WillShare
<1>6. last'.aligned
  BY <1>1 DEF FetchTypes
<1>. QED  BY <1>5, <1>6

LEMMA AlignKept ==
  ASSUME FetchTypes, PlaceInv, WritesInv, AlignInv, [Next]_vars PROVE AlignInv'
<1>0. /\ last.aligned => pc \in {"write", "end", "idle"} /\ stage = "align"
      /\ Alive /\ last.aligned => \E shared \in SUBSET Dates : WillShare(shared)
  BY DEF AlignInv, WillShare
<1>. SUFFICES /\ last'.aligned => pc' \in {"write", "end", "idle"} /\ stage' = "align"
              /\ Alive' /\ last'.aligned => \E shared \in SUBSET Dates : WillShare(shared)'
  BY DEF AlignInv, WillShare
<1>1. CASE Main
  <2>1. ~ last'.aligned
    BY <1>1 DEF Main, Idle
  <2>. QED  BY <2>1
<1>2. CASE BeginSymbol \/ DownloadOptions \/ DownloadUnderlying \/ FetchYfinance
  <2>1. ~ last.aligned
    BY <1>0, <1>2, FetchingFacts DEF Fetching
  <2>2. last'.aligned = last.aligned
    BY <1>2, FetchingFacts, Ended
  <2>. QED  BY <2>1, <2>2
<1>3. CASE EndStage
  <2>1. pc = "symbol" /\ ~ last.aligned
    BY <1>0, <1>3, EndStageFacts
  <2>2. last'.aligned = last.aligned
    <3>1. last' = last \/ last' = [last EXCEPT !.wrote = @ \cup {stage}]
      BY <1>3, EndStageFacts
    <3>. QED  BY <3>1 DEF FetchTypes
  <2>. QED  BY <2>1, <2>2
<1>4. CASE WriteNext
  <2>1. UNCHANGED <<pc, stage, last>>
    BY <1>4, WriteNextFacts
  <2>2. ASSUME Alive', last'.aligned PROVE \E shared \in SUBSET Dates : WillShare(shared)'
    <3>1. PICK shared \in SUBSET Dates : WillShare(shared)
      BY <1>0, <2>1, <2>2 DEF Alive
    <3>2. WillShare(shared)'
      BY <1>4, <3>1, WriteNextBecomes DEF WillShare
    <3>. QED  BY <3>2
  <2>. QED  BY <1>0, <2>1, <2>2
<1>5. CASE Written
  <2>1. /\ pc = "write" /\ UNCHANGED <<writes, outputs, last>> /\ Alive
        /\ \/ stage' = "align" /\ pc' = "end"
           \/ stage \in Names
    BY <1>5, WrittenFacts DEF Alive
  <2>2. last.aligned => (Alive' => \E shared \in SUBSET Dates : WillShare(shared)')
    BY <2>1, QuietAlign
  <2>. QED  BY <1>0, <2>1, <2>2 DEF Names
<1>6. CASE AlignDates
  <2>1. /\ pc = "align" /\ stage' = "align" /\ outputs' = outputs /\ writes = << >>
        /\ ~ last.aligned
    BY <1>0, <1>6, AlignCases DEF WritesInv, Alive
  <2>2. CASE UNCHANGED last
    BY <2>1, <2>2
  <2>3. CASE pc' = "idle" /\ last' = [last EXCEPT !.outcome = "died"]
    BY <2>1, <2>3, Ended
  <2>4. CASE pc' = "write"
    BY <1>6, <2>1, <2>4, AlignWrites
  <2>. QED  BY <1>6, <2>2, <2>3, <2>4, AlignCases
<1>7. CASE Done
  <2>1. /\ pc = "end" /\ pc' = "idle" /\ last' = [last EXCEPT !.outcome = "done"]
        /\ UNCHANGED <<writes, outputs, stage>>
    BY <1>7 DEF Done
  <2>2. last'.aligned = last.aligned /\ Alive
    BY <2>1 DEF FetchTypes, Alive
  <2>3. last.aligned => (Alive' => \E shared \in SUBSET Dates : WillShare(shared)')
    BY <2>1, <2>2, QuietAlign
  <2>. QED  BY <1>0, <2>1, <2>2, <2>3
<1>8. CASE Kill
  <2>1. pc' = "idle" /\ ~ Alive' /\ last'.aligned = last.aligned /\ stage' = stage
    BY <1>8, KillFacts, Ended
  <2>. QED  BY <1>0, <2>1
<1>9. CASE UNCHANGED vars
  <2>1. UNCHANGED <<writes, outputs, last, pc, stage>>
    BY <1>9 DEF vars
  <2>2. last.aligned => (Alive' => \E shared \in SUBSET Dates : WillShare(shared)')
    BY <2>1, QuietAlign DEF Alive
  <2>. QED  BY <1>0, <2>1, <2>2
<1>. QED  BY Steps, <1>1, <1>2, <1>3, <1>4, <1>5, <1>6, <1>7, <1>8, <1>9

-----------------------------------------------------------------------------
(* Deaths and faults.                                                      *)

LEMMA DeathKept ==
  ASSUME FetchTypes, PlaceInv, DeathInv, [Next]_vars PROVE DeathInv'
<1>1. CASE Main
  BY <1>1 DEF Main, Idle, DeathInv
<1>2. CASE BeginSymbol \/ DownloadOptions \/ DownloadUnderlying \/ FetchYfinance
  <2>1. pc # "idle" /\ last.read = Absent
    BY <1>2, FetchingFacts DEF DeathInv, Fetching
  <2>2. CASE pc' \in Fetching /\ last' = last
    BY <2>1, <2>2 DEF DeathInv, Fetching
  <2>3. CASE \E f \in Files : /\ last' = [last EXCEPT !.outcome = "died", !.read = f]
                              /\ cache'[f] = Partial
    <3>1. PICK f \in Files : /\ last' = [last EXCEPT !.outcome = "died", !.read = f]
                             /\ cache'[f] = Partial
      BY <2>3
    <3>2. last'.read = f
      BY <3>1 DEF FetchTypes
    <3>3. pc' = "idle"
      <4>1. \/ pc' \in Fetching /\ last' = last
            \/ pc' = "idle"
        BY <1>2, FetchingFacts
      <4>2. last' # last
        BY <2>1, <3>2, FileAssumption
      <4>. QED  BY <4>1, <4>2
    <3>. QED  BY <3>1, <3>2, <3>3 DEF DeathInv
  <2>. QED  BY <1>2, <2>2, <2>3, FetchingFacts
<1>3. CASE EndStage
  <2>1. pc = "symbol" /\ last.read = Absent
    BY <1>3, EndStageFacts DEF DeathInv
  <2>2. last' = last \/ last' = [last EXCEPT !.wrote = @ \cup {stage}]
    BY <1>3, EndStageFacts
  <2>3. last'.read = Absent
    BY <2>1, <2>2 DEF FetchTypes
  <2>. QED  BY <2>3 DEF DeathInv
<1>4. CASE WriteNext
  BY <1>4, WriteNextFacts DEF DeathInv
<1>5. CASE Written
  BY <1>5, WrittenFacts DEF DeathInv
<1>6. CASE AlignDates
  <2>1. last.read = Absent
    BY <1>6, AlignCases DEF DeathInv
  <2>2. \/ last' = last
        \/ last' = [last EXCEPT !.outcome = "died"]
        \/ last' = [last EXCEPT !.aligned = TRUE]
    BY <1>6, AlignCases, AlignEffect
  <2>3. last'.read = Absent
    BY <2>1, <2>2 DEF FetchTypes
  <2>. QED  BY <2>3 DEF DeathInv
<1>7. CASE Done
  <2>1. pc = "end" /\ last' = [last EXCEPT !.outcome = "done"]
    BY <1>7 DEF Done
  <2>2. last'.read = Absent
    BY <2>1 DEF FetchTypes, DeathInv
  <2>. QED  BY <2>2 DEF DeathInv
<1>8. CASE Kill
  <2>1. pc # "idle" /\ last' = [last EXCEPT !.outcome = "killed"]
    BY <1>8 DEF Kill
  <2>2. last'.read = Absent
    BY <2>1 DEF FetchTypes, DeathInv
  <2>. QED  BY <2>2 DEF DeathInv
<1>9. CASE UNCHANGED vars
  BY <1>9 DEF vars, DeathInv
<1>. QED  BY Steps, <1>1, <1>2, <1>3, <1>4, <1>5, <1>6, <1>7, <1>8, <1>9

LEMMA FaultsKept ==
  ASSUME FaultsInv, [Next]_vars PROVE FaultsInv'
<1>1. MaxFaults \in Nat
  BY FetchAssumption
<1>2. ASSUME NEW f, NEW d \in Downloads(f)
      PROVE  d.fault = 0 \/ (d.fault = 1 /\ faults < MaxFaults)
  BY DEF Downloads
<1>3. CASE DownloadOptions
  <2>1. PICK d \in Downloads(Head(sources)) : faults' = faults + d.fault
    BY <1>3 DEF DownloadOptions
  <2>. QED  BY <1>1, <1>2, <2>1 DEF FaultsInv
<1>4. CASE DownloadUnderlying
  <2>1. PICK d \in Downloads(Head(sources)) : faults' = faults + d.fault
    BY <1>4 DEF DownloadUnderlying
  <2>. QED  BY <1>1, <1>2, <2>1 DEF FaultsInv
<1>5. CASE Kill
  BY <1>1, <1>5 DEF Kill, FaultsInv
<1>6. CASE UNCHANGED faults
  BY <1>6 DEF FaultsInv
<1>7. Main \/ BeginSymbol \/ FetchYfinance \/ EndStage \/ WriteNext \/ Written \/ AlignDates
        \/ Done \/ UNCHANGED vars => UNCHANGED faults
  BY DEF Main, BeginSymbol, FetchYfinance, EndStage, WriteNext, Written, AlignDates, Done, vars
<1>. QED  BY Steps, <1>3, <1>4, <1>5, <1>6, <1>7

-----------------------------------------------------------------------------
(* The theorems.                                                           *)

LEMMA InitFetchInv == Init => FetchInv
<1>. SUFFICES ASSUME Init PROVE FetchInv
  OBVIOUS
<1>1. FetchTypes /\ PlaceInv
  BY InitTypes
<1>2. /\ pc = "idle" /\ writes = << >> /\ stage = "none" /\ last = Idle
      /\ outputs = [o \in Outputs |-> Absent] /\ faults = 0
  BY DEF Init
<1>3. last.wrote = {} /\ ~ last.aligned /\ last.outcome = "none" /\ last.read = Absent
  BY <1>2 DEF Idle
<1>4. \A format \in Formats : ~ Whole(outputs[<<"options", format>>])
  BY <1>2 DEF Outputs, Formats, Whole
<1>5. WritesInv
  BY <1>2 DEF WritesInv
<1>6. PinInv
  BY <1>2, <1>4 DEF PinInv
<1>7. TwinsInv /\ AlignInv /\ DeathInv
  BY <1>2, <1>3 DEF TwinsInv, AlignInv, DeathInv, Alive
<1>8. FaultsInv
  BY <1>2, FetchAssumption DEF FaultsInv
<1>. QED  BY <1>1, <1>5, <1>6, <1>7, <1>8 DEF FetchInv

LEMMA NextFetchInv == FetchInv /\ [Next]_vars => FetchInv'
<1>. SUFFICES ASSUME FetchInv, [Next]_vars PROVE FetchInv'
  OBVIOUS
<1>1. FetchTypes' /\ PlaceInv'
  BY NextTypes DEF FetchInv
<1>2. WritesInv'
  BY WritesKept DEF FetchInv
<1>3. PinInv'
  BY PinKept DEF FetchInv
<1>4. TwinsInv'
  BY TwinsKept DEF FetchInv
<1>5. AlignInv'
  BY AlignKept DEF FetchInv
<1>6. DeathInv' /\ FaultsInv'
  BY DeathKept, FaultsKept DEF FetchInv
<1>. QED  BY <1>1, <1>2, <1>3, <1>4, <1>5, <1>6 DEF FetchInv

\* The inductive invariant the four theorems rest on.
THEOREM FetchInvariant == Spec => []FetchInv
BY InitFetchInv, NextFetchInv, PTL DEF Spec

\* Files hold dates, a run finds what it reads, and the faults are bounded.
THEOREM FetchTyped == Spec => []FetchTypeOK
<1>1. ASSUME FetchInv PROVE FetchTypeOK
  <2>1. \A f \in Files : cache[f] \in {Absent, Partial} \/ cache[f] \subseteq Dates
    BY <1>1 DEF FetchInv, FetchTypes
  <2>2. ASSUME NEW o \in Outputs, Whole(outputs[o]) PROVE DatesOf(outputs[o].rows) \subseteq Dates
    <3>1. outputs[o] \in Output
      BY <1>1, <2>2 DEF FetchInv, FetchTypes, Whole
    <3>. QED  BY <3>1 DEF Output, Rows, DatesOf
  <2>. QED  BY <1>1, <2>1, <2>2 DEF FetchInv, PlaceInv, FaultsInv, FetchTypeOK
<1>. QED  BY <1>1, FetchInvariant, PTL

\* Option rows of the fallback are only in outputs whose run asked for it, whatever
\* an earlier run, a failure or a kill left in the cache (download_options_parquet).
THEOREM RowsPinned == Spec => []OptionRowsPinned
<1>1. FetchInv => OptionRowsPinned
  BY DEF FetchInv, PinInv, Pinned, Formats, OptionRowsPinned
<1>. QED  BY <1>1, FetchInvariant, PTL

\* When a run ends by itself, the CSV and the parquet of what it wrote are one
\* content (fetch_options, fetch_stocks and align_dates).
THEOREM TwinsAgree == Spec => []WrittenTwinsAgree
<1>1. ASSUME FetchInv, Completed, NEW n \in last.wrote
      PROVE  Twins(n) /\ Whole(outputs[<<n, "csv">>])
  <2>1. Alive /\ writes = << >>
    BY <1>1 DEF FetchInv, WritesInv, Completed, Alive
  <2>2. PICK content \in Output : \A format \in Formats : Becomes(<<n, format>>, content)
    BY <1>1, <2>1 DEF FetchInv, TwinsInv
  <2>3. \A format \in Formats : outputs[<<n, format>>] = content
    BY <2>1, <2>2, NothingLeft
  <2>4. Whole(content)
    BY OutputIsWhole
  <2>. QED  BY <2>3, <2>4 DEF Formats, Twins
<1>2. FetchInv => WrittenTwinsAgree
  BY <1>1 DEF WrittenTwinsAgree
<1>. QED  BY <1>2, FetchInvariant, PTL

\* When a run that aligned ends by itself, every output that exists is whole and
\* they all have the same dates, in either format (align_dates).
THEOREM AlignedAlike == Spec => []AlignedInEveryFormat
<1>1. ASSUME FetchInv, Completed, last.aligned
      PROVE  \A a, b \in Outputs :
               outputs[a] # Absent /\ outputs[b] # Absent =>
                 Whole(outputs[a]) /\ DatesOf(outputs[a].rows) = DatesOf(outputs[b].rows)
  <2>1. Alive /\ writes = << >>
    BY <1>1 DEF FetchInv, WritesInv, Completed, Alive
  <2>2. PICK shared \in SUBSET Dates : WillShare(shared)
    BY <1>1, <2>1 DEF FetchInv, AlignInv, WillShare
  <2>3. ASSUME NEW o \in Outputs, outputs[o] # Absent
        PROVE  Whole(outputs[o]) /\ DatesOf(outputs[o].rows) = shared
    <3>1. ~ Becomes(o, Absent)
      BY <2>1, <2>3, NothingLeft
    <3>2. PICK content \in Output : Becomes(o, content) /\ DatesOf(content.rows) = shared
      BY <2>2, <3>1 DEF WillShare
    <3>3. outputs[o] = content
      BY <2>1, <3>2, NothingLeft
    <3>. QED  BY <3>2, <3>3, OutputIsWhole
  <2>. QED  BY <2>3
<1>2. FetchInv => AlignedInEveryFormat
  BY <1>1 DEF AlignedInEveryFormat
<1>. QED  BY <1>2, FetchInvariant, PTL

\* A run that dies reading a canonical file is explained by verify_local_assets: the
\* file was cut short by a kill, and is still so.
THEOREM DeathExplained == Spec => []VerifyExplainsDeath
<1>1. ASSUME FetchInv, pc = "idle", last.outcome = "died", last.read \in CanonicalFiles
      PROVE  VerifyLocalAssets = 1
  <2>1. last.read \in Files
    BY <1>1 DEF CanonicalFiles
  <2>2. cache[last.read] = Partial
    BY <1>1, <2>1, FileAssumption DEF FetchInv, DeathInv
  <2>3. net[last.read] \in {Absent} \cup SUBSET Dates
    BY <1>1, <2>1, FileAssumption DEF FetchInv, FetchTypes
  <2>4. cache[last.read] \notin {Absent, net[last.read]}
    BY <2>2, <2>3, FileAssumption
  <2>. QED  BY <1>1, <2>4 DEF VerifyLocalAssets
<1>2. FetchInv => VerifyExplainsDeath
  BY <1>1 DEF VerifyExplainsDeath
<1>. QED  BY <1>2, FetchInvariant, PTL
=============================================================================
