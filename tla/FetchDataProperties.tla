------------------------- MODULE FetchDataProperties -------------------------
(***************************************************************************)
(* What the backtests that read the processed files rely on, whatever was  *)
(* run, killed or unreachable before.                                      *)
(***************************************************************************)
EXTENDS FetchData

\* Files hold dates, and a run is in a known place.
FetchTypeOK ==
  /\ \A f \in Files : cache[f] \in {Absent, Partial} \/ cache[f] \subseteq Dates
  /\ \A o \in Outputs : Whole(outputs[o]) => DatesOf(outputs[o].rows) \subseteq Dates
  /\ pc \in {"options", "underlying"} => sources # << >> /\ todo # << >>
  /\ faults <= MaxFaults

Completed == pc = "idle" /\ last.outcome = "done"
Twins(n) == outputs[<<n, "csv">>] = outputs[<<n, "parquet">>]

\* When a run ends by itself, the CSV and the parquet of everything it wrote
\* agree, the alignment included, whatever a killed run had left on disk.
WrittenTwinsAgree ==
  Completed => \A n \in last.wrote : Twins(n) /\ Whole(outputs[<<n, "csv">>])

\* After an "all" run that aligned, the CSVs have the same dates, and so has every
\* twin that exists: the engine's date check passes on either format. Older
\* outputs, which the run only aligned, included.
AlignedInEveryFormat ==
  Completed /\ last.aligned =>
    \A a, b \in Outputs :
      outputs[a] # Absent /\ outputs[b] # Absent =>
        /\ Whole(outputs[a])
        /\ DatesOf(outputs[a].rows) = DatesOf(outputs[b].rows)

\* Options rows come from the fallback only in an output whose run asked for
\* it, also when an earlier run that asked has left the fallback in the cache.
OptionRowsPinned ==
  \A format \in {"csv", "parquet"} :
    LET o == outputs[<<"options", format>>]
    IN  Whole(o) /\ ~o.allow => \A r \in o.rows : r.source = "release"

\* A run dies reading a raw file only if the file was cut short by a kill; for the
\* pinned release files, verify reports it.
VerifyExplainsDeath ==
  pc = "idle" /\ last.outcome = "died" /\ last.read \in CanonicalFiles => VerifyLocalAssets = 1

\* Whatever fails and whatever is left to try, a run comes to its end, or to a
\* source that never answers.
EveryRunEndsOrHangs == pc # "idle" ~> (pc = "idle" \/ []Waiting)
=============================================================================
