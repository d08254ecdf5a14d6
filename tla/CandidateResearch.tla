-------------------------- MODULE CandidateResearch --------------------------
(***************************************************************************)
(* PortfolioCandidateGenerator.generate with the universe optimizer and    *)
(* the screening engine it calls, beside the ingestions of DataEngine.     *)
(* No snapshot is named, so each of its three reads serves whatever        *)
(* snapshot is the latest at that moment.  Scores and the bootstrap test   *)
(* are choices: the scores depend on prices and volumes the rows leave     *)
(* out, and the bootstrap draws from an unseeded generator.                *)
(***************************************************************************)
EXTENDS DataEngine, FiniteSets

CONSTANTS
  Universe,          \* the symbols researched, the holdings included
  Holdings,
  Unknown,           \* metadata no source supplies
  Overrides,         \* the metadata file: symbol -> class and assets, for some
  MinAum,
  MinHistory,        \* min_trading_days_history
  MinObservations    \* MIN_OVERLAPPING_OBSERVATIONS

ASSUME ResearchAssumption ==
  /\ IsFiniteSet(Universe) /\ Unknown \notin {"pass", "fail"}
  /\ MinHistory \in Nat \ {0} /\ MinObservations \in Nat

VARIABLE report

NoReport == [step |-> "idle", reads |-> <<>>, passed |-> {}, ranking |-> <<>>,
             replacements |-> {}, insufficient |-> {}, begun |-> 0]

ResearchInit == IngestInit /\ report = NoReport

(* get_metadata: what no provider supplies is known from the file only.    *)
GetMetadata(s) ==
  IF s \in DOMAIN Overrides THEN Overrides[s] ELSE [class |-> Unknown, aum |-> Unknown]
AssetClass(s) == GetMetadata(s).class
Aum(s) == GetMetadata(s).aum

(* One check of the screening engine: data that is missing is never a pass. *)
CheckHistory(bars) == IF Len(bars) >= MinHistory THEN "pass" ELSE "fail"
CheckMinimum(value, minimum) ==
  IF value = Unknown THEN Unknown ELSE IF value >= minimum THEN "pass" ELSE "fail"

OverallStatus(checks) ==
  IF "fail" \in checks THEN "fail" ELSE IF Unknown \in checks THEN Unknown ELSE "pass"

Screen(s, bars) == OverallStatus({CheckHistory(bars), CheckMinimum(Aum(s), MinAum)})

(* Without a snapshot get_ohlcv raises, and the report is not made.        *)
Reading(step) ==
  /\ report.step = step
  /\ LatestSnapshot # None
  /\ UNCHANGED ingestVars
Read(next) == [report EXCEPT !.step = next, !.reads = Append(@, LatestSnapshot)]

(* optimize: the universe's series are read and screened.                  *)
ScreenUniverse ==
  /\ Reading("idle")
  /\ report' = [Read("screened") EXCEPT
       !.begun = Len(snapshots),
       !.passed = {s \in Universe : Screen(s, GetOhlcv(LatestSnapshot, s)) = "pass"}]

(* Composite scores over the symbols that passed: eight raw metrics, scored *)
(* against each other; any order can come of the prices and volumes.       *)
Rankings(passed) == SetToSeqs(passed)

(* optimize: the holdings are read again, and all that passed are ranked.  *)
ScoreUniverse ==
  /\ Reading("screened")
  /\ \E ranking \in Rankings(report.passed) :
       report' = [Read("scored") EXCEPT !.ranking = ranking]

RankOf(s) == CHOOSE k \in DOMAIN report.ranking : report.ranking[k] = s

(* An incumbent without a score or a known class has nothing to be         *)
(* compared with.                                                          *)
Comparable(h) == h \in ToSet(report.ranking) /\ AssetClass(h) # Unknown

(* Only the best of the peers that outrank it in its class is tested.      *)
Peers(h) ==
  {s \in ToSet(report.ranking) : RankOf(s) < RankOf(h) /\ AssetClass(s) = AssetClass(h)}
BestPeer(h) == CHOOSE s \in Peers(h) : \A t \in Peers(h) : RankOf(s) <= RankOf(t)

CommonDays(a, b) == {a[k].day : k \in DOMAIN a} \cap {b[k].day : k \in DOMAIN b}
Testable(candidate, incumbent) ==
  Cardinality(CommonDays(GetOhlcv(LatestSnapshot, candidate),
                         GetOhlcv(LatestSnapshot, incumbent))) > MinObservations

(* The block bootstrap of the mean difference: any of the comparisons with *)
(* enough days in common can come out in favour of the candidate.          *)
Favoured(tested) == SUBSET tested

(* The evidence is read, and each holding compared with its best peer.     *)
TestHoldings ==
  /\ Reading("scored")
  /\ LET compared == {h \in Holdings : Comparable(h) /\ Peers(h) # {}}
         testable == {h \in compared : Testable(BestPeer(h), h)}
     IN  \E favoured \in Favoured(testable) :
           report' = [Read("done") EXCEPT
             !.replacements = {<<h, BestPeer(h)>> : h \in favoured},
             !.insufficient = {h \in Holdings : ~Comparable(h)} \cup (compared \ testable)]

ResearchNext ==
  \/ IngestNext /\ UNCHANGED report
  \/ ScreenUniverse \/ ScoreUniverse \/ TestHoldings

researchVars == <<ingestVars, report>>

ResearchSpec == ResearchInit /\ [][ResearchNext]_researchVars

-----------------------------------------------------------------------------
(* A replacement is only ever recommended on evidence: the candidate is of *)
(* the incumbent's known class and was ranked from a registered snapshot,  *)
(* in which it has the history and the assets asked for; the comparison    *)
(* was made on a registered snapshot with enough common days; both series  *)
(* are sound unless forced; and ranking and comparison use two snapshots   *)
(* only if an ingestion registered one while the report was being made.    *)
ReplacementsRestOnEvidence ==
  \A pair \in report.replacements :
    LET held == pair[1]
        candidate == pair[2]
        ranked == report.reads[1]
        compared == report.reads[3]
    IN  /\ AssetClass(held) = AssetClass(candidate) /\ AssetClass(held) # Unknown
        /\ \A i \in {ranked, compared} :
             /\ i \in Registered
             /\ \A s \in {held, candidate} :
                  SoundSeries(files[i][s]) \/ runs[i].force = "reason"
        /\ Len(files[ranked][candidate]) >= MinHistory
        /\ Aum(candidate) # Unknown /\ Aum(candidate) >= MinAum
        /\ Cardinality(CommonDays(files[compared][held], files[compared][candidate]))
             > MinObservations
        /\ ranked # compared => Len(snapshots) > report.begun
=============================================================================
