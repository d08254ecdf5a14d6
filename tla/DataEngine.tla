----------------------------- MODULE DataEngine -----------------------------
(***************************************************************************)
(* HistoricalDataEngine.ingest with its providers, the quality gate, the   *)
(* file store and the snapshot registry; any number of ingestions may run  *)
(* at once (the registry is shared between threads).  A series is a        *)
(* sequence of rows in the order of their days; a price is abstracted to   *)
(* what the checks tell apart.  Both corporate-action fetches are stubs    *)
(* that answer nothing.                                                    *)
(***************************************************************************)
EXTENDS Sums

CONSTANTS
  LastDay,        \* the range asked for is days 1..LastDay
  Calls,          \* what ingest is called with: a symbol list and a use of force
  MaxRuns,        \* bound: ingestions started
  MaxForced,      \* bound: ingestions started with force
  MaxMishaps      \* bound: failed writes, failed answers and process deaths

(* An ingestion asks for some symbols, none of them twice.                 *)
AskedSymbols == UNION {ToSet(call.asked) : call \in Calls}
ASSUME CallsAssumption ==
  /\ LastDay \in Nat
  /\ Calls \subseteq [asked : Seq(AskedSymbols) \ {<<>>}, force : {"no", "no reason", "reason"}]
  /\ \A call \in Calls : IsInjective(call.asked)

Days == 1..LastDay

(* "even" and "spike" are good rows whose closes lie more than             *)
(* max_price_jump_pct apart; "broken" has low > high, open or close        *)
(* outside them, or a price that is not positive.  Levels are relative, so *)
(* the first row of a series is never the "spike".                         *)
Quote == {"even", "spike", "broken"}

VARIABLES
  runs,        \* the ingestions so far: the registry's row and the thread's locals
  files,       \* run -> symbol -> the series file of that snapshot, if any
  snapshots,   \* the registered snapshots, oldest first
  mishaps

ingestVars == <<runs, files, snapshots, mishaps>>

None == 0
RunIds == 1..Len(runs)

IngestInit ==
  /\ runs = <<>>
  /\ files = <<>>
  /\ snapshots = <<>>
  /\ mishaps = 0

Mishap ==
  /\ mishaps < MaxMishaps
  /\ mishaps' = mishaps + 1

(* The rows of a provider that found rows[d] for day d.                    *)
Series(rows) ==
  FlattenSeq([d \in Days |-> [k \in DOMAIN rows[d] |-> [day |-> d, quote |-> rows[d][k]]]])

Normal(answers) == {bars \in answers : bars = <<>> \/ bars[1].quote # "spike"}

(* NSE publishes one archive per day: a day that cannot be fetched is      *)
(* skipped, and a symbol traded in two series has two rows that day.       *)
NseDay == {<<>>, <<"even", "even">>} \cup {<<p>> : p \in Quote}
NseAnswers == Normal({Series(rows) : rows \in [Days -> NseDay]})

(* Kite answers with candles, malformed ones dropped; a failed request     *)
(* counts as no rows.                                                      *)
KiteAnswers == Normal({Series(rows) : rows \in [Days -> {<<>>} \cup {<<p>> : p \in Quote}]})

(* The first provider with rows wins.                                      *)
Fetched == (NseAnswers \ {<<>>}) \cup KiteAnswers
CorporateActionDays == {}

(* The checks whose findings are critical.                                 *)
CheckNoData(bars) == bars = <<>>
CheckOhlc(bars) == \E k \in DOMAIN bars : bars[k].quote = "broken"
CheckDuplicates(bars) == \E j, k \in DOMAIN bars : j # k /\ bars[j].day = bars[k].day
CheckPriceJump(bars, actionDays) ==
  \E k \in 2..Len(bars) :
    /\ {bars[k - 1].quote, bars[k].quote} = {"even", "spike"}
    /\ bars[k].day \notin actionDays

HasCritical(bars) ==
  \/ CheckNoData(bars)
  \/ CheckOhlc(bars)
  \/ CheckDuplicates(bars)
  \/ CheckPriceJump(bars, CorporateActionDays)

StartRun(call) ==
  /\ Len(runs) < MaxRuns
  /\ call.force = "no" \/ Cardinality({i \in RunIds : runs[i].force # "no"}) < MaxForced
  /\ runs' = Append(runs, [asked |-> call.asked, force |-> call.force, pos |-> 1, step |-> "fetch",
                           bars |-> <<>>, rows |-> 0, created |-> 0,
                           outcome |-> "succeeded", status |-> "running"])
  /\ files' = Append(files, <<>>)
  /\ UNCHANGED <<snapshots, mishaps>>

At(i, step) == runs[i].step = step
Asking(i) == runs[i].asked[runs[i].pos]
Goto(i, step) == runs' = [runs EXCEPT ![i].step = step]
GiveUp(i, outcome) ==
  runs' = [runs EXCEPT ![i].step = "finish", ![i].outcome = outcome, ![i].bars = <<>>]

(* A series that passes, or that the operator forces past with a reason.   *)
FetchAccepted(i) ==
  /\ At(i, "fetch")
  /\ \E bars \in Fetched :
       /\ HasCritical(bars) => runs[i].force = "reason"
       /\ runs' = [runs EXCEPT ![i].step = "ohlcv", ![i].bars = bars]
  /\ UNCHANGED <<files, snapshots, mishaps>>

(* CriticalDataQualityError ends the whole ingestion.                      *)
FetchHalted(i) ==
  /\ At(i, "fetch")
  /\ runs[i].force = "no"
  /\ \E bars \in Fetched : HasCritical(bars)
  /\ GiveUp(i, "halted_critical")
  /\ UNCHANGED <<files, snapshots, mishaps>>

(* Forced without a reason (ValueError), or Kite does not know the symbol: *)
(* SymbolResolutionError is not a DataProviderError.                       *)
FetchFailed(i) ==
  /\ At(i, "fetch")
  /\ \/ /\ runs[i].force = "no reason"
        /\ \E bars \in Fetched : HasCritical(bars)
        /\ UNCHANGED mishaps
     \/ Mishap
  /\ GiveUp(i, "failed")
  /\ UNCHANGED <<files, snapshots>>

(* The files with the series of the symbol just fetched among them.        *)
Filed(i, bars) ==
  [s \in DOMAIN files[i] \cup {Asking(i)} |-> IF s = Asking(i) THEN bars ELSE files[i][s]]

WriteOhlcv(i) ==
  /\ At(i, "ohlcv")
  /\ files' = [files EXCEPT ![i] = Filed(i, runs[i].bars)]
  /\ Goto(i, "actions")
  /\ UNCHANGED <<snapshots, mishaps>>

(* As if the error of a failed write were swallowed.                       *)
WriteOhlcvTornGoesOn(i) ==
  /\ At(i, "ohlcv")
  /\ Mishap
  /\ \E n \in 0..Len(runs[i].bars) :
       files' = [files EXCEPT ![i] = Filed(i, SubSeq(runs[i].bars, 1, n))]
  /\ Goto(i, "actions")
  /\ UNCHANGED snapshots

(* A full disk leaves the rows written before it.                          *)
WriteOhlcvTorn(i) ==
  /\ At(i, "ohlcv")
  /\ Mishap
  /\ \E n \in 0..Len(runs[i].bars) :
       files' = [files EXCEPT ![i] = Filed(i, SubSeq(runs[i].bars, 1, n))]
  /\ GiveUp(i, "failed")
  /\ UNCHANGED snapshots

(* A snapshot is created, with its time, when its last symbol is written,  *)
(* and registered afterwards: created counts the snapshots created.        *)
LastSymbol(i) == runs[i].pos = Len(runs[i].asked)
Created == Cardinality({i \in RunIds : runs[i].created > 0})

WriteActions(i) ==
  /\ At(i, "actions")
  /\ runs' = [runs EXCEPT ![i].pos = @ + 1,
                          ![i].rows = @ + Len(runs[i].bars),
                          ![i].bars = <<>>,
                          ![i].created = IF LastSymbol(i) THEN Created + 1 ELSE 0,
                          ![i].step = IF LastSymbol(i) THEN "register" ELSE "fetch"]
  /\ UNCHANGED <<files, snapshots, mishaps>>

Register(i) ==
  /\ At(i, "register")
  /\ snapshots' = Append(snapshots, [run |-> i, rows |-> runs[i].rows])
  /\ Goto(i, "finish")
  /\ UNCHANGED <<files, mishaps>>

(* The corporate-actions file or the registry cannot be written.           *)
WriteRaises(i) ==
  /\ runs[i].step \in {"actions", "register"}
  /\ Mishap
  /\ GiveUp(i, "failed")
  /\ UNCHANGED <<files, snapshots>>

FinishRun(i) ==
  /\ At(i, "finish")
  /\ runs' = [runs EXCEPT ![i].step = "over", ![i].status = runs[i].outcome]
  /\ UNCHANGED <<files, snapshots, mishaps>>

(* A failed write of "succeeded" is caught and written as "failed"; a      *)
(* failed write of any other outcome leaves the run "running".             *)
FinishRaises(i) ==
  /\ At(i, "finish")
  /\ Mishap
  /\ runs' = [runs EXCEPT ![i].outcome = "failed",
                          ![i].step = IF runs[i].outcome = "succeeded" THEN "finish" ELSE "over"]
  /\ UNCHANGED <<files, snapshots>>

Die ==
  /\ \E i \in RunIds : runs[i].step # "over"
  /\ Mishap
  /\ runs' = [i \in RunIds |-> [runs[i] EXCEPT !.step = "over", !.bars = <<>>]]
  /\ UNCHANGED <<files, snapshots>>

IngestStep(i) ==
  \/ FetchAccepted(i) \/ FetchHalted(i) \/ FetchFailed(i)
  \/ WriteOhlcv(i) \/ WriteOhlcvTorn(i) \/ WriteActions(i)
  \/ Register(i) \/ WriteRaises(i) \/ FinishRun(i) \/ FinishRaises(i)

IngestNext ==
  \/ \E call \in Calls : StartRun(call)
  \/ \E i \in RunIds : IngestStep(i)
  \/ Die

(* As if every run's files were served, registered or not.                 *)
LatestRun == Len(runs)

(* What a reader is served: of the registered snapshots, the one created   *)
(* last.                                                                   *)
Registered == {snapshots[n].run : n \in DOMAIN snapshots}
LatestSnapshot ==
  IF Registered = {} THEN None
  ELSE CHOOSE i \in Registered : \A j \in Registered : runs[j].created <= runs[i].created
GetOhlcv(id, s) == IF s \in DOMAIN files[id] THEN files[id][s] ELSE <<>>

IngestSpec == IngestInit /\ [][IngestNext]_ingestVars

-----------------------------------------------------------------------------
(* A series fit to be used, said without the checks of the quality gate:   *)
(* rows on increasing days, none broken, all at one price level.           *)
SoundSeries(bars) ==
  /\ bars # <<>>
  /\ \A j, k \in DOMAIN bars : j < k => bars[j].day < bars[k].day
  /\ \A j, k \in DOMAIN bars : bars[j].quote = bars[k].quote /\ bars[k].quote # "broken"

StoredRows(i) == Total(LAMBDA s : Len(GetOhlcv(i, s)), runs[i].asked)

(* However ingestions overlap, are halted, fail or die between any two     *)
(* writes, a snapshot that readers can be given holds a complete series of *)
(* every symbol it was asked for, and as many rows as it was registered    *)
(* with; a series unfit for use is there only because the operator forced  *)
(* it with a reason; and the audit row calls a run succeeded only if its   *)
(* snapshot can be read, halted only if it cannot.                         *)
ServedDataIsSound ==
  /\ \A n \in DOMAIN snapshots :
       LET i == snapshots[n].run IN
         /\ \A s \in ToSet(runs[i].asked) :
              /\ s \in DOMAIN files[i]
              /\ SoundSeries(files[i][s]) \/ runs[i].force = "reason"
         /\ snapshots[n].rows = StoredRows(i)
  /\ \A i \in RunIds :
       /\ runs[i].status = "succeeded" => i \in Registered
       /\ runs[i].status = "halted_critical" => i \notin Registered
=============================================================================
