------------------------------ MODULE Services ------------------------------
(***************************************************************************)
(* The services around the trading path that share no state with each      *)
(* other: data ingestion with the research that reads its snapshots, the   *)
(* allocation of a contribution, the calls of a provider, the notices to   *)
(* the operator, the claims on a cycle, the file and the bundle of         *)
(* secrets, the port to Kite, the report of a backtest, the tokens of the  *)
(* symbols, the simple paper engine and the start of a process.  A         *)
(* behaviour of this module is a behaviour of one of them, the subject,    *)
(* with the others at rest.                                                *)
(***************************************************************************)
EXTENDS CandidateResearch

CONSTANTS
  Symbols, Classes, Unclassified, ClassMaps, InverseVols, Whole, Constraints,
  ClampTolerance, DriftTolerance, MaxDrawdown, Drawdowns, Portfolios, PriceLists, Existing, Contributions,
  BufferPct, FlatCost, CostPct,
  Threads, CallCost, Buckets, Rate, Capacity, MaxAttempts, MaxDelay, LastTick,
  Messages, NoMessage, MaxJobs, MaxLapses,
  Invocations, Nobody, MaxClaimAge, LastTime,
  Writers, Names, Values, NoValue, Required, MaxSets, MaxBreaks,
  References, NoReference, TagOf, OrderSize, PostAttempts, MaxOrders, MaxSlips,
  CurveValues, Gaps, MaxPoints, MinDrawdownPct, WindowDays,
  Traded, Tokens, NoToken, MaxChanges, MaxSpills,
  LifeTime, LastHour, NoBundle,
  Stocks, StockPrices, StockQuantities, InitialCash, MaxTrades,
  Environments, Sections, Defaults, Null, Installed, Layers, Exports, Credentials,
  MaxEdits, MaxStarts

ASSUME AllocationAssumption ==
  /\ Symbols \subseteq Int /\ IsFiniteSet(Symbols)
  /\ Whole \in Nat \ {0} /\ Existing \in Nat /\ InverseVols \subseteq [Symbols -> Nat]
  /\ ClampTolerance \in Nat
  /\ Constraints # {} /\ Constraints \subseteq [etf : Nat, class : Nat]
  /\ ClassMaps # {} /\ ClassMaps \subseteq [Symbols -> Classes \cup {Unclassified}]
  /\ Unclassified \notin Classes
  /\ Portfolios # {} /\ Portfolios \subseteq [Symbols -> Nat]
  /\ PriceLists \subseteq [Symbols -> Nat] /\ Contributions \subseteq Nat
  /\ BufferPct \in Nat /\ FlatCost \in Nat /\ CostPct \in Nat
ASSUME ProviderAssumption ==
  /\ CallCost \in Nat \ {0} /\ LastTick \in Nat /\ Buckets # {}
  /\ Rate \in [Buckets -> Nat \ {0}] /\ Capacity \in [Buckets -> Nat]
ASSUME EngineAssumption ==
  /\ IsFiniteSet(Stocks) /\ InitialCash \in Nat /\ StockQuantities \subseteq Nat
  /\ StockPrices \subseteq Nat /\ StockPrices # {}
ASSUME ClaimsAssumption == MaxClaimAge \in Nat /\ Nobody \notin Invocations
ASSUME ReportAssumption ==
  CurveValues \subseteq Nat \ {0} /\ Gaps \subseteq Nat \ {0} /\ WindowDays \in Nat \ {0}
ASSUME LifeTimeAssumption == LifeTime \in Nat \ {0}
ASSUME AttemptsAssumption == MaxAttempts \in Nat \ {0}
ASSUME MessageAssumption == NoMessage \notin Messages
ASSUME ReferenceAssumption == NoReference \notin References
ASSUME OrderSizeAssumption == OrderSize \in Nat \ {0}
ASSUME ConfigAssumption == "base" \in DOMAIN Installed /\ "app" \in Sections

VARIABLES
  subject,
  hard, phase, class, weights, round, maxRounds, trimmed, current, proposal,
  price, contribution, remaining, opportunities, orders,
  now, tokens, lastRefill, thread, granted,
  sending, accepted, queue, job, received, unsafe, jobs, lapses,
  clock, claim, invocation, superseded, outlived,
  file, writer, runner, stored, spoilt, sets, breaks,
  mapped, ending, port, posting, book, slips,
  curve, runningMax, worst, peak, trough, episodes, startIdx, rolled, reported,
  dump, mapping, cache, used, spilled, changes, spills,
  hour, bundle, retired, requested, cached, served,
  balance, held, ledger, quotes, sales,
  configFiles, exported, vault, process, cachedConfig, issued, edits, starts

allocationVars == <<hard, phase, class, weights, round, maxRounds, trimmed, current, proposal,
                    price, contribution, remaining, opportunities, orders>>
callVars == <<now, tokens, lastRefill, thread, granted>>
noticeVars == <<sending, accepted, queue, job, received, unsafe, jobs, lapses>>
claimVars == <<clock, claim, invocation, superseded, outlived>>
secretVars == <<file, writer, runner, stored, spoilt, sets, breaks>>
kiteVars == <<mapped, ending, port, posting, book, slips>>
reportVars == <<curve, runningMax, worst, peak, trough, episodes, startIdx, rolled, reported>>
tokenVars == <<dump, mapping, cache, used, spilled, changes, spills>>
bundleVars == <<hour, bundle, retired, requested, cached, served>>
engineVars == <<balance, held, ledger, quotes, sales>>
startVars == <<configFiles, exported, vault, process, cachedConfig, issued, edits, starts>>
vars == <<subject, researchVars, allocationVars, callVars, noticeVars, claimVars,
          secretVars, kiteVars, reportVars, tokenVars, bundleVars, engineVars, startVars>>

Allocate == INSTANCE Allocation
Provider == INSTANCE ProviderCalls
Notice == INSTANCE Notifications
Claims == INSTANCE CycleClaims
Secrets == INSTANCE SecretStore
Kite == INSTANCE KitePort
Figures == INSTANCE PerformanceReport
Resolver == INSTANCE SymbolTokens
Bundle == INSTANCE SecretBundle
Engine == INSTANCE PaperEngine
Start == INSTANCE Startup

Subjects == {"research", "allocation", "provider", "notices",
             "claims", "secrets", "kite", "figures", "tokens", "bundle", "engine", "startup"}

Init ==
  /\ subject \in Subjects
  /\ ResearchInit
  /\ Allocate!Init
  /\ Provider!Init
  /\ Notice!Init
  /\ Claims!Init
  /\ Secrets!Init
  /\ Kite!Init
  /\ Figures!Init
  /\ Resolver!Init
  /\ Bundle!Init
  /\ Engine!Init
  /\ Start!Init

ResearchMoves ==
  /\ subject = "research"
  /\ ResearchNext
  /\ UNCHANGED <<subject, allocationVars, callVars, noticeVars, claimVars, secretVars,
                 kiteVars, reportVars, tokenVars, bundleVars, engineVars, startVars>>

AllocationMoves ==
  /\ subject = "allocation"
  /\ Allocate!Next
  /\ UNCHANGED <<subject, researchVars, callVars, noticeVars, claimVars, secretVars,
                 kiteVars, reportVars, tokenVars, bundleVars, engineVars, startVars>>

ProviderMoves ==
  /\ subject = "provider"
  /\ Provider!Next
  /\ UNCHANGED <<subject, researchVars, allocationVars, noticeVars, claimVars, secretVars,
                 kiteVars, reportVars, tokenVars, bundleVars, engineVars, startVars>>

NoticeMoves ==
  /\ subject = "notices"
  /\ Notice!Next
  /\ UNCHANGED <<subject, researchVars, allocationVars, callVars, claimVars, secretVars,
                 kiteVars, reportVars, tokenVars, bundleVars, engineVars, startVars>>

ClaimsMoves ==
  /\ subject = "claims"
  /\ Claims!Next
  /\ UNCHANGED <<subject, researchVars, allocationVars, callVars, noticeVars, secretVars,
                 kiteVars, reportVars, tokenVars, bundleVars, engineVars, startVars>>

SecretsMoves ==
  /\ subject = "secrets"
  /\ Secrets!Next
  /\ UNCHANGED <<subject, researchVars, allocationVars, callVars, noticeVars, claimVars,
                 kiteVars, reportVars, tokenVars, bundleVars, engineVars, startVars>>

KiteMoves ==
  /\ subject = "kite"
  /\ Kite!Next
  /\ UNCHANGED <<subject, researchVars, allocationVars, callVars, noticeVars, claimVars,
                 secretVars, reportVars, tokenVars, bundleVars, engineVars, startVars>>

FiguresMoves ==
  /\ subject = "figures"
  /\ Figures!Next
  /\ UNCHANGED <<subject, researchVars, allocationVars, callVars, noticeVars, claimVars,
                 secretVars, kiteVars, tokenVars, bundleVars, engineVars, startVars>>

ResolverMoves ==
  /\ subject = "tokens"
  /\ Resolver!Next
  /\ UNCHANGED <<subject, researchVars, allocationVars, callVars, noticeVars, claimVars,
                 secretVars, kiteVars, reportVars, bundleVars, engineVars, startVars>>

BundleMoves ==
  /\ subject = "bundle"
  /\ Bundle!Next
  /\ UNCHANGED <<subject, researchVars, allocationVars, callVars, noticeVars, claimVars,
                 secretVars, kiteVars, reportVars, tokenVars, engineVars, startVars>>

EngineMoves ==
  /\ subject = "engine"
  /\ Engine!Next
  /\ UNCHANGED <<subject, researchVars, allocationVars, callVars, noticeVars, claimVars,
                 secretVars, kiteVars, reportVars, tokenVars, bundleVars, startVars>>

StartMoves ==
  /\ subject = "startup"
  /\ Start!Next
  /\ UNCHANGED <<subject, researchVars, allocationVars, callVars, noticeVars, claimVars,
                 secretVars, kiteVars, reportVars, tokenVars, bundleVars, engineVars>>

Next ==
  \/ ResearchMoves \/ AllocationMoves \/ ProviderMoves \/ NoticeMoves
  \/ ClaimsMoves \/ SecretsMoves \/ KiteMoves \/ FiguresMoves
  \/ ResolverMoves \/ BundleMoves \/ EngineMoves \/ StartMoves

Spec == Init /\ [][Next]_vars

-----------------------------------------------------------------------------
(* The properties of the services, each on its own behaviours: elsewhere   *)
(* the service is at rest in its initial state.                            *)

(* The optimizer's targets respect the hard caps and leave no avoidable    *)
(* cash (optimizer.py).                                                    *)
TargetsCappedAndInvested == subject = "allocation" => Allocate!TargetsCappedAndInvested

(* Orders fit the contribution and the targets (strategy.py).              *)
OrdersFit == subject = "allocation" => Allocate!OrdersFit

(* Both budgets of the limiter are kept over any stretch of time           *)
(* (rate_limiter.py).                                                      *)
BudgetsKept == subject = "provider" => Provider!BudgetsKept

(* No notice disappears unless a write fails or the retry job overlaps     *)
(* with it (telegram_notifier.py).                                         *)
NoticesAccountedFor == subject = "notices" => Notice!NoticesAccountedFor

(* Two invocations work on one cycle together only under a claim gone      *)
(* stale (persistence.py).                                                 *)
OneWorksAtATime == subject = "claims" => Claims!OneWorksAtATime

(* A stored secret stays readable unless a write was cut off or overlapped *)
(* (local_provider.py), and a rotated one is served no longer than the     *)
(* cache lives and its request took (aws_provider.py).                     *)
SecretsAreServedRight ==
  /\ subject = "secrets" => Secrets!StoredSecretsSurvive
  /\ subject = "bundle" => Bundle!RotationsTakeEffect

(* Every open order at Kite is listed under its own reference, after any   *)
(* restart (kite_tag_encoding.py, kite_broker.py).                         *)
OpenOrdersAreOurs == subject = "kite" => Kite!OpenOrdersAreOurs

(* The figures computed in one pass are those of the curve (metrics.py,    *)
(* extended_metrics.py).                                                   *)
ReportMatchesCurve == subject = "figures" => Figures!ReportMatchesCurve

(* A token in use is the one the resolver gives, unless a save was cut off *)
(* (symbol_resolver.py).                                                   *)
TokensInUseAreCurrent == subject = "tokens" => Resolver!TokensInUseAreCurrent

(* The profit of the simple engine's summary is that of its trades         *)
(* (paper_trading_engine.py).                                              *)
ProfitIsExplained == subject = "engine" => Engine!ProfitIsExplained

(* A config_version names one configuration, and a runner is up only under *)
(* a configuration and with the secrets it must have (config_manager.py,   *)
(* main.py).                                                               *)
StartsAreReproducible == subject = "startup" => Start!StartsAreReproducible
=============================================================================
