# Formal models of the ETF platform

This directory holds TLA+ specifications of the ETF platform: the path an order
takes from proposal to settlement, the funding cycle that decides when to
invest, the paper session and its harnesses, the backtest, and the services
around them (data, research, allocation, rate limits, notices, claims, secrets,
the Kite port, report figures, configuration). TLC model-checks small instances of all of
them, and TLAPS proves the guarantees of the first two for every value of their
constants. Paths below are relative to `src/src/etf_platform/` unless they start
with `docs/`.

## 1. The system

| Component | State it keeps | Operations | Talks to |
|---|---|---|---|
| Order lifecycle (`execution_manager/models.py`) | ten states, one table of legal transitions | `validate_transition`, `transition_to` | everything that changes a record |
| Submission orchestrator (`orchestrator.py`) | none of its own; the record it is handed, in memory | `process_order` = verify, submit, poll, notify | state store (save), broker port |
| Reconciliation (`reconciliation.py`, `ambiguous_report.py`) | the rows it loaded and one open-orders snapshot, for the length of a pass | `reconcile`, `resolve_ambiguous_execution` | state store, broker port, operator |
| State store (`persistence.py`) | SQLite: `execution_history`, `cycle_claims` | save and load records, claim and release a cycle | orchestrator, reconciliation, callers |
| Paper broker (`paper_broker.py`, `scenarios.py`) | in-memory order book, cash | submit, status (advances the fill), open orders, purge | orchestrator, reconciliation, verification |
| Kite broker (`kite_broker.py`, `kite_status_mapping.py`, `kite_tag_encoding.py`) | tag-to-reference file and its copy in memory; orders are at Zerodha | submit, status, open orders, each behind `_call` with retry | HTTP, rate limiter, retry |
| Verification (`verification.py`, `compliance.py`) | none | approve, reduce the quantity, or reject | broker's cash, quotes |
| Paper session (`paper_trading_operations/session.py`, `event_archive.py`) | outstanding ids, counters, cycle log, archives | cycle, sweep, scheduled reconcile, purge, restart | orchestrator, reconciliation, paper broker |
| Harnesses (`stress_harness.py`, `failure_injection.py`, `disaster_recovery.py`) | the record between two calls, a verdict | restart, interim purge, disaster and verification | session parts |
| Runners (`main.py`, `paper_runner.py`, `production_runner.py`) | process lifetime | select, authenticate, reconcile before anything else, shut down | configuration, secrets, all of the above |
| Strategy engine (`strategy_engine/strategy.py`, `execution_policy/`, `state_store.py`) | one row: month, funding state, reminder sent, paused, discontinued | `run_daily_cycle`, `confirm_cycle_outcome` | Telegram, cash ledger, the pipeline that submits its proposals |
| Telegram notifier (`telegram_notifier.py`) | retry queue file, update offset | send, retry queued, poll commands | strategy engine |
| Rate limiter and retry (`data_engine/rate_limiter.py`, `common/retry.py`) | two token buckets behind a lock | acquire, retry with backoff | Kite broker, data providers |
| Data engine and data quality (`data_engine/`, `data_quality/`) | series files, snapshot registry, token cache | ingest, get_ohlcv, refresh | providers, research, backtest |
| Research (`etf_optimizer/`) | none beyond a report | screen, rank, test replacements | data engine, metadata file |
| Allocation (`portfolio_optimizer/`, `risk_management/`, `strategy.py`) | none beyond a proposal | optimize, evaluate, build orders | data, strategy engine |
| Backtesting (`backtesting/`, `cost_tax_engine/`) | cash, positions, FIFO lots, pending orders | one pass over the trading dates | strategy under test |
| Configuration and secrets (`config_manager/`, `secrets_manager/`) | files, environment, cached configuration, encrypted file, AWS bundle | load, get and set secrets | runners |
| Analytics, reporting, dashboards, importers, AI advisers | files and in-process values | computation and I/O | offline from the trading path |

`PROJECT.json` lists all of them with their sources and what is modelled of
each.

What makes it hard:

- **Crashes and lost answers.** The broker may take an order and the process
  may die, the answer may be lost, or the save of the id may fail. The rule of
  DDR-001 is that an order whose outcome is unknown is never sent again
  automatically: it becomes `AMBIGUOUS` and waits for the operator.
- **Stale copies.** `process_order` works on a record in memory;
  `reconcile` loads every row first and lists the open orders once, then
  saves whole rows one at a time while the broker goes on. The stress harness
  goes on with a record a reconciliation may have overtaken; research reads the
  latest snapshot three times while ingestions register new ones.
- **Overlap.** Two invocations (a cron run and a manual one) share the
  database; `claim_cycle` exists to keep them apart. Threads share a rate
  limiter and a snapshot registry, processes a file of secrets.
- **Retries** below the orchestrator, which cannot know that a request they
  repeat was already taken.
- **Partial failure.** A save that raises after memory changed, a series file or a
  retry queue cut off half way, an append that leaves a torn line.
- **Progress.** Nothing but later sweeps and reconciliations follows a record
  whose poll budget ran out.

What makes each component correct:

- core (orchestrator, reconciliation, store): one order per record at most;
  intent durable before the request; a row never ahead of the broker; a row's
  id is of its own order; closed rows stay closed; doubt is lifted by the
  operator only; every submission once intended settles;
- paper session and broker: the rows never claim more than the cash paid for,
  and the rebuilt portfolio is what was paid once all is settled; nothing is
  forgotten or purged before it is reconciled; a reported recovery took place;
- claims: two work on a cycle together only under a claim gone stale;
- Kite port: every order not ended at Kite is listed under its reference;
- funding cycle: no month passes for done without its orders submitted, a done
  month is not taken up again, side effects happen at most once, the operator's
  commands are obeyed, and a funded month is invested in the end;
- allocation: targets keep the hard caps and leave no avoidable cash but what the clamp
  trims, orders fit the contribution and the targets;
- data and research: what is served is sound and whole, a replacement rests on
  evidence;
- backtest: no look-ahead; money, units, lots and orders are accounted for;
- notifier, secrets, tokens: nothing is lost unless a write was cut off or two
  overlapped; rate limiter: both budgets hold over any stretch of time;
- configuration: a version names one configuration.

## 2. Modules

| Module | Role |
|---|---|
| `OrderLifecycle` | states and transition table (`models.py`) |
| `OrderExecution` | the core: orchestrator, reconciliation and state store against a broker |
| `OrderExecutionProperties` | type, safety, action and liveness properties; refinement mapping |
| `SubmissionContract` | abstract specification: what DDR-001 promises of each order |
| `MCOrderExecution` | instances of the core for TLC |
| `OrderExecutionProofs` | type correctness; what a row may say of its order, and whose order it is; the submission guarantees; the core implements the contract |
| `FundingCycle`, `FundingCycleProperties` | the strategy engine's daily run, its policies and its state row, with the pipeline, the calendar, the cash and the operator around it |
| `FundingCycleProofs` | its type correctness and its four safety properties |
| `PaperSession` | the paper session: orchestrator, reconciliation, sweep, paper broker with cash, purge, archives, one process |
| `SessionHarnesses` | the stress harness and the recovery drill, over the steps of `PaperSession` |
| `Bookkeeping` | reports and the rebuilt portfolio, as operators over a session's state |
| `PaperSessionProperties` | properties of all three programs; `SubmissionContract` again, as a refinement |
| `PaperSessionProofs` | their common invariant, the refinement and five safety properties |
| `Backtest`, `BacktestProperties`, `MCBacktest` | the day loop with portfolio, fills, costs and lots |
| `BacktestProofs` | type correctness and its four safety properties |
| `Sums`, `SumLemmas` | sums over sets and sequences, what they do when an element joins, leaves or changes; sequences laid end to end |
| `DataEngine` | concurrent ingestions: fallback, quality gate, files, registry |
| `CandidateResearch` | screening, ranking and replacement tests, beside the ingestions (extends `DataEngine`) |
| `Allocation` | capping loop, proposal, risk events, orders of a contribution |
| `ProviderCalls` | threads, token buckets and retries |
| `Notifications` | send, retry file, retry job |
| `CycleClaims` | the claims table with SQLite's transactions |
| `SecretStore`, `SecretBundle` | the encrypted file, the cached bundle at AWS |
| `KitePort` | tag file, order request with retries, status mapping, open orders |
| `PerformanceReport` | drawdowns, episodes and rolling windows in one pass |
| `SymbolTokens` | the token of each symbol over dumps, cache and restarts |
| `PaperEngine` | the simple paper engine |
| `Startup` | configuration, secrets and runners from `main.py` on |
| `Services`, `MCServices` | the thirteen modules above since `DataEngine`, each as the subject of its own behaviours |
| `ServiceProofs` | the safety properties of the claims, both secret stores, notices, Kite port, symbol tokens, starts, ingestions and research |
| `ReckoningProofs` | those of the allocation and its orders, the simple engine and the rate limiter |
| `ReportProofs` | that of the performance report |

How they compose: the core, its properties and its proofs stand alone.
`PaperSession` has the same handlers again at the grain of one process, because
it adds what the core leaves out (cash, the outstanding set, purges) and leaves
out what the core has (a broker that moves by itself, overlapping invocations);
both implement `SubmissionContract`. `CandidateResearch` extends `DataEngine`
because it reads snapshots while ingestions go on. The other services share no
state with each other, so `Services` does not interleave them: its `subject`
names the one that moves, and the state space is the sum and not the product.

### How `OrderExecution` corresponds to the code

State:

- `db` is the table `execution_history`: for every record its status, broker id
  and the quantities executed and approved. A row that does not exist is
  `NoRow`.
- An *invocation* is a process that runs the code. `pc` says where it is:
  `down` (not started, or died), `ready` (between calls), `submitting` (inside
  `broker.submit_order`, the intent saved), `acknowledged` (it returned an id,
  not saved yet), `listing` and `reconciling` (inside `reconcile`, before and
  after `get_open_orders`).
- `held` and `mem` are the record an invocation is working on and its in-memory
  copy; `loaded` is what `load_unresolved_records` returned and the loop has
  not reached; `opened` is the open-orders snapshot.
- `orders` is the broker's book. `accepted` is a history variable: every order
  the broker ever took for a record. No guard of an action of the program reads
  it; the operator's do, who sees the broker's records.

Actions, by the code they model:

- callers: `CreateProposal` (a proposal is saved before anything else),
  `TakeRecord` (`sweep_outstanding`; an over-approximation, see below), `Abandon` (poll budget spent, or
  `process_order` raised before its save; every caller drops the record);
- `process_order`: `VerifyApproved`, `VerifyRejected`, `SubmitIntent`, then the
  request with its outcomes (`SubmitAcknowledged`, `SubmitUnanswered`,
  `SubmitNotReceived`, `SubmitRefused`), the second save (`RecordPending`,
  `LoseAcknowledgement`), and `Poll`. Each step ends at a save or at a call
  that can fail;
- `reconcile`: `LoadUnresolved`, `ListOpenOrders`, then for each loaded row
  one of `ConfirmUnsubmitted`, `AdoptByReference`, `EscalateToAmbiguous`,
  `ConfirmTerminal`, `AdoptBrokerState`, `LeaveUnchanged`; `EndReconcile` is
  both the end of the loop and an exception that ends it early;
- `OperatorResolves`: `resolve_ambiguous_execution` by an operator who follows
  the report: an order found at the broker is adopted with its id and
  quantity, an order not found is released or given up;
- the broker: `PartialFill`, `Fill`, `Cancel`, `Reject`; and `Crash`.

Abstractions:

- `_do_notify`, events, alerts, timestamps and error texts change no modelled
  state and are left out. Symbols, prices and cash are reduced to `RefOf`, the
  pair (cycle_id, symbol) an order and its record share, and to a small
  quantity. All records propose the same quantity.
- The reconciliation loop visits the loaded rows in any order, and takes any
  matching open order where the code takes the first: a superset of what the
  code does.
- `TakeRecord` takes any row that is not closed, at any time. The code takes those
  its session still lists in memory, 200 of them at a sweep, and a process that dies loses the
  list; this narrower choice is in `PaperSession`. Safety is checked for the wider
  choice, and no fairness is assumed of it.
- The paper broker's `get_open_orders` returns the live order objects while
  Kite's returns copies. The model keeps copies, as on Kite, where the
  snapshot can be stale.
- A broker that does not know an id, or does not answer for it, is
  `LeaveUnchanged`.
- Sequential local steps between two accesses to shared state are one action.

### How `FundingCycle` corresponds to the code

State: `row` is the one row of `strategy_engine_state`, `NoState` before the
first save. `pc`, `mem`, `pool`, `duties` and `heard` are the locals of a run of
`run_daily_cycle`: the state it holds, whether the policy returned a pool,
`PendingSideEffects` still to perform, and the commands it polled. `open`, `due`
and `submitted` belong to the pipeline that receives the proposals. `told` and
`done` are history: what the commands of all saved runs amount to, and how often
each side effect was performed for each month.

Actions of a run, in order: `Load` (load, poll, apply the commands),
`Checkpoint` (`run_cycle` of either policy and checkpoint 1), `Perform` (the
announcement, then the reminder), and one of `ReturnWithoutOrders` (no pool, or
not a trading day), `ProposeOrders`, `NothingToBuy` (completed on the spot).
`Crash` may end a run anywhere; an exception of a port ends it the same way.
`Confirm` is `confirm_cycle_outcome`, which a caller may repeat.

Around it: `Submit`, `Fail` and `LoseResults` are the pipeline (submits the
orders of a cycle_id once, fails, or dies and forgets); `Tomorrow` is the
calendar, `CashChanges` the broker's cash, `SendCommand` and `ForgetCommand`
the operator's chat.

Abstractions and assumptions:

- A pool is there or not; `_build_buy_orders`, a pure function of prices, yields
  orders or none. `last_check_date` is written and never read.
- The run does not last past midnight, and runs do not overlap: it is
  short-lived, once a day, by the docstring of `run_daily_cycle`.
- A run polls everything the port still has, or nothing when the poll fails.
  The offset of the poll lives in the process, so what a run was given comes
  again until the port forgets it. A repeated command changes nothing.
- `cycle_id` is the pipeline's idempotency key: orders of a cycle it has
  submitted before are not submitted again. That the core keeps this promise
  for one record is `NoDuplicateSubmission`.
- `ConfirmsInTime` says whether an outcome is confirmed, or lost for good,
  before the next run. `EnumCommands` says whether the port returns `Command`
  members, as its tests' ports do, or texts, as `TelegramNotifier` does.

### How `PaperSession`, `SessionHarnesses` and `Bookkeeping` correspond to the code

State: `row` is `execution_history` as far as one session needs it (status,
whether an id was saved, final and executed quantity); `book` and `cash` are
`_orders` and `_cash` of the `PaperBrokerPort`; `outstanding`, `log` and `events`
are the session's `outstanding_execution_ids`, cycle log and events, live and
archived. `pc`, `purpose`, `todo`, `slot`, `caller`, `held`, `mem` and `calls` are
the locals of `run`, of the sweep, of `reconcile` and of `process_order`. `placed`,
`bygone`, `unsaved` and `overlap` are history and read by no guard of the
program.

Actions, in the order of a day: `Dawn` (`_restart` reopens the store and
reconciles, or nothing), `StartCycle` and `SkipCycle`, `CallAgain`, the steps of
`process_order` (`VerifyApproved`, `VerifyRejected`, `VerifyRaises`,
`SubmitIntent`, `SubmitAccepted`, `SubmitRaises`, `Poll`, `LeaveRecord`),
`FinishCycle`; `BeginSweep` to `EndSweep`; `LoadUnresolved` to `EndReconcile` for
every reconciliation, whose `purpose` says what follows; `Evening`, `Purge`,
`ArchiveEvents`, `ArchiveLog`. Every save, load, verification and poll may
raise, which is what `FailureInjectingStore` and its siblings inject. `Die` ends
the process: the next one has the same database and a new, empty broker with
its starting cash (`PaperRunner.startup`, and a lost process of the drill).

`SessionHarnesses` adds the two programs that drive these parts themselves.
`StressBegins`, `RestartBeforeCall`, `Reload`, `ReloadRaises`, `StressCallAgain`,
`Interim`, `InterimOver`, `StressEnds` are `run_stress_test`; `DrillDawn`, `Verified`,
`DrillEvening`, `Conclude` are `run_disaster_recovery_exercise` with
`_verify_recovery`. `program` says which of the three runs.

`Bookkeeping` has no state: `Category` is how `generate_report` counts a logged
cycle, `BuildPortfolio` what `PortfolioReconciliation` makes of the RECONCILED rows.

Abstractions: one symbol, one price and one fee per unit; quantity 2 so that a
partial fill exists; the poll budget of 8 is `MaxCalls`, the sweep's 200 ids in
sorted order are the first `MaxPerSweep`, the number of cycles and the cadence of purges and restarts are
choices. A record never has more than one order in the book, which is what
`ImplementsContract` checks through `placed`. `ORDER_EXPIRED` is a cancellation.

### How `Backtest` corresponds to the code

One action per step of a date: `Advance` (bars of the date, any of which may be
missing), `PayDividend` and `Split` as often as the date has corporate actions, then
`ActionsDone`; one of `WaitForBar`,
`ExpireWithoutBar`, `WaitForPrice`, `ExpireUnfilled`, `RejectUnaffordable`, `Fill`
for each pending order, `Mark` (`equity_curve_point` and the stale-price
warnings), `Decide` for each intent the strategy returns, then `DayDone`; and `Finish`. `lots` are the tax lots of
`CostTaxEngine`, consumed first in first out by `MatchSell` (`UsedUp` lots go, the
next loses the rest, the others stay) and rescaled by `SplitLots`. Prices and quantities are integers: a split is made only where the
prices of the lots divide by the ratio, so that rounding does not hide an error.
The strategy is any choice among `Intents`, the market any choice among `Bars`.

### How the services correspond to the code

- `DataEngine`: `runs` holds the registry's row and the locals of each call of
  `ingest`, `files` the series files, `snapshots` the registered snapshots. One
  action per fetch with its verdict (`FetchAccepted`, `FetchHalted`, `FetchFailed`),
  per file (`WriteOhlcv`, `WriteOhlcvTorn`, `WriteActions`, `WriteRaises`),
  `Register` and `FinishRun`. A row is a day and one of three kinds of price; the
  checks are those that decide (`CheckNoData`, `CheckOhlc`, `CheckDuplicates`,
  `CheckPriceJump`). What the two providers may answer, NSE's days with several rows
  included, is `NseAnswers` and `KiteAnswers`.
- `CandidateResearch`: the three reads of `generate` (`ScreenUniverse`,
  `ScoreUniverse`, `TestHoldings`), each of the latest snapshot of its moment.
- `Allocation`: `Optimize` and then one `CapRound` per iteration of
  `_apply_hard_caps`, `RoundsExhausted`, `FinalClamp`; `Propose` with the risk events; `StartCycle`,
  `Buy`, `PassOver`, `ReturnOrders` for `_build_buy_orders`. Weights are whole parts of `Whole`, so
  the tolerances of 1e-9 (loop, risk engine) are exact comparisons; the clamp's 1e-6 is `ClampTolerance`.
- `ProviderCalls`: `AcquireAtOnce`, or `AcquireSleeping` (holding the lock) and
  `WakeUp`; a thread may wake late.
- `Notifications`: `Send`, its requests, `Enqueue`; beside it the job
  `ReadQueue`, `RowSent`, `RowFails`, `Rewrite`, `RewriteTorn`. A request that fails
  may have delivered the message.
- `CycleClaims`: a claim is read in one statement and written in another;
  SQLite refuses the write when another transaction committed in between
  (`WriteRefused`), which is what makes the takeover of a stale claim safe.
- `SecretStore`: `SetSecret` loads the file, `Truncate` opens it for writing,
  `SaveStore` or `SaveTorn` ends it; a `ProductionRunner` reads while starting.
  `SecretBundle`: the cache with its time to live. `Request` asks AWS, `ServeRefreshed` or
  `RequestFails` is its answer, which may come late: what it brings was read at the request and is dated
  at the answer.
- `KitePort`: `AppendLine` before each order, the post with its attempts, starts that
  read the file again, and what Kite does with an order.
- `PerformanceReport`: one `Point` of the curve at a time updates the maximum,
  the episode under way and the rolling window's left index.
- `SymbolTokens`: `Refresh` compares the dump with the mapping, saves the
  cache and reports events, which a user of tokens heeds with `Resolve`. That user is the
  model's own: nothing under `src/` keeps tokens across dumps.
- `PaperEngine`: `Buy`, `Sell`, and quotes that move; quantities are positive, which the engine does
  not check.
- `Startup`: `Edit` and exports between starts; `Launch` selects a runner,
  `GetConfig` merges, versions and validates, then `BuildNotifier`, `Authenticate`,
  `ReachBroker`, `Recover`, `Shutdown`.

## 3. Runs

| Run | Instance | Question | Result |
|---|---|---|---|
| `execution` | 2 records, 3 orders, 1 invocation, quantity 3, 2 faults, rejecting broker, one request per submission | do the safety and action properties and the contract hold? | pass, 124,356 states, depth 28 |
| `liveness` | 2 records, 3 orders, 1 invocation, quantity 1, 3 faults, `FairSpec` | does every intended submission settle? | pass, 44,769 states |
| `kite_retry` | 1 record, `MaxAttempts = 2` | is a record submitted at most once behind a port that retries? | violated |
| `overlap` | 1 record, 2 invocations, no fault | is a record submitted at most once when invocations overlap? | violated |
| `rejected` | 1 record, rejecting broker, `FairSpec` | is an order rejected after its acknowledgement reconciled? | violated |
| `funding_cycle` | 2 months of 2 days, reminder on day 2, 1 command waiting, both policies, `FundingFairSpec` | do the safety properties and `DoneMonthStaysDone` hold, and is a funded month invested? | pass, 58,496 states, depth 46 |
| `funding_late` | the same, `ConfirmsInTime = FALSE` | is a month skipped when a confirmation is late? | violated |
| `funding_telegram` | the same, `EnumCommands = FALSE` | are the commands of the Telegram port obeyed? | violated |
| `paper_session` | 2 records of 2 units, cash for 2 units and their fees, 3 calls per cycle, sweeps of 1, 2 faults, all three programs, `ProgramSpec` | do the books balance, is nothing forgotten, do recoveries and settlements take place, is the contract kept? | pass, 568,854 states, depth 95 |
| `reports` | 1 record, 4 calls, 1 fault | does a report reflect the latest known truth? | violated |
| `backtest` | dates 1 to 4 with gaps up to 2, a thin and a deep bar, a symbol never traded, up to 2 dividends and splits a date, 2 orders | no look-ahead; money, units, lots and orders accounted for? | pass, 370,929 states, depth 34 |
| `services` | twelve subjects, bounds below | what each service promises | pass, 1,091,381 states, depth 37 |

Bounds and why they are enough:

- core: two records are the least in which one could adopt the other's order;
  records do not interact otherwise; three order ids for two records leave room
  for a second order of either, so the exclusion of a duplicate is the code's
  doing and not the bound's; quantity 3 gives two different partial fills
  before the last one; two faults are a lost answer and a crash of the
  invocation that would recover from it; three in the liveness run add one to
  the recovery, and its two records share the one invocation that recovers. Records and ids are interchangeable, hence the symmetry in
  `execution`; the runs that check liveness use none;
- funding: two months are one rollover, the only way months interact; two days give a
  day before the reminder and one on it; more commands arrive as the port forgets the
  older. The theorems cover any calendar and number of commands;
- paper session: two records are the least for a shared cash and for a sweep that
  could starve; the cash pays for one record and not for two, so verification on
  stale cash bites; a sweep of one does not reach the second while the first stays
  outstanding; `MaxCalls = 3` leaves a delayed or partial fill unfinished for the
  sweep; two faults lose a save and then fail the reload or kill the process;
- backtest: four days hold a decision, an expiry of two days, a gap over it and
  corporate actions before and after a fill, two of them on one date as well as two orders; the thin
  bar forces partial fills;
- services: two ingestions at once, of one or two symbols, forced or not, with one mishap; five ETFs in up to three classes, with caps that settle, caps that cannot, and
  one the loop comes close to so slowly that its 25 rounds run out with 3.8 % of avoidable cash and a
  class above its cap by less than the clamp's tolerance;
  two threads over six ticks, so that both buckets run empty; three messages, two
  retry jobs and five lapses; three invocations, the least in which a third claims beside
  the owner of a released claim; two writers; two references, two slips; curves of up
  to five points; two symbols sharing two tokens; four trades; two edits
  (of a file, an export or a secret) and two starts.

Deadlock is checked in the runs of the core, the funding cycle and the paper
session: an invocation can always start another reconciliation, cash may always
change, and a program that ended stutters (`Ended`). In `backtest` and
`services` it is not: a backtest ends, and so does a service at its bound.

What the properties say, beyond their names:

- `execution`. `NoDuplicateSubmission`: at most one order per record, over
  crashes, lost answers, reconciliations and releases. `RowOwnsItsOrder`: adoption by
  reference never takes another record's order. `RowNeverAheadOfBroker`: what
  polls, stale snapshots and adoptions write was true at the broker. `Agreement`: no
  save overwrites a row that changed since it was read, and no row that would be
  submitted again has an order behind it. `OnlyOperatorLeavesAmbiguous`,
  `ReconciledIsFinal`: what no step may do. `ImplementsContract`: with `StageOf` as
  the refinement mapping, every step is a step of `SubmissionContract` or
  invisible to it.
- `funding_cycle`. `NoMonthSkipped`: the row says IDLE only for a month whose
  orders were submitted, wherever the run, the pipeline or both die.
  `EffectsAtMostOnce`: a repeated run does not announce or remind again.
  `CommandsAreObeyed`: a run with a pool never goes against what the operator has
  said so far. `DoneMonthStaysDone`: nothing reopens a month.
  `FundedMonthIsInvested`: once the money stays and nothing tells the engine to
  wait, the month in hand ends as IDLE and submitted.
- `paper_session`. `BooksBalance` relates three books kept by three parts: rows,
  orders and cash. `OverdraftNeedsOverlap` says exactly when cash goes below zero:
  two orders approved on the same money. `ForgottenOnlyAfterLostSave` says exactly
  how a record can leave the outstanding set unsettled. `AuditTrailComplete`: every cycle
  once in the full log, with an event. `PurgeOnlyReconciled`, `RecoveryIsReal`: what a purge
  and a reported recovery rest on. `EveryRecordSettles`: every record is closed or waits for the
  operator in the end, but for the three ways the code itself leaves one behind.
- `backtest`. `EquityExplained` ties the curve to the trade log, the tax lots and
  the receipts; `EveryUnitAccounted` every order to its fills and its end.
- `services`. One property for each subject, stated in its module.

Two properties that hold for the code and are not promises one would wish for:
`OverdraftNeedsOverlap` and `ForgottenOnlyAfterLostSave` state the boundary of what the code
guarantees (cash can become negative, a record can be forgotten), and their runs
show that nothing lies beyond it.

### Fairness

`Fairness` of the core assumes the schedule of the reconciliations and nothing else of the
callers. `LoadUnresolved` and `ListOpenOrders` have strong fairness: every start and
every scheduled reconciliation brings them, each may find the process busy or fail some
times, and none fails for ever. The two groups of reconciliation outcomes have strong
fairness for each record, since the loop visits all rows it loaded. Finishing what is
under way (`RecordPending`, `EndReconcile`, `Abandon`, an acknowledged submission) and the
broker's ending of each order have weak fairness. Neither `TakeRecord` nor a step on a
held record has any: the ids a sweep would take again are in the memory of a process
that may die. So `EverySubmissionSettles` speaks of rows from `SUBMITTED` (or `REJECTED`) on, which
`reconcile` looks at; a row still `PROPOSAL` or `VERIFIED` may stay so. Nothing is
assumed of the operator: a record may wait as `AMBIGUOUS`. Faults are bounded: they stop
eventually.

`FundingFairness`: the scheduler invokes the engine every day, and not every run
dies at the same step (strong fairness of `Load`, `Checkpoint`, `Perform`); a
trading day on which something is affordable comes again and again
(`ProposeOrders`), the pipeline does not refuse or lose every submission
(`Submit`), and confirms some outcome in the end (`Confirm`). The calendar, the
cash, the operator, crashes and refusals get no fairness.

`ProgramSpec` has weak fairness of the whole program and of nothing else: a
session is one thread that goes on as long as it can. `EveryRecordSettles` follows from
the order of its loops, and says in which cases it does not. The sweep takes the
first ids in sorted order, and the ids of records in doubt never leave the set
(`session.py:285`, `297-301`): once they fill the sweep (`Starved`) nobody polls the ones behind
them. A process that died takes its list with it (`bygone`), and a rejection that a save lost
leaves a row that is still a proposal (`LeftProposed`). The run's sweep of one is smaller than its
two ids, so starvation happens in it.

### Disagreements between the code and its documents

- **`kite_retry`**. `KiteBrokerPort._call` repeats every request, the
  order-placing one included, after a time-out. An order whose answer was lost
  is placed again inside one `submit_order`, below everything DDR-001 guards.
  `docs/PHASE7_Objectives.md:95` says that such an order is never retried
  automatically.
- **`overlap`**. The broker's comments rely on mutual exclusion "already
  enforced by `claim_cycle()`"; no runner, session or orchestrator calls it. Two
  invocations submit one record twice with no fault at all.
- **`rejected`**. A Kite `REJECTED` becomes `FAILED`, which
  `get_open_orders` still lists as open and `PENDING` may not become. The row
  stays `PENDING` for ever, against section 4 of `PHASE7_Objectives.md`.
- **`funding_late`**. `confirm_cycle_outcome` is told a date, which it only
  logs, and no cycle: it marks whatever month the row is at. When the outcome of
  a month arrives after the first run of the next one, the new month becomes
  IDLE with nothing invested for it. This is the restart of
  `docs/PHASE7_Objectives.md` 11.3 at the end of a month; the title of
  `docs/PHASE6_Production_Readiness_Report.md:124` rules it out.
- **`funding_telegram`**. `_apply_pending_commands` compares what
  `poll_commands` returns with members of the `Command` enumeration, and
  `TelegramNotifier` returns texts: PAUSE and DISCONTINUE are read, logged
  nowhere, and dropped, against the docstring at `strategy.py:269`.
- **`reports`**. `generate_report` reads each status anew and takes the executed quantity
  from the log entry, written when the cycle ended. An order that fills later
  counts as rejected, with nothing executed, against the docstring at
  `reports.py:13`.

Met while reading, and not the subject of a run:

- `production_runner.py:144` gives the verification the Kite port as its quote
  provider, which has no `get_market_depth`: no proposal could be approved in
  production, apart from the static-IP confirmation the runner demands on purpose; and `main.py` accepts the environment "production", which
  `config_manager/schema.py:26` does not, so that name never starts (`Startup` has it).
- `MODIFIED` and `CANCEL PENDING` map an order that is partly filled back to
  `PENDING` (`kite_status_mapping.py:28`).
- `get_config` ignores `config_dir` once a configuration is cached.
- A snapshot of fewer symbols, registered later, hides the older ones from
  `get_ohlcv` (`data_engine.py:192`); a `finish_ingestion_run` that raises leaves
  a readable snapshot of a run still marked as running (`data_engine.py:175`); a
  `SymbolResolutionError` is not caught by the fallback (`data_engine.py:104`).
- The stale-price warning compares the age with `==`
  (`backtesting/engine.py:272`), so a first gap that jumps over the threshold
  warns only by the 30-day rule; orders pending over a split keep their quantity
  and limit.
- Consecutive test windows of `validation/walk_forward.py:102` share a day.
- `sweep_outstanding` promises "every currently-outstanding record one more process_order() pass"
  (`session.py:271`) and takes the first 200 in sorted order (`session.py:285`); 200 records
  in doubt keep every later one from it (`Starved`).
- A row that is PROPOSAL or VERIFIED when its process dies is taken by nobody again:
  the outstanding set is in memory (`session.py:113`), `reconcile` skips such rows
  (`reconciliation.py:85-90`), and a record that is terminal in memory though its save failed is dropped
  from the set (`session.py:260-262`).
- The capping loop redistributes "until stable" and leaves cash only "if no uncapped candidate
  remains" (`portfolio_optimizer/optimizer.py:9-13`). When its rounds run out earlier, the clamp trims and nobody
  gets what it takes: classes of .6, .4 and almost nothing under a class cap of .499 leave
  3.8 % idle that the last ETF could take.
- A hard constraint is "structurally impossible to violate" (`optimizer.py:15-19` and 252-254), but the clamp
  lets 1e-6 stand (`optimizer.py:259`, `269`) and the risk engine reports a breach from 1e-9
  (`risk_management/engine.py:63`, `79`): when the rounds run out, an excess in between is
  offered and reported.
- `rolling_returns` leaves out only dates without "a full window of history"
  (`performance_analytics/metrics.py:140-144`), by its docstring, and drops as "not enough history yet" (line 157) also each
  date whose window does not begin on a point of the curve (line 156): with trading days only, those whose window
  begins on a weekend or holiday. `ReportMatchesCurve` asks for every date on daily curves only.
- The cached secrets bundle is dated when its answer arrives (`aws_provider.py:60`, `80`), so a bundle
  may be served as old as the cache's lifetime and the request's latency together;
  `SecretsAreServedRight` has that bound.

## 4. Proofs

All are checked by TLAPS for every value of the constants, from the named
assumptions next to their declarations: `OrderExecution` (positive quantity and
attempts, natural bound on faults, `RefOf` a function on records, the two null
values outside their sets), `FundingCycle`, `PaperSession` and
`SessionHarnesses`, `Backtest` (positive capital and ratio, natural fees, bars with positive prices,
orders of at least one unit), `DataEngine` (calls that ask for at least one symbol and none
twice, as every ingestion of the repository does: a symbol asked for twice would be counted
twice), `CandidateResearch` (a finite universe, at least one day of history) and `Services` (null values outside
their sets, an `Unclassified` that is no class, positive sizes and lifetimes, finite universes, natural weights, prices, costs and
buckets, rates above zero, curves with positive values and growing dates). Where said, a theorem has a hypothesis:

- `SoleInvocation`: invocations do not overlap. This is what `claim_cycle`
  is meant to provide; run `overlap` shows the theorems fail without it.
- `OneAttempt`: `submit_order` sends one request. True on paper; run
  `kite_retry` shows the need.
- `OwnReferences`: no two records share (cycle_id, symbol), which both brokers match
  orders by. No index says so; the callers give each order they propose its cycle.
- `EnumCommands`, `ConfirmsInTime`: options of the funding cycle, section 2.
- `FilesLeaveTheTop`: no configuration file has a key `app` of its own, as none of
  the repository's has.
- `HoldsACall`: every bucket of a limiter holds a call. True of every shipped limit;
  `schema.py:43` only asks for a rate above zero, and the bucket of less than one call a
  minute never holds one: it goes below zero however long its caller waited.
- `OpensInRange`: a bar opens between its low and its high. `data_quality/checks.py:45`
  makes anything else a critical issue; the engine itself checks only low against high.

| Theorem | Module | Needs |
|---|---|---|
| `TypeCorrect`: `Spec => []TypeOK` | `OrderExecutionProofs` | - |
| `RowsNeverAhead`: `[]RowNeverAheadOfBroker` | `OrderExecutionProofs` | - |
| `RowsOwnTheirOrders`: `[]RowOwnsItsOrder` | `OrderExecutionProofs` | `OwnReferences` |
| `AgreementHolds`: `[]Agreement` | `OrderExecutionProofs` | `SoleInvocation` |
| `NeverSubmittedTwice`: `[]NoDuplicateSubmission` | `OrderExecutionProofs` | that and `OneAttempt` |
| `AmbiguousIsTheOperators`: `OnlyOperatorLeavesAmbiguous` | `OrderExecutionProofs` | `SoleInvocation` |
| `ClosedForGood`: `ReconciledIsFinal` | `OrderExecutionProofs` | `SoleInvocation` |
| `CoreImplementsContract`: `ImplementsContract` | `OrderExecutionProofs` | `SoleInvocation`, `OneAttempt` |
| `FundingTypeCorrect`: `[]FundingTypeOK` | `FundingCycleProofs` | - |
| `EffectsCorrect`: `[]EffectsAtMostOnce` | `FundingCycleProofs` | - |
| `CommandsCorrect`: `[]CommandsAreObeyed` | `FundingCycleProofs` | `EnumCommands` |
| `NoMonthSkippedCorrect`: `[]NoMonthSkipped` | `FundingCycleProofs` | `ConfirmsInTime` |
| `DoneMonthCorrect`: `DoneMonthStaysDone` | `FundingCycleProofs` | `ConfirmsInTime` |
| `SessionSound`: `[]SessionInv`, `TypeOK` in it | `PaperSessionProofs` | - |
| `SessionKeepsContract`: `ImplementsContract` | `PaperSessionProofs` | - |
| `PurgesAreReconciled`: `PurgeOnlyReconciled` | `PaperSessionProofs` | - |
| `RecoveriesAreReal`: `[]RecoveryIsReal` | `PaperSessionProofs` | - |
| `NothingForgotten`: `[]ForgottenOnlyAfterLostSave` | `PaperSessionProofs` | - |
| `TrailComplete`: `[]AuditTrailComplete` | `PaperSessionProofs` | - |
| `OverdraftsNeedOverlap`: `[]OverdraftNeedsOverlap` | `PaperSessionProofs` | - |
| `BooksAlwaysBalance`: `[]BooksBalance` | `PaperSessionProofs` | - |
| `OneWorker`: `[]OneWorksAtATime` | `ServiceProofs` | - |
| `TokensCurrent`: `[]TokensInUseAreCurrent` | `ServiceProofs` | - |
| `SecretsServed`: `[]SecretsAreServedRight` | `ServiceProofs` | - |
| `NoticesKept`: `[]NoticesAccountedFor` | `ServiceProofs` | - |
| `OpenOrdersKnown`: `[]OpenOrdersAreOurs` | `ServiceProofs` | - |
| `StartsReproducible`: `[]StartsAreReproducible` | `ServiceProofs` | `FilesLeaveTheTop` |
| `ServedData`: `[]ServedDataIsSound` | `ServiceProofs` | - |
| `ReplacementsEvidenced`: `[]ReplacementsRestOnEvidence` | `ServiceProofs` | - |
| `TargetsRespectCaps`: `[]TargetsCapped` | `ReckoningProofs` | - |
| `TargetsAreInvested`: `[]TargetsCappedAndInvested` | `ReckoningProofs` | - |
| `OrdersAlwaysFit`: `[]OrdersFit` | `ReckoningProofs` | - |
| `ProfitExplained`: `[]ProfitIsExplained` | `ReckoningProofs` | - |
| `BudgetsAreKept`: `[]BudgetsKept` | `ReckoningProofs` | `HoldsACall` |
| `ReportAgrees`: `[]ReportMatchesCurve` | `ReportProofs` | - |
| `BacktestTypeCorrect`: `[]BacktestType` | `BacktestProofs` | - |
| `NeverLooksAhead`: `[]NoLookAhead` | `BacktestProofs` | `OpensInRange` |
| `PurchasesAreFunded`: `[]BuysAreFunded` | `BacktestProofs` | - |
| `UnitsAreAccounted`: `[]EveryUnitAccounted` | `BacktestProofs` | - |
| `EquityIsExplained`: `[]EquityExplained` | `BacktestProofs` | - |

### The core

`TypeOK` is not inductive by itself: a poll reads
`orders[mem.brokerId]`, so every id in a row, in memory or in a snapshot has to be of an
order in the book (`IdsAreKnown`), and a process inside `submit_order` has to
hold a record (`SubmittingHolds`); `TypeInv` is the three together.

`RowNeverAheadOfBroker` needs no hypothesis, because an old copy says something that
was true and orders only move forward (`Forward`). So `TruthInv` asks
the same of every copy there is, in rows, in memory, on a reconciliation's list and in
the answers it has collected. `OwnInv` asks of the same copies that the order they name is one
accepted for their record; it needs `OwnReferences` where reconciliation takes an
order found by its reference for the record's own.

`Agreement` is why stale copies do no harm: what an invocation holds is the row
as saved, or a record that waited for the operator, and what `reconcile` has
loaded and not reached has not changed. It is inductive together with `TypeInv`
when there is one invocation, since it is then the only one to save; the
operator saves too, but only AMBIGUOUS rows, which neither copy writes back.

`NoDuplicateSubmission` needs one more fact (`RequestIsFirst`): a process that
is about to send holds a record with no order so far. `SubmitIntent` gives it,
because a VERIFIED row has none behind it (`NoOrderBehindUnsentRow`, a part of
`Agreement`), and with one attempt a request whose answer is lost leaves
`submitting` at once.

The refinement cites these invariants: each save is a move of one stage of the
contract or none (`SaveIsMove`), and the broker taking an order is `Take`
(`PlaceIsTake`), whose guard is `RequestIsFirst`.

### The funding cycle

`RunShape` says what a run holds at each point and that its
month is the row's until the checkpoint; it is inductive with the type, which
needs it because effects and proposals are filed under `mem.month`. On it rest
three inductive invariants, one for each subject, so that each theorem carries
only the hypothesis it needs. `EffectsRecorded`: an effect once done or to be done is in the
row, so a run that finds a fresh month or an unset flag has not done it.
`CommandsRecorded`: the flags of the row are those of all saved commands, and
those in memory add what the run has heard. `OneCycleInHand`: whatever the
pipeline still has is the row's month, so the confirmation hits the month it is
about; `funding_late` shows that without the hypothesis it need not. Like the
strengthening of the submission guarantees, the four were checked by TLC before they were proved.

### The paper session, the stress run and the drill

`SessionInv` is the common part: `ControlInv` says where each program may be and
why (a record is in memory exactly during its calls and across the restart between
two of them), and `RecordInv` how the three copies of an order agree (row, broker's book,
memory): the row is behind the order by what `Behind` allows, and memory differs from the
row only between a save that raised and the end of its call (`Unsynced`). The
key to the refinement is the line of `Agrees` that an unsent row was never
`placed`.

On it rest one invariant for each subject. `PassInv`: a reconciliation that has gone through has looked
at every record, which is what a purge and a convergence report rely on.
`RecoveryInv`: what a report says, with the failures counted. `FollowInv`: a record out of
its own cycle's hands and not settled is outstanding or had a save lost.
`AuditInv`: entries, events and archives of each record (`Trail`), and the quantity of
its entry between zero and what the broker executed (`Figures`). `MoneyInv`: as long as
no two approvals overlapped, at most one order is approved or open and not paid in full,
and cash covers what it still owes. `BooksInv`: cash is the starting cash less what was paid for
every record, by the broker's book or, once the broker forgot the order, by the row; a
reconciled row and a purged one hold just that.

### The services

A service that is not the subject of a behaviour does not move (`ServiceMoves`),
so each proof is about one component. What each invariant adds to its property
is what is known of a copy. `ClaimsInv`: who works names the row or a claim gone stale, and who has read a
row and was not overtaken by a commit still finds it free (`StillFree`). `TokensInv`: the file is the mapping unless
a save was cut off. `BundleInv`: the cached bundle, and the one a
request has read and not delivered, is the current one or was read before it was replaced. `SecretsInv`: with one writer the copy it holds is what is stored, and so is the file outside of a write.
`NoticesInv`: what the job has read is in its hands until the file is rewritten.
`KiteInv`: a running port can resolve the tag of every order in Kite's book, since the
line is appended before the order is sent. `StartInv`: settings are a function of
the version.

### The ingestions and the research

`IngestInv` follows one run through its writes: what it fetched is fit by the gate's checks or
forced, the symbols before its position are stored so (`WrittenSoFar`), its row counts what is
stored (`Lengths`), and it is in the registry only with all it was asked for
(`CompleteSnapshot`); its creation time is its own (`Numbered`). A step of one run leaves the others' rows and
files (`OneRunMoves`), so overlapping runs need no more than this. That the gate's verdict
is about the series (`GateIsSound`) rests on days laid end to end (`SeriesInOrder`,
`FlattenOrdered`).

`ResearchInv` keeps what was true when a snapshot was read: the files of a registered
snapshot are never written again (`RegisteredStay`), so a pass of the screening at
the first read, and the common days at the third, still hold when the report is complete. The
two reads differ only if the registry grew (`LatestStays`).

### The report

`FiguresInv` is what each loop knows after any number of points. The highest value so far makes the
deepest fall (`MaximumFits`: a fall from lower is no deeper, `FromHigher`). The running
peak with its trough is the one drawdown still open, and the episodes found are those of all
summits before it (`EpisodesFit`): the next point closes it (`NextPeak`) or
may be its new trough (`FurtherDown`), and one that has ended is changed by nothing
that follows (`EndedStays`). The left index never passes a point a later one is compared
with (`RollingFits`), because dates grow. That a daily curve has every window rests on the
dates of such a curve (`DailyDates`): the one a window begins at is a point.

### The allocation of a contribution

`CapsInv`: the weights never add up to more than the whole. What is shared out in proportion, rounded down,
is at most what clipping or scaling freed (`Shares`, `SpreadKeeps`), so this needs no count
of rounds, and the caps come from the final clamp alone, which hands nothing out again. What its
tolerance lets stand is above a cap only when the rounds ran out: a loop that broke off early
leaves no weight and no class above its cap (`NothingToCap`), so the clamp trims nothing and the
risk engine has no breach to report (`NoBreach`).

`InvestedInv` is why no cash is left for nothing, whether the loop settles or not. Either the
weights add up to the whole but for `Loss` (`RoundingLoss` and what the clamp trimmed), or their sum reaches a `Ceiling` that no
weights under the caps exceed (`Dominated`): every ETF with a weight at its cap, or in a class at
the class's cap. Each half of a round loses a part per ETF to rounding
(`SpreadLoses`), or finds nobody to hand the rest to, which makes a ceiling
(`CapEtfsLoses`, `CapClassesLoses`). When the loop has settled the clamp changes nothing
(`SettledStays`); when its rounds ran out, the weights it leaves are under caps higher by the
tolerance, whose ceiling is higher by a tolerance for each ETF (`RaisedCeiling`). Weights at a ceiling
are blocked, each by its own cap or by its class's (`AtTheCeiling`).

`OrdersInv`: orders made and opportunities left are one list in strict order of
priority, so none is ordered twice; what was spent and what remains make up the contribution;
and each order is within the budget of its gap (`OrderFits`). `PrioritizeByGap` is
the listing of the ETFs below target that is in order; `CanBeSorted` shows that there is one.

### The simple engine and the rate limiter

`EngineInv` states the profit at any prices, not only today's: a sum of the trades' gains
is unchanged by a new quote only because it holds at the new one already. Each trade then
adds to the worth of the holdings and takes from the balance what its own gain accounts for.

`CallInv` counts the calls let through since any moment with what the buckets hold now:
together they are within a full bucket and the refills since (`WithinNow`). A call moves
one call's tokens from the second to the first, a tick adds at most a tick's refill, and a
cut at the capacity only loses some. Consuming never overdraws: a sleeper keeps the
lock, so nobody else takes what it waits for (`SleeperIsServed`), its wait is rounded up
(`RoundedUp`) and the longer of the two (`WaitServes`), and a late waker finds more, or a full
bucket, which `HoldsACall` makes enough.

### The backtest

`NeverLooksAhead`: `LookInv` says that orders in a queue while orders are being filled were
decided on an earlier date. `PurchasesAreFunded`: a purchase is filled only if cash covers
it with its costs, and only a sale can cost more than it brings, so cash and the costs of sales
never go below zero together (`Funded`). `UnitsAreAccounted`: for each number
(`AccountInv`), what was filled and what is queued make up what was ordered, in one place at most.
`EquityIsExplained`: the lots of a symbol are its position, in the order of purchases
that are in the trade log (`LotsOf`), and cash with the cost basis of all lots is the capital less
costs plus gains and dividends (`MoneyKept`); a partial sale moves basis into gain,
a split moves none.

The last three of the backtest, like `BooksBalance`, the allocation, the engine and the limiter, are about sums over logs that only grow, and queues and lots that change in
the middle. `Sums` defines a sum by the fold of the community modules;
`SumLemmas` proves what folds do. The induction it takes is over sets and not through an
operator: a set of naturals with 0 and all successors is `Nat`, by its least missing
element, and a set of subsets closed under adding an element is all of them.

### Model-checked only

- Liveness under fairness (`EverySubmissionSettles`, `FundedMonthIsInvested`,
  `EveryRecordSettles`), and `ENABLED`, are out of the prover's reach.
- How large `trimmed` can become when the rounds of the capping loop run out. The theorem says
  that avoidable cash is no more than the clamp trimmed, rounding and tolerance aside; the number
  itself the runs give for their instance.
## 5. Not modelled

- `cancel_order` of both brokers (nothing in the repository calls it) and the read-only
  queries of Kite.
- Historical validation, ratios, CAGR, XIRR, bootstrap and Monte Carlo: numerical
  work on real numbers, without a state machine. The verdict of the bootstrap is
  a choice in `CandidateResearch`.
- Reporting, dashboards, importers, AI advisers, the API: rendering, parsing, or
  one request on its own.
- The registries of backtests and risk events and the reproducibility manifest:
  append-only rows no other component reads.
- An operator who does not follow the ambiguity report (resolves to FILLED
  without an id, say, `reconciliation.py:275`): the row is then re-alerted and left alone.
- A second lump sum or a change of policy on the shared row of the funding cycle
  (`lump_sum.py:38`): a deployment keeps one policy in the model.
- A reminder that is lost (`strategy.py:190`): it is recorded as sent before it
  is sent, so at most once is all the code promises.
- Archive writes that fail half way (`event_archive.py:59`): the next one would
  repeat their lines.

## 6. Plan

Every safety invariant of a passing run is stated by a theorem. What is left:

1. A bound on what the final clamp trims when the rounds of the capping loop run out
   (`trimmed` in `TargetsAreInvested`).
2. The components listed as partly or not modelled in `PROJECT.json`, where a
   property would say more than a unit test does.
