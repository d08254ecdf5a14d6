----------------------------- MODULE Allocation -----------------------------
(***************************************************************************)
(* From scored ETFs to orders: PortfolioOptimizer.optimize (inverse        *)
(* volatility under hard caps, one action per round of the capping loop),  *)
(* build_proposal with the risk engine's evaluation, and the strategy      *)
(* engine's _build_buy_orders, one action per opportunity.  Weights are    *)
(* whole parts of Whole and money whole units; divisions round down, so    *)
(* the 1e-9 tolerances of the loop and of the risk engine become exact     *)
(* comparisons; the clamp's 1e-6 is ClampTolerance.                        *)
(***************************************************************************)
EXTENDS Integers, Sequences, Sums

CONSTANTS
  Symbols,          \* integers, in the order of the ETFs' names
  Classes,
  Unclassified,     \* the class of an ETF without a known asset class
  ClassMaps,        \* the assignments of classes to symbols
  InverseVols,      \* inverse volatilities by symbol; 0 is an ETF left out
  Whole,            \* all of the portfolio, in parts
  Constraints,      \* the HardConstraints tried: [etf |-> ..., class |-> ...]
  ClampTolerance,   \* what the final clamp lets stand above a cap
  DriftTolerance,
  MaxDrawdown,      \* max_drawdown_target
  Drawdowns,        \* what a backtest can estimate
  Portfolios,       \* the current weights
  PriceLists,       \* last closes; 0 is an ETF without prices
  Existing,         \* the value of the portfolio before the contribution
  Contributions,
  BufferPct, FlatCost, CostPct

VARIABLES
  hard,            \* the risk engine's hard constraints
  phase,           \* "idle", "infeasible", "capping", "clamping", "proposing", "funding", "buying", "done"
  class, weights, round,
  maxRounds,       \* max_iterations of the capping loop
  trimmed,         \* history: what the final clamp took off the weights
  current,         \* the portfolio the proposal starts from
  proposal,        \* what build_proposal hands to the operator
  price, contribution, remaining, opportunities, orders

optimizerVars == <<hard, class, weights, round, maxRounds, trimmed>>
orderVars == <<price, contribution, remaining, opportunities, orders>>
allocationVars == <<phase, optimizerVars, current, proposal, orderVars>>

(* compute_raw_weights over the ETFs that pass the three gates: sane       *)
(* prices, enough history, a volatility above zero.                        *)
RawWeights(inverse) ==
  [s \in Symbols |-> (inverse[s] * Whole) \div SumOver(inverse, Symbols)]

Init ==
  /\ phase = "idle"
  /\ hard = CHOOSE h \in Constraints : TRUE
  /\ class = CHOOSE c \in ClassMaps : TRUE
  /\ current = CHOOSE p \in Portfolios : TRUE
  /\ weights = [s \in Symbols |-> 0]
  /\ round = 0 /\ maxRounds = 0 /\ trimmed = 0
  /\ proposal = [diff |-> [increases |-> {}, overweight |-> {}], events |-> {}]
  /\ price = [s \in Symbols |-> 0]
  /\ contribution = 0
  /\ remaining = 0
  /\ opportunities = <<>>
  /\ orders = <<>>

(* An empty universe raises; one where no ETF passes is infeasible.        *)
Optimize ==
  /\ phase = "idle"
  /\ hard' \in Constraints
  /\ class' \in ClassMaps
  /\ current' \in Portfolios
  /\ \E inverse \in InverseVols :
       IF SumOver(inverse, Symbols) = 0
       THEN phase' = "infeasible" /\ UNCHANGED <<weights, maxRounds>>
       ELSE /\ phase' = "capping"
            /\ weights' = RawWeights(inverse)
            /\ maxRounds' = 3 * Cardinality({s \in Symbols : inverse[s] > 0}) + 10
  /\ UNCHANGED <<round, trimmed, proposal, orderVars>>

-----------------------------------------------------------------------------
(* _apply_hard_caps                                                        *)

(* An amount shared out in proportion to the weights of the receivers.     *)
Spread(w, amount, receivers) ==
  LET total == SumOver(w, receivers) IN
    [s \in Symbols |->
       IF s \in receivers /\ total > 0 THEN w[s] + (amount * w[s]) \div total ELSE w[s]]

ClipEtfs(w, tolerance) ==
  [s \in Symbols |-> IF w[s] > hard.etf + tolerance THEN hard.etf ELSE w[s]]
CapEtfs(w) ==
  LET clipped == ClipEtfs(w, 0) IN
    Spread(clipped, SumOver(w, Symbols) - SumOver(clipped, Symbols),
           {s \in Symbols : clipped[s] < hard.etf})

ClassTotal(w, c) == SumOver(w, {s \in Symbols : class[s] = c})
Crowded(w, tolerance) == {c \in Classes : ClassTotal(w, c) > hard.class + tolerance}

(* Every member of a crowded class is scaled, at its own cap or not.       *)
ScaleClasses(w, tolerance) ==
  [s \in Symbols |->
     IF class[s] \in Crowded(w, tolerance)
     THEN (w[s] * hard.class) \div ClassTotal(w, class[s]) ELSE w[s]]

(* What scaling frees goes to the other classes' ETFs below their cap.     *)
CapClasses(w) ==
  LET scaled == ScaleClasses(w, 0) IN
    Spread(scaled, SumOver(w, Symbols) - SumOver(scaled, Symbols),
           {s \in Symbols : class[s] \notin Crowded(w, 0) /\ scaled[s] < hard.etf})

(* As if scaling a class did not count as a change of the round.          *)
UnsettledEtfs(w) == \E s \in Symbols : w[s] > hard.etf

Unsettled(w) == (\E s \in Symbols : w[s] > hard.etf) \/ Crowded(CapEtfs(w), 0) # {}

CapRound ==
  /\ phase = "capping"
  /\ round < maxRounds
  /\ weights' = CapClasses(CapEtfs(weights))
  /\ round' = round + 1
  /\ phase' = IF Unsettled(weights) THEN "capping" ELSE "clamping"
  /\ UNCHANGED <<hard, class, maxRounds, trimmed, current, proposal, orderVars>>

RoundsExhausted ==
  /\ phase = "capping"
  /\ round = maxRounds
  /\ phase' = "clamping"
  /\ UNCHANGED <<optimizerVars, current, proposal, orderVars>>

(* Both caps once more, with a tolerance and nothing shared out again.     *)
FinalClamp ==
  /\ phase = "clamping"
  /\ weights' = ScaleClasses(ClipEtfs(weights, ClampTolerance), ClampTolerance)
  /\ trimmed' = SumOver(weights, Symbols) - SumOver(weights', Symbols)
  /\ phase' = "proposing"
  /\ UNCHANGED <<hard, class, round, maxRounds, current, proposal, orderVars>>

-----------------------------------------------------------------------------
(* build_proposal and RiskManagementEngine                                 *)

Distance(a, b) == IF a > b THEN a - b ELSE b - a
Event(type, about, severity) == [type |-> type, about |-> about, severity |-> severity]

DetectDrift(w, approved) ==
  {Event("drift", s, IF Distance(w[s], approved[s]) > 2 * DriftTolerance
                     THEN "critical" ELSE "warning") :
     s \in {t \in Symbols : Distance(w[t], approved[t]) > DriftTolerance}}

Evaluate(w, approved) ==
  {Event("max_weight_per_etf", s, "warning") : s \in {t \in Symbols : w[t] > hard.etf}}
    \cup {Event("max_weight_per_asset_class", c, "warning") : c \in Crowded(w, 0)}
    \cup DetectDrift(w, approved)

(* The drawdowns a backtest that buys the target weights once can find;    *)
(* with too little history it finds none.                                  *)
ComparativeBacktest == Drawdowns \cup {0}

CheckDrawdown(drawdown) ==
  IF drawdown > MaxDrawdown THEN {Event("max_drawdown", drawdown, "critical")} ELSE {}

(* A target below the current weight is a note, never a sale.              *)
BuyOnlyDiff(from, to) ==
  [increases |-> {s \in Symbols : to[s] > from[s]},
   overweight |-> {s \in Symbols : to[s] < from[s]}]

Propose ==
  /\ phase = "proposing"
  /\ \E drawdown \in ComparativeBacktest :
       proposal' = [diff |-> BuyOnlyDiff(current, weights),
                    events |-> Evaluate(weights, current) \cup CheckDrawdown(drawdown)]
  /\ phase' = "funding"
  /\ UNCHANGED <<optimizerVars, current, orderVars>>

-----------------------------------------------------------------------------
(* _build_buy_orders with the proposal's weights as the approved target    *)

Gap(s) == weights[s] - current[s]
Before(a, b) == Gap(a) > Gap(b) \/ (Gap(a) = Gap(b) /\ a < b)
PrioritizeByGap ==
  CHOOSE q \in SetToSeqs({s \in Symbols : Gap(s) > 0}) :
    \A i, j \in DOMAIN q : i < j => Before(q[i], q[j])

LimitPrice(close) == (close * (100 + BufferPct) + 50) \div 100
Cost(gross) == FlatCost + (gross * CostPct) \div 100
(* As if the costs were not part of what an order spends.                  *)
AffordableGross(limit, budget) == budget \div limit

AffordableQuantity(limit, budget) ==
  Max({0} \cup {q \in 1..(budget \div limit) : q * limit + Cost(q * limit) <= budget})

StartCycle ==
  /\ phase = "funding"
  /\ price' \in PriceLists
  /\ contribution' \in Contributions
  /\ remaining' = contribution'
  /\ opportunities' = IF contribution' > 0 THEN PrioritizeByGap ELSE <<>>
  /\ phase' = "buying"
  /\ UNCHANGED <<optimizerVars, current, proposal, orders>>

Considering(s) ==
  /\ phase = "buying"
  /\ opportunities # <<>>
  /\ remaining > 0
  /\ s = Head(opportunities)

Budget(s) == Min({remaining, (Gap(s) * (Existing + contribution)) \div Whole})
Quantity(s) == IF price[s] = 0 THEN 0 ELSE AffordableQuantity(LimitPrice(price[s]), Budget(s))

Buy(s) ==
  /\ Considering(s)
  /\ Quantity(s) > 0
  /\ LET gross == Quantity(s) * LimitPrice(price[s])
         spent == gross + Cost(gross)
     IN  /\ orders' = Append(orders, [symbol |-> s, quantity |-> Quantity(s), spent |-> spent])
         /\ remaining' = remaining - spent
  /\ opportunities' = Tail(opportunities)
  /\ UNCHANGED <<phase, optimizerVars, current, proposal, price, contribution>>

PassOver(s) ==
  /\ Considering(s)
  /\ Quantity(s) = 0
  /\ opportunities' = Tail(opportunities)
  /\ UNCHANGED <<phase, optimizerVars, current, proposal, price, contribution, remaining, orders>>

ReturnOrders ==
  /\ phase = "buying"
  /\ opportunities = <<>> \/ remaining <= 0
  /\ phase' = "done"
  /\ UNCHANGED <<optimizerVars, current, proposal, orderVars>>

Next ==
  \/ Optimize \/ CapRound \/ RoundsExhausted \/ FinalClamp
  \/ Propose
  \/ StartCycle \/ ReturnOrders
  \/ \E s \in Symbols : Buy(s) \/ PassOver(s)

Spec == Init /\ [][Next]_allocationVars

-----------------------------------------------------------------------------
Offered == phase \in {"proposing", "funding", "buying", "done"}

(* Above the caps only when the rounds ran out, and within the tolerance.  *)
Tolerated == IF round < maxRounds THEN 0 ELSE ClampTolerance

(* The weights offered respect every ETF cap and every class cap and add   *)
(* up to no more than the whole; and a loop that broke off before its last *)
(* round leaves the clamp nothing to do and the risk engine no breach to   *)
(* report.                                                                 *)
TargetsCapped ==
  Offered =>
    /\ \A s \in Symbols : weights[s] <= hard.etf + Tolerated
    /\ \A c \in Classes :
         SumOver(weights, {s \in Symbols : class[s] = c}) <= hard.class + Tolerated
    /\ SumOver(weights, Symbols) <= Whole
    /\ round < maxRounds =>
         /\ trimmed = 0
         /\ \A event \in proposal.events : event.type \in {"drift", "max_drawdown"}

(* They leave cash idle (beyond slack) only when each ETF is blocked by    *)
(* its own cap or by its class's.                                          *)
IdleOnlyWhenBlocked(slack) ==
  \/ Whole - SumOver(weights, Symbols) <= slack
  \/ \A s \in Symbols :
       \/ weights[s] = 0
       \/ weights[s] >= hard.etf - slack
       \/ /\ class[s] # Unclassified
          /\ SumOver(weights, {t \in Symbols : class[t] = class[s]}) >= hard.class - slack

(* Rounding down loses a part for each ETF to begin with, and two a round. *)
RoundingLoss == Cardinality(Symbols) * (2 * round + 1)

(* Avoidable cash is what the clamp trimmed after the rounds ran out, and  *)
(* nothing else: up to rounding and tolerance the loop itself leaves none. *)
CashIdleOnlyWhenBlocked ==
  Offered =>
    IdleOnlyWhenBlocked(RoundingLoss + trimmed + Tolerated * Cardinality(Symbols))

TargetsCappedAndInvested == TargetsCapped /\ CashIdleOnlyWhenBlocked

(* The orders of a cycle, their costs included, never spend more than the  *)
(* contribution; none buys an ETF past its target share of the portfolio   *)
(* with the contribution in it, nor one the proposal does not increase;    *)
(* and an ETF is ordered at most once, those furthest below their targets  *)
(* first.                                                                  *)
OrdersFit ==
  LET value == Existing + contribution IN
    /\ SumOver([k \in DOMAIN orders |-> orders[k].spent], DOMAIN orders) <= contribution
    /\ \A k \in DOMAIN orders :
         LET s == orders[k].symbol IN
           /\ s \in proposal.diff.increases
           /\ current[s] * value + orders[k].spent * Whole <= weights[s] * value
    /\ \A j, k \in DOMAIN orders :
         j < k => /\ orders[j].symbol # orders[k].symbol
                  /\ Gap(orders[j].symbol) >= Gap(orders[k].symbol)
=============================================================================
