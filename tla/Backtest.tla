----------------------------- MODULE Backtest -----------------------------
(***************************************************************************)
(* BacktestEngine.run: one pass over the trading dates.  On each date the  *)
(* bars are observed, corporate actions applied, the orders of earlier     *)
(* dates offered to the fill simulator, the portfolio marked, and the      *)
(* strategy asked for new orders.  Portfolio keeps cash and positions,     *)
(* CostTaxEngine the FIFO tax lots.  Prices and quantities are integers.   *)
(***************************************************************************)
EXTENDS Integers, SequencesExt, FiniteSets, Sums

CONSTANTS
  Symbol,
  Bars,          \* the bars each symbol can print: [open, low, high, close, cap]
  Intents,       \* the orders the strategy may ask for
  Dividend,      \* cash per unit of a dividend
  Ratio,         \* of a split or bonus issue
  Capital,       \* initial_capital
  FlatFee, Rate, \* cost of a trade: flat, and per side as a multiple of gross
  ExpiryDays,    \* limit_order_expiry_days
  StaleDays,     \* stale_price_warning_days
  LastDate,      \* end_date
  MaxGap,        \* bound: calendar days between two trading dates
  MaxActions,    \* bound: corporate actions of one date
  MaxOrders      \* bound: orders of one run

ASSUME BacktestAssumption ==
  /\ Capital \in Nat \ {0} /\ Dividend \in Nat /\ Ratio \in Nat \ {0}
  /\ FlatFee \in Nat /\ Rate \in [{"BUY", "SELL"} -> Nat]
  /\ ExpiryDays \in Nat /\ StaleDays \in Nat /\ LastDate \in Nat /\ MaxActions \in Nat
  /\ IsFiniteSet(Symbol)
  /\ Bars \in [Symbol -> SUBSET [open: Nat, low: Nat, high: Nat, close: Nat, cap: Nat]]
  /\ \A s \in Symbol : \A b \in Bars[s] :  \* _validate_bars_sanity
       b.open > 0 /\ b.low > 0 /\ b.high >= b.low /\ b.close > 0
  /\ Intents \subseteq [symbol: Symbol, side: {"BUY", "SELL"}, limit: Nat,
                        quantity: Nat \ {0}]  \* OrderIntent.__post_init__

VARIABLES
  date,      \* current_date
  phase,     \* the step of the day
  bar,       \* today's bar of each symbol, or NoBar
  last,      \* last_known_price and last_price_date: [price, date]
  acted,     \* the corporate actions of the date processed so far
  pending,   \* pending_orders
  kept,      \* still_pending, while the orders of the day are processed
  cash,
  position,
  lots,      \* FIFO tax lots: sequences of [bought, quantity, price]
  trades,    \* the trade log
  receipts,  \* dividend receipts: [date, symbol, quantity, credited]
  rejected,  \* rejected_orders
  equity,    \* total_value of the last equity curve point
  warned,    \* warned_stale_at
  orders     \* history: what each order asked for and when

market    == <<date, bar, last, acted>>
portfolio == <<cash, position, lots>>
output    == <<trades, receipts, rejected, equity, warned, orders>>
vars      == <<market, phase, pending, kept, portfolio, output>>

NoBar == [open |-> 0]

\* What the symbols can print on one date.
Printed == {p \in [Symbol -> UNION {Bars[s] : s \in Symbol} \cup {NoBar}] :
              \A s \in Symbol : p[s] \in Bars[s] \cup {NoBar}}
Unknown == [price |-> 0, date |-> 0]

Init ==
  /\ date = 0 /\ phase = "advance"
  /\ bar = [s \in Symbol |-> NoBar]
  /\ last = [s \in Symbol |-> Unknown]
  /\ acted = 0
  /\ pending = <<>> /\ kept = <<>>
  /\ cash = Capital
  /\ position = [s \in Symbol |-> 0]
  /\ lots = [s \in Symbol |-> <<>>]
  /\ trades = <<>> /\ receipts = <<>> /\ rejected = <<>>
  /\ equity = Capital
  /\ warned = [s \in Symbol |-> -1]
  /\ orders = <<>>

\* The order of the steps of one date.
After(step) ==
  CASE step = "advance" -> "actions"
    [] step = "actions" -> "fills"
    [] step = "fills"   -> "mark"
    [] step = "mark"    -> "decide"
    [] step = "decide"  -> "advance"

-----------------------------------------------------------------------------
(* Step 1: the next trading date is the next one any symbol has a bar for. *)

Advance(days, printed) ==
  /\ phase = "advance" /\ date + days <= LastDate
  /\ \E s \in Symbol : printed[s] # NoBar
  /\ date' = date + days /\ bar' = printed
  /\ last' = [s \in Symbol |-> IF printed[s] = NoBar THEN last[s]
                               ELSE [price |-> printed[s].close, date |-> date']]
  /\ acted' = 0
  /\ phase' = After("advance")
  /\ UNCHANGED <<pending, kept, portfolio, output>>

-----------------------------------------------------------------------------
(* Step 2: the corporate actions of the date, each on the position the     *)
(* ones before it leave.                                                   *)

Acts ==
  /\ phase = "actions" /\ acted < MaxActions
  /\ acted' = acted + 1
  /\ UNCHANGED <<date, bar, last, phase>>

ActionsDone ==
  /\ phase = "actions" /\ phase' = After("actions")
  /\ UNCHANGED <<market, pending, kept, portfolio, output>>

\* Portfolio.apply_dividend: nothing for a symbol that is not held.
PayDividend(s) ==
  /\ Acts /\ position[s] > 0
  /\ cash' = cash + position[s] * Dividend
  /\ receipts' = Append(receipts, [date |-> date, symbol |-> s, quantity |-> position[s],
                                   credited |-> position[s] * Dividend])
  /\ UNCHANGED <<pending, kept, position, lots, trades, rejected, equity, warned, orders>>

\* CostTaxEngine.apply_split: more units, cheaper, the dates unchanged.
SplitLots(s) ==
  [i \in DOMAIN lots[s] |->
     [lots[s][i] EXCEPT !.quantity = @ * Ratio, !.price = @ \div Ratio]]

\* Every lot price is a multiple of the ratio: the model has no fractions.
Divisible(s) == \A i \in DOMAIN lots[s] : lots[s][i].price % Ratio = 0

\* Portfolio.apply_split.  Orders already pending keep their quantity and limit.
Split(s) ==
  /\ Acts /\ position[s] > 0 /\ Divisible(s)
  /\ position' = [position EXCEPT ![s] = @ * Ratio]
  /\ lots' = [lots EXCEPT ![s] = SplitLots(s)]
  /\ UNCHANGED <<pending, kept, cash, output>>

-----------------------------------------------------------------------------
(* Step 3: the fill simulator.                                             *)

\* Mutant of FillPrice: a limit is filled at the limit, also when the bar opens better.
FillPriceAtLimit(o, b) ==
  CASE o.limit = 0 -> b.open
    [] o.limit > 0 /\ o.side = "BUY"  -> IF b.low > o.limit THEN 0 ELSE o.limit
    [] o.limit > 0 /\ o.side = "SELL" -> IF b.high < o.limit THEN 0 ELSE o.limit

\* FillSimulator._limit_fill_price, or the open for a market order; 0 for none.
FillPrice(o, b) ==
  CASE o.limit = 0                             -> b.open
    [] o.limit > 0 /\ o.side = "BUY"  /\ b.low > o.limit  -> 0
    [] o.limit > 0 /\ o.side = "SELL" /\ b.high < o.limit -> 0
    [] o.limit > 0 /\ o.side = "BUY"  /\ b.low <= o.limit ->
         IF o.limit < b.open THEN o.limit ELSE b.open
    [] o.limit > 0 /\ o.side = "SELL" /\ b.high >= o.limit ->
         IF o.limit > b.open THEN o.limit ELSE b.open

\* CostTaxEngine.compute_transaction_cost; buys also pay stamp duty.
TransactionCost(side, gross) == FlatFee + gross * Rate[side]

\* Mutant of CanAfford: the cost of a purchase is not counted.
CanAffordGross(o, quantity, price) ==
  IF o.side = "BUY" THEN quantity * price <= cash ELSE quantity <= position[o.symbol]

\* The participation cap, in whole units; 0 is no fill today.
FillQuantity(o, b) == IF o.quantity > b.cap THEN b.cap ELSE o.quantity

\* Portfolio.can_afford_buy and can_afford_sell.
CanAfford(o, quantity, price) ==
  IF o.side = "BUY" THEN quantity * price + TransactionCost("BUY", quantity * price) <= cash
                    ELSE quantity <= position[o.symbol]

\* Units of the first i lots.
UpTo(q, i) == SumOf([k \in 1..i |-> q[k].quantity])

Taken(q, quantity, i) ==
  LET before == UpTo(q, i - 1) IN
    IF before >= quantity THEN 0
    ELSE IF before + q[i].quantity <= quantity THEN q[i].quantity ELSE quantity - before

\* The lots a sale uses up, the oldest ones.
UsedUp(q, quantity) == {i \in DOMAIN q : UpTo(q, i) <= quantity}

\* CostTaxEngine.match_sell: the lots that remain, the first of them in part.
MatchSell(q, quantity) ==
  SubSeq([i \in DOMAIN q |-> [q[i] EXCEPT !.quantity = @ - Taken(q, quantity, i)]],
         Cardinality(UsedUp(q, quantity)) + 1, Len(q))

\* ... and the gross gain it realizes.
RealizedGain(q, quantity, price) ==
  SumOf([i \in DOMAIN q |-> (price - q[i].price) * Taken(q, quantity, i)])

\* Portfolio.apply_fill of a buy.
Buy(o, quantity, price) ==
  /\ cash' = cash - quantity * price - TransactionCost("BUY", quantity * price)
  /\ position' = [position EXCEPT ![o.symbol] = @ + quantity]
  /\ lots' = [lots EXCEPT ![o.symbol] =
                Append(@, [bought |-> date, quantity |-> quantity, price |-> price])]

\* Mutant of Sell: the cost is added to the proceeds.
SellEarnsCost(o, quantity, price) ==
  /\ cash' = cash + quantity * price + TransactionCost("SELL", quantity * price)
  /\ position' = [position EXCEPT ![o.symbol] = @ - quantity]
  /\ lots' = [lots EXCEPT ![o.symbol] = MatchSell(@, quantity)]

\* Portfolio.apply_fill of a sale.
Sell(o, quantity, price) ==
  /\ cash' = cash + quantity * price - TransactionCost("SELL", quantity * price)
  /\ position' = [position EXCEPT ![o.symbol] = @ - quantity]
  /\ lots' = [lots EXCEPT ![o.symbol] = MatchSell(@, quantity)]

Trade(o, quantity, price) ==
  [order |-> o.id, symbol |-> o.symbol, side |-> o.side, quantity |-> quantity,
   price |-> price, cost |-> TransactionCost(o.side, quantity * price),
   decided |-> o.decided, date |-> date,
   gain |-> IF o.side = "BUY" THEN 0 ELSE RealizedGain(lots[o.symbol], quantity, price)]

-----------------------------------------------------------------------------
(* _process_pending_orders, one order at a time, in the order of the list. *)

Order == Head(pending)
Today == bar[Order.symbol]

\* The target is the day after the order was queued, so it is always reached.
Due == phase = "fills" /\ pending # <<>> /\ date >= Order.target

\* try_fill returned a fill.
Fillable == Today # NoBar /\ FillPrice(Order, Today) > 0 /\ FillQuantity(Order, Today) > 0

Reject(o) == rejected' = Append(rejected, [order |-> o.id, quantity |-> o.quantity])

Keep ==
  /\ kept' = Append(kept, Order) /\ pending' = Tail(pending)
  /\ UNCHANGED <<market, phase, portfolio, output>>

Drop ==
  /\ Reject(Order) /\ pending' = Tail(pending)
  /\ UNCHANGED <<market, phase, kept, portfolio, trades, receipts, equity, warned, orders>>

\* No bar today: kept through the expiry date itself.
WaitForBar == Due /\ Today = NoBar /\ date <= Order.expiry /\ Keep

ExpireWithoutBar ==
  Due /\ Today = NoBar /\ date > Order.expiry /\ Drop

\* A bar that does not fill it: kept until the day before expiry.
WaitForPrice ==
  Due /\ Today # NoBar /\ ~Fillable /\ date < Order.expiry /\ Keep

ExpireUnfilled ==
  Due /\ Today # NoBar /\ ~Fillable /\ date >= Order.expiry /\ Drop

\* Insufficient cash, or more than is held.
RejectUnaffordable ==
  /\ Due /\ Fillable
  /\ ~CanAfford(Order, FillQuantity(Order, Today), FillPrice(Order, Today))
  /\ Drop

\* Mutant of Remainder: the rest of a partial fill is queued whatever the date.
RemainderForever(o, quantity) ==
  /\ pending' = Tail(pending)
  /\ IF o.quantity > quantity
       THEN kept' = Append(kept, o) /\ UNCHANGED rejected
       ELSE UNCHANGED <<kept, rejected>>

\* What a partial fill leaves is queued again, or rejected at expiry.
Remainder(o, quantity) ==
  /\ pending' = Tail(pending)
  /\ IF o.quantity = quantity THEN UNCHANGED <<kept, rejected>>
     ELSE IF date < o.expiry
       THEN /\ kept' = Append(kept, [o EXCEPT !.quantity = @ - quantity, !.target = date + 1])
            /\ UNCHANGED rejected
       ELSE Reject(o) /\ UNCHANGED kept

Fill ==
  /\ Due /\ Fillable
  /\ LET quantity == FillQuantity(Order, Today)
         price == FillPrice(Order, Today) IN
       /\ CanAfford(Order, quantity, price)
       /\ IF Order.side = "BUY" THEN Buy(Order, quantity, price)
                                ELSE Sell(Order, quantity, price)
       /\ trades' = Append(trades, Trade(Order, quantity, price))
       /\ Remainder(Order, quantity)
  /\ UNCHANGED <<market, phase, receipts, equity, warned, orders>>

FillsDone ==
  /\ phase = "fills" /\ pending = <<>>
  /\ pending' = kept /\ kept' = <<>> /\ phase' = After("fills")
  /\ UNCHANGED <<market, portfolio, output>>

-----------------------------------------------------------------------------
(* Steps 4 to 6.                                                           *)

Value(p, prices) == SumOver([s \in Symbol |-> p[s] * prices[s].price], Symbol)

\* _check_stale_prices: warn at the threshold, then every 30 days.
StaleWarning(s) ==
  LET stale == date - last[s].date IN
    /\ position[s] > 0 /\ last[s] # Unknown /\ stale >= StaleDays
    /\ (stale = StaleDays \/ stale - warned[s] >= 30)

Mark ==
  /\ phase = "mark" /\ phase' = After("mark")
  /\ warned' = [s \in Symbol |-> IF StaleWarning(s) THEN date - last[s].date ELSE warned[s]]
  /\ equity' = cash + Value(position, last)
  /\ UNCHANGED <<market, pending, kept, portfolio, trades, receipts, rejected, orders>>

\* _queue_order: earliest fill on the next date.
Queue(intent) ==
  [id |-> Len(orders) + 1, symbol |-> intent.symbol, side |-> intent.side,
   limit |-> intent.limit, quantity |-> intent.quantity, decided |-> date,
   target |-> date + 1, expiry |-> date + ExpiryDays]

\* generate_orders: as many orders as the strategy likes, queued one by one.
Decide(intent) ==
  /\ phase = "decide" /\ Len(orders) < MaxOrders
  /\ pending' = Append(pending, Queue(intent))
  /\ orders' = Append(orders, Queue(intent))
  /\ UNCHANGED <<market, phase, kept, portfolio, trades, receipts, rejected, equity, warned>>

DayDone ==
  /\ phase = "decide" /\ phase' = After("decide")
  /\ UNCHANGED <<market, pending, kept, portfolio, output>>

\* _reject_unfilled_orders_at_end.
Finish ==
  /\ phase = "advance" /\ date > 0 /\ phase' = "done"
  /\ rejected' = rejected \o
       [i \in DOMAIN pending |-> [order |-> pending[i].id, quantity |-> pending[i].quantity]]
  /\ pending' = <<>>
  /\ UNCHANGED <<market, kept, portfolio, trades, receipts, equity, warned, orders>>

Next ==
  \/ \E days \in 1..MaxGap : \E printed \in Printed : Advance(days, printed)
  \/ (\E s \in Symbol : PayDividend(s) \/ Split(s)) \/ ActionsDone
  \/ WaitForBar \/ ExpireWithoutBar \/ WaitForPrice \/ ExpireUnfilled
  \/ RejectUnaffordable \/ Fill \/ FillsDone
  \/ Mark
  \/ (\E intent \in Intents : Decide(intent)) \/ DayDone
  \/ Finish

Spec == Init /\ [][Next]_vars
=============================================================================
