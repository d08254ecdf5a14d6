----------------------------- MODULE PaperEngine -----------------------------
(***************************************************************************)
(* PaperTradingEngine with the cash, the holdings and the ledger it keeps, *)
(* and the summary it makes of them at the prices of the day.  It only     *)
(* buys; a caller sells through its holdings and its cash, which leaves no *)
(* trade in the ledger.                                                    *)
(***************************************************************************)
EXTENDS Integers, Sequences, Sums

CONSTANTS
  Stocks, StockPrices, StockQuantities,
  InitialCash,
  MaxTrades      \* bound: trades and sales

VARIABLES
  balance,       \* CashManager
  held,          \* HoldingsManager, 0 for a symbol it has not
  ledger,        \* TradeLedger: the trades, all BUY
  quotes,        \* symbol -> market price
  sales          \* what was sold, and for how much (history)

engineVars == <<balance, held, ledger, quotes, sales>>

Init ==
  /\ balance = InitialCash
  /\ held = [s \in Stocks |-> 0]
  /\ ledger = <<>> /\ sales = <<>>
  /\ quotes = [s \in Stocks |-> CHOOSE p \in StockPrices : \A q \in StockPrices : p <= q]

More == Len(ledger) + Len(sales) < MaxTrades
Deal(s, q) == [symbol |-> s, quantity |-> q, price |-> quotes[s]]

(* withdraw raises before anything changed.                                *)
Affords(cost) == cost <= balance

(* As if the holdings and the ledger were written before the withdrawal.   *)
BuyUnpaid(s, q) ==
  /\ More
  /\ held' = [held EXCEPT ![s] = @ + q]
  /\ ledger' = Append(ledger, Deal(s, q))
  /\ balance' = IF Affords(q * quotes[s]) THEN balance - q * quotes[s] ELSE balance
  /\ UNCHANGED <<quotes, sales>>

Buy(s, q) ==
  /\ More /\ Affords(q * quotes[s])
  /\ balance' = balance - q * quotes[s]
  /\ held' = [held EXCEPT ![s] = @ + q]
  /\ ledger' = Append(ledger, Deal(s, q))
  /\ UNCHANGED <<quotes, sales>>

Sell(s, q) ==
  /\ More /\ held[s] >= q
  /\ held' = [held EXCEPT ![s] = @ - q]
  /\ balance' = balance + q * quotes[s]
  /\ sales' = Append(sales, Deal(s, q))
  /\ UNCHANGED <<ledger, quotes>>

QuoteMoves(s, p) ==
  /\ quotes' = [quotes EXCEPT ![s] = p]
  /\ UNCHANGED <<balance, held, ledger, sales>>

Next ==
  \E s \in Stocks :
    \/ \E q \in StockQuantities : Buy(s, q) \/ Sell(s, q)
    \/ \E p \in StockPrices : QuoteMoves(s, p)

Spec == Init /\ [][Next]_engineVars

(* portfolio_summary.                                                      *)
Value == SumOver([s \in Stocks |-> held[s] * quotes[s]], Stocks)
Profit == balance + Value - InitialCash

-----------------------------------------------------------------------------
Gain(deals) ==
  SumOf([k \in DOMAIN deals |-> deals[k].quantity * (quotes[deals[k].symbol] - deals[k].price)])

(* The profit of the summary is what the ledger's trades gained since, less *)
(* what the sales gave up, the money is never overdrawn and nothing is     *)
(* held that was not bought: a refused order leaves no trace.              *)
ProfitIsExplained ==
  /\ Profit = Gain(ledger) - Gain(sales)
  /\ balance >= 0 /\ \A s \in Stocks : held[s] >= 0
=============================================================================
