------------------------ MODULE BacktestProperties ------------------------
(***************************************************************************)
(* What a backtest must never get wrong: look into the future, create or   *)
(* lose money, units, tax lots or orders.                                  *)
(***************************************************************************)
EXTENDS Backtest

\* No look-ahead: what is filled was decided on an earlier date, and at a price
\* inside the range of that date's bar.
NoLookAhead ==
  \A i \in DOMAIN trades :
    LET t == trades[i] IN
      /\ t.decided < t.date
      /\ t.date = date => t.price \in (bar[t.symbol].low)..(bar[t.symbol].high)

\* The tax lots are exactly the units held, oldest first, and each still has
\* the date of a purchase: neither sales nor splits renew the holding period.
LotsMatchPosition ==
  \A s \in Symbol :
    /\ Total(LAMBDA lot : lot.quantity, lots[s]) = position[s]
    /\ \A i \in DOMAIN lots[s] :
         /\ \E k \in DOMAIN trades : trades[k].symbol = s /\ trades[k].side = "BUY"
                                      /\ trades[k].date = lots[s][i].bought
         /\ i > 1 => lots[s][i - 1].bought <= lots[s][i].bought

\* The equity curve is explained by the trade log: capital, less costs, plus
\* dividends, plus the gains realized on the tax lots sold and the gain still
\* open on the lots held, which are the units held.  Cash, positions, FIFO lots
\* and log can only agree if partial fills, lots sold in part and splits are
\* all accounted for once.
EquityExplained ==
  /\ LotsMatchPosition
  /\ phase = "decide" =>
       equity = Capital
         - Total(LAMBDA t : t.cost, trades) + Total(LAMBDA t : t.gain, trades)
         + Total(LAMBDA r : r.credited, receipts)
         + SumOver([s \in Symbol |->
                      Total(LAMBDA lot : lot.quantity * (last[s].price - lot.price), lots[s])],
                   Symbol)

\* Buying never overdraws the account: cash is short only by what selling cost.
BuysAreFunded ==
  cash + Total(LAMBDA t : IF t.side = "SELL" THEN t.cost ELSE 0, trades) >= 0

FilledOf(id) == Total(LAMBDA t : IF t.order = id THEN t.quantity ELSE 0, trades)
PendingOf(id) == Total(LAMBDA o : IF o.id = id THEN o.quantity ELSE 0, pending)
                   + Total(LAMBDA o : IF o.id = id THEN o.quantity ELSE 0, kept)
RejectedOf(id) == {i \in DOMAIN rejected : rejected[i].order = id}

\* Every order ends one way, and in time: what was asked for is filled or still
\* pending, or the order is rejected, once, and short of what was asked for; and
\* no order is pending past its expiry once the fills of the date are done.
\* Expiry is looked at only when a bar did not fill the order, so the first bar
\* after it may still do so.
EveryUnitAccounted ==
  /\ \A id \in DOMAIN orders :
       \/ /\ FilledOf(id) + PendingOf(id) = orders[id].quantity
          /\ RejectedOf(id) = {}
       \/ /\ FilledOf(id) < orders[id].quantity /\ PendingOf(id) = 0
          /\ Cardinality(RejectedOf(id)) = 1
  /\ phase \in {"mark", "decide", "advance"} =>
       \A i \in DOMAIN pending : date <= pending[i].expiry
=============================================================================
