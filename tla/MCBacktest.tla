---------------------------- MODULE MCBacktest ----------------------------
(* Values for the constants of Backtest. *)
EXTENDS BacktestProperties

\* A thin bar that fills one unit a day, and a deep one that dips.
Thin == [open |-> 4, low |-> 4, high |-> 6, close |-> 6, cap |-> 1]
Deep == [open |-> 4, low |-> 2, high |-> 4, close |-> 2, cap |-> 4]

\* B is never traded: it makes trading dates on which A has no bar.
MCBars == [s \in Symbol |-> IF s = "A" THEN {Thin, Deep} ELSE {Thin}]

Intent(side, limit, quantity) ==
  [symbol |-> "A", side |-> side, limit |-> limit, quantity |-> quantity]

MCIntents == {Intent("BUY", 5, 2), Intent("BUY", 2, 2), Intent("SELL", 0, 3),
              Intent("SELL", 5, 1)}

MCRate == [side \in {"BUY", "SELL"} |-> IF side = "BUY" THEN 1 ELSE 0]
===========================================================================
