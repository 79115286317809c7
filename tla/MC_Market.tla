------------------------------ MODULE MC_Market ------------------------------
(***************************************************************************)
(* Small instances of PredictionMarket.  The rates are tenths: a profit    *)
(* fee of one half, half of which leaves the pool, so that both roundings  *)
(* happen on single-digit amounts.                                         *)
(***************************************************************************)
EXTENDS MarketLedger, TLC

CONSTANTS alice, bob, salt, noSalt

Wallets == alice :> 16 @@ bob :> 5

Sample(age, price) ==
  [genuine |-> TRUE, final |-> TRUE, age |-> age, price |-> price, conf |-> 0]

\* Fresh samples at two prices, so that a position wins or loses everything, and one
\* old enough to have been published in the window before the present second.
Updates == {Sample(0, 10), Sample(0, 13), Sample(1, 13)}

\* One user who first provides the liquidity and then trades against it.
SoleWallet == alice :> 18

AnyWindow == {[min |-> 0, max |-> 100]}

\* Two providers, and what a read of the oracle may find beside a good sample:
\* another feed's update, one not fully verified, one too old, one of the future, a price
\* of zero, a price with too wide a confidence interval.
Providers == alice :> 12 @@ bob :> 3

UnfitUpdates ==
  {Sample(0, 10), Sample(0, 13), Sample(0, 9),
   [Sample(0, 10) EXCEPT !.genuine = FALSE], [Sample(0, 10) EXCEPT !.final = FALSE],
   Sample(2, 10), Sample(-1, 10), Sample(0, 0), [Sample(0, 10) EXCEPT !.conf = 2]}

\* A window that holds the price of 13 and not the price of 10.
SomeWindows == AnyWindow \cup {[min |-> 12, max |-> 14]}
=============================================================================
