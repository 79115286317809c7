-------------------------- MODULE MC_SettlementCurve --------------------------
(***************************************************************************)
(* SettlementCurve with the program's own leverage, multiplier and fees.   *)
(* The prices are around 3000, so that a move of 3 is worth the whole      *)
(* collateral and a move of 15 reaches the cap of the profit; the          *)
(* collaterals are odd, so that every division leaves a remainder.         *)
(***************************************************************************)
EXTENDS SettlementCurve

OddCollaterals == {1, 7, 33, 1009}
NearPrices == 2992..3010
=============================================================================
