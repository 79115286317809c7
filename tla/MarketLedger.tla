----------------------------- MODULE MarketLedger -----------------------------
(***************************************************************************)
(* PredictionMarket implements PositionLedger.  Whether a position is open *)
(* is read from its owner's UserPositions account and from the Market's    *)
(* nonce; what it took and paid, from the events.                          *)
(***************************************************************************)
EXTENDS PredictionMarket

HeldOpen(n) == \E u \in Users : \E p \in user_positions[u] : p.nonce = n

PhaseOf(n) ==
  CASE HeldOpen(n)                                        -> "open"
    [] ~HeldOpen(n) /\ n >= next_position_nonce           -> "unopened"
    [] ~HeldOpen(n) /\ n < next_position_nonce
                    /\ log[n].status = "Refunded"         -> "refunded"
    [] OTHER                                              -> "settled"

Ledger == INSTANCE PositionLedger WITH
  Positions <- Nonces,
  MaxReturn <- 1 + MAX_GROSS_PROFIT_MULTIPLIER,
  Capacity  <- MAX_ACTIVE_POSITIONS,
  phase     <- [n \in Nonces |-> PhaseOf(n)],
  stake     <- [n \in Nonces |-> log[n].collateral],
  paid      <- [n \in Nonces |-> log[n].payout]

\* The program never reopens, renumbers or pays twice a position, never pays more
\* than the capped profit, and refunds a stake whole.
ImplementsLedger == Ledger!LedgerSafety

\* With the scheduler running, it closes every position it has opened.
ClosesLedger == Ledger!LedgerCloses
=============================================================================
