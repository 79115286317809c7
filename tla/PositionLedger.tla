---------------------------- MODULE PositionLedger ----------------------------
(***************************************************************************)
(* What the program promises a trader, with no market, oracle, clock or    *)
(* scheduler in it: positions are numbered without gaps, at most Capacity  *)
(* of them are open together, each one takes a stake when it opens and     *)
(* pays once when it closes -- never more than MaxReturn stakes, and       *)
(* exactly the stake when it is refunded -- and each one closes.           *)
(***************************************************************************)
EXTENDS Integers, FiniteSets

CONSTANTS
  Positions,   \* position numbers, 0 .. k
  MaxReturn,   \* stakes a position may pay back, its own included
  Capacity     \* positions that may be open together

VARIABLES
  phase,       \* what has become of each position
  stake,       \* what it took when it was opened
  paid         \* what it has paid

ledgerVars == <<phase, stake, paid>>

OpenOnes == {n \in Positions : phase[n] = "open"}

LedgerInit ==
  /\ phase = [n \in Positions |-> "unopened"]
  /\ stake = [n \in Positions |-> 0]
  /\ paid  = [n \in Positions |-> 0]

Open(n) ==
  /\ phase[n] = "unopened"
  /\ \A m \in Positions : m < n => phase[m] # "unopened"
  /\ Cardinality(OpenOnes) < Capacity
  /\ phase' = [phase EXCEPT ![n] = "open"]
  /\ stake'[n] \in Nat \ {0}
  /\ stake' = [stake EXCEPT ![n] = stake'[n]]
  /\ UNCHANGED paid

Settle(n) ==
  /\ phase[n] = "open"
  /\ phase' = [phase EXCEPT ![n] = "settled"]
  /\ paid'[n] \in 0..(MaxReturn * stake[n])
  /\ paid' = [paid EXCEPT ![n] = paid'[n]]
  /\ UNCHANGED stake

Refund(n) ==
  /\ phase[n] = "open"
  /\ phase' = [phase EXCEPT ![n] = "refunded"]
  /\ paid' = [paid EXCEPT ![n] = stake[n]]
  /\ UNCHANGED stake

LedgerNext == \E n \in Positions : Open(n) \/ Settle(n) \/ Refund(n)

\* Safety: the behaviours of the ledger, whatever opens and closes when.
LedgerSafety == LedgerInit /\ [][LedgerNext]_ledgerVars

\* Liveness: an open position is not left open.
LedgerCloses ==
  \A n \in Positions : phase[n] = "open" ~> phase[n] \in {"settled", "refunded"}

LedgerSpec == LedgerSafety /\ LedgerCloses
=============================================================================
