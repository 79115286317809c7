------------------------------ MODULE MC_Board ------------------------------
(***************************************************************************)
(* A small instance of Leaderboards.                                       *)
(***************************************************************************)
EXTENDS Leaderboards, LeaderboardFixture

Position(id, mkt, user, outcome, collateral, payout, slot) ==
  [id |-> id, market |-> mkt, user |-> user, outcome |-> outcome, slot |-> slot,
   status |-> IF outcome = "refunded" THEN "refunded" ELSE "settled",
   collateral |-> collateral, payout |-> payout, lp_fee |-> 0, platform_fee |-> 0]

\* Two users with equal profits in the market clients ask for.  The close that is
\* stored late makes them equal there and puts the other one first over all markets.
SmallPositionOf ==
  << Position(1, 1, 1, "won", 10, 18, 2), Position(2, 2, 2, "won", 10, 18, 2),
     Position(3, 1, 2, "won", 10, 18, 4) >>

\* Two events of one transaction, and a late one whose time the node did not return.
SmallEventOf ==
  << [time |-> 9, market |-> 1, signature |-> 1, path |-> 1, slot |-> 3],
     [time |-> 9, market |-> 1, signature |-> 1, path |-> 2, slot |-> 3],
     [time |-> None, market |-> 1, signature |-> 2, path |-> 1, slot |-> 5] >>
=============================================================================
