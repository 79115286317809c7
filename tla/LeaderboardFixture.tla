------------------------- MODULE LeaderboardFixture -------------------------
(***************************************************************************)
(* The rows the indexer's leaderboard fixture seeds and what it expects of *)
(* the two views afterwards, put to LeaderboardViews.                      *)
(*                                                                         *)
(* Amounts are the fixture's divided by 10 000; the payout that is there   *)
(* for its precision is only a large one.  User 1 is USER_A, user 2 USER_B *)
(* and 3 to 5 are the generated keys, which compare in that order among    *)
(* themselves.  The fixture closes a position an hour before, on the       *)
(* month's second day or forty days before the refresh.                    *)
(***************************************************************************)
EXTENDS Integers, Sequences

V == INSTANCE LeaderboardViews WITH
       None <- -1, DAYS_IN_WEEK <- 7, DAYS_IN_MONTH <- 31

Closing == [today |-> 45, month |-> 32, all |-> 5]

Seeded(id, market, user, outcome, collateral, payout, lp_fee, platform_fee, period) ==
  [id |-> id, market |-> market, user |-> user, outcome |-> outcome,
   status |-> IF outcome = "refunded" THEN "refunded" ELSE "settled",
   collateral |-> collateral, payout |-> payout, lp_fee |-> lp_fee,
   platform_fee |-> platform_fee, closed |-> Closing[period]]

PRECISE == 900719925

Seed ==
  { Seeded(1, 1, 1, "won",       100, 200,  8,  2, "today"),
    Seeded(2, 1, 1, "lost",      200,   0,  0,  0, "today"),
    Seeded(3, 1, 2, "breakeven", 100, 100,  0,  0, "today"),
    Seeded(4, 1, 2, "refunded",  200, 200, 40, 10, "today"),
    Seeded(5, 1, 3, "won",       100, 200,  8,  2, "today"),
    Seeded(6, 1, 4, "won",       100, 200,  8,  2, "today"),
    Seeded(7, 2, 1, "won",       100, 150,  4,  1, "month"),
    Seeded(8, 2, 2, "lost",      100,   0,  0,  0, "all"),
    Seeded(9, 1, 5, "won",       100, PRECISE, 1, 1, "today") }

\* The refresh takes place on the day of the first closings.
Expectations ==
  LET day    == Closing.today
      market == V!MarketBoard(Seed, 1, "today", day)
      global == V!GlobalBoard(Seed, "today", day)
      a      == V!UserStats(market, 1).row
      b      == V!UserStats(market, 2).row
  IN  /\ a.trades = 2 /\ a.wins = 1 /\ a.losses = 1
      /\ a.win_rate_bps = 5000 /\ a.net_pnl = -100
      /\ b.trades = 1 /\ b.breakevens = 1 /\ b.refunds = 1
      /\ b.volume = 100 /\ b.total_fees = 0
      /\ V!UserStats(global, 5).row.payout = PRECISE
      /\ V!UserStats(market, 3).rank < V!UserStats(market, 4).rank

\* What the rows dated otherwise are there for: each period holds its own closings.
PeriodsApart ==
  LET day == Closing.today
  IN  /\ V!UserStats(V!MarketBoard(Seed, 2, "today", day), 1).rank = -1
      /\ V!UserStats(V!MarketBoard(Seed, 2, "month", day), 1).row.net_pnl = 50
      /\ V!UserStats(V!MarketBoard(Seed, 2, "month", day), 2).rank = -1
      /\ Len(V!MarketBoard(Seed, 2, "all", day)) = 2
      /\ V!UserStats(V!GlobalBoard(Seed, "all", day), 1).row.trades = 3

ASSUME FixtureAgrees == Expectations /\ PeriodsApart
=============================================================================
