-------------------------- MODULE LeaderboardViews --------------------------
(***************************************************************************)
(* The two materialized views of migration 0003, as functions of the       *)
(* position table and of the day they are computed on, and the pages and   *)
(* single rows the API reads from them.                                    *)
(*                                                                         *)
(* A position is a record [id, market, user, status, outcome, collateral,  *)
(* payout, lp_fee, platform_fee, closed]; user and closed may be None.     *)
(* Users are numbers, in the order in which their public keys compare.     *)
(* Time is a day number: day 0 is a Monday and the first of a month, and   *)
(* months have the same length, which changes how many days a period       *)
(* spans and nothing else.                                                 *)
(***************************************************************************)
EXTENDS Integers, FiniteSets, Sequences, SequencesExt, FiniteSetsExt

CONSTANTS None, DAYS_IN_WEEK, DAYS_IN_MONTH

ASSUME ViewsAssumption ==
  DAYS_IN_WEEK \in Nat \ {0} /\ DAYS_IN_MONTH \in Nat \ {0}

Periods == {"today", "week", "month", "all"}

\* closed_at >= period_start AND closed_at < period_end, with the start and the end
\* truncated from the day of the refresh.
InPeriod(period, closed, today) ==
  CASE period = "today" -> closed = today
    [] period = "week"  -> closed \div DAYS_IN_WEEK = today \div DAYS_IN_WEEK
    [] period = "month" -> closed \div DAYS_IN_MONTH = today \div DAYS_IN_MONTH
    [] OTHER            -> TRUE

\* The generated columns of the position table.
NetPnl(p)   == p.payout - p.collateral
TotalFee(p) == p.lp_fee + p.platform_fee

\* The rows the aggregation ranges over.  A position whose creation was never seen
\* has no user; one whose close came without a block time has no closing time.
Counted(positions, period, today) ==
  { p \in positions : /\ p.user # None
                      /\ p.status \in {"settled", "refunded"}
                      /\ p.closed # None
                      /\ InPeriod(period, p.closed, today) }

\* One aggregated row: refunds are counted and enter no sum.
Aggregated(user, mine) ==
  LET played     == {p \in mine : p.outcome # "refunded"}
      count(o)   == Cardinality({p \in mine : p.outcome = o})
      sum(op(_)) == MapThenSumSet(op, played)
      decided    == count("won") + count("lost")
  IN  [user          |-> user,
       trades        |-> Cardinality(played),
       wins          |-> count("won"),
       losses        |-> count("lost"),
       breakevens    |-> count("breakeven"),
       refunds       |-> count("refunded"),
       volume        |-> sum(LAMBDA p : p.collateral),
       payout        |-> sum(LAMBDA p : p.payout),
       net_pnl       |-> sum(NetPnl),
       lp_fees       |-> sum(LAMBDA p : p.lp_fee),
       platform_fees |-> sum(LAMBDA p : p.platform_fee),
       total_fees    |-> sum(TotalFee),
       win_rate_bps  |-> IF decided = 0 THEN 0 ELSE (count("won") * 10000) \div decided]

Outranks(a, b) ==
  \/ a.net_pnl > b.net_pnl
  \/ a.net_pnl = b.net_pnl /\ a.volume > b.volume
  \/ a.net_pnl = b.net_pnl /\ a.volume = b.volume /\ a.user < b.user

\* row_number() OVER (ORDER BY ...), where "before" has the pairs in that order: the row
\* of rank i, the i-th, has i - 1 rows before it.
Ranked(rows, before) ==
  [i \in 1..Cardinality(rows) |->
     CHOOSE r \in rows : Cardinality({q \in rows : <<q, r>> \in before}) = i - 1]

\* api.leaderboard_global.
GlobalBoard(positions, period, today) ==
  LET counted == Counted(positions, period, today)
      rows    == { Aggregated(u, {p \in counted : p.user = u}) :
                     u \in {p.user : p \in counted} }
  IN  Ranked(rows, {pair \in rows \X rows : Outranks(pair[1], pair[2])})

\* api.leaderboard_market: the same, partitioned by market.
MarketBoard(positions, market, period, today) ==
  GlobalBoard({p \in positions : p.market = market}, period, today)

\* A page of the leaderboards handler: the rows whose rank is greater than "after",
\* at most "limit" of them.  The handler reads one row more to learn whether
\* another page follows.
BoardPage(board, after, limit) ==
  SubSeq(board, after + 1, Min({after + limit, Len(board)}))

BoardGoesOn(board, after, limit) == Len(board) > after + limit

\* user_stats: the wallet's row, or the empty one without a rank.
UserStats(board, user) ==
  IF \E i \in 1..Len(board) : board[i].user = user
  THEN LET i == CHOOSE i \in 1..Len(board) : board[i].user = user
       IN  [row |-> board[i], rank |-> i]
  ELSE [row |-> Aggregated(user, {}), rank |-> None]
=============================================================================
