---------------------------- MODULE Leaderboards ----------------------------
(***************************************************************************)
(* The leaderboard projection and its readers: two processes that refresh  *)
(* the materialized views under an advisory lock, the writer on its timer  *)
(* and an operator's command line; whoever stores transactions meanwhile;  *)
(* and a client of the API that walks a leaderboard or a wallet's          *)
(* liquidity history page by page, or asks for one wallet's statistics.    *)
(*                                                                         *)
(* A database statement is a step.  What a refresh does before its first   *)
(* REFRESH (take the lock, read the status row, look at the clock, decide) *)
(* is one step, since only the holder of the lock writes that row.  A      *)
(* refresher that finds the lock held or coalesces changes nothing.        *)
(* last_attempt_at, last_duration_ms and last_error are left out: nothing  *)
(* reads them but an operator.                                             *)
(*                                                                         *)
(* A definition named as TryLock_Anyway is a mutant, as in SettlementMath. *)
(***************************************************************************)
EXTENDS LeaderboardViews

CONSTANTS
  Closes, PositionOf,    \* closes, and their positions but for "closed", with the slot
  Events, EventOf,       \* one wallet's liquidity events, and what they are: time,
                         \* market, signature, path and slot
  EarlyCloses, EarlyEvents,   \* those stored from the start
  MARKET,                \* the market a client asks for
  ASKED_PERIODS,         \* and the periods
  LIMIT,                 \* rows of a page
  Unstored,
  LAST_DAY,              \* bound: midnights
  MAX_FORCED,            \* bound: refreshes by command
  MAX_FAILURES           \* bound: refreshes that fail or die

Refreshers == {"writer", "cli"}

ASSUME LeaderboardsAssumption ==
  /\ LIMIT \in Nat \ {0}                 \* page_limit
  /\ IsFiniteSet(Closes) /\ EarlyCloses \subseteq Closes
  /\ IsFiniteSet(Events) /\ EarlyEvents \subseteq Events
  /\ ASKED_PERIODS \subseteq Periods
  /\ LAST_DAY \in Nat /\ MAX_FORCED \in Nat /\ MAX_FAILURES \in Nat
  /\ \A c \in Closes : PositionOf[c].slot \in Nat
  /\ \A e \in Events : EventOf[e].slot \in Nat
  /\ None \notin Nat \cup Refreshers /\ Unstored \notin Nat \cup {None}

\* Texts are numbered in the order they compare.  A line of the log, which is the path,
\* holds one event.
ASSUME EventsAssumption ==
  /\ \A e \in Events : /\ EventOf[e].time \in Nat \cup {None} /\ EventOf[e].market \in Nat
                        /\ EventOf[e].signature \in Nat /\ EventOf[e].path \in Nat
  /\ \A d, e \in Events : /\ EventOf[d].signature = EventOf[e].signature
                           /\ EventOf[d].path = EventOf[e].path
                           => d = e
  /\ None \notin Nat \X Nat \X Nat \X Nat    \* nor is it a cursor

VARIABLES
  today, recent,        \* the UTC day; whether minimum_interval has yet to pass
  closedAt, events,     \* the tables: closing days, and the liquidity events
  market, global,       \* the views: the closing days and the day they were computed of
  status, lock,         \* the status row, and who holds the advisory lock
  job,                  \* what each refresher is doing
  forced, failures,
  client,
  \* History: what was stored when the refresh of this version, or of the job, began
  covered

clockVars   == <<today, recent>>
tableVars   == <<closedAt, events>>
refreshVars == <<market, global, status, lock, job, covered, forced, failures>>
vars == <<clockVars, tableVars, refreshVars, client>>

Idle == [phase |-> "idle", day |-> 0, mark |-> None]

\* A client without a request, and whether its last answer was whole.
Done(whole) == [phase |-> "idle", whole |-> whole]

Nothing == [c \in Closes |-> Unstored]

\* The migration creates the views from an empty table; the early rows are stored
\* before the first refresh.
Init ==
  /\ today = 0 /\ recent = FALSE
  /\ closedAt = [c \in Closes |-> IF c \in EarlyCloses THEN 0 ELSE Unstored]
  /\ events = EarlyEvents
  /\ market = [closed |-> Nothing, day |-> 0]
  /\ global = [closed |-> Nothing, day |-> 0]
  /\ status = [version |-> 0, day |-> None, mark |-> None]
  /\ lock = None
  /\ job = [r \in Refreshers |-> Idle]
  /\ covered = [done |-> Nothing, writer |-> Nothing, cli |-> Nothing]
  /\ forced = 0 /\ failures = 0
  /\ client = Done(TRUE)

(***************************************************************************)
(* The clock and the tables.                                               *)
(***************************************************************************)

Midnight ==
  /\ today < LAST_DAY
  /\ today' = today + 1
  /\ UNCHANGED <<recent, tableVars, refreshVars, client>>

Behind == \E v \in {market, global} : v.closed # closedAt \/ v.day # today

\* minimum_interval has passed since the last success.  A refresh of the timer that
\* would change nothing is left out; the forced ones stand for it.
IntervalElapses ==
  /\ recent /\ Behind
  /\ recent' = FALSE
  /\ UNCHANGED <<today, tableVars, refreshVars, client>>

\* A close is stored, in any order.  A notification dates it today, a crawl at its
\* block's time.  (One without a block time never enters a leaderboard.)
StoreClose(c) ==
  /\ closedAt[c] = Unstored
  /\ \E day \in 0..today : closedAt' = [closedAt EXCEPT ![c] = day]
  /\ UNCHANGED <<events, clockVars, refreshVars, client>>

\* The events of a transaction are stored in one.
StoreEvents(e) ==
  /\ e \notin events
  /\ events' = events \cup {d \in Events : EventOf[d].signature = EventOf[e].signature}
  /\ UNCHANGED <<closedAt, clockVars, refreshVars, client>>

\* SELECT max(slot) FROM indexer.transactions WHERE succeeded
HighWater ==
  LET slots == {PositionOf[c].slot : c \in {c \in Closes : closedAt[c] # Unstored}}
                 \cup {EventOf[e].slot : e \in events}
  IN  IF slots = {} THEN None ELSE Max(slots)

(***************************************************************************)
(* A refresh.                                                              *)
(***************************************************************************)

CoalescedIf_SameDay == status.day = today

\* recent && !crossed_boundary: the day decides the week and the month.
CoalescedIf == recent /\ status.day = today

TryLock_Anyway(r) == job[r].phase = "idle"

TryLock(r) == job[r].phase = "idle" /\ lock = None

Begin(r, force) ==
  /\ TryLock(r)
  /\ force \/ ~CoalescedIf
  /\ lock' = r
  /\ job' = [job EXCEPT ![r] = [phase |-> "market", day |-> today, mark |-> None]]
  /\ covered' = [covered EXCEPT ![r] = closedAt]
  /\ UNCHANGED <<clockVars, tableVars, market, global, status, failures, client>>

TimerTicks == Begin("writer", FALSE) /\ UNCHANGED forced

\* refresh-leaderboards, with or without --force.
CommandRuns ==
  /\ forced < MAX_FORCED
  /\ forced' = forced + 1
  /\ \E force \in BOOLEAN : Begin("cli", force)

\* REFRESH MATERIALIZED VIEW CONCURRENTLY: readers see the old rows or the new ones.
Recomputed == [closed |-> closedAt, day |-> today]

RefreshMarket(r) ==
  /\ job[r].phase = "market"
  /\ market' = Recomputed
  /\ job' = [job EXCEPT ![r].phase = "global"]
  /\ UNCHANGED <<clockVars, tableVars, global, status, lock, covered, forced, failures, client>>

RefreshGlobal(r) ==
  /\ job[r].phase = "global"
  /\ global' = Recomputed
  /\ job' = [job EXCEPT ![r].phase = "mark"]
  /\ UNCHANGED <<clockVars, tableVars, market, status, lock, covered, forced, failures, client>>

ReadMark(r) ==
  /\ job[r].phase = "mark"
  /\ job' = [job EXCEPT ![r].phase = "record", ![r].mark = HighWater]
  /\ UNCHANGED <<clockVars, tableVars, market, global, status, lock, covered, forced, failures,
                 client>>

RecordedDay_AtTheEnd(r) == today

\* The day of the decision, not of the record.
RecordedDay(r) == job[r].day

Record(r) ==
  /\ job[r].phase = "record"
  /\ status' = [version |-> status.version + 1, day |-> RecordedDay(r), mark |-> job[r].mark]
  /\ recent' = TRUE
  /\ lock' = None
  /\ job' = [job EXCEPT ![r] = Idle]
  /\ covered' = [covered EXCEPT !.done = covered[r], ![r] = Nothing]
  /\ UNCHANGED <<today, tableVars, market, global, forced, failures, client>>

\* A statement fails, or the process dies: the lock goes with the unlock or with the
\* connection, and what was refreshed stays.
FailRefresh(r) ==
  /\ job[r].phase # "idle"
  /\ failures < MAX_FAILURES
  /\ failures' = failures + 1
  /\ lock' = None
  /\ job' = [job EXCEPT ![r] = Idle]
  /\ covered' = [covered EXCEPT ![r] = Nothing]
  /\ UNCHANGED <<clockVars, tableVars, market, global, status, forced, client>>

RefreshSteps(r) == RefreshMarket(r) \/ RefreshGlobal(r) \/ ReadMark(r) \/ Record(r)

(***************************************************************************)
(* A client of the API.                                                    *)
(***************************************************************************)

Boards == {"market", "global"}

View(board) == IF board = "market" THEN market ELSE global

PositionsIn(view) ==
  { [f \in DOMAIN PositionOf[c] \cup {"closed"} |->
       IF f = "closed" THEN view.closed[c] ELSE PositionOf[c][f]] :
      c \in {c \in Closes : view.closed[c] # Unstored} }

Board(board, period, view) ==
  IF board = "market" THEN MarketBoard(PositionsIn(view), MARKET, period, view.day)
                      ELSE GlobalBoard(PositionsIn(view), period, view.day)

\* Everything that had a closing day in the one has it in the other.
Holds(view, closed) == \A c \in Closes : closed[c] # Unstored => view.closed[c] = closed[c]

\* History: what is to be true of a walk that ends.  Every page held what its version
\* promised, and if no refresh came between its pages the walk is that leaderboard.
WholeBoard(walk) ==
  /\ walk.kept
  /\ walk.single =>
       LET board == Board(walk.board, walk.period, walk.view)
       IN  walk.got = [i \in 1..Len(board) |-> board[i].user]

\* The first request, for a page of a leaderboard or for the wallet's statistics.
\* History: the view of the first page, and whether every page came from a view
\* with what the version it was served under promises.
AskBoard ==
  /\ client.phase = "idle"
  /\ \E board \in Boards, period \in ASKED_PERIODS, kind \in {"walk", "stats"} :
       client' = [phase |-> "status", kind |-> kind, board |-> board, period |-> period,
                  version |-> None, after |-> 0, got |-> <<>>, promised |-> Nothing,
                  view |-> None, single |-> TRUE, kept |-> TRUE]
  /\ UNCHANGED <<clockVars, tableVars, refreshVars>>

\* projection_status: a cursor of another version is refused as stale.
ReadStatus ==
  /\ client.phase = "status"
  /\ client' = IF client.version \in {None, status.version}
               THEN [client EXCEPT !.phase = "rows", !.version = status.version,
                                   !.promised = covered.done]
               ELSE Done(TRUE)
  /\ UNCHANGED <<clockVars, tableVars, refreshVars>>

\* leaderboards: a page in the order of the ranks; the cursor holds the last rank kept.
ReadPage ==
  /\ client.phase = "rows" /\ client.kind = "walk"
  /\ LET view  == View(client.board)
         board == Board(client.board, client.period, view)
         page  == BoardPage(board, client.after, LIMIT)
         walk  == [client EXCEPT
           !.phase = "status", !.promised = Nothing,
           !.got = @ \o [i \in 1..Len(page) |-> page[i].user],
           !.after = @ + Len(page),
           !.view = IF client.after = 0 THEN view ELSE @,
           !.single = client.after = 0 \/ (@ /\ client.view = view),
           !.kept = @ /\ Holds(view, client.promised)]
     IN  client' = IF BoardGoesOn(board, client.after, LIMIT) THEN walk
                   ELSE Done(WholeBoard(walk))
  /\ UNCHANGED <<clockVars, tableVars, refreshVars>>

\* user_stats: one row of either view.
ReadStats ==
  /\ client.phase = "rows" /\ client.kind = "stats"
  /\ client' = Done(Holds(View(client.board), client.promised))
  /\ UNCHANGED <<clockVars, tableVars, refreshVars>>

\* The key a liquidity page is ordered by, descending: an event without a time sorts
\* at the epoch.
SortTime(event) == IF event.time = None THEN 0 ELSE event.time

Key(e) == LET event == EventOf[e]
          IN  <<SortTime(event), event.market, event.signature, event.path>>

\* The comparison of rows in SQL.
Below(k, l) == \E i \in 1..4 : k[i] < l[i] /\ \A j \in 1..(i - 1) : k[j] = l[j]

\* ORDER BY sort_time DESC, market_id DESC, signature DESC, instruction_path DESC
NewerFirst(rows) == {pair \in rows \X rows : Below(Key(pair[2]), Key(pair[1]))}

PastCursor_NoPath(e, after) ==
  after # None => \E i \in 1..3 : Key(e)[i] < after[i] /\ \A j \in 1..(i - 1) : Key(e)[j] = after[j]

\* What the cursor has yet to return.
PastCursor(e, after) == after # None => Below(Key(e), after)

\* History: newest first, each event once, and none missing that was stored when
\* the walk began.
WholeHistory(walk) ==
  /\ \A i \in 1..(Len(walk.got) - 1) : Below(Key(walk.got[i + 1]), Key(walk.got[i]))
  /\ walk.stored \subseteq ToSet(walk.got)

AskLiquidity ==
  /\ client.phase = "idle"
  /\ client' = [phase |-> "rows", kind |-> "liquidity", after |-> None, got |-> <<>>,
                stored |-> events]
  /\ UNCHANGED <<clockVars, tableVars, refreshVars>>

\* user_liquidity: no version guards this cursor, the rows never change.
ReadLiquidity ==
  /\ client.phase = "rows" /\ client.kind = "liquidity"
  /\ LET next == {e \in events : PastCursor(e, client.after)}
         rows == Ranked(next, NewerFirst(next))
         page == SubSeq(rows, 1, Min({LIMIT, Len(rows)}))
         walk == [client EXCEPT !.got = @ \o page, !.after = Key(page[Len(page)])]
     IN  client' = IF Len(rows) > LIMIT THEN walk
                   ELSE Done(WholeHistory([client EXCEPT !.got = @ \o page]))
  /\ UNCHANGED <<clockVars, tableVars, refreshVars>>

Client == AskBoard \/ ReadStatus \/ ReadPage \/ ReadStats \/ AskLiquidity \/ ReadLiquidity

Next ==
  \/ Midnight
  \/ IntervalElapses
  \/ \E c \in Closes : StoreClose(c)
  \/ \E e \in Events : StoreEvents(e)
  \/ TimerTicks
  \/ CommandRuns
  \/ \E r \in Refreshers : RefreshSteps(r) \/ FailRefresh(r)
  \/ Client

Spec == Init /\ [][Next]_vars

\* Time passes, the writer's timer ticks, and a refresh that was begun goes on until
\* it ends or fails.
Fairness ==
  /\ WF_vars(IntervalElapses)
  /\ WF_vars(TimerTicks)
  /\ \A r \in Refreshers : WF_vars(RefreshSteps(r))

FairSpec == Spec /\ Fairness

(***************************************************************************)
(* Properties.                                                             *)
(***************************************************************************)

Days == 0..LAST_DAY

Snapshots == [Closes -> Days \cup {Unstored}]

\* The types, and who holds the lock: a refresher is busy if and only if it holds it.
TypeOK ==
  /\ today \in Days /\ recent \in BOOLEAN
  /\ closedAt \in Snapshots /\ events \in SUBSET Events
  /\ market \in [closed : Snapshots, day : Days]
  /\ global \in [closed : Snapshots, day : Days]
  /\ status \in [version : Nat, day : Days \cup {None}, mark : Nat \cup {None}]
  /\ lock \in Refreshers \cup {None}
  /\ job \in [Refreshers -> [phase : {"idle", "market", "global", "mark", "record"},
                             day : Days, mark : Nat \cup {None}]]
  /\ covered \in [{"done", "writer", "cli"} -> Snapshots]
  /\ forced \in 0..MAX_FORCED /\ failures \in 0..MAX_FAILURES

LockHeldByBusy == \A r \in Refreshers : job[r].phase # "idle" <=> lock = r

\* What the status row says holds of both views: each has every close that was
\* stored when the refresh that made this version began, and was computed on the
\* day the row records or later.  Two refreshers, failures between the two views
\* and closes stored meanwhile must not make the row promise more.
StatusHolds ==
  \A v \in {market, global} :
    /\ Holds(v, covered.done)
    /\ status.day # None => v.day >= status.day

\* The version, the day and the high-water mark of the status row never go back: a
\* slow refresher must not write over what a quicker one has recorded.
MarkNeverFalls ==
  [][ /\ status'.version >= status.version
      /\ status.day # None => status'.day # None /\ status'.day >= status.day
      /\ status.mark # None => status'.mark # None /\ status'.mark >= status.mark
    ]_<<status>>

\* Whatever is stored reaches both leaderboards, and both come to be of the current
\* day, although ticks coalesce, the lock may be held and refreshes fail.
CatchesUp ==
  /\ \A c \in Closes :
       (closedAt[c] # Unstored) ~> (market.closed[c] # Unstored /\ global.closed[c] # Unstored)
  /\ \A d \in 1..LAST_DAY : (today = d) ~> (market.day >= d /\ global.day >= d)

\* What a client has when its last page or its one row has arrived.  A leaderboard:
\* every page held what its version promised, and if no refresh came between its
\* pages the walk is that leaderboard, whole and in order.  A liquidity history:
\* newest first, each event once, and none missing that was stored when it began.
WalkIsWhole == client.phase = "idle" => client.whole
=============================================================================
