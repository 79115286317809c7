------------------------- MODULE LeaderboardsProofs -------------------------
(***************************************************************************)
(* Proofs about Leaderboards for any finite sets of closes and liquidity   *)
(* events, any days, and any number of refreshes and failures: the types,  *)
(* that the lock is held by whoever refreshes, that the views have what    *)
(* the status row promises, that the status row never goes back, and that  *)
(* what a client is given page by page is whole.                           *)
(*                                                                         *)
(* What a refresh has read it relies on later, and others act between its  *)
(* statements; the invariant says what remains true of it.  While it is    *)
(* busy nobody else is, so each view it has refreshed still has what was   *)
(* stored when it began; the day it decided on is not in the future and    *)
(* not before the recorded one; and its high-water mark is at least the    *)
(* recorded one and at most today's, since slots are only added.  The last *)
(* needs that a finite set of slots has a greatest one, which is proved by *)
(* the well-foundedness of the strict inclusion of finite sets.            *)
(*                                                                         *)
(* Pages rest on what it is to be ranked: in a strict and total order of   *)
(* finitely many rows, the number of rows before a row is its own and no   *)
(* place is skipped, so the sequence has every row once.  A walk over a    *)
(* leaderboard that met no refresh has its first rows; a walk over a       *)
(* history has every event stored when it began in its pages or past its   *)
(* cursor, and its pages descend to the cursor.                            *)
(***************************************************************************)
EXTENDS Leaderboards, FiniteSetTheorems, SequenceTheorems, TLAPS

\* The order of marks and days, in which None is below all.
AtMost(a, b) == a # None => b # None /\ a <= b

\* What had a closing day has it still.
StillStored(closed) == \A c \in Closes : closed[c] # Unstored => closedAt[c] = closed[c]

\* A view that has what was stored when the refresh of r began, on its day or later.
FreshFor(r, view) == Holds(view, covered[r]) /\ view.day >= job[r].day

\* What remains true of a refresh between its statements.
JobHolds(r) ==
  /\ StillStored(covered[r])
  /\ job[r].day <= today
  /\ job[r].phase # "idle" => AtMost(status.day, job[r].day)
  /\ job[r].phase \in {"global", "mark", "record"} => FreshFor(r, market)
  /\ job[r].phase \in {"mark", "record"} => FreshFor(r, global)
  /\ job[r].phase = "record" => AtMost(status.mark, job[r].mark) /\ AtMost(job[r].mark, HighWater)

\* The status row names nothing that is not there yet.
StatusPast ==
  /\ StillStored(covered.done)
  /\ AtMost(status.day, today)
  /\ AtMost(status.mark, HighWater)

IInv ==
  /\ TypeOK
  /\ LockHeldByBusy
  /\ StatusHolds
  /\ StatusPast
  /\ \A r \in Refreshers : JobHolds(r)

-----------------------------------------------------------------------------
(***************************************************************************)
(* The high-water mark.                                                    *)
(***************************************************************************)

\* A finite set of numbers has a greatest one.
LEMMA GreatestExists ==
  ASSUME NEW S \in SUBSET Nat, IsFiniteSet(S), S # {}
  PROVE  \E x \in S : \A y \in S : x >= y
<1> DEFINE Without == {T \in FiniteSubsetsOf(S) : T # {} /\ ~\E x \in T : \A y \in T : x >= y}
<1>1. S \in FiniteSubsetsOf(S)
  BY DEF FiniteSubsetsOf
<1>2. SUFFICES ASSUME Without # {} PROVE FALSE
  BY <1>1
<1>3. PICK T \in Without : \A U \in Without : ~(<<U, T>> \in StrictSubsetOrdering(S))
  <2>1. IsWellFoundedOn(StrictSubsetOrdering(S), FiniteSubsetsOf(S))
    BY FS_StrictSubsetOrderingWellFounded
  <2>2. Without \subseteq FiniteSubsetsOf(S)
    OBVIOUS
  <2> HIDE DEF Without
  <2> QED  BY <1>2, <2>1, <2>2, WFMin
<1>4. T \in SUBSET S /\ IsFiniteSet(T) /\ T # {} /\ ~\E x \in T : \A y \in T : x >= y
  BY <1>3 DEF FiniteSubsetsOf
<1>5. PICK t \in T : TRUE
  BY <1>4
<1> DEFINE U == T \ {t}
<1>6. U \in FiniteSubsetsOf(S) /\ U # T /\ U \in SUBSET S
  BY <1>4, <1>5, FS_RemoveElement DEF FiniteSubsetsOf
<1>7. U # {}
  BY <1>4, <1>5
<1>8. <<U, T>> \in StrictSubsetOrdering(S)
  BY <1>4, <1>6 DEF StrictSubsetOrdering
<1>9. U \notin Without
  BY <1>3, <1>8
<1>10. PICK x \in U : \A y \in U : x >= y
  BY <1>6, <1>7, <1>9
<1> QED  BY <1>4, <1>5, <1>10

\* What Max is of a finite set of numbers.
LEMMA MaxIsGreatest ==
  ASSUME NEW S \in SUBSET Nat, IsFiniteSet(S), S # {}
  PROVE  Max(S) \in S /\ \A y \in S : y <= Max(S)
<1>1. PICK x \in S : \A y \in S : x >= y
  BY GreatestExists
<1>2. Max(S) \in S /\ \A y \in S : Max(S) >= y
  BY <1>1 DEF Max
<1> QED  BY <1>2

\* The slots of what is stored, in a state whose tables are these.
SlotsOf(closed, stored) ==
  {PositionOf[c].slot : c \in {c \in Closes : closed[c] # Unstored}}
    \cup {EventOf[e].slot : e \in stored}

\* There are finitely many slots.
LEMMA SlotsFinite ==
  ASSUME NEW closed, NEW stored \in SUBSET Events
  PROVE  SlotsOf(closed, stored) \in SUBSET Nat /\ IsFiniteSet(SlotsOf(closed, stored))
<1> DEFINE C == {PositionOf[c].slot : c \in Closes}
           E == {EventOf[e].slot : e \in Events}
<1>1. IsFiniteSet(C)
  <2> DEFINE f == [c \in Closes |-> PositionOf[c].slot]
  <2>1. f \in Surjection(Closes, C)
    BY DEF Surjection
  <2> QED  BY <2>1, FS_Surjection, LeaderboardsAssumption
<1>2. IsFiniteSet(E)
  <2> DEFINE f == [e \in Events |-> EventOf[e].slot]
  <2>1. f \in Surjection(Events, E)
    BY DEF Surjection
  <2> QED  BY <2>1, FS_Surjection, LeaderboardsAssumption
<1>3. SlotsOf(closed, stored) \in SUBSET (C \cup E)
  BY DEF SlotsOf
<1>4. IsFiniteSet(C \cup E)
  <2> HIDE DEF C, E
  <2> QED  BY <1>1, <1>2, FS_Union
<1>5. C \cup E \in SUBSET Nat
  BY LeaderboardsAssumption
<1> HIDE DEF C, E
<1> QED  BY <1>3, <1>4, <1>5, FS_Subset

\* The mark is a slot, the greatest one.
LEMMA MarkOf ==
  ASSUME NEW closed, NEW stored \in SUBSET Events,
         NEW mark, mark = IF SlotsOf(closed, stored) = {} THEN None ELSE Max(SlotsOf(closed, stored))
  PROVE  /\ mark \in Nat \cup {None}
         /\ mark = None <=> SlotsOf(closed, stored) = {}
         /\ mark # None => \A s \in SlotsOf(closed, stored) : s <= mark
         /\ mark # None => mark \in SlotsOf(closed, stored)
<1>1. SlotsOf(closed, stored) \in SUBSET Nat /\ IsFiniteSet(SlotsOf(closed, stored))
  BY SlotsFinite
<1>2. CASE SlotsOf(closed, stored) = {}
  BY <1>2
<1>3. CASE SlotsOf(closed, stored) # {}
  <2>1. mark \in SlotsOf(closed, stored) /\ \A s \in SlotsOf(closed, stored) : s <= mark
    BY <1>1, <1>3, MaxIsGreatest
  <2>2. mark \in Nat /\ mark # None
    BY <1>1, <2>1, LeaderboardsAssumption
  <2> QED  BY <1>3, <2>1, <2>2
<1> QED  BY <1>2, <1>3

\* The high-water mark that a refresh reads is a slot, or none while nothing is stored.
LEMMA HighWaterTyped ==
  ASSUME TypeOK
  PROVE  HighWater \in Nat \cup {None}
<1>1. events \in SUBSET Events
  BY DEF TypeOK
<1>2. HighWater = IF SlotsOf(closedAt, events) = {} THEN None ELSE Max(SlotsOf(closedAt, events))
  BY DEF HighWater, SlotsOf
<1> QED  BY <1>1, <1>2, MarkOf

\* Storing raises the mark or leaves it.
LEMMA HighWaterGrows ==
  ASSUME TypeOK, events' \in SUBSET Events, events \subseteq events',
         \A c \in Closes : closedAt[c] # Unstored => closedAt'[c] # Unstored
  PROVE  AtMost(HighWater, HighWater') /\ HighWater' \in Nat \cup {None}
<1>1. events \in SUBSET Events
  BY DEF TypeOK
<1>2. HighWater = IF SlotsOf(closedAt, events) = {} THEN None ELSE Max(SlotsOf(closedAt, events))
  BY DEF HighWater, SlotsOf
<1>3. HighWater' = IF SlotsOf(closedAt', events') = {} THEN None
                   ELSE Max(SlotsOf(closedAt', events'))
  BY DEF HighWater, SlotsOf
<1>4. SlotsOf(closedAt, events) \subseteq SlotsOf(closedAt', events')
  BY DEF SlotsOf
<1> DEFINE old == HighWater
           new == HighWater'
<1>5. /\ old \in Nat \cup {None}
      /\ old # None => old \in SlotsOf(closedAt, events)
  BY <1>1, <1>2, MarkOf
<1>6. /\ new \in Nat \cup {None}
      /\ new = None <=> SlotsOf(closedAt', events') = {}
      /\ new # None => \A s \in SlotsOf(closedAt', events') : s <= new
  BY <1>3, MarkOf
<1> HIDE DEF old, new
<1>7. AtMost(old, new)
  BY <1>4, <1>5, <1>6 DEF AtMost
<1> QED  BY <1>6, <1>7 DEF old, new

\* The order of marks is one.
LEMMA AtMostTransitive ==
  ASSUME NEW a \in Nat \cup {None}, NEW b \in Nat \cup {None}, NEW c \in Nat \cup {None},
         AtMost(a, b), AtMost(b, c)
  PROVE  AtMost(a, c)
BY LeaderboardsAssumption DEF AtMost

-----------------------------------------------------------------------------
(***************************************************************************)
(* The initial state, and the steps of everybody else.                     *)
(***************************************************************************)

\* The migration's views are empty, and the status row promises nothing.
LEMMA InitInv == Init => IInv
<1> SUFFICES ASSUME Init PROVE IInv
  OBVIOUS
<1>0. 0 \in Days /\ None # Unstored
  BY LeaderboardsAssumption DEF Days
<1>1. Nothing \in Snapshots /\ \A c \in Closes : Nothing[c] = Unstored
  BY DEF Nothing, Snapshots
<1>2. TypeOK
  <2>1. closedAt \in Snapshots
    BY <1>0 DEF Init, Snapshots
  <2>2. events \in SUBSET Events
    BY LeaderboardsAssumption DEF Init
  <2>3. today \in Days /\ recent \in BOOLEAN /\ lock \in Refreshers \cup {None}
    BY <1>0 DEF Init
  <2>4. market \in [closed : Snapshots, day : Days] /\ global \in [closed : Snapshots, day : Days]
    BY <1>0, <1>1 DEF Init
  <2>5. status \in [version : Nat, day : Days \cup {None}, mark : Nat \cup {None}]
    BY DEF Init
  <2>6. job \in [Refreshers -> [phase : {"idle", "market", "global", "mark", "record"},
                               day : Days, mark : Nat \cup {None}]]
    BY <1>0 DEF Init, Idle
  <2>7. covered \in [{"done", "writer", "cli"} -> Snapshots]
    BY <1>1 DEF Init
  <2>8. forced \in 0..MAX_FORCED /\ failures \in 0..MAX_FAILURES
    BY LeaderboardsAssumption DEF Init
  <2> QED  BY <2>1, <2>2, <2>3, <2>4, <2>5, <2>6, <2>7, <2>8 DEF TypeOK
<1>3. LockHeldByBusy
  <2>1. None \notin Refreshers
    BY LeaderboardsAssumption
  <2> QED  BY <2>1 DEF Init, LockHeldByBusy, Idle
<1>4. StatusHolds
  BY <1>1 DEF Init, StatusHolds, Holds
<1>5. StatusPast
  BY <1>1 DEF Init, StatusPast, StillStored, AtMost
<1>6. \A r \in Refreshers : JobHolds(r)
  BY <1>0, <1>1 DEF Init, JobHolds, StillStored, Idle, Refreshers
<1> QED  BY <1>2, <1>3, <1>4, <1>5, <1>6 DEF IInv

\* What JobHolds and StatusPast say of the tables survives their growth.
LEMMA TablesGrow ==
  ASSUME IInv, UNCHANGED refreshVars,
         closedAt' \in Snapshots, events' \in SUBSET Events, events \subseteq events',
         \A c \in Closes : closedAt[c] # Unstored => closedAt'[c] = closedAt[c],
         today' \in Days, today <= today', recent' \in BOOLEAN
  PROVE  IInv'
<1>1. UNCHANGED <<market, global, status, lock, job, covered, forced, failures>>
  BY DEF refreshVars
<1>2. TypeOK'
  BY <1>1 DEF IInv, TypeOK
<1>3. LockHeldByBusy'
  BY <1>1 DEF IInv, LockHeldByBusy
<1>4. StatusHolds'
  BY <1>1 DEF IInv, StatusHolds, Holds
<1>5. /\ AtMost(HighWater, HighWater')
      /\ HighWater \in Nat \cup {None} /\ HighWater' \in Nat \cup {None}
  <2>1. TypeOK
    BY DEF IInv
  <2>2. \A c \in Closes : closedAt[c] # Unstored => closedAt'[c] # Unstored
    OBVIOUS
  <2> QED  BY <2>1, <2>2, HighWaterGrows, HighWaterTyped
<1>7. today \in Int /\ today' \in Int
  BY DEF IInv, TypeOK, Days
<1>8. StatusPast'
  <2>1. status.day \in Int \cup {None} /\ status.mark \in Nat \cup {None}
    BY DEF IInv, TypeOK, Days
  <2>2. AtMost(status.day, today)' /\ StillStored(covered.done)'
    <3>1. StillStored(covered.done)'
      BY <1>1 DEF IInv, StatusPast, StillStored
    <3>2. AtMost(status.day, today)'
      BY <1>1, <1>7, <2>1, LeaderboardsAssumption DEF IInv, StatusPast, AtMost, Days
    <3> QED  BY <3>1, <3>2
  <2>3. AtMost(status.mark, HighWater)'
    <3>1. AtMost(status.mark, HighWater')
      BY <1>5, <2>1, AtMostTransitive DEF IInv, StatusPast
    <3> QED  BY <1>1, <3>1
  <2> QED  BY <2>2, <2>3 DEF StatusPast
<1>9. ASSUME NEW r \in Refreshers PROVE JobHolds(r)'
  <2>1. job[r].day \in Int /\ job[r].mark \in Nat \cup {None}
    BY DEF IInv, TypeOK, Days
  <2>2. JobHolds(r)
    BY DEF IInv
  <2>3. StillStored(covered[r])' /\ (job[r].day <= today)'
    <3>1. StillStored(covered[r])'
      BY <1>1, <2>2 DEF JobHolds, StillStored
    <3>2. (job[r].day <= today)'
      BY <1>1, <1>7, <2>1, <2>2 DEF JobHolds
    <3> QED  BY <3>1, <3>2
  <2>4. /\ (job[r].phase # "idle" => AtMost(status.day, job[r].day))'
        /\ (job[r].phase \in {"global", "mark", "record"} => FreshFor(r, market))'
        /\ (job[r].phase \in {"mark", "record"} => FreshFor(r, global))'
    BY <1>1, <2>2 DEF JobHolds, AtMost, FreshFor, Holds
  <2>5. (job[r].phase = "record" => AtMost(status.mark, job[r].mark) /\ AtMost(job[r].mark, HighWater))'
    <3>1. job[r].phase = "record" =>
            AtMost(status.mark, job[r].mark) /\ AtMost(job[r].mark, HighWater')
      BY <1>5, <2>1, <2>2, AtMostTransitive DEF JobHolds
    <3> QED  BY <1>1, <3>1 DEF AtMost
  <2> QED  BY <2>3, <2>4, <2>5 DEF JobHolds
<1> QED  BY <1>2, <1>3, <1>4, <1>8, <1>9 DEF IInv

\* Time passes, and transactions are stored.
LEMMA WorldKeeps ==
  ASSUME IInv,
         \/ Midnight \/ IntervalElapses
         \/ \E c \in Closes : StoreClose(c)
         \/ \E e \in Events : StoreEvents(e)
  PROVE  IInv'
<1>0. /\ TypeOK /\ today \in Nat /\ today <= LAST_DAY /\ today <= today
      /\ closedAt \in Snapshots /\ events \in SUBSET Events
  BY LeaderboardsAssumption DEF IInv, TypeOK, Days
<1>1. CASE Midnight
  <2>1. today' \in Days /\ today <= today'
    BY <1>0, <1>1, LeaderboardsAssumption DEF Midnight, Days
  <2> QED  BY <1>0, <1>1, <2>1, TablesGrow DEF Midnight, tableVars, TypeOK
<1>2. CASE IntervalElapses
  BY <1>0, <1>2, TablesGrow DEF IntervalElapses, tableVars, TypeOK
<1>3. CASE \E c \in Closes : StoreClose(c)
  <2>1. PICK c \in Closes : StoreClose(c)
    BY <1>3
  <2>2. PICK day \in 0..today : closedAt' = [closedAt EXCEPT ![c] = day]
    BY <2>1 DEF StoreClose
  <2>3. day \in Days
    BY <1>0, LeaderboardsAssumption DEF Days
  <2>4. closedAt' \in Snapshots
    BY <1>0, <2>2, <2>3 DEF Snapshots
  <2>5. \A d \in Closes : closedAt[d] # Unstored => closedAt'[d] = closedAt[d]
    BY <1>0, <2>1, <2>2 DEF StoreClose, Snapshots
  <2> QED  BY <1>0, <2>1, <2>4, <2>5, TablesGrow DEF StoreClose, clockVars, TypeOK
<1>4. CASE \E e \in Events : StoreEvents(e)
  <2>1. PICK e \in Events : StoreEvents(e)
    BY <1>4
  <2>2. events \subseteq events' /\ events' \in SUBSET Events
    BY <1>0, <2>1 DEF StoreEvents
  <2> QED  BY <1>0, <2>1, <2>2, TablesGrow DEF StoreEvents, clockVars, TypeOK
<1> QED  BY <1>1, <1>2, <1>3, <1>4

\* A client reads.
LEMMA ClientKeeps ==
  ASSUME IInv, Client
  PROVE  IInv'
<1>1. UNCHANGED <<clockVars, tableVars, refreshVars>>
  BY DEF Client, AskBoard, ReadStatus, ReadPage, ReadStats, AskLiquidity, ReadLiquidity
<1>2. today <= today
  BY DEF IInv, TypeOK, Days
<1> QED  BY <1>1, <1>2, TablesGrow DEF IInv, TypeOK, clockVars, tableVars

-----------------------------------------------------------------------------
(***************************************************************************)
(* The steps of a refresh.                                                 *)
(***************************************************************************)

JobRecord == [phase : {"idle", "market", "global", "mark", "record"},
              day : Days, mark : Nat \cup {None}]

\* The rest of the state, when only the views, the status row, the lock, the job of one
\* refresher and what it covers change.
LEMMA JobOf ==
  ASSUME IInv, NEW r \in Refreshers
  PROVE  /\ job[r] \in JobRecord /\ covered[r] \in Snapshots
         /\ job[r].phase # "idle" => lock = r /\ \A q \in Refreshers \ {r} : job[q].phase = "idle"
<1>1. job[r] \in JobRecord
  BY DEF IInv, TypeOK, JobRecord
<1>2. covered[r] \in Snapshots
  BY DEF IInv, TypeOK, Refreshers
<1>3. ASSUME job[r].phase # "idle"
      PROVE  lock = r /\ \A q \in Refreshers \ {r} : job[q].phase = "idle"
  BY <1>3 DEF IInv, LockHeldByBusy
<1> QED  BY <1>1, <1>2, <1>3

\* The lock is free when a refresh begins, and what is stored is what it will cover.
LEMMA BeginKeeps ==
  ASSUME IInv, NEW r \in Refreshers, NEW force \in BOOLEAN, Begin(r, force),
         forced' \in 0..MAX_FORCED
  PROVE  IInv'
<1>1. /\ lock = None /\ lock' = r
      /\ job' = [job EXCEPT ![r] = [phase |-> "market", day |-> today, mark |-> None]]
      /\ covered' = [covered EXCEPT ![r] = closedAt]
      /\ UNCHANGED <<today, recent, closedAt, events, market, global, status, failures>>
  BY DEF Begin, TryLock, clockVars, tableVars
<1>2. /\ job'[r] = [phase |-> "market", day |-> today, mark |-> None]
      /\ covered'[r] = closedAt /\ covered'.done = covered.done
      /\ \A q \in Refreshers \ {r} : job'[q] = job[q] /\ covered'[q] = covered[q]
  BY <1>1 DEF IInv, TypeOK, Refreshers
<1>3. TypeOK'
  <2>1. [phase |-> "market", day |-> today, mark |-> None] \in JobRecord
    BY DEF IInv, TypeOK, JobRecord
  <2>2. job' \in [Refreshers -> JobRecord]
    BY <1>1, <2>1 DEF IInv, TypeOK, JobRecord
  <2>3. covered' \in [{"done", "writer", "cli"} -> Snapshots]
    BY <1>1 DEF IInv, TypeOK, Refreshers
  <2> QED  BY <1>1, <2>2, <2>3 DEF IInv, TypeOK, JobRecord
<1>4. \A q \in Refreshers : job[q].phase = "idle"
  BY <1>1, LeaderboardsAssumption DEF IInv, LockHeldByBusy
<1>5. LockHeldByBusy'
  BY <1>1, <1>2, <1>4 DEF LockHeldByBusy
<1>6. StatusHolds' /\ StatusPast'
  <2>1. StatusHolds'
    BY <1>1, <1>2 DEF IInv, StatusHolds, Holds
  <2>2. HighWater' = HighWater
    BY <1>1 DEF HighWater
  <2>3. StatusPast'
    BY <1>1, <1>2, <2>2 DEF IInv, StatusPast, StillStored, AtMost
  <2> QED  BY <2>1, <2>3
<1>7. ASSUME NEW q \in Refreshers PROVE JobHolds(q)'
  <2>1. CASE q = r
    <3>1. StillStored(covered[r])'
      BY <1>1, <1>2 DEF StillStored
    <3>2. (job[r].day <= today)' /\ AtMost(status.day, job[r].day)'
      BY <1>1, <1>2 DEF IInv, TypeOK, Days, StatusPast, AtMost
    <3>3. job'[r].phase = "market"
      BY <1>2
    <3> QED  BY <2>1, <3>1, <3>2, <3>3 DEF JobHolds
  <2>2. CASE q # r
    <3>1. JobHolds(q) /\ job'[q] = job[q] /\ covered'[q] = covered[q] /\ job[q].phase = "idle"
      BY <1>2, <1>4, <2>2 DEF IInv
    <3> QED  BY <1>1, <3>1 DEF JobHolds, StillStored
  <2> QED  BY <2>1, <2>2
<1> QED  BY <1>3, <1>5, <1>6, <1>7 DEF IInv

\* What is stored is more than what was when the refresh began or the version was made.
LEMMA RecomputedHolds ==
  ASSUME IInv, NEW r \in Refreshers
  PROVE  /\ Holds(Recomputed, covered[r]) /\ Recomputed.day >= job[r].day
         /\ Holds(Recomputed, covered.done)
         /\ status.day # None => Recomputed.day >= status.day
         /\ Recomputed \in [closed : Snapshots, day : Days]
<1>1. JobHolds(r) /\ StatusPast /\ TypeOK
  BY DEF IInv
<1>2. Holds(Recomputed, covered[r]) /\ Holds(Recomputed, covered.done)
  BY <1>1 DEF Recomputed, Holds, JobHolds, StatusPast, StillStored
<1>3. Recomputed \in [closed : Snapshots, day : Days]
  BY <1>1 DEF Recomputed, TypeOK
<1>4. job[r].day \in Int /\ today \in Int /\ status.day \in Int \cup {None}
  BY <1>1 DEF TypeOK, Days
<1>5. Recomputed.day >= job[r].day /\ (status.day # None => Recomputed.day >= status.day)
  BY <1>1, <1>4 DEF Recomputed, JobHolds, StatusPast, AtMost
<1> QED  BY <1>2, <1>3, <1>5

\* Refreshing the one view and then the other.
LEMMA RefreshKeeps ==
  ASSUME IInv, NEW r \in Refreshers, RefreshMarket(r) \/ RefreshGlobal(r)
  PROVE  IInv'
<1>1. /\ UNCHANGED <<today, recent, closedAt, events, status, lock, covered, forced, failures>>
      /\ job[r].phase \in {"market", "global"}
      /\ job' = [job EXCEPT ![r].phase = IF job[r].phase = "market" THEN "global" ELSE "mark"]
  BY DEF RefreshMarket, RefreshGlobal, clockVars, tableVars
<1>2. /\ market' = market \/ market' = Recomputed
      /\ global' = global \/ global' = Recomputed
      /\ job[r].phase = "market" => market' = Recomputed
      /\ job[r].phase = "global" => market' = market /\ global' = Recomputed
  BY DEF RefreshMarket, RefreshGlobal
<1>3. job[r] \in JobRecord /\ \A q \in Refreshers \ {r} : job[q].phase = "idle"
  BY <1>1, JobOf
<1>4. /\ job'[r].phase = IF job[r].phase = "market" THEN "global" ELSE "mark"
      /\ job'[r].day = job[r].day
      /\ \A q \in Refreshers \ {r} : job'[q] = job[q]
      /\ job' \in [Refreshers -> JobRecord]
  BY <1>1, <1>3 DEF IInv, TypeOK, JobRecord
<1>5. /\ Holds(Recomputed, covered[r]) /\ Recomputed.day >= job[r].day
      /\ Holds(Recomputed, covered.done)
      /\ status.day # None => Recomputed.day >= status.day
      /\ Recomputed \in [closed : Snapshots, day : Days]
  BY RecomputedHolds
<1>6. TypeOK'
  BY <1>1, <1>2, <1>4, <1>5 DEF IInv, TypeOK, JobRecord
<1>7. LockHeldByBusy'
  BY <1>1, <1>3, <1>4 DEF IInv, LockHeldByBusy
<1>8. StatusHolds'
  BY <1>1, <1>2, <1>5 DEF IInv, StatusHolds, Holds
<1>9. StatusPast'
  <2>1. HighWater' = HighWater
    BY <1>1 DEF HighWater
  <2> QED  BY <1>1, <2>1 DEF IInv, StatusPast, StillStored, AtMost
<1>10. ASSUME NEW q \in Refreshers PROVE JobHolds(q)'
  <2>1. CASE q = r
    <3>1. JobHolds(r)
      BY DEF IInv
    <3>2. StillStored(covered[r])' /\ (job[r].day <= today)' /\ AtMost(status.day, job[r].day)'
      BY <1>1, <1>4, <3>1 DEF JobHolds, StillStored, AtMost
    <3>3. FreshFor(r, market)'
      BY <1>1, <1>2, <1>4, <1>5, <3>1 DEF JobHolds, FreshFor, Holds
    <3>4. job'[r].phase = "mark" => FreshFor(r, global)'
      BY <1>1, <1>2, <1>4, <1>5 DEF FreshFor, Holds
    <3>5. job'[r].phase \in {"global", "mark"}
      BY <1>1, <1>4
    <3> QED  BY <2>1, <3>2, <3>3, <3>4, <3>5 DEF JobHolds
  <2>2. CASE q # r
    <3>1. JobHolds(q) /\ job'[q] = job[q] /\ job[q].phase = "idle"
      BY <1>3, <1>4, <2>2 DEF IInv
    <3> QED  BY <1>1, <3>1 DEF JobHolds, StillStored
  <2> QED  BY <2>1, <2>2
<1> QED  BY <1>6, <1>7, <1>8, <1>9, <1>10 DEF IInv

\* The mark read is the greatest slot of the moment.
LEMMA ReadMarkKeeps ==
  ASSUME IInv, NEW r \in Refreshers, ReadMark(r)
  PROVE  IInv'
<1>1. /\ UNCHANGED <<today, recent, closedAt, events, market, global, status, lock, covered,
                     forced, failures>>
      /\ job[r].phase = "mark"
      /\ job' = [job EXCEPT ![r].phase = "record", ![r].mark = HighWater]
  BY DEF ReadMark, clockVars, tableVars
<1>2. job[r] \in JobRecord /\ \A q \in Refreshers \ {r} : job[q].phase = "idle"
  BY <1>1, JobOf
<1>3. HighWater \in Nat \cup {None} /\ HighWater' = HighWater
  <2>1. HighWater \in Nat \cup {None}
    BY HighWaterTyped DEF IInv
  <2>2. HighWater' = HighWater
    BY <1>1 DEF HighWater
  <2> QED  BY <2>1, <2>2
<1>4. /\ job'[r].phase = "record" /\ job'[r].day = job[r].day /\ job'[r].mark = HighWater
      /\ \A q \in Refreshers \ {r} : job'[q] = job[q]
      /\ job' \in [Refreshers -> JobRecord]
  BY <1>1, <1>2, <1>3 DEF IInv, TypeOK, JobRecord
<1>5. TypeOK'
  BY <1>1, <1>4 DEF IInv, TypeOK, JobRecord
<1>6. LockHeldByBusy'
  BY <1>1, <1>4 DEF IInv, LockHeldByBusy
<1>7. StatusHolds'
  BY <1>1 DEF IInv, StatusHolds, Holds
<1>8. StatusPast'
  BY <1>1, <1>3 DEF IInv, StatusPast, StillStored, AtMost
<1>9. ASSUME NEW q \in Refreshers PROVE JobHolds(q)'
  <2>1. CASE q = r
    <3>1. JobHolds(r) /\ StatusPast
      BY DEF IInv
    <3>2. StillStored(covered[r])' /\ (job[r].day <= today)' /\ AtMost(status.day, job[r].day)'
      BY <1>1, <1>4, <3>1 DEF JobHolds, StillStored, AtMost
    <3>3. FreshFor(r, market)' /\ FreshFor(r, global)'
      BY <1>1, <1>4, <3>1 DEF JobHolds, FreshFor, Holds
    <3>4. AtMost(status.mark, job[r].mark)' /\ AtMost(job[r].mark, HighWater)'
      <4>1. AtMost(HighWater, HighWater)
        BY <1>3, LeaderboardsAssumption DEF AtMost
      <4> QED  BY <1>1, <1>3, <1>4, <3>1, <4>1 DEF StatusPast, AtMost
    <3> QED  BY <1>4, <2>1, <3>2, <3>3, <3>4 DEF JobHolds
  <2>2. CASE q # r
    <3>1. JobHolds(q) /\ job'[q] = job[q] /\ job[q].phase = "idle"
      BY <1>2, <1>4, <2>2 DEF IInv
    <3> QED  BY <1>1, <3>1 DEF JobHolds, StillStored
  <2> QED  BY <2>1, <2>2
<1> QED  BY <1>5, <1>6, <1>7, <1>8, <1>9 DEF IInv

\* What a record writes, and that it is no less than what was there.
LEMMA RecordWrites ==
  ASSUME IInv, NEW r \in Refreshers, Record(r)
  PROVE  /\ status' = [version |-> status.version + 1, day |-> job[r].day, mark |-> job[r].mark]
         /\ AtMost(status.day, job[r].day) /\ AtMost(status.mark, job[r].mark)
         /\ AtMost(job[r].mark, HighWater)
         /\ FreshFor(r, market) /\ FreshFor(r, global)
         /\ job[r] \in JobRecord /\ \A q \in Refreshers \ {r} : job[q].phase = "idle"
<1>1. job[r].phase = "record" /\ JobHolds(r)
  BY DEF Record, IInv
<1>2. job[r] \in JobRecord /\ \A q \in Refreshers \ {r} : job[q].phase = "idle"
  BY <1>1, JobOf
<1> QED  BY <1>1, <1>2 DEF JobHolds, Record, RecordedDay

\* The lock is given back, and both views have what the new version promises.
LEMMA RecordKeeps ==
  ASSUME IInv, NEW r \in Refreshers, Record(r)
  PROVE  IInv'
<1>1. /\ UNCHANGED <<today, closedAt, events, market, global, forced, failures>>
      /\ recent' = TRUE /\ lock' = None
      /\ job' = [job EXCEPT ![r] = Idle]
      /\ covered' = [covered EXCEPT !.done = covered[r], ![r] = Nothing]
  BY DEF Record, tableVars
<1>2. /\ status' = [version |-> status.version + 1, day |-> job[r].day, mark |-> job[r].mark]
      /\ AtMost(job[r].mark, HighWater)
      /\ FreshFor(r, market) /\ FreshFor(r, global)
      /\ job[r] \in JobRecord /\ \A q \in Refreshers \ {r} : job[q].phase = "idle"
  BY RecordWrites
<1>3. Nothing \in Snapshots /\ \A c \in Closes : Nothing[c] = Unstored
  BY DEF Nothing, Snapshots
<1>4. Idle \in JobRecord
  BY LeaderboardsAssumption DEF Idle, JobRecord, Days
<1>5. /\ job'[r] = Idle /\ \A q \in Refreshers \ {r} : job'[q] = job[q]
      /\ job' \in [Refreshers -> JobRecord]
  BY <1>1, <1>4 DEF IInv, TypeOK, JobRecord
<1>6. /\ covered'.done = covered[r] /\ covered'[r] = Nothing
      /\ \A q \in Refreshers \ {r} : covered'[q] = covered[q]
      /\ covered' \in [{"done", "writer", "cli"} -> Snapshots]
  BY <1>1, <1>3 DEF IInv, TypeOK, Refreshers
<1>7. TypeOK'
  <2>1. status' \in [version : Nat, day : Days \cup {None}, mark : Nat \cup {None}]
    BY <1>2 DEF IInv, TypeOK, JobRecord
  <2> QED  BY <1>1, <1>5, <1>6, <2>1 DEF IInv, TypeOK, JobRecord
<1>8. LockHeldByBusy'
  BY <1>1, <1>2, <1>5, LeaderboardsAssumption DEF LockHeldByBusy, Idle
<1>9. StatusHolds'
  BY <1>1, <1>2, <1>6 DEF StatusHolds, FreshFor, Holds
<1>10. HighWater' = HighWater
  BY <1>1 DEF HighWater
<1>11. StatusPast'
  <2>1. JobHolds(r)
    BY DEF IInv
  <2>2. StillStored(covered.done)'
    BY <1>1, <1>6, <2>1 DEF JobHolds, StillStored
  <2>3. AtMost(status.day, today)'
    BY <1>1, <1>2, <2>1, LeaderboardsAssumption DEF IInv, TypeOK, Days, JobHolds, AtMost
  <2>4. AtMost(status.mark, HighWater)'
    BY <1>2, <1>10 DEF AtMost
  <2> QED  BY <2>2, <2>3, <2>4 DEF StatusPast
<1>12. ASSUME NEW q \in Refreshers PROVE JobHolds(q)'
  <2>1. CASE q = r
    <3>1. job'[q].phase = "idle" /\ job'[q].day = 0 /\ covered'[q] = Nothing
      BY <1>5, <1>6, <2>1 DEF Idle
    <3>2. StillStored(covered[q])'
      BY <1>3, <3>1 DEF StillStored
    <3>3. (job[q].day <= today)'
      BY <1>1, <3>1 DEF IInv, TypeOK, Days
    <3> QED  BY <3>1, <3>2, <3>3 DEF JobHolds
  <2>2. CASE q # r
    <3>1. JobHolds(q) /\ job'[q] = job[q] /\ job[q].phase = "idle" /\ covered'[q] = covered[q]
      BY <1>2, <1>5, <1>6, <2>2 DEF IInv
    <3> QED  BY <1>1, <3>1 DEF JobHolds, StillStored
  <2> QED  BY <2>1, <2>2
<1> QED  BY <1>7, <1>8, <1>9, <1>11, <1>12 DEF IInv

\* A refresh that fails leaves what it refreshed and gives the lock back.
LEMMA FailKeeps ==
  ASSUME IInv, NEW r \in Refreshers, FailRefresh(r)
  PROVE  IInv'
<1>1. /\ UNCHANGED <<today, recent, closedAt, events, market, global, status, forced>>
      /\ failures' \in 0..MAX_FAILURES
      /\ job[r].phase # "idle" /\ lock' = None
      /\ job' = [job EXCEPT ![r] = Idle]
      /\ covered' = [covered EXCEPT ![r] = Nothing]
  BY LeaderboardsAssumption DEF FailRefresh, clockVars, tableVars, IInv, TypeOK
<1>2. job[r] \in JobRecord /\ \A q \in Refreshers \ {r} : job[q].phase = "idle"
  BY <1>1, JobOf
<1>3. Nothing \in Snapshots /\ \A c \in Closes : Nothing[c] = Unstored
  BY DEF Nothing, Snapshots
<1>4. Idle \in JobRecord
  BY LeaderboardsAssumption DEF Idle, JobRecord, Days
<1>5. /\ job'[r] = Idle /\ \A q \in Refreshers \ {r} : job'[q] = job[q]
      /\ job' \in [Refreshers -> JobRecord]
  BY <1>1, <1>4 DEF IInv, TypeOK, JobRecord
<1>6. /\ covered'.done = covered.done /\ covered'[r] = Nothing
      /\ \A q \in Refreshers \ {r} : covered'[q] = covered[q]
      /\ covered' \in [{"done", "writer", "cli"} -> Snapshots]
  BY <1>1, <1>3 DEF IInv, TypeOK, Refreshers
<1>7. TypeOK'
  BY <1>1, <1>5, <1>6 DEF IInv, TypeOK, JobRecord
<1>8. LockHeldByBusy'
  BY <1>1, <1>2, <1>5, LeaderboardsAssumption DEF LockHeldByBusy, Idle
<1>9. StatusHolds'
  BY <1>1, <1>6 DEF IInv, StatusHolds, Holds
<1>10. HighWater' = HighWater
  BY <1>1 DEF HighWater
<1>11. StatusPast'
  BY <1>1, <1>6, <1>10 DEF IInv, StatusPast, StillStored, AtMost
<1>12. ASSUME NEW q \in Refreshers PROVE JobHolds(q)'
  <2>1. CASE q = r
    <3>1. job'[q].phase = "idle" /\ job'[q].day = 0 /\ covered'[q] = Nothing
      BY <1>5, <1>6, <2>1 DEF Idle
    <3>2. StillStored(covered[q])'
      BY <1>3, <3>1 DEF StillStored
    <3>3. (job[q].day <= today)'
      BY <1>1, <3>1 DEF IInv, TypeOK, Days
    <3> QED  BY <3>1, <3>2, <3>3 DEF JobHolds
  <2>2. CASE q # r
    <3>1. JobHolds(q) /\ job'[q] = job[q] /\ job[q].phase = "idle" /\ covered'[q] = covered[q]
      BY <1>2, <1>5, <1>6, <2>2 DEF IInv
    <3> QED  BY <1>1, <3>1 DEF JobHolds, StillStored
  <2> QED  BY <2>1, <2>2
<1> QED  BY <1>7, <1>8, <1>9, <1>11, <1>12 DEF IInv

-----------------------------------------------------------------------------

\* Every step keeps the invariant.
LEMMA NextInv == IInv /\ [Next]_vars => IInv'
<1> SUFFICES ASSUME IInv, [Next]_vars PROVE IInv'
  OBVIOUS
<1>0. today <= today
  BY DEF IInv, TypeOK, Days
<1>1. CASE UNCHANGED vars
  BY <1>0, <1>1, TablesGrow DEF vars, clockVars, tableVars, IInv, TypeOK
<1>2. CASE \/ Midnight \/ IntervalElapses
           \/ \E c \in Closes : StoreClose(c)
           \/ \E e \in Events : StoreEvents(e)
  BY <1>2, WorldKeeps
<1>3. CASE TimerTicks
  <2>1. "writer" \in Refreshers /\ FALSE \in BOOLEAN
    BY DEF Refreshers
  <2>2. Begin("writer", FALSE) /\ forced' \in 0..MAX_FORCED
    BY <1>3 DEF TimerTicks, IInv, TypeOK
  <2> QED  BY <2>1, <2>2, BeginKeeps
<1>4. CASE CommandRuns
  <2>1. "cli" \in Refreshers
    BY DEF Refreshers
  <2>2. PICK force \in BOOLEAN : Begin("cli", force)
    BY <1>4 DEF CommandRuns
  <2>3. forced' \in 0..MAX_FORCED
    BY <1>4, LeaderboardsAssumption DEF CommandRuns, IInv, TypeOK
  <2> QED  BY <2>1, <2>2, <2>3, BeginKeeps
<1>5. CASE \E r \in Refreshers : RefreshSteps(r) \/ FailRefresh(r)
  BY <1>5, RefreshKeeps, ReadMarkKeeps, RecordKeeps, FailKeeps DEF RefreshSteps
<1>6. CASE Client
  BY <1>6, ClientKeeps
<1> QED  BY <1>1, <1>2, <1>3, <1>4, <1>5, <1>6 DEF Next

\* A step that changes the status row is a record.
LEMMA StatusStep ==
  ASSUME IInv, [Next]_vars
  PROVE  \/ UNCHANGED status
         \/ \E r \in Refreshers : Record(r)
<1>1. CASE UNCHANGED vars
  BY <1>1 DEF vars, refreshVars
<1>2. CASE \E r \in Refreshers : RefreshSteps(r) \/ FailRefresh(r)
  BY <1>2 DEF RefreshSteps, RefreshMarket, RefreshGlobal, ReadMark, FailRefresh
<1>3. CASE TimerTicks \/ CommandRuns
  BY <1>3 DEF TimerTicks, CommandRuns, Begin
<1>4. CASE \/ Midnight \/ IntervalElapses
           \/ \E c \in Closes : StoreClose(c)
           \/ \E e \in Events : StoreEvents(e)
  BY <1>4 DEF Midnight, IntervalElapses, StoreClose, StoreEvents, refreshVars
<1>5. CASE Client
  BY <1>5 DEF Client, AskBoard, ReadStatus, ReadPage, ReadStats, AskLiquidity, ReadLiquidity,
              refreshVars
<1> QED  BY <1>1, <1>2, <1>3, <1>4, <1>5 DEF Next

\* The strengthened invariant, from which the rest follows.
THEOREM Invariance == Spec => []IInv
<1> QED  BY InitInv, NextInv, PTL DEF Spec

\* Every variable of the projection keeps its type, and a high-water mark is a slot.
THEOREM TypeCorrect == Spec => []TypeOK
<1>1. IInv => TypeOK
  BY DEF IInv
<1> QED  BY Invariance, <1>1, PTL

\* refresh_locked runs under the advisory lock of whoever runs it: never two at once,
\* and nobody keeps it after its refresh.
THEOREM OneRefreshAtATime == Spec => []LockHeldByBusy
<1>1. IInv => LockHeldByBusy
  BY DEF IInv
<1> QED  BY Invariance, <1>1, PTL

\* Both views have what leaderboard_refresh_status promises, through failed refreshes,
\* two refreshers, and closes stored between a refresh's statements.
THEOREM StatusKeepsItsPromise == Spec => []StatusHolds
<1>1. IInv => StatusHolds
  BY DEF IInv
<1> QED  BY Invariance, <1>1, PTL

\* The version, the day and the high-water mark a client is shown never go back.
THEOREM StatusAdvances == Spec => MarkNeverFalls
<1>1. IInv /\ [Next]_vars =>
        [ /\ status'.version >= status.version
          /\ status.day # None => status'.day # None /\ status'.day >= status.day
          /\ status.mark # None => status'.mark # None /\ status'.mark >= status.mark
        ]_<<status>>
  <2> SUFFICES ASSUME IInv, [Next]_vars, status' # status
               PROVE  /\ status'.version >= status.version
                      /\ status.day # None => status'.day # None /\ status'.day >= status.day
                      /\ status.mark # None => status'.mark # None /\ status'.mark >= status.mark
    OBVIOUS
  <2>1. PICK r \in Refreshers : Record(r)
    BY StatusStep
  <2>2. /\ status' = [version |-> status.version + 1, day |-> job[r].day, mark |-> job[r].mark]
        /\ AtMost(status.day, job[r].day) /\ AtMost(status.mark, job[r].mark)
        /\ job[r] \in JobRecord
    BY <2>1, RecordWrites
  <2>3. /\ status.version \in Nat
        /\ status.day \in Int \cup {None} /\ status.mark \in Int \cup {None}
    BY DEF IInv, TypeOK, Days
  <2>4. job[r].day \in Int /\ job[r].mark \in Nat \cup {None}
    BY <2>2 DEF JobRecord, Days
  <2>5. status'.version >= status.version
    BY <2>2, <2>3
  <2>6. status.day # None => status'.day # None /\ status'.day >= status.day
    BY <2>2, <2>3, <2>4 DEF AtMost
  <2>7. status.mark # None => status'.mark # None /\ status'.mark >= status.mark
    BY <2>2, <2>3, <2>4, LeaderboardsAssumption DEF AtMost
  <2> QED  BY <2>5, <2>6, <2>7
<1> QED  BY Invariance, <1>1, PTL DEF Spec, MarkNeverFalls

-----------------------------------------------------------------------------
(***************************************************************************)
(* Rows in order.                                                          *)
(***************************************************************************)

\* A strict and total order of these rows.
Orders(before, rows) ==
  /\ \A x \in rows : <<x, x>> \notin before
  /\ \A x, y, z \in rows : <<x, y>> \in before /\ <<y, z>> \in before => <<x, z>> \in before
  /\ \A x, y \in rows : x # y => <<x, y>> \in before \/ <<y, x>> \in before

\* The rows before this one.
Before(x, rows, before) == {q \in rows : <<q, x>> \in before}

\* A row of a later place has more rows before it, and each fewer than there are.
LEMMA RanksGrow ==
  ASSUME NEW rows, IsFiniteSet(rows), NEW before, Orders(before, rows)
  PROVE  /\ \A x \in rows : Cardinality(Before(x, rows, before)) \in 0..(Cardinality(rows) - 1)
         /\ \A x, y \in rows : <<x, y>> \in before =>
              Cardinality(Before(x, rows, before)) < Cardinality(Before(y, rows, before))
<1>1. ASSUME NEW S \in SUBSET rows, NEW T \in SUBSET S, S # T
      PROVE  Cardinality(S) \in Nat /\ Cardinality(T) \in Nat /\ Cardinality(T) < Cardinality(S)
  <2>1. IsFiniteSet(S)
    BY FS_Subset
  <2>2. IsFiniteSet(T) /\ Cardinality(T) <= Cardinality(S) /\ Cardinality(S) # Cardinality(T)
    BY <1>1, <2>1, FS_Subset
  <2> QED  BY <2>1, <2>2, FS_CardinalityType
<1>2. ASSUME NEW x \in rows
      PROVE  Cardinality(Before(x, rows, before)) \in 0..(Cardinality(rows) - 1)
  <2>1. Before(x, rows, before) \in SUBSET rows /\ rows # Before(x, rows, before)
    BY DEF Before, Orders
  <2> QED  BY <1>1, <2>1
<1>3. ASSUME NEW x \in rows, NEW y \in rows, <<x, y>> \in before
      PROVE  Cardinality(Before(x, rows, before)) < Cardinality(Before(y, rows, before))
  <2>1. Before(x, rows, before) \in SUBSET Before(y, rows, before)
    BY <1>3 DEF Before, Orders
  <2>2. Before(y, rows, before) \in SUBSET rows
    BY DEF Before
  <2>3. Before(y, rows, before) # Before(x, rows, before)
    BY <1>3 DEF Before, Orders
  <2> QED  BY <1>1, <2>1, <2>2, <2>3
<1> QED  BY <1>2, <1>3

\* What row_number() gives: every row once, each after those that are before it.
LEMMA RankedInOrder ==
  ASSUME NEW rows, IsFiniteSet(rows), NEW before, Orders(before, rows),
         NEW ranked, ranked = Ranked(rows, before)
  PROVE  /\ ranked \in Seq(rows) /\ Len(ranked) = Cardinality(rows)
         /\ \A i, j \in 1..Len(ranked) : i < j => <<ranked[i], ranked[j]>> \in before
         /\ \A x \in rows : \E i \in 1..Len(ranked) : ranked[i] = x
<1> DEFINE n == Cardinality(rows)
           rank == [x \in rows |-> Cardinality(Before(x, rows, before)) + 1]
<1>1. n \in Nat
  BY FS_CardinalityType
<1>2. \A x \in rows : rank[x] \in 1..n
  BY <1>1, RanksGrow
<1>3. \A x, y \in rows : <<x, y>> \in before => rank[x] < rank[y]
  BY <1>1, RanksGrow
<1> HIDE DEF rank, n
<1>4. \A x, y \in rows : rank[x] = rank[y] => x = y
  <2> SUFFICES ASSUME NEW x \in rows, NEW y \in rows, rank[x] = rank[y], x # y PROVE FALSE
    OBVIOUS
  <2>1. rank[x] \in 1..n /\ rank[y] \in 1..n
    BY <1>2
  <2>2. rank[x] < rank[y] \/ rank[y] < rank[x]
    BY <1>3 DEF Orders
  <2> QED  BY <1>1, <2>1, <2>2
<1>5. rank \in Injection(rows, 1..n)
  <2>1. rank \in [rows -> 1..n]
    BY <1>2 DEF rank
  <2> QED  BY <1>4, <2>1 DEF Injection, IsInjective
<1>6. \A i \in 1..n : \E x \in rows : rank[x] = i
  <2>1. IsFiniteSet(1..n) /\ Cardinality(1..n) = n
    BY <1>1, FS_Interval
  <2>2. Cardinality(rows) = n
    BY DEF n
  <2>3. rank \in Surjection(rows, 1..n)
    BY <1>5, <2>1, <2>2, FS_Injection
  <2> QED  BY <2>3 DEF Surjection
<1>7. ranked = [i \in 1..n |-> CHOOSE r \in rows : Cardinality({q \in rows : <<q, r>> \in before}) = i - 1]
  BY DEF Ranked, n
<1>8. ASSUME NEW i \in 1..n
      PROVE  ranked[i] \in rows /\ rank[ranked[i]] = i
  <2>1. \E r \in rows : Cardinality({q \in rows : <<q, r>> \in before}) = i - 1
    <3>1. PICK x \in rows : rank[x] = i
      BY <1>6
    <3>2. Cardinality({q \in rows : <<q, x>> \in before}) = i - 1
      <4>1. Cardinality(Before(x, rows, before)) \in 0..(Cardinality(rows) - 1)
        BY RanksGrow
      <4>2. Cardinality(Before(x, rows, before)) + 1 = i
        BY <3>1 DEF rank
      <4>3. Cardinality(Before(x, rows, before)) = i - 1
        BY <4>1, <4>2
      <4> QED  BY <4>3 DEF Before
    <3> QED  BY <3>2
  <2>2. ranked[i] \in rows /\ Cardinality({q \in rows : <<q, ranked[i]>> \in before}) = i - 1
    BY <1>7, <2>1
  <2>3. Cardinality(Before(ranked[i], rows, before)) = i - 1
    BY <2>2 DEF Before
  <2> QED  BY <2>2, <2>3 DEF rank
<1>9. ranked \in [1..n -> rows]
  BY <1>7, <1>8
<1>10. ranked \in Seq(rows) /\ Len(ranked) = n
  BY <1>1, <1>9
<1>11. ASSUME NEW i \in 1..n, NEW j \in 1..n, i < j
       PROVE  <<ranked[i], ranked[j]>> \in before
  <2>1. /\ ranked[i] \in rows /\ rank[ranked[i]] = i
        /\ ranked[j] \in rows /\ rank[ranked[j]] = j
    BY <1>8
  <2>2. ranked[i] # ranked[j]
    BY <1>11, <2>1
  <2>3. ~(<<ranked[j], ranked[i]>> \in before)
    <3> SUFFICES ASSUME <<ranked[j], ranked[i]>> \in before PROVE FALSE
      OBVIOUS
    <3>1. j < i
      BY <1>3, <2>1
    <3> QED  BY <1>11, <3>1
  <2> QED  BY <2>1, <2>2, <2>3 DEF Orders
<1>12. ASSUME NEW x \in rows
       PROVE  \E i \in 1..n : ranked[i] = x
  <2>1. rank[x] \in 1..n
    BY <1>2
  <2>2. ranked[rank[x]] \in rows /\ rank[ranked[rank[x]]] = rank[x]
    BY <1>8, <2>1
  <2>3. ranked[rank[x]] = x
    BY <1>4, <2>2
  <2> QED  BY <2>1, <2>3
<1> QED  BY <1>10, <1>11, <1>12 DEF n

\* However rows are ranked, a finite set of them is a sequence of as many.
LEMMA RankedIsSequence ==
  ASSUME NEW rows, IsFiniteSet(rows), NEW before
  PROVE  /\ Ranked(rows, before) \in Seq({Ranked(rows, before)[i] : i \in 1..Cardinality(rows)})
         /\ Len(Ranked(rows, before)) = Cardinality(rows) /\ Cardinality(rows) \in Nat
<1> DEFINE n == Cardinality(rows)
           T == {Ranked(rows, before)[i] : i \in 1..n}
<1>1. n \in Nat
  BY FS_CardinalityType
<1>2. Ranked(rows, before) \in [1..n -> T]
  BY DEF Ranked
<1> HIDE DEF n, T
<1>3. Ranked(rows, before) \in Seq(T) /\ Len(Ranked(rows, before)) = n
  BY <1>1, <1>2
<1> QED  BY <1>1, <1>3 DEF n, T

\* Of two numbers.
LEMMA MinOfTwo ==
  ASSUME NEW a \in Int, NEW b \in Int
  PROVE  Min({a, b}) = IF a <= b THEN a ELSE b
<1>1. CASE a <= b
  <2>1. \A x \in {a, b} : (\A y \in {a, b} : x <= y) <=> x = a
    BY <1>1
  <2> QED  BY <1>1, <2>1 DEF Min
<1>2. CASE ~(a <= b)
  <2>1. \A x \in {a, b} : (\A y \in {a, b} : x <= y) <=> x = b
    BY <1>2
  <2> QED  BY <1>2, <2>1 DEF Min
<1> QED  BY <1>1, <1>2

-----------------------------------------------------------------------------
(***************************************************************************)
(* The keys of liquidity events.                                           *)
(***************************************************************************)

Keys == Nat \X Nat \X Nat \X Nat

\* The comparison of rows, column by column.
LEMMA BelowIs ==
  ASSUME NEW k \in Keys, NEW l \in Keys
  PROVE  Below(k, l) <=> \/ k[1] < l[1]
                         \/ k[1] = l[1] /\ k[2] < l[2]
                         \/ k[1] = l[1] /\ k[2] = l[2] /\ k[3] < l[3]
                         \/ k[1] = l[1] /\ k[2] = l[2] /\ k[3] = l[3] /\ k[4] < l[4]
<1> DEFINE At(i) == k[i] < l[i] /\ \A j \in 1..(i - 1) : k[j] = l[j]
<1>1. At(1) <=> k[1] < l[1]
  OBVIOUS
<1>2. At(2) <=> k[1] = l[1] /\ k[2] < l[2]
  <2>1. 1..(2 - 1) = {1}
    OBVIOUS
  <2> QED  BY <2>1
<1>3. At(3) <=> k[1] = l[1] /\ k[2] = l[2] /\ k[3] < l[3]
  <2>1. 1..(3 - 1) = {1, 2}
    OBVIOUS
  <2> QED  BY <2>1
<1>4. At(4) <=> k[1] = l[1] /\ k[2] = l[2] /\ k[3] = l[3] /\ k[4] < l[4]
  <2>1. 1..(4 - 1) = {1, 2, 3}
    OBVIOUS
  <2> QED  BY <2>1
<1>5. Below(k, l) <=> \E i \in 1..4 : At(i)
  BY DEF Below
<1>6. 1..4 = {1, 2, 3, 4}
  OBVIOUS
<1> HIDE DEF At
<1>7. Below(k, l) <=> At(1) \/ At(2) \/ At(3) \/ At(4)
  BY <1>5, <1>6
<1> QED  BY <1>1, <1>2, <1>3, <1>4, <1>7

\* It is a strict order of the keys, and total.
LEMMA BelowOrders ==
  ASSUME NEW k \in Keys, NEW l \in Keys, NEW m \in Keys
  PROVE  /\ ~Below(k, k)
         /\ Below(k, l) /\ Below(l, m) => Below(k, m)
         /\ k # l => Below(k, l) \/ Below(l, k)
<1>0. /\ k[1] \in Nat /\ k[2] \in Nat /\ k[3] \in Nat /\ k[4] \in Nat
      /\ l[1] \in Nat /\ l[2] \in Nat /\ l[3] \in Nat /\ l[4] \in Nat
      /\ m[1] \in Nat /\ m[2] \in Nat /\ m[3] \in Nat /\ m[4] \in Nat
  BY DEF Keys
<1>1. ~Below(k, k)
  BY <1>0, BelowIs
<1>2. Below(k, l) /\ Below(l, m) => Below(k, m)
  <2>1. /\ Below(k, l) <=> \/ k[1] < l[1]
                           \/ k[1] = l[1] /\ k[2] < l[2]
                           \/ k[1] = l[1] /\ k[2] = l[2] /\ k[3] < l[3]
                           \/ k[1] = l[1] /\ k[2] = l[2] /\ k[3] = l[3] /\ k[4] < l[4]
        /\ Below(l, m) <=> \/ l[1] < m[1]
                           \/ l[1] = m[1] /\ l[2] < m[2]
                           \/ l[1] = m[1] /\ l[2] = m[2] /\ l[3] < m[3]
                           \/ l[1] = m[1] /\ l[2] = m[2] /\ l[3] = m[3] /\ l[4] < m[4]
        /\ Below(k, m) <=> \/ k[1] < m[1]
                           \/ k[1] = m[1] /\ k[2] < m[2]
                           \/ k[1] = m[1] /\ k[2] = m[2] /\ k[3] < m[3]
                           \/ k[1] = m[1] /\ k[2] = m[2] /\ k[3] = m[3] /\ k[4] < m[4]
    BY BelowIs
  <2> QED  BY <1>0, <2>1
<1>3. k # l => Below(k, l) \/ Below(l, k)
  <2>1. k # l => k[1] # l[1] \/ k[2] # l[2] \/ k[3] # l[3] \/ k[4] # l[4]
    BY DEF Keys
  <2>2. /\ Below(k, l) <=> \/ k[1] < l[1]
                           \/ k[1] = l[1] /\ k[2] < l[2]
                           \/ k[1] = l[1] /\ k[2] = l[2] /\ k[3] < l[3]
                           \/ k[1] = l[1] /\ k[2] = l[2] /\ k[3] = l[3] /\ k[4] < l[4]
        /\ Below(l, k) <=> \/ l[1] < k[1]
                           \/ l[1] = k[1] /\ l[2] < k[2]
                           \/ l[1] = k[1] /\ l[2] = k[2] /\ l[3] < k[3]
                           \/ l[1] = k[1] /\ l[2] = k[2] /\ l[3] = k[3] /\ l[4] < k[4]
    BY BelowIs
  <2> QED  BY <1>0, <2>1, <2>2
<1> QED  BY <1>1, <1>2, <1>3

\* An event has a key of its own, which is not the cursor of a first page.
LEMMA KeyOfEvent ==
  /\ \A e \in Events : Key(e) \in Keys /\ Key(e) # None
  /\ \A d, e \in Events : Key(d) = Key(e) => d = e
<1>1. ASSUME NEW e \in Events
      PROVE  Key(e) \in Keys /\ Key(e) # None
  <2>1. SortTime(EventOf[e]) \in Nat
    BY EventsAssumption DEF SortTime
  <2>2. Key(e) \in Keys
    BY <2>1, EventsAssumption DEF Key, Keys
  <2> QED  BY <2>2, EventsAssumption DEF Keys
<1>2. ASSUME NEW d \in Events, NEW e \in Events, Key(d) = Key(e)
      PROVE  d = e
  <2>1. EventOf[d].signature = EventOf[e].signature /\ EventOf[d].path = EventOf[e].path
    BY <1>2 DEF Key
  <2> QED  BY <2>1, EventsAssumption
<1> QED  BY <1>1, <1>2

\* The order of a liquidity page is one.
LEMMA NewerFirstOrders ==
  ASSUME NEW rows \in SUBSET Events
  PROVE  Orders(NewerFirst(rows), rows)
<1>1. \A x, y \in rows : <<x, y>> \in NewerFirst(rows) <=> Below(Key(y), Key(x))
  BY DEF NewerFirst
<1>2. \A x \in rows : Key(x) \in Keys
  BY KeyOfEvent
<1>3. \A x \in rows : ~Below(Key(x), Key(x))
  BY <1>2, BelowOrders
<1>4. \A x, y, z \in rows : Below(Key(y), Key(x)) /\ Below(Key(z), Key(y)) => Below(Key(z), Key(x))
  BY <1>2, BelowOrders
<1>5. \A x, y \in rows : x # y => Below(Key(y), Key(x)) \/ Below(Key(x), Key(y))
  BY <1>2, BelowOrders, KeyOfEvent
<1> QED  BY <1>1, <1>3, <1>4, <1>5 DEF Orders

-----------------------------------------------------------------------------
(***************************************************************************)
(* Leaderboards and their pages.                                           *)
(***************************************************************************)

\* What a function takes on a finite set is a finite set.
LEMMA ValuesFinite ==
  ASSUME NEW S, IsFiniteSet(S), NEW f, DOMAIN f = S
  PROVE  IsFiniteSet({f[x] : x \in S})
<1> DEFINE T == {f[x] : x \in S}
           g == [x \in S |-> f[x]]
<1>1. g \in Surjection(S, T)
  BY DEF Surjection
<1> HIDE DEF g, T
<1>2. IsFiniteSet(T)
  BY <1>1, FS_Surjection
<1> QED  BY <1>2 DEF T

\* The aggregation of a finite table has finitely many rows, whatever is in it.
LEMMA GlobalBoardIsSequence ==
  ASSUME NEW positions, IsFiniteSet(positions), NEW period, NEW day
  PROVE  \E T : GlobalBoard(positions, period, day) \in Seq(T)
<1> DEFINE counted == Counted(positions, period, day)
           users   == {p.user : p \in counted}
           rows    == {Aggregated(u, {p \in counted : p.user = u}) : u \in users}
           before  == {pair \in rows \X rows : Outranks(pair[1], pair[2])}
<1>1. IsFiniteSet(counted)
  <2>1. counted \in SUBSET positions
    BY DEF Counted
  <2> QED  BY <2>1, FS_Subset
<1>2. IsFiniteSet(users)
  <2> DEFINE f == [p \in counted |-> p.user]
  <2>1. f \in Surjection(counted, users)
    BY DEF Surjection
  <2> HIDE DEF f, counted, users
  <2> QED  BY <1>1, <2>1, FS_Surjection
<1>3. IsFiniteSet(rows)
  <2> DEFINE f == [u \in users |-> Aggregated(u, {p \in counted : p.user = u})]
  <2> HIDE DEF counted, users
  <2>1. f \in Surjection(users, rows)
    BY DEF Surjection
  <2> HIDE DEF f, rows
  <2> QED  BY <1>2, <2>1, FS_Surjection
<1>4. GlobalBoard(positions, period, day) = Ranked(rows, before)
  BY DEF GlobalBoard
<1> HIDE DEF rows, before
<1>5. Ranked(rows, before) \in Seq({Ranked(rows, before)[i] : i \in 1..Cardinality(rows)})
  BY <1>3, RankedIsSequence
<1> QED  BY <1>4, <1>5

\* A leaderboard of a view is a sequence of rows.
LEMMA BoardIsSequence ==
  ASSUME NEW board, NEW period, NEW view
  PROVE  \E T : Board(board, period, view) \in Seq(T)
<1> DEFINE stored == {c \in Closes : view.closed[c] # Unstored}
           row(c) == [f \in DOMAIN PositionOf[c] \cup {"closed"} |->
                        IF f = "closed" THEN view.closed[c] ELSE PositionOf[c][f]]
<1>1. IsFiniteSet(PositionsIn(view))
  <2> DEFINE g == [c \in stored |-> row(c)]
  <2>1. IsFiniteSet(stored)
    BY LeaderboardsAssumption, FS_Subset
  <2>2. PositionsIn(view) = {row(c) : c \in stored}
    BY DEF PositionsIn
  <2> HIDE DEF stored, row
  <2>3. g \in Surjection(stored, PositionsIn(view))
    BY <2>2 DEF Surjection
  <2> HIDE DEF g
  <2> QED  BY <2>1, <2>3, FS_Surjection
<1>2. IsFiniteSet({p \in PositionsIn(view) : p.market = MARKET})
  BY <1>1, FS_Subset
<1> QED  BY <1>1, <1>2, GlobalBoardIsSequence DEF Board, MarketBoard

\* The users of the first rows.
UsersTo(board, n) == [i \in 1..n |-> board[i].user]

\* A page goes on where the walk stopped, and its last row is where the next begins.
LEMMA PageGoesOn ==
  ASSUME NEW T, NEW board \in Seq(T), NEW after \in 0..Len(board),
         NEW page, page = BoardPage(board, after, LIMIT),
         NEW got, got = UsersTo(board, after)
  PROVE  /\ Len(page) \in Nat /\ after + Len(page) <= Len(board)
         /\ got \o UsersTo(page, Len(page)) = UsersTo(board, after + Len(page))
         /\ BoardGoesOn(board, after, LIMIT) => Len(page) = LIMIT
         /\ ~BoardGoesOn(board, after, LIMIT) => after + Len(page) = Len(board)
<1> DEFINE last == Min({after + LIMIT, Len(board)})
           U == {board[i].user : i \in 1..Len(board)}
           more == [i \in 1..Len(page) |-> page[i].user]
<1>0. /\ Len(board) \in Nat /\ after \in Nat /\ after <= Len(board)
      /\ LIMIT \in Nat /\ LIMIT >= 1
  BY LenProperties, LeaderboardsAssumption
<1>1. last = IF after + LIMIT <= Len(board) THEN after + LIMIT ELSE Len(board)
  BY <1>0, MinOfTwo
<1>2. last \in Nat /\ after <= last /\ last <= Len(board)
  BY <1>0, <1>1
<1>3. page = SubSeq(board, after + 1, last)
  BY DEF BoardPage
<1> HIDE DEF last
<1>4. /\ page \in Seq(T) /\ Len(page) = last - after
      /\ \A i \in 1..(last - after) : page[i] = board[after + i]
  <2>1. \A i \in (after + 1)..last : board[i] \in T
    BY <1>0, <1>2, ElementOfSeq
  <2>2. /\ SubSeq(board, after + 1, last) \in Seq(T)
        /\ Len(SubSeq(board, after + 1, last)) = IF after + 1 <= last THEN last - (after + 1) + 1 ELSE 0
        /\ \A i \in 1..(last - (after + 1) + 1) : SubSeq(board, after + 1, last)[i] = board[(after + 1) + i - 1]
    BY <1>0, <1>2, <2>1, SubSeqProperties
  <2>3. /\ last - (after + 1) + 1 = last - after
        /\ \A i \in 1..(last - after) : (after + 1) + i - 1 = after + i
    BY <1>0, <1>2
  <2> QED  BY <1>0, <1>2, <1>3, <2>2, <2>3
<1>5. got \in Seq(U) /\ Len(got) = after /\ \A i \in 1..after : got[i] = board[i].user
  <2>1. got \in [1..after -> U]
    BY <1>0 DEF UsersTo
  <2> HIDE DEF U
  <2> QED  BY <1>0, <2>1 DEF UsersTo
<1>6. /\ more \in Seq(U) /\ Len(more) = last - after
      /\ \A i \in 1..(last - after) : more[i] = board[after + i].user
  <2>1. \A i \in 1..(last - after) : after + i \in 1..Len(board)
    BY <1>0, <1>2
  <2>2. more \in [1..(last - after) -> U]
    BY <1>4, <2>1
  <2>3. last - after \in Nat
    BY <1>0, <1>2
  <2>4. \A i \in 1..(last - after) : more[i] = board[after + i].user
    BY <1>4
  <2> HIDE DEF U, more
  <2> QED  BY <2>2, <2>3, <2>4
<1> HIDE DEF U, more
<1>7. /\ got \o more \in Seq(U) /\ Len(got \o more) = last
      /\ \A i \in 1..last : (got \o more)[i] = IF i <= after THEN got[i] ELSE more[i - after]
  <2>1. /\ got \o more \in Seq(U)
        /\ Len(got \o more) = Len(got) + Len(more)
        /\ \A i \in 1..(Len(got) + Len(more)) :
             (got \o more)[i] = IF i <= Len(got) THEN got[i] ELSE more[i - Len(got)]
    BY <1>5, <1>6, ConcatProperties
  <2>2. Len(got) + Len(more) = last /\ Len(got) = after
    BY <1>0, <1>2, <1>5, <1>6
  <2> QED  BY <2>1, <2>2
<1>8. \A i \in 1..last : (got \o more)[i] = board[i].user
  <2> SUFFICES ASSUME NEW i \in 1..last PROVE (got \o more)[i] = board[i].user
    OBVIOUS
  <2>1. CASE i <= after
    BY <1>0, <1>5, <1>7, <2>1
  <2>2. CASE ~(i <= after)
    <3>1. i - after \in 1..(last - after) /\ after + (i - after) = i
      BY <1>0, <1>2, <2>2
    <3> QED  BY <1>6, <1>7, <2>2, <3>1
  <2> QED  BY <2>1, <2>2
<1>9. got \o more = UsersTo(board, last)
  <2>1. PICK walk \in Seq(U) : walk = got \o more
    BY <1>7
  <2>2. walk \in [1..last -> U]
    BY <1>7, <2>1, LenProperties
  <2>3. walk = [i \in 1..last |-> board[i].user]
    BY <1>8, <2>1, <2>2
  <2> QED  BY <2>1, <2>3 DEF UsersTo
<1>10. after + Len(page) = last /\ Len(page) \in Nat
  BY <1>0, <1>2, <1>4
<1>11. BoardGoesOn(board, after, LIMIT) => Len(page) = LIMIT
  BY <1>0, <1>1, <1>4 DEF BoardGoesOn
<1>12. ~BoardGoesOn(board, after, LIMIT) => last = Len(board)
  BY <1>0, <1>1 DEF BoardGoesOn
<1>13. got \o UsersTo(page, Len(page)) = UsersTo(board, last)
  BY <1>9 DEF more, UsersTo
<1> QED  BY <1>2, <1>10, <1>11, <1>12, <1>13

\* A page of a leaderboard that changed under the walk is a page still.
LEMMA PageIsSequence ==
  ASSUME NEW T, NEW board \in Seq(T), NEW after \in Nat,
         NEW page, page = BoardPage(board, after, LIMIT)
  PROVE  /\ Len(page) \in Nat
         /\ BoardGoesOn(board, after, LIMIT) => Len(page) = LIMIT
<1> DEFINE last == Min({after + LIMIT, Len(board)})
<1>0. Len(board) \in Nat /\ LIMIT \in Nat /\ LIMIT >= 1
  BY LenProperties, LeaderboardsAssumption
<1>1. last = IF after + LIMIT <= Len(board) THEN after + LIMIT ELSE Len(board)
  BY <1>0, MinOfTwo
<1>2. page = SubSeq(board, after + 1, last)
  BY DEF BoardPage
<1> HIDE DEF last
<1>3. \A i \in (after + 1)..last : board[i] \in T
  BY <1>0, <1>1, ElementOfSeq
<1>4. last \in Int
  BY <1>0, <1>1
<1>5. Len(page) = IF after + 1 <= last THEN last - (after + 1) + 1 ELSE 0
  BY <1>2, <1>3, <1>4, SubSeqProperties
<1> QED  BY <1>0, <1>1, <1>4, <1>5 DEF BoardGoesOn

-----------------------------------------------------------------------------
(***************************************************************************)
(* The client.                                                             *)
(***************************************************************************)

\* A walk over a leaderboard, or a request for one wallet's row: the promise it reads
\* under holds, and a walk that met no refresh has the first rows of its leaderboard.
WalkHolds ==
  /\ client.kind \in {"walk", "stats"} /\ client.phase \in {"status", "rows"}
  /\ client = [phase |-> client.phase, kind |-> client.kind, board |-> client.board,
               period |-> client.period, version |-> client.version, after |-> client.after,
               got |-> client.got, promised |-> client.promised, view |-> client.view,
               single |-> client.single, kept |-> TRUE]
  /\ client.after \in Nat /\ client.single \in BOOLEAN
  /\ client.phase = "rows" => /\ StillStored(client.promised)
                              /\ Holds(market, client.promised)
                              /\ Holds(global, client.promised)
  /\ client.after = 0 => client.got = <<>>
  /\ client.after # 0 /\ client.single =>
       LET board == Board(client.board, client.period, client.view)
       IN  client.after <= Len(board) /\ client.got = UsersTo(board, client.after)

\* Newest first.
Descends(got) == \A i \in 1..(Len(got) - 1) : Below(Key(got[i + 1]), Key(got[i]))

\* The cursor after these pages.
CursorOf(got) == IF got = <<>> THEN None ELSE Key(got[Len(got)])

\* These events are in these pages or past their cursor.
Covers(got, stored) == \A e \in stored : PastCursor(e, CursorOf(got)) \/ e \in ToSet(got)

\* A walk over the liquidity history: what was stored when it began is in its pages
\* or past its cursor, which is the key of the last event of its pages.
HistoryHolds ==
  /\ client.kind = "liquidity"
  /\ client = [phase |-> "rows", kind |-> "liquidity", after |-> client.after,
               got |-> client.got, stored |-> client.stored]
  /\ client.stored \subseteq events
  /\ client.got \in Seq(Events) /\ Descends(client.got)
  /\ client.after = CursorOf(client.got) /\ Covers(client.got, client.stored)

ClientHolds ==
  \/ client.phase = "idle" /\ client.whole
  \/ WalkHolds
  \/ HistoryHolds

\* A step of anybody else takes nothing from what the client relies on.
LEMMA OthersKeepClient ==
  ASSUME ClientHolds, client' = client, events \subseteq events',
         \A c \in Closes : closedAt[c] # Unstored => closedAt'[c] = closedAt[c],
         market' = market \/ market'.closed = closedAt',
         global' = global \/ global'.closed = closedAt'
  PROVE  ClientHolds'
<1>1. CASE client.phase = "idle" /\ client.whole
  BY <1>1 DEF ClientHolds
<1>2. CASE WalkHolds
  <2>1. client.phase = "rows" =>
          /\ StillStored(client.promised)'
          /\ Holds(market, client.promised)' /\ Holds(global, client.promised)'
    BY <1>2 DEF WalkHolds, StillStored, Holds
  <2>2. WalkHolds'
    BY <1>2, <2>1 DEF WalkHolds
  <2> QED  BY <2>2 DEF ClientHolds
<1>3. CASE HistoryHolds
  <2>1. HistoryHolds'
    BY <1>3 DEF HistoryHolds
  <2> QED  BY <2>1 DEF ClientHolds
<1> QED  BY <1>1, <1>2, <1>3 DEF ClientHolds

\* A client that asks has nothing yet, and everything stored is still to come.
LEMMA AskKeeps ==
  ASSUME IInv, AskBoard \/ AskLiquidity
  PROVE  ClientHolds'
<1>1. CASE AskBoard
  <2>1. PICK board \in Boards, period \in ASKED_PERIODS, kind \in {"walk", "stats"} :
          client' = [phase |-> "status", kind |-> kind, board |-> board, period |-> period,
                     version |-> None, after |-> 0, got |-> <<>>, promised |-> Nothing,
                     view |-> None, single |-> TRUE, kept |-> TRUE]
    BY <1>1 DEF AskBoard
  <2>2. WalkHolds'
    BY <2>1 DEF WalkHolds
  <2> QED  BY <2>2 DEF ClientHolds
<1>2. CASE AskLiquidity
  <2>1. /\ client' = [phase |-> "rows", kind |-> "liquidity", after |-> None, got |-> <<>>,
                      stored |-> events]
        /\ events' = events
    BY <1>2 DEF AskLiquidity, tableVars
  <2>2. <<>> \in Seq(Events) /\ Descends(<<>>)
    BY EmptySeq DEF Descends
  <2>3. CursorOf(<<>>) = None /\ Covers(<<>>, events)
    BY DEF CursorOf, Covers, PastCursor
  <2>4. HistoryHolds'
    BY <2>1, <2>2, <2>3 DEF HistoryHolds
  <2> QED  BY <2>4 DEF ClientHolds
<1> QED  BY <1>1, <1>2

\* The status a client reads promises what both views have.
LEMMA ReadStatusKeeps ==
  ASSUME IInv, ClientHolds, ReadStatus
  PROVE  ClientHolds'
<1>1. /\ WalkHolds /\ client.phase = "status"
      /\ UNCHANGED <<clockVars, tableVars, refreshVars>>
  BY DEF ClientHolds, ReadStatus, HistoryHolds
<1>2. CASE client.version \in {None, status.version}
  <2>1. client' = [client EXCEPT !.phase = "rows", !.version = status.version,
                                 !.promised = covered.done]
    BY <1>2 DEF ReadStatus
  <2>2. client' = [phase |-> "rows", kind |-> client.kind, board |-> client.board,
                   period |-> client.period, version |-> status.version, after |-> client.after,
                   got |-> client.got, promised |-> covered.done, view |-> client.view,
                   single |-> client.single, kept |-> TRUE]
    <3>1. PICK phase, kind, board, period, version, after, got, promised, view, single :
            client = [phase |-> phase, kind |-> kind, board |-> board, period |-> period,
                      version |-> version, after |-> after, got |-> got,
                      promised |-> promised, view |-> view, single |-> single, kept |-> TRUE]
      BY <1>1 DEF WalkHolds
    <3> QED  BY <2>1, <3>1
  <2>3. /\ StillStored(covered.done)
        /\ Holds(market, covered.done) /\ Holds(global, covered.done)
    BY DEF IInv, StatusHolds, StatusPast
  <2>4. WalkHolds'
    BY <1>1, <2>2, <2>3 DEF WalkHolds, StillStored, Holds, clockVars, tableVars, refreshVars
  <2> QED  BY <2>4 DEF ClientHolds
<1>3. CASE ~(client.version \in {None, status.version})
  BY <1>3 DEF ReadStatus, ClientHolds, Done
<1> QED  BY <1>2, <1>3

\* One row of a view that has what was promised.
LEMMA ReadStatsKeeps ==
  ASSUME ClientHolds, ReadStats
  PROVE  ClientHolds'
<1>1. WalkHolds /\ client.phase = "rows"
  BY DEF ClientHolds, ReadStats, HistoryHolds
<1>2. Holds(View(client.board), client.promised)
  BY <1>1 DEF WalkHolds, View
<1>3. client' = Done(Holds(View(client.board), client.promised))
  BY DEF ReadStats
<1>4. client'.phase = "idle" /\ client'.whole
  BY <1>2, <1>3 DEF Done
<1> QED  BY <1>4 DEF ClientHolds

\* A page of a leaderboard: the walk has the first rows still, or a refresh came between.
LEMMA ReadPageKeeps ==
  ASSUME ClientHolds, ReadPage
  PROVE  ClientHolds'
<1> DEFINE view  == View(client.board)
           board == Board(client.board, client.period, view)
           page  == BoardPage(board, client.after, LIMIT)
           users == [i \in 1..Len(page) |-> page[i].user]
           walk  == [client EXCEPT
             !.phase = "status", !.promised = Nothing,
             !.got = @ \o users,
             !.after = @ + Len(page),
             !.view = IF client.after = 0 THEN view ELSE @,
             !.single = client.after = 0 \/ (@ /\ client.view = view),
             !.kept = @ /\ Holds(view, client.promised)]
           single == client.after = 0 \/ (client.single /\ client.view = view)
           first  == IF client.after = 0 THEN view ELSE client.view
<1>1. WalkHolds /\ client.phase = "rows" /\ client.kind = "walk"
  BY DEF ClientHolds, ReadPage, HistoryHolds
<1>2. client' = IF BoardGoesOn(board, client.after, LIMIT) THEN walk ELSE Done(WholeBoard(walk))
  BY DEF ReadPage
<1>3. Holds(view, client.promised)
  BY <1>1 DEF WalkHolds, View
<1>4. PICK T : board \in Seq(T)
  BY BoardIsSequence
<1>5. client.after \in Nat /\ client.single \in BOOLEAN /\ LIMIT \in Nat /\ LIMIT >= 1
  BY <1>1, LeaderboardsAssumption DEF WalkHolds
<1>6. Len(board) \in Nat
  <2> HIDE DEF board
  <2> QED  BY <1>4, LenProperties
<1>7. single => client.after \in 0..Len(board) /\ client.got = UsersTo(board, client.after)
  <2> HIDE DEF board
  <2>1. CASE client.after = 0
    <3>1. client.got = <<>>
      BY <1>1, <2>1 DEF WalkHolds
    <3>2. UsersTo(board, 0) = <<>>
      BY DEF UsersTo
    <3> QED  BY <1>6, <2>1, <3>1, <3>2
  <2>2. CASE client.after # 0
    <3> SUFFICES ASSUME client.single, client.view = view
                 PROVE  client.after \in 0..Len(board) /\ client.got = UsersTo(board, client.after)
      BY <2>2
    <3>1. Board(client.board, client.period, client.view) = board
      BY DEF board
    <3>2. client.after <= Len(board) /\ client.got = UsersTo(board, client.after)
      BY <1>1, <2>2, <3>1 DEF WalkHolds
    <3> QED  BY <1>5, <1>6, <3>2
  <2> QED  BY <2>1, <2>2
<1> HIDE DEF page
<1>8. /\ Len(page) \in Nat
      /\ BoardGoesOn(board, client.after, LIMIT) => Len(page) = LIMIT
  <2> HIDE DEF board
  <2> QED  BY <1>4, <1>5, PageIsSequence DEF page
<1>9. single => /\ client.after + Len(page) <= Len(board)
                /\ client.got \o users = UsersTo(board, client.after + Len(page))
                /\ ~BoardGoesOn(board, client.after, LIMIT) => client.after + Len(page) = Len(board)
  <2> HIDE DEF board, single
  <2> SUFFICES ASSUME single
               PROVE  /\ client.after + Len(page) <= Len(board)
                      /\ client.got \o users = UsersTo(board, client.after + Len(page))
                      /\ ~BoardGoesOn(board, client.after, LIMIT) =>
                            client.after + Len(page) = Len(board)
    OBVIOUS
  <2>1. /\ page = BoardPage(board, client.after, LIMIT)
        /\ client.after \in 0..Len(board) /\ client.got = UsersTo(board, client.after)
    BY <1>7 DEF page
  <2>2. /\ Len(page) \in Nat /\ client.after + Len(page) <= Len(board)
        /\ client.got \o users = UsersTo(board, client.after + Len(page))
        /\ ~BoardGoesOn(board, client.after, LIMIT) => client.after + Len(page) = Len(board)
    <3>1. PICK b, after, got, p :
            /\ b = board /\ after = client.after /\ got = client.got /\ p = page
            /\ b \in Seq(T) /\ after \in 0..Len(b)
            /\ p = BoardPage(b, after, LIMIT) /\ got = UsersTo(b, after)
      BY <1>4, <2>1
    <3>2. Len(p) \in Nat /\ after + Len(p) <= Len(b)
      BY <3>1, PageGoesOn
    <3>3. got \o UsersTo(p, Len(p)) = UsersTo(b, after + Len(p))
      <4>1. b \in Seq(T)
        BY <3>1
      <4>2. after \in 0..Len(b)
        BY <3>1
      <4>3. p = BoardPage(b, after, LIMIT)
        BY <3>1
      <4>4. got = UsersTo(b, after)
        BY <3>1
      <4> HIDE DEF walk, view, first, users
      <4> QED  BY <4>1, <4>2, <4>3, <4>4, PageGoesOn
    <3>4. ~BoardGoesOn(b, after, LIMIT) => after + Len(p) = Len(b)
      BY <3>1, PageGoesOn
    <3>5. UsersTo(p, Len(p)) = users
      BY <3>1 DEF UsersTo
    <3> QED  BY <3>1, <3>2, <3>3, <3>4, <3>5
  <2> QED  BY <2>2
<1>10. walk = [phase |-> "status", kind |-> "walk", board |-> client.board,
               period |-> client.period, version |-> client.version,
               after |-> client.after + Len(page), got |-> client.got \o users,
               promised |-> Nothing, view |-> first, single |-> single, kept |-> TRUE]
  <2> DEFINE got   == client.got \o users
             after == client.after + Len(page)
  <2>1. walk = [client EXCEPT !.phase = "status", !.promised = Nothing, !.got = got,
                              !.after = after, !.view = first, !.single = single, !.kept = TRUE]
    <3>1. (client.kept /\ Holds(view, client.promised)) = TRUE
      BY <1>1, <1>3 DEF WalkHolds
    <3> HIDE DEF view, users, board
    <3> QED  BY <3>1
  <2> HIDE DEF walk, view, users, board, got, after, first, single
  <2>2. PICK phase, kind, where, period, version, last, has, promised, seen, one :
          client = [phase |-> phase, kind |-> kind, board |-> where, period |-> period,
                    version |-> version, after |-> last, got |-> has,
                    promised |-> promised, view |-> seen, single |-> one, kept |-> TRUE]
    BY <1>1 DEF WalkHolds
  <2>3. walk = [phase |-> "status", kind |-> "walk", board |-> client.board,
                period |-> client.period, version |-> client.version, after |-> after,
                got |-> got, promised |-> Nothing, view |-> first, single |-> single,
                kept |-> TRUE]
    BY <1>1, <2>1, <2>2
  <2> QED  BY <2>3 DEF got, after
<1>11. single => Board(client.board, client.period, first) = board
  OBVIOUS
<1> HIDE DEF walk, single, first, board, view, users
<1>12. CASE BoardGoesOn(board, client.after, LIMIT)
  <2>1. client' = walk /\ client.after + Len(page) \in Nat /\ client.after + Len(page) # 0
    BY <1>2, <1>5, <1>8, <1>12
  <2>2. single \in BOOLEAN
    BY <1>5 DEF single
  <2>3. /\ client'.after = client.after + Len(page)
        /\ client'.got = client.got \o users /\ client'.single = single
        /\ client'.board = client.board /\ client'.period = client.period /\ client'.view = first
        /\ client'.kind = "walk" /\ client'.phase = "status"
    BY <1>10, <2>1
  <2>4. client'.single =>
          /\ client'.after <= Len(Board(client'.board, client'.period, client'.view))
          /\ client'.got = UsersTo(Board(client'.board, client'.period, client'.view), client'.after)
    BY <1>9, <1>11, <2>3
  <2>5. client' = [phase |-> client'.phase, kind |-> client'.kind, board |-> client'.board,
                   period |-> client'.period, version |-> client'.version, after |-> client'.after,
                   got |-> client'.got, promised |-> client'.promised, view |-> client'.view,
                   single |-> client'.single, kept |-> TRUE]
    BY <1>10, <2>1
  <2>6. WalkHolds'
    BY <2>1, <2>2, <2>3, <2>4, <2>5 DEF WalkHolds
  <2> QED  BY <2>6 DEF ClientHolds
<1>13. CASE ~BoardGoesOn(board, client.after, LIMIT)
  <2>1. /\ walk.kept /\ walk.single = single /\ walk.got = client.got \o users
        /\ Board(walk.board, walk.period, walk.view) = Board(client.board, client.period, first)
    BY <1>10
  <2>2. WholeBoard(walk)
    BY <1>9, <1>11, <1>13, <2>1 DEF WholeBoard, UsersTo
  <2>3. client' = Done(WholeBoard(walk))
    BY <1>2, <1>13
  <2>4. client'.phase = "idle" /\ client'.whole
    BY <2>2, <2>3 DEF Done
  <2> QED  BY <2>4 DEF ClientHolds
<1> QED  BY <1>12, <1>13

\* What the cursor has yet to return, newest first.
LEMMA HistoryInOrder ==
  ASSUME NEW next \in SUBSET Events
  PROVE  LET rows == Ranked(next, NewerFirst(next))
         IN  /\ rows \in Seq(next)
             /\ \A i, j \in 1..Len(rows) : i < j => Below(Key(rows[j]), Key(rows[i]))
             /\ \A e \in next : \E i \in 1..Len(rows) : rows[i] = e
<1>1. IsFiniteSet(next) /\ Orders(NewerFirst(next), next)
  BY LeaderboardsAssumption, FS_Subset, NewerFirstOrders
<1>2. PICK rows : rows = Ranked(next, NewerFirst(next))
  OBVIOUS
<1>3. /\ rows \in Seq(next)
      /\ \A i, j \in 1..Len(rows) : i < j => <<rows[i], rows[j]>> \in NewerFirst(next)
      /\ \A e \in next : \E i \in 1..Len(rows) : rows[i] = e
  BY <1>1, <1>2, RankedInOrder
<1>4. ASSUME NEW i \in 1..Len(rows), NEW j \in 1..Len(rows), i < j
      PROVE  Below(Key(rows[j]), Key(rows[i]))
  <2>1. <<rows[i], rows[j]>> \in NewerFirst(next)
    BY <1>3, <1>4
  <2> QED  BY <2>1 DEF NewerFirst
<1> QED  BY <1>2, <1>3, <1>4

\* The first LIMIT rows, or as many as there are.
LEMMA FirstRows ==
  ASSUME NEW T, NEW rows \in Seq(T)
  PROVE  LET cut  == IF LIMIT <= Len(rows) THEN LIMIT ELSE Len(rows)
             page == SubSeq(rows, 1, Min({LIMIT, Len(rows)}))
         IN  /\ cut \in 0..Len(rows)
             /\ page \in Seq(T) /\ Len(page) = cut /\ \A i \in 1..cut : page[i] = rows[i]
<1>1. Len(rows) \in Nat /\ LIMIT \in Nat
  BY LenProperties, LeaderboardsAssumption
<1>2. PICK cut : cut = IF LIMIT <= Len(rows) THEN LIMIT ELSE Len(rows)
  OBVIOUS
<1>3. cut \in 0..Len(rows) /\ cut \in Nat /\ Min({LIMIT, Len(rows)}) = cut
  BY <1>1, <1>2, MinOfTwo
<1>4. \A i \in 1..cut : rows[i] \in T
  BY <1>1, <1>3, ElementOfSeq
<1>5. PICK page : page = SubSeq(rows, 1, cut)
  OBVIOUS
<1>6. /\ page \in Seq(T)
      /\ Len(page) = IF 1 <= cut THEN cut - 1 + 1 ELSE 0
      /\ \A i \in 1..(cut - 1 + 1) : page[i] = rows[1 + i - 1]
  BY <1>3, <1>4, <1>5, SubSeqProperties
<1>7. cut - 1 + 1 = cut /\ \A i \in 1..cut : 1 + i - 1 = i
  BY <1>3
<1>8. Len(page) = cut
  BY <1>3, <1>6, <1>7
<1>9. \A i \in 1..cut : page[i] = rows[i]
  BY <1>6, <1>7
<1> QED  BY <1>2, <1>3, <1>5, <1>6, <1>8, <1>9

\* Appending a page to those before it.
LEMMA PageAppended ==
  ASSUME NEW T, NEW got \in Seq(T), NEW page \in Seq(T)
  PROVE  LET more == got \o page
         IN  /\ more \in Seq(T) /\ Len(more) = Len(got) + Len(page)
             /\ \A i \in 1..Len(got) : more[i] = got[i]
             /\ \A i \in 1..Len(page) : more[Len(got) + i] = page[i]
<1>1. Len(got) \in Nat /\ Len(page) \in Nat
  BY LenProperties
<1>2. PICK more : more = got \o page
  OBVIOUS
<1>3. /\ more \in Seq(T) /\ Len(more) = Len(got) + Len(page)
      /\ \A i \in 1..(Len(got) + Len(page)) :
           more[i] = IF i <= Len(got) THEN got[i] ELSE page[i - Len(got)]
  BY <1>2, ConcatProperties
<1>4. \A i \in 1..Len(got) : more[i] = got[i]
  BY <1>1, <1>3
<1>5. \A i \in 1..Len(page) : more[Len(got) + i] = page[i]
  <2> SUFFICES ASSUME NEW i \in 1..Len(page) PROVE more[Len(got) + i] = page[i]
    OBVIOUS
  <2>1. /\ Len(got) + i \in 1..(Len(got) + Len(page)) /\ ~(Len(got) + i <= Len(got))
        /\ (Len(got) + i) - Len(got) = i
    BY <1>1
  <2> QED  BY <1>3, <2>1
<1> QED  BY <1>2, <1>3, <1>4, <1>5

\* Pages that descend, followed by rows that descend from below the last of them.
LEMMA PagesDescend ==
  ASSUME NEW got \in Seq(Events), Descends(got), NEW cut \in Nat, NEW page \in Seq(Events),
         Len(page) = cut,
         \A i, j \in 1..cut : i < j => Below(Key(page[j]), Key(page[i])),
         got # <<>> /\ cut # 0 => Below(Key(page[1]), Key(got[Len(got)])),
         NEW more \in Seq(Events), Len(more) = Len(got) + cut,
         \A i \in 1..Len(got) : more[i] = got[i],
         \A i \in 1..cut : more[Len(got) + i] = page[i]
  PROVE  Descends(more)
<1>1. PICK g \in Nat : g = Len(got)
  BY LenProperties
<1>2. SUFFICES ASSUME NEW i \in 1..(g + cut - 1)
               PROVE  Below(Key(more[i + 1]), Key(more[i]))
  BY <1>1 DEF Descends
<1>3. CASE i + 1 <= g
  <2>1. i \in 1..g /\ i + 1 \in 1..g /\ i \in 1..(g - 1)
    BY <1>1, <1>3
  <2>2. more[i] = got[i] /\ more[i + 1] = got[i + 1]
    BY <1>1, <2>1
  <2>3. \A k \in 1..(g - 1) : Below(Key(got[k + 1]), Key(got[k]))
    BY <1>1 DEF Descends
  <2> QED  BY <2>1, <2>2, <2>3
<1>4. CASE i = g
  <2>1. g \in 1..g /\ 1 \in 1..cut /\ cut # 0 /\ g # 0
    BY <1>1, <1>4
  <2>2. got # <<>>
    BY <1>1, <2>1, EmptySeq
  <2>3. more[i] = got[g] /\ more[i + 1] = page[1]
    BY <1>1, <1>4, <2>1
  <2> QED  BY <1>1, <2>1, <2>2, <2>3
<1>5. CASE i > g
  <2>1. PICK j \in 1..(cut - 1) : i = g + j /\ i + 1 = g + (j + 1)
    <3>1. i - g \in 1..(cut - 1) /\ i = g + (i - g) /\ i + 1 = g + ((i - g) + 1)
      BY <1>1, <1>5
    <3> QED  BY <3>1
  <2>2. j \in 1..cut /\ j + 1 \in 1..cut /\ j < j + 1
    OBVIOUS
  <2>3. more[i] = page[j] /\ more[i + 1] = page[j + 1]
    BY <1>1, <2>1, <2>2
  <2> QED  BY <2>2, <2>3
<1> QED  BY <1>1, <1>3, <1>4, <1>5

\* What follows this cursor, newest first, and the page of it.
Following(stored, after) ==
  LET next == {e \in stored : PastCursor(e, after)} IN Ranked(next, NewerFirst(next))

PageOf(rows) == SubSeq(rows, 1, Min({LIMIT, Len(rows)}))

\* The next page of a liquidity history: what of the events stored at the beginning is
\* not in the pages is past the new cursor, and of the last page nothing is.
LEMMA HistoryGoesOn ==
  ASSUME NEW stored \in SUBSET Events, NEW early \in SUBSET stored,
         NEW got \in Seq(Events), Descends(got), Covers(got, early)
  PROVE  LET rows == Following(stored, CursorOf(got))
             page == PageOf(rows)
             more == got \o page
         IN  /\ more \in Seq(Events) /\ Descends(more)
             /\ Len(rows) > LIMIT => Key(page[Len(page)]) = CursorOf(more) /\ Covers(more, early)
             /\ ~(Len(rows) > LIMIT) => early \subseteq ToSet(more)
<1>0. PICK after : after = CursorOf(got)
  OBVIOUS
<1>1. PICK next \in SUBSET Events : next = {e \in stored : PastCursor(e, after)}
  OBVIOUS
<1>2. PICK rows : rows = Ranked(next, NewerFirst(next))
  OBVIOUS
<1> DEFINE page == PageOf(rows)
<1>3. /\ rows \in Seq(next)
      /\ \A i, j \in 1..Len(rows) : i < j => Below(Key(rows[j]), Key(rows[i]))
      /\ \A e \in next : \E i \in 1..Len(rows) : rows[i] = e
  BY <1>2, HistoryInOrder
<1>4. \A e \in next : after # None => Below(Key(e), after)
  BY <1>1 DEF PastCursor
<1>5. \A e \in early : e \in next \/ e \in ToSet(got)
  BY <1>0, <1>1 DEF Covers
<1>6. rows \in Seq(Events)
  BY <1>3
<1>7. PICK n \in Nat, g \in Nat : n = Len(rows) /\ g = Len(got)
  BY <1>3, LenProperties
<1>8. PICK cut \in 0..n :
        /\ cut = IF LIMIT <= n THEN LIMIT ELSE n
        /\ page \in Seq(Events) /\ Len(page) = cut /\ \A i \in 1..cut : page[i] = rows[i]
  BY <1>6, <1>7, FirstRows DEF PageOf
<1> HIDE DEF page
<1>9. cut \in Nat /\ LIMIT \in Nat /\ LIMIT >= 1
  BY <1>7, <1>8, LeaderboardsAssumption
<1>10. PICK more : more = got \o page
  OBVIOUS
<1>11. /\ more \in Seq(Events) /\ Len(more) = g + cut
       /\ \A i \in 1..g : more[i] = got[i]
       /\ \A i \in 1..cut : more[g + i] = page[i]
  <2>1. /\ more \in Seq(Events) /\ Len(more) = Len(got) + Len(page)
        /\ \A i \in 1..Len(got) : more[i] = got[i]
        /\ \A i \in 1..Len(page) : more[Len(got) + i] = page[i]
    <3>1. page \in Seq(Events)
      BY <1>8
    <3>2. /\ got \o page \in Seq(Events) /\ Len(got \o page) = Len(got) + Len(page)
          /\ \A i \in 1..Len(got) : (got \o page)[i] = got[i]
          /\ \A i \in 1..Len(page) : (got \o page)[Len(got) + i] = page[i]
      BY <3>1, PageAppended
    <3> QED  BY <1>10, <3>2
  <2>2. Len(got) = g /\ Len(page) = cut
    BY <1>7, <1>8
  <2> QED  BY <2>1, <2>2
<1>12. DOMAIN got = 1..g /\ DOMAIN more = 1..(g + cut)
  BY <1>7, <1>11, LenProperties
<1>13. Descends(more)
  <2>1. \A i, j \in 1..cut : i < j => Below(Key(page[j]), Key(page[i]))
    <3> SUFFICES ASSUME NEW i \in 1..cut, NEW j \in 1..cut, i < j
                 PROVE  Below(Key(page[j]), Key(page[i]))
      OBVIOUS
    <3>1. i \in 1..n /\ j \in 1..n
      BY <1>7, <1>8
    <3>2. page[i] = rows[i] /\ page[j] = rows[j]
      BY <1>8
    <3> QED  BY <1>3, <1>7, <3>1, <3>2
  <2>2. ASSUME got # <<>>, cut # 0
        PROVE  Below(Key(page[1]), Key(got[Len(got)]))
    <3>1. 1 \in 1..cut /\ 1 \in 1..n
      BY <1>7, <1>8, <2>2
    <3>2. page[1] = rows[1] /\ rows[1] \in next
      BY <1>3, <1>7, <1>8, <3>1, ElementOfSeq
    <3>3. got[Len(got)] \in Events
      <4>1. Len(got) \in Nat \ {0}
        BY <2>2, EmptySeq
      <4> QED  BY <4>1, ElementOfSeq
    <3>4. after = Key(got[Len(got)]) /\ after # None
      BY <1>0, <2>2, <3>3, KeyOfEvent DEF CursorOf
    <3> QED  BY <1>4, <3>2, <3>4
  <2>3. /\ page \in Seq(Events) /\ Len(page) = cut /\ more \in Seq(Events)
        /\ Len(more) = Len(got) + cut /\ \A i \in 1..Len(got) : more[i] = got[i]
        /\ \A i \in 1..cut : more[Len(got) + i] = page[i]
    BY <1>7, <1>8, <1>11
  <2> QED  BY <1>9, <2>1, <2>2, <2>3, PagesDescend
<1>14. ASSUME NEW e \in early
       PROVE  e \in ToSet(more) \/ \E j \in 1..n : j > cut /\ rows[j] = e
  <2>1. CASE e \in ToSet(got)
    <3>1. PICK i \in 1..g : got[i] = e
      BY <1>12, <2>1 DEF ToSet
    <3>2. i \in 1..(g + cut) /\ more[i] = e
      BY <1>7, <1>9, <1>11, <3>1
    <3> QED  BY <1>12, <3>2 DEF ToSet
  <2>2. CASE e \in next
    <3>1. PICK j \in 1..n : rows[j] = e
      BY <1>3, <1>7, <2>2
    <3>2. CASE j <= cut
      <4>1. j \in 1..cut /\ page[j] = e
        BY <1>8, <3>1, <3>2
      <4>2. g + j \in 1..(g + cut) /\ more[g + j] = e
        <5>1. g + j \in 1..(g + cut)
          BY <1>7, <1>9, <4>1
        <5>2. more[g + j] = page[j]
          BY <1>11, <4>1
        <5> QED  BY <4>1, <5>1, <5>2
      <4> QED  BY <1>12, <4>2 DEF ToSet
    <3>3. CASE j > cut
      BY <3>1, <3>3
    <3> QED  BY <1>9, <3>2, <3>3
  <2> QED  BY <1>5, <2>1, <2>2
<1>15. CASE n > LIMIT
  <2>1. cut = LIMIT /\ cut \in 1..cut /\ cut \in 1..n
    BY <1>7, <1>8, <1>9, <1>15
  <2>2. page[Len(page)] = rows[cut] /\ more[Len(more)] = rows[cut]
    BY <1>8, <1>11, <2>1
  <2>3. more # <<>>
    BY <1>7, <1>11, <2>1, EmptySeq
  <2>4. CursorOf(more) = Key(rows[cut])
    BY <2>2, <2>3 DEF CursorOf
  <2>5. Covers(more, early)
    <3> SUFFICES ASSUME NEW e \in early, e \notin ToSet(more)
                 PROVE  PastCursor(e, Key(rows[cut]))
      BY <2>4 DEF Covers
    <3>1. PICK j \in 1..n : j > cut /\ rows[j] = e
      BY <1>14
    <3>2. Below(Key(rows[j]), Key(rows[cut]))
      BY <1>3, <1>7, <2>1, <3>1
    <3> QED  BY <3>1, <3>2 DEF PastCursor
  <2>6. rows = Following(stored, CursorOf(got))
    BY <1>0, <1>1, <1>2 DEF Following
  <2> QED  BY <1>7, <1>10, <1>11, <1>13, <1>15, <2>2, <2>4, <2>5, <2>6 DEF page
<1>16. CASE ~(n > LIMIT)
  <2>1. cut = n
    BY <1>7, <1>8, <1>9, <1>16
  <2>2. early \subseteq ToSet(more)
    BY <1>7, <1>14, <2>1
  <2>3. rows = Following(stored, CursorOf(got))
    BY <1>0, <1>1, <1>2 DEF Following
  <2> QED  BY <1>7, <1>10, <1>11, <1>13, <1>16, <2>2, <2>3 DEF page
<1> QED  BY <1>15, <1>16

\* A page of a liquidity history: the cursor moves to its last event.
LEMMA ReadLiquidityKeeps ==
  ASSUME IInv, ClientHolds, ReadLiquidity
  PROVE  ClientHolds'
<1>1. HistoryHolds /\ events \in SUBSET Events /\ events' = events
  BY DEF ClientHolds, ReadLiquidity, WalkHolds, IInv, TypeOK, tableVars
<1>2. PICK after, got, stored :
        client = [phase |-> "rows", kind |-> "liquidity", after |-> after, got |-> got,
                  stored |-> stored]
  BY <1>1 DEF HistoryHolds
<1>3. client.after = after /\ client.got = got /\ client.stored = stored
  BY <1>2
<1> DEFINE rows == Following(events, after)
           page == PageOf(rows)
           more == got \o page
           walk == [client EXCEPT !.got = @ \o page, !.after = Key(page[Len(page)])]
           last == [client EXCEPT !.got = @ \o page]
<1>4. client' = IF Len(rows) > LIMIT THEN walk ELSE Done(WholeHistory(last))
  BY <1>3 DEF ReadLiquidity, Following, PageOf
<1>5. /\ stored \in SUBSET events /\ got \in Seq(Events) /\ Descends(got)
      /\ after = CursorOf(got) /\ Covers(got, stored)
  BY <1>1, <1>3 DEF HistoryHolds
<1>6. /\ more \in Seq(Events) /\ Descends(more)
      /\ Len(rows) > LIMIT => Key(page[Len(page)]) = CursorOf(more) /\ Covers(more, stored)
      /\ ~(Len(rows) > LIMIT) => stored \subseteq ToSet(more)
  <2> HIDE DEF walk, last
  <2> QED  BY <1>1, <1>5, HistoryGoesOn
<1> HIDE DEF rows, page
<1>7. walk = [phase |-> "rows", kind |-> "liquidity", after |-> Key(page[Len(page)]),
              got |-> more, stored |-> stored]
  <2> DEFINE key == Key(page[Len(page)])
  <2>1. walk = [client EXCEPT !.got = more, !.after = key]
    BY <1>3
  <2> HIDE DEF walk, more, key
  <2>2. walk = [phase |-> "rows", kind |-> "liquidity", after |-> key, got |-> more,
                stored |-> stored]
    BY <1>2, <2>1
  <2> QED  BY <2>2 DEF key
<1>8. last.got = more /\ last.stored = stored
  BY <1>2
<1> HIDE DEF more, walk, last
<1>9. CASE Len(rows) > LIMIT
  <2>1. client' = [phase |-> "rows", kind |-> "liquidity", after |-> CursorOf(more),
                   got |-> more, stored |-> stored]
    BY <1>4, <1>6, <1>7, <1>9
  <2>2. HistoryHolds'
    BY <1>1, <1>5, <1>6, <1>9, <2>1 DEF HistoryHolds
  <2> QED  BY <2>2 DEF ClientHolds
<1>10. CASE ~(Len(rows) > LIMIT)
  <2>1. WholeHistory(last)
    BY <1>6, <1>8, <1>10 DEF WholeHistory, Descends
  <2>2. client' = Done(WholeHistory(last))
    BY <1>4, <1>10
  <2>3. client'.phase = "idle" /\ client'.whole
    BY <2>1, <2>2 DEF Done
  <2> QED  BY <2>3 DEF ClientHolds
<1> QED  BY <1>9, <1>10

\* What a client relies on survives every step.
LEMMA ClientInv == IInv /\ ClientHolds /\ [Next]_vars => ClientHolds'
<1> SUFFICES ASSUME IInv, ClientHolds, [Next]_vars PROVE ClientHolds'
  OBVIOUS
<1>1. CASE Client
  BY <1>1, AskKeeps, ReadStatusKeeps, ReadPageKeeps, ReadStatsKeeps, ReadLiquidityKeeps DEF Client
<1>2. CASE UNCHANGED vars \/ Midnight \/ IntervalElapses
  BY <1>2, OthersKeepClient
     DEF vars, Midnight, IntervalElapses, clockVars, tableVars, refreshVars
<1>3. CASE \E c \in Closes : StoreClose(c)
  <2>1. PICK c \in Closes : StoreClose(c)
    BY <1>3
  <2>2. PICK day : closedAt' = [closedAt EXCEPT ![c] = day]
    BY <2>1 DEF StoreClose
  <2>3. \A d \in Closes : closedAt[d] # Unstored => closedAt'[d] = closedAt[d]
    BY <2>1, <2>2 DEF StoreClose, IInv, TypeOK, Snapshots
  <2> QED  BY <2>1, <2>3, OthersKeepClient DEF StoreClose, refreshVars
<1>4. CASE \E e \in Events : StoreEvents(e)
  BY <1>4, OthersKeepClient DEF StoreEvents, refreshVars
<1>5. CASE TimerTicks \/ CommandRuns
  BY <1>5, OthersKeepClient DEF TimerTicks, CommandRuns, Begin, tableVars
<1>6. CASE \E r \in Refreshers : RefreshSteps(r) \/ FailRefresh(r)
  BY <1>6, OthersKeepClient
     DEF RefreshSteps, RefreshMarket, RefreshGlobal, ReadMark, Record, FailRefresh, Recomputed,
         tableVars
<1> QED  BY <1>1, <1>2, <1>3, <1>4, <1>5, <1>6 DEF Next

\* What the API gives a client page by page is what it would have given in one: no row
\* of a leaderboard or event of a history is lost or returned twice, whatever is stored
\* and refreshed between the pages.
THEOREM WalksAreWhole == Spec => []WalkIsWhole
<1>1. Init => ClientHolds
  BY DEF Init, ClientHolds, Done
<1>2. ClientHolds => WalkIsWhole
  BY DEF ClientHolds, WalkIsWhole, WalkHolds, HistoryHolds
<1> QED  BY Invariance, <1>1, <1>2, ClientInv, PTL DEF Spec
=============================================================================
