---------------------------- MODULE WriterSession ----------------------------
(***************************************************************************)
(* How the writer of the indexer starts a session over the accounts of     *)
(* DelegatedAccounts: the route of the Market, the catch-up that adds the  *)
(* user accounts its events name to tracked_accounts, then                 *)
(* run_with_storage: every tracked account's route is resolved, persisted  *)
(* and supervised, all must be delegated to the Market's rollup, and the   *)
(* accounts are read from the base layer and from the rollup and written   *)
(* to the tables.  The smoke command of the CLI runs run_with_storage too, *)
(* as a process of its own beside the writer.                              *)
(*                                                                         *)
(* An await is a place between two actions; a database transaction is one  *)
(* step.  IndexerIngest has the catch-up and the notifications one by one; *)
(* here they matter for the accounts they add.  Rows that are written and  *)
(* never read are left out (account_observations, reconciliation_runs), as *)
(* is what reconcile does for a UserPositions, which PositionStream has.   *)
(* run_with_storage makes a supervisor of its own each time and applies    *)
(* one route per account, so of a supervised route only its endpoint is    *)
(* kept: its generation is always the first and nothing is ever draining.  *)
(*                                                                         *)
(* A definition named as GenerationAfter_LossOnly is a mutant, as in       *)
(* SettlementMath.                                                         *)
(***************************************************************************)
EXTENDS DelegatedAccounts

CONSTANTS
  MARKET,        \* the Market of the configuration, MARKET_ID
  None           \* no endpoint, no source

ASSUME SessionAssumption ==
  /\ MARKET \in Markets
  /\ None \notin Layers

Processes == {"writer", "smoke"}

MarketAccount == <<"market", MARKET>>
TrackedAccounts == {MarketAccount} \cup UserAccounts

VARIABLES
  tracked,      \* tracked_accounts
  observed,     \* route_observations
  row,          \* the Market's row of markets
  session       \* what each process has in memory

tableVars == <<tracked, observed, row>>
vars == <<accountVars, tableVars, session>>

Untracked == [known |-> FALSE, endpoint |-> None, generation |-> 0]
NoRow     == [source |-> None, slot |-> 0, version |-> 0]

\* source: the rollup the writer is subscribed to; er: the Market's, as run_with_storage
\* resolved it.
Idle == [phase |-> "idle", source |-> None, er |-> None, answer |-> None,
         todo |-> {}, astray |-> FALSE, read |-> NoRow]
Failed == [Idle EXCEPT !.phase = "failed"]

Init ==
  /\ AccountsInit
  /\ tracked = [a \in TrackedAccounts |-> Untracked]
  /\ observed = {}
  /\ row = NoRow
  /\ session = [x \in Processes |-> Idle]

Known == {a \in TrackedAccounts : tracked[a].known}

Phase(x) == session[x].phase

Enter(x, phase) == session' = [session EXCEPT ![x].phase = phase]

Drop(x) == session' = [session EXCEPT ![x] = Idle]

-----------------------------------------------------------------------------
(***************************************************************************)
(* The router.                                                             *)
(***************************************************************************)

At(a) ==
  CASE a[1] = "market"         -> market_at[a[2]]
    [] a[1] = "user_positions" -> positions_at[a[2]]
    [] a[1] = "user_liquidity" -> liquidity_at[a[2]]

\* getDelegationStatus: the endpoint of the rollup, if the account is delegated.
Route(a) == IF At(a) \in Rollups THEN At(a) ELSE None

(***************************************************************************)
(* The writer, until its catch-up is over.                                 *)
(***************************************************************************)

\* Without a route the attempt fails, and the loop tries again.
Connect ==
  /\ Phase("writer") \in {"idle", "failed"}
  /\ Route(MarketAccount) # None
  /\ session' = [session EXCEPT !["writer"].phase = "catching_up",
                                !["writer"].source = Route(MarketAccount)]
  /\ UNCHANGED <<accountVars, tableVars>>

\* track_user_account, for an event that names a user's account: in the catch-up, or
\* in a notification.
TrackUserAccount(a) ==
  /\ Phase("writer") \in {"catching_up", "live"}
  /\ a \in emitted[session["writer"].source] \ Known
  /\ tracked' = [tracked EXCEPT ![a].known = TRUE]
  /\ UNCHANGED <<accountVars, observed, row, session>>

(***************************************************************************)
(* run_with_storage.                                                       *)
(***************************************************************************)

\* The writer once its catch-up is over, the command whenever it is given.
Begins(x) ==
  \/ /\ x = "writer"
     /\ Phase(x) = "catching_up"
     /\ emitted[session[x].source] \subseteq Known
  \/ x = "smoke" /\ Phase(x) = "idle"

ResolveMarket_Unchecked(x) ==
  /\ Begins(x)
  /\ session' = [session EXCEPT
       ![x].phase = "persisting", ![x].todo = {MarketAccount},
       ![x].er = Route(MarketAccount), ![x].answer = Route(MarketAccount)]
  /\ UNCHANGED <<accountVars, tableVars>>

\* The Market's route is resolved again: it need not be the one subscribed to.
ResolveMarket(x) ==
  /\ Begins(x)
  /\ IF Route(MarketAccount) = None
     THEN Drop(x)
     ELSE session' = [session EXCEPT
            ![x].phase = "persisting", ![x].todo = {MarketAccount},
            ![x].er = Route(MarketAccount), ![x].answer = Route(MarketAccount)]
  /\ UNCHANGED <<accountVars, tableVars>>

\* ORDER BY pubkey: always in the same order.
NextAccount(x) == CHOOSE a \in session[x].todo : TRUE

ResolveAccount(x) ==
  /\ Phase(x) = "routing"
  /\ session' = [session EXCEPT ![x].phase = "persisting", ![x].answer = Route(NextAccount(x))]
  /\ UNCHANGED <<accountVars, tableVars>>

GenerationAfter_LossOnly(a, endpoint) ==
  LET previous == tracked[a]
  IN  CASE ~previous.known                                   -> 1
        [] previous.endpoint = endpoint \/ endpoint # None   -> previous.generation
        [] OTHER                                             -> previous.generation + 1

GenerationAfter(a, endpoint) ==
  LET previous == tracked[a]
  IN  CASE ~previous.known              -> 1
        [] previous.endpoint = endpoint -> previous.generation
        [] OTHER                        -> previous.generation + 1

\* persist_route: a generation that has an observation keeps the first one.
PersistRoute(a, endpoint) ==
  LET generation == GenerationAfter(a, endpoint)
  IN  /\ tracked' = [tracked EXCEPT ![a] = [known |-> TRUE, endpoint |-> endpoint,
                                            generation |-> generation]]
      /\ observed' = IF \E o \in observed : o.account = a /\ o.generation = generation
                     THEN observed
                     ELSE observed \cup {[account |-> a, generation |-> generation,
                                          endpoint |-> endpoint]}

\* ensure_compatible_routes refuses an account on another rollup and passes over one
\* that is not delegated; mark_caught_up refuses that too.
NextPhase(todo, astray) ==
  CASE todo # {} -> "routing"
    [] astray    -> "idle"
    [] OTHER     -> "reading_base"

RouteNext_KeepsSupervisor(x, todo, astray) ==
  LET next == NextPhase(todo, astray)
  IN  IF next = "idle" THEN session' = [session EXCEPT ![x] = [Idle EXCEPT !.astray = astray]]
      ELSE session' = [session EXCEPT
             ![x].phase = next, ![x].todo = todo, ![x].answer = None,
             ![x].astray = astray]

\* Of the routes the supervisor keeps, the rest of the session asks one thing: is an
\* account not delegated to the Market's rollup?  The check follows the last route
\* without an await.
RouteNext(x, todo, astray) ==
  LET next == NextPhase(todo, astray)
  IN  IF next = "idle" THEN Drop(x)
      ELSE session' = [session EXCEPT
             ![x].phase = next, ![x].todo = todo, ![x].answer = None,
             ![x].astray = astray]

PersistMarket(x) ==
  /\ Phase(x) = "persisting"
  /\ session[x].todo = {MarketAccount}
  /\ PersistRoute(MarketAccount, session[x].answer)
  /\ session' = [session EXCEPT ![x].phase = "loading", ![x].todo = {}, ![x].answer = None]
  /\ UNCHANGED <<accountVars, row>>

LoadTracked(x) ==
  /\ Phase(x) = "loading"
  /\ RouteNext(x, Known \ {MarketAccount}, session[x].astray)
  /\ UNCHANGED <<accountVars, tableVars>>

PersistAccount(x) ==
  LET a == NextAccount(x)
      answer == session[x].answer
  IN  /\ Phase(x) = "persisting"
      /\ a # MarketAccount
      /\ PersistRoute(a, answer)
      /\ RouteNext(x, session[x].todo \ {a}, session[x].astray \/ answer # session[x].er)
      /\ UNCHANGED <<accountVars, row>>

\* getMultipleAccounts of one layer.  A rollup the Market is not delegated to serves
\* the base layer's copy of it.
ReadAccounts(x) ==
  /\ Phase(x) \in {"reading_base", "reading_er"}
  /\ LET from == IF Phase(x) = "reading_base" THEN Base ELSE session[x].er
     IN  session' = [session EXCEPT
           ![x].phase = IF from = Base THEN "applying_base" ELSE "applying_er",
           ![x].read  = [source |-> from, slot |-> slot[from],
                         version |-> IF market_at[MARKET] = from
                                     THEN version[MARKET] ELSE committed[MARKET]]]
  /\ UNCHANGED <<accountVars, tableVars>>

RowAfter_AnySlot(read) ==
  IF \/ row.source = None
     \/ row.source = read.source
     \/ row.source = Base /\ read.source # Base
  THEN read ELSE row

\* apply_projection: a row is overwritten from its own source by a slot that is not
\* smaller, and from a rollup if it is the base layer's; from nowhere else.
RowAfter(read) ==
  IF \/ row.source = None
     \/ row.source = read.source /\ read.slot >= row.slot
     \/ row.source = Base /\ read.source # Base
  THEN read ELSE row

\* reconcile writes what was read in one transaction.  The rollup's accounts follow the
\* base layer's; then the writer is ready, and the command ends, or with restart_check
\* reconciles again, which the model lets it repeat.
Reconcile(x) ==
  /\ Phase(x) \in {"applying_base", "applying_er"}
  /\ row' = RowAfter(session[x].read)
  /\ \/ /\ Phase(x) = "applying_base"
        /\ session' = [session EXCEPT ![x].phase = "reading_er", ![x].read = NoRow]
     \/ /\ Phase(x) = "applying_er"
        /\ x = "writer"
        /\ Enter(x, "live")
     \/ /\ Phase(x) = "applying_er"
        /\ x = "smoke"
        /\ \/ session' = [session EXCEPT ![x].phase = "reading_base", ![x].read = NoRow]
           \/ Drop(x)
  /\ UNCHANGED <<accountVars, tracked, observed>>

RunWithStorage(x) ==
  \/ ResolveMarket(x) \/ PersistMarket(x) \/ LoadTracked(x)
  \/ ResolveAccount(x) \/ PersistAccount(x) \/ ReadAccounts(x) \/ Reconcile(x)

(***************************************************************************)
(* The end of a session.                                                   *)
(***************************************************************************)

\* The periodic check of the Market's route: another endpoint, or none.
RouteChanged ==
  /\ Phase("writer") = "live"
  /\ Route(MarketAccount) # session["writer"].source
  /\ Drop("writer")
  /\ UNCHANGED <<accountVars, tableVars>>

\* A call fails, the connection is lost, or the process is killed and started again.
FailWriter ==
  /\ Phase("writer") \notin {"idle", "failed"}
  /\ session' = [session EXCEPT !["writer"] = Failed]
  /\ UNCHANGED <<accountVars, tableVars>>

FailSmoke ==
  /\ Phase("smoke") # "idle"
  /\ Drop("smoke")
  /\ UNCHANGED <<accountVars, tableVars>>

Writer ==
  \/ Connect \/ RouteChanged
  \/ \E a \in UserAccounts : TrackUserAccount(a)
  \/ RunWithStorage("writer")

Next ==
  \/ AccountsNext /\ UNCHANGED <<tableVars, session>>
  \/ Writer
  \/ RunWithStorage("smoke")
  \/ FailWriter \/ FailSmoke

Spec == Init /\ [][Next]_vars

\* The loop of run() retries for ever, and an await that does not fail returns.
FairSpec == Spec /\ WF_vars(Writer)

-----------------------------------------------------------------------------
(***************************************************************************)
(* Properties.                                                             *)
(***************************************************************************)

Phases ==
  {"idle", "failed", "catching_up", "persisting", "loading", "routing", "reading_base",
   "applying_base", "reading_er", "applying_er", "live"}

Endpoints == Rollups \cup {None}

RowRecord == [source : Layers \cup {None}, slot : Nat, version : Nat]

SessionTypeOK(s) ==
  /\ s.phase \in Phases
  /\ s.er \in Endpoints /\ s.answer \in Endpoints
  /\ s.phase \notin {"idle", "failed", "catching_up"} => s.er # None
  /\ s.source \in Endpoints
  /\ s.todo \subseteq TrackedAccounts /\ s.astray \in BOOLEAN
  /\ s.read \in RowRecord

\* Types of the tables and of the processes, with those of the accounts.
TypeOK ==
  /\ AccountsTypeOK
  /\ tracked \in [TrackedAccounts -> [known : BOOLEAN, endpoint : Endpoints, generation : Nat]]
  /\ observed \subseteq [account : TrackedAccounts, generation : Nat, endpoint : Endpoints]
  /\ row \in RowRecord
  /\ \A x \in Processes : SessionTypeOK(session[x])

\* A route generation names one endpoint for good: the history of an account's routes
\* has one observation per generation, none after the current one, and the current
\* one is the route the account is stored with, although two processes persist
\* routes they resolved earlier.
GenerationNamesRoute ==
  \A o \in observed :
    /\ o.generation <= tracked[o.account].generation
    /\ o.generation = tracked[o.account].generation => o.endpoint = tracked[o.account].endpoint
    /\ \A p \in observed :
         p.account = o.account /\ p.generation = o.generation => p = o

\* A writer that is ready shows a Market at least as new as the one its session read
\* from the rollup: nothing read earlier, by the command or by a session before, is put
\* over it.  Only as long as the row follows that rollup: after a migration it stays
\* with the old one.
LiveRowIsFresh ==
  LET read == session["writer"].read
  IN  Phase("writer") = "live" /\ row.source = read.source => row.version >= read.version

\* Every tracked account, and every one the events of the Market's rollup name, is
\* delegated to that rollup.
Together ==
  /\ Route(MarketAccount) # None
  /\ \A a \in Known \cup emitted[Route(MarketAccount)] : Route(a) = Route(MarketAccount)

\* Whatever failed before, and whatever the command does at the same time, a writer
\* whose calls no longer fail gets ready once all the accounts it tracks are delegated
\* to the Market's rollup and stay there.  It takes all of them: one user who
\* undelegates an empty UserLiquidity keeps the writer from starting a session.
ReadyUnlessStranded ==
  <>[](Together /\ Phase("writer") # "failed") => []<>(Phase("writer") = "live")
=============================================================================
