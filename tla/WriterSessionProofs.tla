------------------------- MODULE WriterSessionProofs -------------------------
(***************************************************************************)
(* Proofs about DelegatedAccounts and WriterSession, for any number of     *)
(* markets, users and rollups and any number of instructions.              *)
(*                                                                         *)
(* First the accounts by themselves: the types, and that what a user owns  *)
(* stays in accounts on the rollup its market is on.  HoldingsWithinReach  *)
(* is inductive together with the types.  Each of the three kinds of step  *)
(* has its own reason: a deposit, an opening or a settlement finds both    *)
(* accounts on one rollup; an undelegation finds the account empty; and a  *)
(* migration moves whatever holds something along with the markets it      *)
(* holds it in.                                                            *)
(*                                                                         *)
(* Then the sessions the writer and the smoke command start over them.     *)
(* The composition implements the specification of the accounts, so what   *)
(* is proved of those holds here.  For the route generations it is enough  *)
(* that only known accounts have observations.  That a ready writer shows  *)
(* a fresh Market needs more: everything that was read of one layer and is *)
(* still held somewhere, in the row or in a session, is ordered by slot as *)
(* it is by version.  It is, because whatever changes what a layer serves  *)
(* also takes a slot of that layer.                                        *)
(***************************************************************************)
EXTENDS WriterSession, TLAPS

-----------------------------------------------------------------------------
(***************************************************************************)
(* The specification of the accounts.                                      *)
(***************************************************************************)

IInv == AccountsTypeOK /\ HoldingsWithinReach

\* The accounts exist nowhere before anything is done, and nobody holds anything.
LEMMA InitInv == AccountsInit => IInv
<1> SUFFICES ASSUME AccountsInit PROVE IInv
  OBVIOUS
<1>1. AccountsTypeOK
  <2>1. operations \in 0..MAX_OPERATIONS
    BY AccountsAssumption DEF AccountsInit
  <2>2. Absent \in Places /\ configured \in BOOLEAN
    BY DEF AccountsInit, Places
  <2>3. /\ market_at \in [Markets -> Places]
        /\ positions_at \in [Users -> Places]
        /\ liquidity_at \in [Users -> Places]
    BY <2>2 DEF AccountsInit
  <2>4. /\ open_in \in [Users -> SUBSET Markets] /\ shares_in \in [Users -> SUBSET Markets]
        /\ version \in [Markets -> Nat] /\ committed \in [Markets -> Nat]
        /\ slot \in [Layers -> Nat] /\ emitted \in [Rollups -> SUBSET UserAccounts]
    BY DEF AccountsInit
  <2> QED  BY <2>1, <2>2, <2>3, <2>4 DEF AccountsTypeOK
<1>2. HoldingsWithinReach
  BY DEF AccountsInit, HoldingsWithinReach
<1> QED  BY <1>1, <1>2 DEF IInv

\* Creating and delegating an account of one kind: a place that was no rollup becomes
\* another, and nothing was held there.
LEMMA BaseSteps ==
  ASSUME IInv,
         \/ InitializeProtocolConfig
         \/ \E m \in Markets : InitializeMarket(m)
         \/ \E m \in Markets, r \in Rollups : DelegateMarket(m, r)
         \/ \E u \in Users : InitializeUserPositions(u) \/ InitializeUserLiquidity(u)
         \/ \E u \in Users, r \in Rollups : DelegateUserPositions(u, r) \/ DelegateUserLiquidity(u, r)
  PROVE  IInv'
<1> USE AccountsAssumption DEF IInv, Places, Layers
<1>1. CASE InitializeProtocolConfig
  BY <1>1 DEF InitializeProtocolConfig, holdingVars, AccountsTypeOK, HoldingsWithinReach
<1>2. CASE \E m \in Markets : InitializeMarket(m)
  <2> PICK m \in Markets : InitializeMarket(m)
    BY <1>2
  <2>1. AccountsTypeOK'
    BY DEF InitializeMarket, holdingVars, AccountsTypeOK
  <2>2. HoldingsWithinReach'
    BY DEF InitializeMarket, holdingVars, AccountsTypeOK, HoldingsWithinReach
  <2> QED  BY <2>1, <2>2
<1>3. CASE \E m \in Markets, r \in Rollups : DelegateMarket(m, r)
  <2> PICK m \in Markets, r \in Rollups : DelegateMarket(m, r)
    BY <1>3
  <2>1. AccountsTypeOK'
    BY DEF DelegateMarket, holdingVars, AccountsTypeOK
  <2>2. HoldingsWithinReach'
    BY DEF DelegateMarket, holdingVars, AccountsTypeOK, HoldingsWithinReach
  <2> QED  BY <2>1, <2>2
<1>4. CASE \E u \in Users : InitializeUserPositions(u) \/ InitializeUserLiquidity(u)
  <2> PICK u \in Users : InitializeUserPositions(u) \/ InitializeUserLiquidity(u)
    BY <1>4
  <2>1. AccountsTypeOK'
    BY DEF InitializeUserPositions, InitializeUserLiquidity, holdingVars, AccountsTypeOK
  <2>2. HoldingsWithinReach'
    BY DEF InitializeUserPositions, InitializeUserLiquidity, holdingVars, AccountsTypeOK,
           HoldingsWithinReach
  <2> QED  BY <2>1, <2>2
<1>5. CASE \E u \in Users, r \in Rollups : DelegateUserPositions(u, r) \/ DelegateUserLiquidity(u, r)
  <2> PICK u \in Users, r \in Rollups : DelegateUserPositions(u, r) \/ DelegateUserLiquidity(u, r)
    BY <1>5
  <2>1. AccountsTypeOK'
    BY DEF DelegateUserPositions, DelegateUserLiquidity, holdingVars, AccountsTypeOK
  <2>2. HoldingsWithinReach'
    BY DEF DelegateUserPositions, DelegateUserLiquidity, holdingVars, AccountsTypeOK,
           HoldingsWithinReach
  <2> QED  BY <2>1, <2>2
<1> QED  BY <1>1, <1>2, <1>3, <1>4, <1>5

\* The counters and the events of an instruction on a market.
LEMMA TradeTyped ==
  ASSUME AccountsTypeOK, NEW m \in Markets, NEW r, NEW account \in UserAccounts,
         Trade(m, r, account)
  PROVE  /\ r \in Rollups /\ market_at[m] = r
         /\ UNCHANGED placeVars
         /\ version' \in [Markets -> Nat] /\ committed' \in [Markets -> Nat]
         /\ slot' \in [Layers -> Nat]
         /\ emitted' \in [Rollups -> SUBSET UserAccounts]
         /\ operations' \in 0..MAX_OPERATIONS
<1>1. r \in Rollups /\ market_at[m] = r /\ UNCHANGED <<placeVars, committed>>
  BY DEF Trade
<1>2. version' \in [Markets -> Nat]
  BY DEF Trade, AccountsTypeOK
<1>3. slot' \in [Layers -> Nat]
  BY <1>1 DEF Trade, Operate, AccountsTypeOK, Layers
<1>4. emitted' \in [Rollups -> SUBSET UserAccounts]
  BY <1>1 DEF Trade, AccountsTypeOK
<1>5. operations' \in 0..MAX_OPERATIONS
  BY AccountsAssumption DEF Trade, Operate, Operation, AccountsTypeOK
<1> QED  BY <1>1, <1>2, <1>3, <1>4, <1>5 DEF AccountsTypeOK

\* An instruction on a market adds a holding only where the account and the market meet.
LEMMA MarketSteps ==
  ASSUME IInv, NEW u \in Users, NEW m \in Markets,
         DepositLiquidity(u, m) \/ ExecuteWithdrawal(u, m) \/ OpenPosition(u, m) \/ SettlePosition(u, m)
  PROVE  IInv'
<1> USE DEF IInv
<1>0. <<"user_liquidity", u>> \in UserAccounts /\ <<"user_positions", u>> \in UserAccounts
  BY DEF UserAccounts
<1>1. CASE DepositLiquidity(u, m) \/ ExecuteWithdrawal(u, m)
  <2>1. Trade(m, liquidity_at[u], <<"user_liquidity", u>>)
    BY <1>1 DEF DepositLiquidity, ExecuteWithdrawal
  <2>2. /\ liquidity_at[u] \in Rollups /\ market_at[m] = liquidity_at[u]
        /\ UNCHANGED placeVars
        /\ version' \in [Markets -> Nat] /\ committed' \in [Markets -> Nat]
        /\ slot' \in [Layers -> Nat]
        /\ emitted' \in [Rollups -> SUBSET UserAccounts]
        /\ operations' \in 0..MAX_OPERATIONS
    BY <1>0, <2>1, TradeTyped
  <2>3. PICK now \in SUBSET (shares_in[u] \cup {m}) :
          shares_in' = [shares_in EXCEPT ![u] = now]
    <3>1. CASE DepositLiquidity(u, m)
      BY <3>1 DEF DepositLiquidity
    <3>2. CASE ExecuteWithdrawal(u, m)
      <4>1. PICK left \in SUBSET {m} : shares_in' = [shares_in EXCEPT ![u] = (@ \ {m}) \cup left]
        BY <3>2 DEF ExecuteWithdrawal
      <4>2. (shares_in[u] \ {m}) \cup left \in SUBSET (shares_in[u] \cup {m})
        OBVIOUS
      <4> QED  BY <4>1, <4>2
    <3> QED  BY <1>1, <3>1, <3>2
  <2>4. open_in' = open_in
    BY <1>1 DEF DepositLiquidity, ExecuteWithdrawal
  <2>5. AccountsTypeOK'
    BY <2>2, <2>3, <2>4 DEF AccountsTypeOK, placeVars
  <2>6. HoldingsWithinReach'
    BY <2>2, <2>3, <2>4 DEF AccountsTypeOK, placeVars, HoldingsWithinReach
  <2> QED  BY <2>5, <2>6
<1>2. CASE OpenPosition(u, m) \/ SettlePosition(u, m)
  <2>1. Trade(m, positions_at[u], <<"user_positions", u>>)
    BY <1>2 DEF OpenPosition, SettlePosition
  <2>2. /\ positions_at[u] \in Rollups /\ market_at[m] = positions_at[u]
        /\ UNCHANGED placeVars
        /\ version' \in [Markets -> Nat] /\ committed' \in [Markets -> Nat]
        /\ slot' \in [Layers -> Nat]
        /\ emitted' \in [Rollups -> SUBSET UserAccounts]
        /\ operations' \in 0..MAX_OPERATIONS
    BY <1>0, <2>1, TradeTyped
  <2>3. PICK now \in SUBSET (open_in[u] \cup {m}) :
          open_in' = [open_in EXCEPT ![u] = now]
    <3>1. CASE OpenPosition(u, m)
      BY <3>1 DEF OpenPosition
    <3>2. CASE SettlePosition(u, m)
      <4>1. PICK left \in SUBSET {m} : open_in' = [open_in EXCEPT ![u] = (@ \ {m}) \cup left]
        BY <3>2 DEF SettlePosition
      <4>2. (open_in[u] \ {m}) \cup left \in SUBSET (open_in[u] \cup {m})
        OBVIOUS
      <4> QED  BY <4>1, <4>2
    <3> QED  BY <1>2, <3>1, <3>2
  <2>4. shares_in' = shares_in
    BY <1>2 DEF OpenPosition, SettlePosition
  <2>5. AccountsTypeOK'
    BY <2>2, <2>3, <2>4 DEF AccountsTypeOK, placeVars
  <2>6. HoldingsWithinReach'
    BY <2>2, <2>3, <2>4 DEF AccountsTypeOK, placeVars, HoldingsWithinReach
  <2> QED  BY <2>5, <2>6
<1> QED  BY <1>1, <1>2

\* An undelegated account is empty.
LEMMA UndelegationKeeps ==
  ASSUME IInv, NEW u \in Users, UndelegateUserLiquidity(u)
  PROVE  IInv'
<1>1. AccountsTypeOK'
  <2>1. slot' \in [Layers -> Nat] /\ operations' \in 0..MAX_OPERATIONS
    BY AccountsAssumption
    DEF IInv, AccountsTypeOK, UndelegateUserLiquidity, Operate, Operation, Layers
  <2> QED
    BY <2>1 DEF IInv, AccountsTypeOK, UndelegateUserLiquidity, holdingVars, Places, Layers
<1>2. HoldingsWithinReach'
  BY DEF IInv, AccountsTypeOK, UndelegateUserLiquidity, holdingVars, HoldingsWithinReach
<1> QED  BY <1>1, <1>2 DEF IInv

\* A commitment moves nothing.
LEMMA CommitKeeps ==
  ASSUME IInv, NEW m \in Markets, Commit(m)
  PROVE  IInv'
<1>1. AccountsTypeOK'
  BY DEF IInv, AccountsTypeOK, Commit, EverySlot, placeVars, holdingVars
<1>2. HoldingsWithinReach'
  BY DEF IInv, Commit, placeVars, holdingVars, HoldingsWithinReach
<1> QED  BY <1>1, <1>2 DEF IInv

\* A migration moves what holds something along with the markets it holds it in.
LEMMA MigrationKeeps ==
  ASSUME IInv, NEW r \in Rollups, NEW s \in Rollups, Migrate(r, s)
  PROVE  IInv'
<1>1. /\ market_at' = [m \in Markets |-> IF market_at[m] = r THEN s ELSE market_at[m]]
      /\ positions_at' = [u \in Users |-> IF positions_at[u] = r /\ open_in[u] # {}
                                          THEN s ELSE positions_at[u]]
      /\ liquidity_at' = [u \in Users |-> IF liquidity_at[u] = r /\ shares_in[u] # {}
                                          THEN s ELSE liquidity_at[u]]
      /\ UNCHANGED <<configured, open_in, shares_in, version, emitted>>
  BY DEF IInv, AccountsTypeOK, Migrate, holdingVars
<1>2. AccountsTypeOK'
  <2>1. /\ slot' \in [Layers -> Nat] /\ committed' \in [Markets -> Nat]
        /\ operations' \in 0..MAX_OPERATIONS
    BY AccountsAssumption DEF IInv, AccountsTypeOK, Migrate, EverySlot, Operation
  <2> QED  BY <1>1, <2>1 DEF IInv, AccountsTypeOK, Places, Layers
<1>3. HoldingsWithinReach'
  <2>1. SUFFICES ASSUME NEW u \in Users, NEW m \in Markets
                 PROVE  /\ m \in shares_in[u] =>
                             market_at'[m] \in Rollups /\ liquidity_at'[u] = market_at'[m]
                        /\ m \in open_in[u] =>
                             market_at'[m] \in Rollups /\ positions_at'[u] = market_at'[m]
    BY <1>1, <2>1 DEF IInv, AccountsTypeOK, HoldingsWithinReach
  <2> QED  BY <1>1 DEF IInv, HoldingsWithinReach
<1> QED  BY <1>2, <1>3 DEF IInv

-----------------------------------------------------------------------------

\* Every step keeps the invariant.
LEMMA NextInv == IInv /\ [AccountsNext]_accountVars => IInv'
<1> SUFFICES ASSUME IInv, [AccountsNext]_accountVars PROVE IInv'
  OBVIOUS
<1>1. CASE UNCHANGED accountVars
  BY <1>1 DEF IInv, AccountsTypeOK, HoldingsWithinReach, accountVars, placeVars, holdingVars
<1>2. CASE AccountsNext
  BY <1>2, BaseSteps, MarketSteps, UndelegationKeeps, CommitKeeps, MigrationKeeps
  DEF AccountsNext
<1> QED  BY <1>1, <1>2

\* Types and holdings are an invariant of the accounts.
THEOREM Invariance == AccountsSpec => []IInv
<1> QED  BY InitInv, NextInv, PTL DEF AccountsSpec

\* The accounts are where accounts can be, whatever is done with them: the lifecycle
\* of the three kinds, their delegations and migrations.
THEOREM AccountsTyped == AccountsSpec => []AccountsTypeOK
<1>1. IInv => AccountsTypeOK
  BY DEF IInv
<1> QED  BY Invariance, <1>1, PTL

\* Whatever a user owns in a market can still be settled or withdrawn: it is in an
\* account on the rollup the market is on, through undelegations, delegations to any
\* validator and migrations.
THEOREM HoldingsStayWithinReach == AccountsSpec => []HoldingsWithinReach
<1>1. IInv => HoldingsWithinReach
  BY DEF IInv
<1> QED  BY Invariance, <1>1, PTL

-----------------------------------------------------------------------------
(***************************************************************************)
(* The sessions.                                                           *)
(***************************************************************************)

SessionRecord ==
  [phase : Phases, source : Endpoints, er : Endpoints, answer : Endpoints,
   todo : SUBSET TrackedAccounts, astray : BOOLEAN, read : RowRecord]

\* What TypeOK leaves open: sessions are records, and there is an account to go on with.
Shapes ==
  /\ session \in [Processes -> SessionRecord]
  /\ \A x \in Processes : Phase(x) \in {"persisting", "routing"} => session[x].todo # {}

Typed == TypeOK /\ Shapes

\* One step of process x, which leaves it in this state.
Becomes(x, s) ==
  /\ session' = [session EXCEPT ![x] = s]
  /\ s \in SessionRecord /\ SessionTypeOK(s)
  /\ s.phase \in {"persisting", "routing"} => s.todo # {}

-----------------------------------------------------------------------------
(***************************************************************************)
(* The accounts.                                                           *)
(***************************************************************************)

\* Nothing the writer or the command does changes an account.
LEMMA SessionsLeaveAccounts ==
  ASSUME [Next]_vars
  PROVE  [AccountsNext]_accountVars
<1>1. CASE UNCHANGED vars
  BY <1>1 DEF vars
<1>2. CASE AccountsNext
  BY <1>2
<1>3. CASE Connect \/ RouteChanged \/ \E a \in UserAccounts : TrackUserAccount(a)
  BY <1>3 DEF Connect, RouteChanged, TrackUserAccount
<1>4. ASSUME NEW x, RunWithStorage(x) PROVE UNCHANGED accountVars
  BY <1>4 DEF RunWithStorage, ResolveMarket, PersistMarket, LoadTracked, ResolveAccount,
              PersistAccount, ReadAccounts, Reconcile
<1>5. CASE FailWriter \/ FailSmoke
  BY <1>5 DEF FailWriter, FailSmoke
<1> QED  BY <1>1, <1>2, <1>3, <1>4, <1>5 DEF Next, Writer

\* The composition implements the accounts' own specification.
THEOREM ImplementsAccounts == Spec => AccountsSpec
<1>1. Init => AccountsInit
  BY DEF Init
<1>2. [Next]_vars => [AccountsNext]_accountVars
  BY SessionsLeaveAccounts
<1> QED  BY <1>1, <1>2, PTL DEF Spec, AccountsSpec

\* What a user owns stays within reach while sessions start, fail and write tables.
THEOREM HoldingsStayWithinReachHere == Spec => []HoldingsWithinReach
<1> QED  BY ImplementsAccounts, HoldingsStayWithinReach, PTL

-----------------------------------------------------------------------------
(***************************************************************************)
(* The types.                                                              *)
(***************************************************************************)

\* The router names a rollup, or nothing.
LEMMA RouteTyped == \A a : Route(a) \in Endpoints
BY DEF Route, Endpoints

\* A process that has not started, or has failed, holds nothing.
LEMMA IdleTyped ==
  /\ Idle \in SessionRecord /\ SessionTypeOK(Idle) /\ Idle.phase = "idle"
  /\ Failed \in SessionRecord /\ SessionTypeOK(Failed) /\ Failed.phase = "failed"
<1>1. None \in Endpoints /\ NoRow \in RowRecord /\ "idle" \in Phases /\ "failed" \in Phases
  BY DEF Endpoints, NoRow, RowRecord, Phases
<1>2. Idle \in SessionRecord /\ Idle.phase = "idle" /\ Idle.todo = {}
  BY <1>1 DEF Idle, SessionRecord
<1>3. Failed \in SessionRecord /\ Failed.phase = "failed" /\ Failed.todo = {}
  BY <1>1, <1>2 DEF Failed, SessionRecord
<1>4. SessionTypeOK(Idle)
  BY <1>1 DEF SessionTypeOK, Idle
<1>5. SessionTypeOK(Failed)
  BY <1>3 DEF SessionTypeOK, SessionRecord
<1> QED  BY <1>2, <1>3, <1>4, <1>5

\* The initial tables and processes have their types.
LEMMA InitTyped == Init => Typed
<1> SUFFICES ASSUME Init PROVE Typed
  OBVIOUS
<1>1. AccountsTypeOK
  BY InitInv DEF Init, IInv
<1>2. NoRow \in RowRecord
  BY DEF NoRow, RowRecord
<1>3. Untracked \in [known : BOOLEAN, endpoint : Endpoints, generation : Nat]
  BY DEF Untracked, Endpoints
<1>4. TypeOK
  BY <1>1, <1>2, <1>3, IdleTyped DEF Init, TypeOK
<1>5. Shapes
  BY IdleTyped DEF Init, Shapes, Phase
<1> QED  BY <1>4, <1>5 DEF Typed

\* The state of one process changes, and it is one of those it may be in.
LEMMA BecomesTyped ==
  ASSUME Typed, NEW x \in Processes, NEW s, Becomes(x, s)
  PROVE  /\ Shapes' /\ \A y \in Processes : SessionTypeOK(session[y])'
         /\ session'[x] = s /\ \A y \in Processes \ {x} : session'[y] = session[y]
<1>1. session'[x] = s /\ \A y \in Processes \ {x} : session'[y] = session[y]
  BY DEF Typed, Shapes, Becomes
<1>2. Shapes'
  BY <1>1 DEF Typed, Shapes, Becomes, Phase
<1>3. ASSUME NEW y \in Processes PROVE SessionTypeOK(session[y])'
  <2>1. SessionTypeOK(session'[y])
    BY <1>1 DEF Typed, TypeOK, Becomes
  <2> QED  BY <2>1 DEF SessionTypeOK
<1> QED  BY <1>1, <1>2, <1>3

\* Each step of a session leaves the process in a state it may be in.
LEMMA StepBecomes ==
  ASSUME Typed, NEW x \in Processes,
         \/ x = "writer" /\ (Connect \/ RouteChanged \/ FailWriter)
         \/ x = "smoke" /\ FailSmoke
         \/ RunWithStorage(x)
  PROVE  \E s : Becomes(x, s)
<1> DEFINE old == session[x]
<1>0. /\ session \in [Processes -> SessionRecord] /\ old \in SessionRecord /\ SessionTypeOK(old)
      /\ Phase(x) = old.phase
      /\ Phase(x) \in {"persisting", "routing"} => old.todo # {}
  BY DEF Typed, TypeOK, Shapes, Phase
<1>1. CASE \/ x = "writer" /\ (RouteChanged \/ FailWriter)
           \/ x = "smoke" /\ FailSmoke
  BY <1>1, IdleTyped DEF RouteChanged, FailWriter, FailSmoke, Drop, Becomes
<1>2. CASE x = "writer" /\ Connect
  <2> DEFINE s == [old EXCEPT !.phase = "catching_up", !.source = Route(MarketAccount)]
  <2>1. session' = [session EXCEPT ![x] = s]
    BY <1>0, <1>2 DEF Connect
  <2>2. s \in SessionRecord /\ s.phase = "catching_up"
    BY <1>0, RouteTyped DEF SessionRecord, Phases
  <2>3. SessionTypeOK(s)
    BY <1>0, <2>2 DEF SessionTypeOK, SessionRecord
  <2> QED  BY <2>1, <2>2, <2>3 DEF Becomes
<1>3. CASE ResolveMarket(x)
  <2>1. CASE Route(MarketAccount) = None
    BY <1>3, <2>1, IdleTyped DEF ResolveMarket, Drop, Becomes
  <2>2. CASE Route(MarketAccount) # None
    <3> DEFINE s == [old EXCEPT !.phase = "persisting", !.todo = {MarketAccount},
                                !.er = Route(MarketAccount), !.answer = Route(MarketAccount)]
    <3>1. session' = [session EXCEPT ![x] = s]
      BY <1>0, <1>3, <2>2 DEF ResolveMarket
    <3>2. {MarketAccount} \in SUBSET TrackedAccounts
      BY DEF TrackedAccounts
    <3>3. s \in SessionRecord /\ s.phase = "persisting" /\ s.todo = {MarketAccount}
          /\ s.er = Route(MarketAccount)
      BY <1>0, <3>2, RouteTyped DEF SessionRecord, Phases
    <3>4. SessionTypeOK(s)
      BY <2>2, <3>3 DEF SessionTypeOK, SessionRecord
    <3> QED  BY <3>1, <3>3, <3>4 DEF Becomes
  <2> QED  BY <2>1, <2>2
<1>4. CASE ResolveAccount(x)
  <2> DEFINE s == [old EXCEPT !.phase = "persisting", !.answer = Route(NextAccount(x))]
  <2>1. session' = [session EXCEPT ![x] = s] /\ old.phase = "routing"
    BY <1>0, <1>4 DEF ResolveAccount
  <2>2. s \in SessionRecord /\ s.phase = "persisting" /\ s.todo = old.todo /\ s.er = old.er
    BY <1>0, RouteTyped DEF SessionRecord, Phases
  <2>3. SessionTypeOK(s)
    BY <1>0, <2>1, <2>2 DEF SessionTypeOK, SessionRecord
  <2> QED  BY <1>0, <2>1, <2>2, <2>3 DEF Becomes
<1>5. CASE PersistMarket(x)
  <2> DEFINE s == [old EXCEPT !.phase = "loading", !.todo = {}, !.answer = None]
  <2>1. session' = [session EXCEPT ![x] = s] /\ old.phase = "persisting"
    BY <1>0, <1>5 DEF PersistMarket
  <2>2. s \in SessionRecord /\ s.phase = "loading" /\ s.er = old.er
    BY <1>0 DEF SessionRecord, Phases, Endpoints
  <2>3. SessionTypeOK(s)
    BY <1>0, <2>1, <2>2 DEF SessionTypeOK, SessionRecord
  <2> QED  BY <2>1, <2>2, <2>3 DEF Becomes
<1>6. ASSUME NEW todo \in SUBSET TrackedAccounts, NEW astray \in BOOLEAN,
             RouteNext(x, todo, astray), old.er # None
      PROVE  \E s : Becomes(x, s)
  <2> DEFINE next == NextPhase(todo, astray)
  <2>1. CASE next = "idle"
    BY <1>6, <2>1, IdleTyped DEF RouteNext, Drop, Becomes
  <2>2. CASE next # "idle"
    <3> DEFINE s == [old EXCEPT !.phase = next, !.todo = todo, !.answer = None,
                                !.astray = astray]
    <3>1. session' = [session EXCEPT ![x] = s]
      BY <1>0, <1>6, <2>2 DEF RouteNext
    <3>2. next \in {"routing", "reading_base"} /\ (next = "routing" => todo # {})
      BY <2>2 DEF NextPhase
    <3>3. s \in SessionRecord /\ s.phase = next /\ s.er = old.er /\ s.todo = todo
      BY <1>0, <1>6, <3>2 DEF SessionRecord, Phases, Endpoints
    <3>4. SessionTypeOK(s)
      BY <1>6, <3>3 DEF SessionTypeOK, SessionRecord
    <3> QED  BY <3>1, <3>2, <3>3, <3>4 DEF Becomes
  <2> QED  BY <2>1, <2>2
<1>7. CASE LoadTracked(x)
  <2>1. Known \ {MarketAccount} \in SUBSET TrackedAccounts
    BY DEF Known
  <2>2. old.astray \in BOOLEAN /\ old.er # None
    BY <1>0, <1>7 DEF LoadTracked, SessionRecord, SessionTypeOK
  <2>3. RouteNext(x, Known \ {MarketAccount}, old.astray)
    BY <1>7 DEF LoadTracked
  <2> QED  BY <1>6, <2>1, <2>2, <2>3
<1>8. CASE PersistAccount(x)
  <2> DEFINE todo   == old.todo \ {NextAccount(x)}
             astray == old.astray \/ old.answer # old.er
  <2>1. todo \in SUBSET TrackedAccounts /\ old.er # None
    BY <1>0, <1>8 DEF PersistAccount, SessionRecord, SessionTypeOK
  <2>2. astray \in BOOLEAN
    OBVIOUS
  <2>3. RouteNext(x, todo, astray)
    BY <1>8 DEF PersistAccount
  <2> QED  BY <1>6, <2>1, <2>2, <2>3
<1>9. CASE ReadAccounts(x)
  <2> DEFINE from == IF Phase(x) = "reading_base" THEN Base ELSE old.er
             read == [source |-> from, slot |-> slot[from],
                      version |-> IF market_at[MARKET] = from
                                  THEN version[MARKET] ELSE committed[MARKET]]
             s    == [old EXCEPT !.phase = IF from = Base THEN "applying_base" ELSE "applying_er",
                                 !.read  = read]
  <2>1. session' = [session EXCEPT ![x] = s] /\ old.phase \in {"reading_base", "reading_er"}
    BY <1>0, <1>9 DEF ReadAccounts
  <2>2. from \in Layers /\ old.er # None
    BY <1>0, <2>1 DEF SessionTypeOK, SessionRecord, Endpoints, Layers
  <2>3. read \in RowRecord
    BY <2>2, SessionAssumption DEF RowRecord, Typed, TypeOK, AccountsTypeOK
  <2>4. s \in SessionRecord /\ s.phase \in {"applying_base", "applying_er"} /\ s.er = old.er
    BY <1>0, <2>3 DEF SessionRecord, Phases
  <2>5. SessionTypeOK(s)
    BY <2>2, <2>4 DEF SessionTypeOK, SessionRecord
  <2> QED  BY <2>1, <2>4, <2>5 DEF Becomes
<1>10. CASE Reconcile(x)
  <2>0. old.phase \in {"applying_base", "applying_er"} /\ old.er # None
    BY <1>0, <1>10 DEF Reconcile, SessionTypeOK
  <2>1. CASE session' = [session EXCEPT ![x].phase = "reading_er", ![x].read = NoRow]
    <3> DEFINE s == [old EXCEPT !.phase = "reading_er", !.read = NoRow]
    <3>1. session' = [session EXCEPT ![x] = s]
      BY <1>0, <2>1
    <3>2. s \in SessionRecord /\ s.phase = "reading_er" /\ s.er = old.er
      BY <1>0 DEF SessionRecord, Phases, NoRow, RowRecord
    <3>3. SessionTypeOK(s)
      BY <2>0, <3>2 DEF SessionTypeOK, SessionRecord
    <3> QED  BY <3>1, <3>2, <3>3 DEF Becomes
  <2>2. CASE session' = [session EXCEPT ![x].phase = "reading_base", ![x].read = NoRow]
    <3> DEFINE s == [old EXCEPT !.phase = "reading_base", !.read = NoRow]
    <3>1. session' = [session EXCEPT ![x] = s]
      BY <1>0, <2>2
    <3>2. s \in SessionRecord /\ s.phase = "reading_base" /\ s.er = old.er
      BY <1>0 DEF SessionRecord, Phases, NoRow, RowRecord
    <3>3. SessionTypeOK(s)
      BY <2>0, <3>2 DEF SessionTypeOK, SessionRecord
    <3> QED  BY <3>1, <3>2, <3>3 DEF Becomes
  <2>3. CASE Drop(x)
    BY <2>3, IdleTyped DEF Drop, Becomes
  <2>4. CASE Enter(x, "live")
    <3> DEFINE s == [old EXCEPT !.phase = "live"]
    <3>1. session' = [session EXCEPT ![x] = s]
      BY <1>0, <2>4 DEF Enter
    <3>2. s \in SessionRecord /\ s.phase = "live" /\ s.er = old.er
      BY <1>0 DEF SessionRecord, Phases
    <3>3. SessionTypeOK(s)
      BY <2>0, <3>2 DEF SessionTypeOK, SessionRecord
    <3> QED  BY <3>1, <3>2, <3>3 DEF Becomes
  <2> QED  BY <1>10, <2>1, <2>2, <2>3, <2>4 DEF Reconcile
<1> QED
  BY <1>1, <1>2, <1>3, <1>4, <1>5, <1>7, <1>8, <1>9, <1>10 DEF RunWithStorage

\* A route is persisted for an account that is tracked.
LEMMA PersistTyped ==
  ASSUME Typed, NEW a \in TrackedAccounts, NEW endpoint \in Endpoints, PersistRoute(a, endpoint)
  PROVE  /\ tracked' \in [TrackedAccounts -> [known : BOOLEAN, endpoint : Endpoints, generation : Nat]]
         /\ observed' \subseteq [account : TrackedAccounts, generation : Nat, endpoint : Endpoints]
         /\ GenerationAfter(a, endpoint) \in Nat
<1>1. tracked \in [TrackedAccounts -> [known : BOOLEAN, endpoint : Endpoints, generation : Nat]]
  BY DEF Typed, TypeOK
<1>2. tracked[a].generation \in Nat
  BY <1>1
<1>3. GenerationAfter(a, endpoint) \in Nat
  BY <1>2 DEF GenerationAfter
<1>4. tracked' \in [TrackedAccounts -> [known : BOOLEAN, endpoint : Endpoints, generation : Nat]]
  BY <1>1, <1>3 DEF PersistRoute
<1>5. observed' \subseteq [account : TrackedAccounts, generation : Nat, endpoint : Endpoints]
  BY <1>3 DEF PersistRoute, Typed, TypeOK
<1> QED  BY <1>3, <1>4, <1>5

\* The account and the answer of a step that persists a route.
LEMMA PersistOf ==
  ASSUME Typed, NEW x \in Processes, PersistMarket(x) \/ PersistAccount(x)
  PROVE  \E a \in TrackedAccounts, endpoint \in Endpoints : PersistRoute(a, endpoint)
<1>1. session[x].answer \in Endpoints /\ session[x].todo \in SUBSET TrackedAccounts
  BY DEF Typed, Shapes, SessionRecord
<1>2. CASE PersistMarket(x)
  <2>1. MarketAccount \in TrackedAccounts
    BY DEF TrackedAccounts
  <2> QED  BY <1>1, <1>2, <2>1 DEF PersistMarket
<1>3. CASE PersistAccount(x)
  <2>1. session[x].todo # {}
    BY <1>3 DEF PersistAccount, Typed, Shapes
  <2>2. NextAccount(x) \in TrackedAccounts
    BY <1>1, <2>1 DEF NextAccount
  <2> QED  BY <1>1, <1>3, <2>2 DEF PersistAccount
<1> QED  BY <1>2, <1>3

\* Every step keeps the types.
LEMMA NextTyped == Typed /\ AccountsTypeOK' /\ [Next]_vars => Typed'
<1> SUFFICES ASSUME Typed, AccountsTypeOK', [Next]_vars PROVE Typed'
  OBVIOUS
<1>1. ASSUME UNCHANGED <<tableVars, session>> PROVE Typed'
  BY <1>1 DEF Typed, TypeOK, Shapes, tableVars, Phase, SessionTypeOK
<1>2. ASSUME NEW x \in Processes, NEW s, Becomes(x, s),
             tracked' \in [TrackedAccounts -> [known : BOOLEAN, endpoint : Endpoints,
                                               generation : Nat]],
             observed' \subseteq [account : TrackedAccounts, generation : Nat,
                                  endpoint : Endpoints],
             row' \in RowRecord
      PROVE  Typed'
  BY <1>2, BecomesTyped DEF Typed, TypeOK
<1>3. ASSUME NEW x \in Processes, NEW s, Becomes(x, s), UNCHANGED tableVars PROVE Typed'
  <2>1. /\ tracked' \in [TrackedAccounts -> [known : BOOLEAN, endpoint : Endpoints,
                                              generation : Nat]]
        /\ observed' \subseteq [account : TrackedAccounts, generation : Nat, endpoint : Endpoints]
        /\ row' \in RowRecord
    BY <1>3 DEF Typed, TypeOK, tableVars
  <2> QED  BY <1>2, <1>3, <2>1
<1>4. ASSUME NEW x \in Processes, RunWithStorage(x) PROVE Typed'
  <2>1. PICK s : Becomes(x, s)
    BY <1>4, StepBecomes
  <2>2. CASE ResolveMarket(x) \/ LoadTracked(x) \/ ResolveAccount(x) \/ ReadAccounts(x)
    <3>1. UNCHANGED tableVars
      BY <2>2 DEF ResolveMarket, LoadTracked, ResolveAccount, ReadAccounts
    <3> QED  BY <1>3, <2>1, <3>1
  <2>3. CASE PersistMarket(x) \/ PersistAccount(x)
    <3>1. row' = row
      BY <2>3 DEF PersistMarket, PersistAccount
    <3>2. PICK a \in TrackedAccounts, endpoint \in Endpoints : PersistRoute(a, endpoint)
      BY <2>3, PersistOf
    <3>3. row' \in RowRecord
      BY <3>1 DEF Typed, TypeOK
    <3> QED  BY <1>2, <2>1, <3>2, <3>3, PersistTyped
  <2>4. CASE Reconcile(x)
    <3>1. row' \in RowRecord
      BY <2>4 DEF Reconcile, RowAfter, Typed, TypeOK, Shapes, SessionRecord
    <3>2. /\ tracked' \in [TrackedAccounts -> [known : BOOLEAN, endpoint : Endpoints,
                                                generation : Nat]]
          /\ observed' \subseteq [account : TrackedAccounts, generation : Nat,
                                   endpoint : Endpoints]
      BY <2>4 DEF Reconcile, Typed, TypeOK
    <3> QED  BY <1>2, <2>1, <3>1, <3>2
  <2> QED  BY <1>4, <2>2, <2>3, <2>4 DEF RunWithStorage
<1>5. ASSUME NEW x \in Processes,
             \/ x = "writer" /\ (Connect \/ RouteChanged \/ FailWriter)
             \/ x = "smoke" /\ FailSmoke
      PROVE  Typed'
  <2>1. PICK s : Becomes(x, s)
    BY <1>5, StepBecomes
  <2>2. UNCHANGED tableVars
    BY <1>5 DEF Connect, RouteChanged, FailWriter, FailSmoke
  <2> QED  BY <1>3, <2>1, <2>2
<1>6. ASSUME NEW a \in UserAccounts, TrackUserAccount(a) PROVE Typed'
  <2>1. tracked' \in [TrackedAccounts -> [known : BOOLEAN, endpoint : Endpoints, generation : Nat]]
    BY <1>6 DEF TrackUserAccount, Typed, TypeOK
  <2> QED
    BY <1>6, <2>1 DEF TrackUserAccount, Typed, TypeOK, Shapes, Phase, SessionTypeOK
<1>7. "writer" \in Processes /\ "smoke" \in Processes
  BY DEF Processes
<1>8. CASE UNCHANGED vars
  BY <1>1, <1>8 DEF vars
<1>9. CASE Next
  BY <1>1, <1>4, <1>5, <1>6, <1>7, <1>9 DEF Next, Writer
<1> QED  BY <1>8, <1>9

\* The types are an invariant, with those of the accounts beside them.
LEMMA AlwaysTyped == Spec => []Typed
<1>1. Spec => []AccountsTypeOK
  BY ImplementsAccounts, AccountsTyped, PTL
<1> QED  BY InitTyped, NextTyped, <1>1, PTL DEF Spec

\* The tables and the processes keep their types, whoever of the two persists routes or
\* reconciles, and whenever one fails.
THEOREM SessionTyped == Spec => []TypeOK
<1>1. Typed => TypeOK
  BY DEF Typed
<1> QED  BY AlwaysTyped, <1>1, PTL

-----------------------------------------------------------------------------
(***************************************************************************)
(* Routes.                                                                 *)
(***************************************************************************)

\* Only known accounts have observations of their route.
ObservedAreKnown == \A o \in observed : tracked[o.account].known = TRUE

Routes == GenerationNamesRoute /\ ObservedAreKnown

\* A persisted route is of a generation of its own, or of the current one unchanged.
LEMMA PersistKeepsRoutes ==
  ASSUME Typed, Routes, NEW a \in TrackedAccounts, NEW endpoint \in Endpoints,
         PersistRoute(a, endpoint)
  PROVE  Routes'
<1> DEFINE generation == GenerationAfter(a, endpoint)
           new        == [account |-> a, generation |-> generation, endpoint |-> endpoint]
<1>1. /\ tracked \in [TrackedAccounts -> [known : BOOLEAN, endpoint : Endpoints, generation : Nat]]
      /\ observed \subseteq [account : TrackedAccounts, generation : Nat, endpoint : Endpoints]
      /\ generation \in Nat
  BY PersistTyped DEF Typed, TypeOK
<1>2. /\ tracked'[a] = [known |-> TRUE, endpoint |-> endpoint, generation |-> generation]
      /\ \A b \in TrackedAccounts \ {a} : tracked'[b] = tracked[b]
  BY <1>1 DEF PersistRoute
<1>3. \A o \in observed : /\ o.account \in TrackedAccounts /\ o.generation \in Nat
                          /\ o.generation <= tracked[o.account].generation
                          /\ tracked[o.account].known = TRUE
  BY <1>1 DEF Routes, ObservedAreKnown, GenerationNamesRoute
<1>4. \A o \in observed : o.account = a =>
        /\ o.generation <= generation
        /\ o.generation = generation => o.endpoint = endpoint
  <2>1. SUFFICES ASSUME NEW o \in observed, o.account = a
                 PROVE  /\ o.generation <= generation
                        /\ o.generation = generation => o.endpoint = endpoint
    OBVIOUS
  <2>2. tracked[a].known = TRUE /\ o.generation <= tracked[a].generation
    BY <1>3, <2>1
  <2>3. tracked[a].generation \in Nat /\ o.generation \in Nat
    BY <1>1, <1>3
  <2>4. CASE tracked[a].endpoint = endpoint
    <3>1. generation = tracked[a].generation
      BY <2>2, <2>4 DEF GenerationAfter
    <3>2. o.generation = tracked[a].generation => o.endpoint = tracked[a].endpoint
      BY <2>1 DEF Routes, GenerationNamesRoute
    <3> QED  BY <2>2, <2>4, <3>1, <3>2
  <2>5. CASE tracked[a].endpoint # endpoint
    <3>1. generation = tracked[a].generation + 1
      BY <2>2, <2>5 DEF GenerationAfter
    <3> QED  BY <2>2, <2>3, <3>1
  <2> QED  BY <2>4, <2>5
<1>5. observed' \subseteq observed \cup {new}
  BY DEF PersistRoute
<1>6. new \in observed' /\ new \notin observed =>
        \A o \in observed : ~(o.account = a /\ o.generation = generation)
  BY DEF PersistRoute
<1> HIDE DEF generation
<1>7. ASSUME NEW o \in observed'
      PROVE  /\ o.generation <= tracked'[o.account].generation
             /\ o.generation = tracked'[o.account].generation =>
                  o.endpoint = tracked'[o.account].endpoint
             /\ tracked'[o.account].known = TRUE
  <2>1. CASE o = new
    BY <1>1, <1>2, <2>1
  <2>2. CASE o \in observed /\ o.account = a
    BY <1>2, <1>4, <2>2
  <2>3. CASE o \in observed /\ o.account # a
    <3>1. tracked'[o.account] = tracked[o.account]
      BY <1>2, <1>3, <2>3
    <3> QED  BY <2>3, <3>1 DEF Routes, GenerationNamesRoute, ObservedAreKnown
  <2> QED  BY <1>5, <1>7, <2>1, <2>2, <2>3
<1>8. ASSUME NEW o \in observed', NEW p \in observed',
             p.account = o.account, p.generation = o.generation
      PROVE  p = o
  <2>1. CASE o \in observed /\ p \in observed
    BY <1>8, <2>1 DEF Routes, GenerationNamesRoute
  <2>2. CASE o \in observed /\ p = new /\ p \notin observed
    BY <1>6, <1>8, <2>2
  <2>3. CASE p \in observed /\ o = new /\ o \notin observed
    BY <1>6, <1>8, <2>3
  <2>4. CASE o = new /\ p = new
    BY <2>4
  <2> QED  BY <1>5, <1>8, <2>1, <2>2, <2>3, <2>4
<1>9. GenerationNamesRoute'
  BY <1>7, <1>8 DEF GenerationNamesRoute
<1>10. ObservedAreKnown'
  BY <1>7 DEF ObservedAreKnown
<1> QED  BY <1>9, <1>10 DEF Routes

\* Whoever persists routes it resolved earlier, and whichever accounts are added.
LEMMA NextRoutes == Typed /\ Routes /\ [Next]_vars => Routes'
<1> SUFFICES ASSUME Typed, Routes, [Next]_vars PROVE Routes'
  OBVIOUS
<1>1. ASSUME UNCHANGED <<tracked, observed>> PROVE Routes'
  BY <1>1 DEF Routes, GenerationNamesRoute, ObservedAreKnown
<1>2. ASSUME NEW x \in Processes, RunWithStorage(x) PROVE Routes'
  <2>1. CASE PersistMarket(x) \/ PersistAccount(x)
    BY <2>1, PersistOf, PersistKeepsRoutes
  <2>2. CASE ~(PersistMarket(x) \/ PersistAccount(x))
    <3>1. UNCHANGED <<tracked, observed>>
      BY <1>2, <2>2 DEF RunWithStorage, ResolveMarket, LoadTracked, ResolveAccount,
                        ReadAccounts, Reconcile, tableVars
    <3> QED  BY <1>1, <3>1
  <2> QED  BY <2>1, <2>2
<1>3. ASSUME NEW a \in UserAccounts, TrackUserAccount(a) PROVE Routes'
  <2>1. a \in TrackedAccounts
    BY DEF TrackedAccounts
  <2>2. /\ tracked \in [TrackedAccounts -> [known : BOOLEAN, endpoint : Endpoints, generation : Nat]]
        /\ observed \subseteq [account : TrackedAccounts, generation : Nat, endpoint : Endpoints]
    BY DEF Typed, TypeOK
  <2>3. tracked' = [tracked EXCEPT ![a].known = TRUE] /\ observed' = observed
    BY <1>3 DEF TrackUserAccount
  <2>4. \A b \in TrackedAccounts : /\ tracked'[b].generation = tracked[b].generation
                                   /\ tracked'[b].endpoint = tracked[b].endpoint
                                   /\ tracked[b].known = TRUE => tracked'[b].known = TRUE
    BY <2>1, <2>2, <2>3
  <2>5. \A o \in observed : o.account \in TrackedAccounts
    BY <2>2
  <2>6. GenerationNamesRoute'
    BY <2>3, <2>4, <2>5 DEF Routes, GenerationNamesRoute
  <2>7. ObservedAreKnown'
    BY <2>3, <2>4, <2>5 DEF Routes, ObservedAreKnown
  <2> QED  BY <2>6, <2>7 DEF Routes
<1>4. CASE \/ UNCHANGED vars
           \/ AccountsNext /\ UNCHANGED <<tableVars, session>>
           \/ Connect \/ RouteChanged \/ FailWriter \/ FailSmoke
  <2>1. UNCHANGED <<tracked, observed>>
    BY <1>4 DEF vars, tableVars, Connect, RouteChanged, FailWriter, FailSmoke
  <2> QED  BY <1>1, <2>1
<1>5. "writer" \in Processes /\ "smoke" \in Processes
  BY DEF Processes
<1> QED  BY <1>2, <1>3, <1>4, <1>5 DEF Next, Writer

\* persist_route: a generation names one endpoint for good, although the writer and the
\* command persist routes they resolved earlier.
THEOREM GenerationsNameRoutes == Spec => []GenerationNamesRoute
<1>1. Init => Routes
  BY DEF Init, Routes, GenerationNamesRoute, ObservedAreKnown
<1>2. Routes => GenerationNamesRoute
  BY DEF Routes
<1> QED  BY <1>1, <1>2, NextRoutes, AlwaysTyped, PTL DEF Spec

-----------------------------------------------------------------------------
(***************************************************************************)
(* What is read of the Market.                                             *)
(***************************************************************************)

\* The version of the Market a layer serves.
Served(layer) == IF market_at[MARKET] = layer THEN version[MARKET] ELSE committed[MARKET]

\* A copy is not ahead, and there is one only where the Market is delegated.
CopiesBehind ==
  /\ committed[MARKET] <= version[MARKET]
  /\ market_at[MARKET] \in {Absent, Base} => committed[MARKET] = version[MARKET]

\* A layer serves nothing older than before, and something newer only in a later slot.
Advances(layer) ==
  /\ slot'[layer] >= slot[layer]
  /\ Served(layer)' >= Served(layer)
  /\ Served(layer)' # Served(layer) => slot'[layer] > slot[layer]

\* What was read of a layer was served then, and is no longer if the layer went on.
Held(read) ==
  read.source # None =>
    /\ read.slot <= slot[read.source]
    /\ read.version <= Served(read.source)
    /\ read.slot = slot[read.source] => read.version = Served(read.source)

\* A later read of the same layer is of a version at least as new.
InOrder(a, b) ==
  a.source # None /\ a.source = b.source /\ a.slot <= b.slot => a.version <= b.version

\* Everything that was read and is not forgotten.
Reads == {row} \cup {session[x].read : x \in Processes}

ReadsHold ==
  /\ CopiesBehind
  /\ \A a \in Reads : Held(a)
  /\ \A a, b \in Reads : InOrder(a, b)

\* Whatever changes what a layer serves takes a slot of that layer.
LEMMA LayersAdvance ==
  ASSUME AccountsTypeOK, CopiesBehind, [AccountsNext]_accountVars
  PROVE  CopiesBehind' /\ \A layer \in Layers : Advances(layer)
<1>0. /\ MARKET \in Markets /\ market_at \in [Markets -> Places]
      /\ version \in [Markets -> Nat] /\ committed \in [Markets -> Nat]
      /\ slot \in [Layers -> Nat]
      /\ \A layer \in Layers : slot[layer] \in Nat
      /\ version[MARKET] \in Nat /\ committed[MARKET] \in Nat
      /\ Base \notin Rollups /\ Absent \notin Layers
  BY SessionAssumption, AccountsAssumption DEF AccountsTypeOK, Layers
<1>1. ASSUME UNCHANGED <<market_at, version, committed, slot>>
      PROVE  CopiesBehind' /\ \A layer \in Layers : Advances(layer)
  BY <1>0, <1>1 DEF CopiesBehind, Advances, Served
<1>2. CASE \/ UNCHANGED accountVars \/ InitializeProtocolConfig
           \/ \E u \in Users : InitializeUserPositions(u) \/ InitializeUserLiquidity(u)
           \/ \E u \in Users, r \in Rollups : DelegateUserPositions(u, r) \/ DelegateUserLiquidity(u, r)
  <2>1. UNCHANGED <<market_at, version, committed, slot>>
    BY <1>2 DEF accountVars, placeVars, InitializeProtocolConfig, InitializeUserPositions,
                InitializeUserLiquidity, DelegateUserPositions, DelegateUserLiquidity
  <2> QED  BY <1>1, <2>1
<1>3. CASE \E m \in Markets : InitializeMarket(m)
  <2>1. PICK m \in Markets : InitializeMarket(m)
    BY <1>3
  <2>2. /\ market_at[m] = Absent /\ market_at' = [market_at EXCEPT ![m] = Base]
        /\ UNCHANGED <<version, committed, slot>>
    BY <2>1 DEF InitializeMarket
  <2> QED  BY <1>0, <2>2 DEF CopiesBehind, Advances, Served
<1>4. CASE \E m \in Markets, r \in Rollups : DelegateMarket(m, r)
  <2>1. PICK m \in Markets, r \in Rollups : DelegateMarket(m, r)
    BY <1>4
  <2>2. /\ market_at[m] = Base /\ market_at' = [market_at EXCEPT ![m] = r]
        /\ UNCHANGED <<version, committed, slot>>
    BY <2>1 DEF DelegateMarket
  <2> QED  BY <1>0, <2>2 DEF CopiesBehind, Advances, Served
<1>5. CASE \E u \in Users : UndelegateUserLiquidity(u)
  <2>1. PICK r \in Rollups : slot' = [slot EXCEPT ![r] = @ + 1]
    BY <1>5 DEF UndelegateUserLiquidity, Operate
  <2>2. UNCHANGED <<market_at, version, committed>>
    BY <1>5 DEF UndelegateUserLiquidity
  <2> QED  BY <1>0, <2>1, <2>2 DEF CopiesBehind, Advances, Served, Layers
<1>6. ASSUME NEW m \in Markets, NEW r, NEW account, Trade(m, r, account)
      PROVE  CopiesBehind' /\ \A layer \in Layers : Advances(layer)
  <2>1. /\ r \in Rollups /\ market_at[m] = r
        /\ slot' = [slot EXCEPT ![r] = @ + 1]
        /\ version' = [version EXCEPT ![m] = @ + 1]
        /\ UNCHANGED <<market_at, committed>>
    BY <1>6 DEF Trade, Operate, placeVars
  <2>2. CopiesBehind'
    BY <1>0, <2>1 DEF CopiesBehind, Layers
  <2>3. ASSUME NEW layer \in Layers PROVE Advances(layer)
    <3>1. slot'[layer] >= slot[layer] /\ (layer = r => slot'[layer] > slot[layer])
      BY <1>0, <2>1 DEF Layers
    <3>2. Served(layer)' >= Served(layer) /\ (layer # r => Served(layer)' = Served(layer))
      BY <1>0, <2>1 DEF Served
    <3> QED  BY <3>1, <3>2 DEF Advances
  <2> QED  BY <2>2, <2>3
<1>7. CASE \E u \in Users, m \in Markets :
             DepositLiquidity(u, m) \/ ExecuteWithdrawal(u, m) \/ OpenPosition(u, m) \/ SettlePosition(u, m)
  BY <1>6, <1>7 DEF DepositLiquidity, ExecuteWithdrawal, OpenPosition, SettlePosition
<1>8. CASE \E m \in Markets : Commit(m)
  <2>1. PICK m \in Markets : Commit(m)
    BY <1>8
  <2>2. /\ market_at[m] \in Rollups
        /\ committed' = [committed EXCEPT ![m] = version[m]]
        /\ slot' = [layer \in Layers |-> slot[layer] + 1]
        /\ UNCHANGED <<market_at, version>>
    BY <2>1 DEF Commit, EverySlot, placeVars
  <2>3. committed'[MARKET] >= committed[MARKET] /\ committed'[MARKET] <= version[MARKET]
        /\ (market_at[MARKET] \in {Absent, Base} => committed'[MARKET] = committed[MARKET])
    BY <1>0, <2>2 DEF CopiesBehind, Layers
  <2> QED  BY <1>0, <2>2, <2>3 DEF CopiesBehind, Advances, Served
<1>9. CASE \E r, s \in Rollups : Migrate(r, s)
  <2>1. PICK r \in Rollups, s \in Rollups : Migrate(r, s)
    BY <1>9
  <2>2. /\ market_at'[MARKET] = IF market_at[MARKET] = r THEN s ELSE market_at[MARKET]
        /\ committed'[MARKET] = IF market_at[MARKET] = r THEN version[MARKET] ELSE committed[MARKET]
        /\ slot' = [layer \in Layers |-> slot[layer] + 1]
        /\ version' = version
    BY <1>0, <2>1 DEF Migrate, EverySlot
  <2>3. CopiesBehind'
    BY <1>0, <2>2 DEF CopiesBehind, Layers
  <2>4. ASSUME NEW layer \in Layers PROVE Advances(layer)
    <3>1. slot'[layer] > slot[layer]
      BY <1>0, <2>2
    <3>2. Served(layer)' >= Served(layer)
      BY <1>0, <2>2 DEF CopiesBehind, Served
    <3> QED  BY <1>0, <2>2, <3>1, <3>2 DEF Advances
  <2> QED  BY <2>3, <2>4
<1> QED
  BY <1>2, <1>3, <1>4, <1>5, <1>7, <1>8, <1>9 DEF AccountsNext

\* What is held of an account is a row or nothing.
LEMMA ReadsTyped ==
  ASSUME Typed
  PROVE  \A a \in Reads : a \in RowRecord
BY DEF Typed, TypeOK, Shapes, SessionRecord, Reads

\* What a layer serves, and its slot, are numbers.
LEMMA LayersTyped ==
  ASSUME AccountsTypeOK, NEW layer \in Layers
  PROVE  Served(layer) \in Nat /\ slot[layer] \in Nat
BY SessionAssumption DEF AccountsTypeOK, Served

\* No new read: the ones held are still in order while the layers go on.
LEMMA ReadsStay ==
  ASSUME Typed, Typed', ReadsHold, [AccountsNext]_accountVars, Reads' \subseteq Reads \cup {NoRow}
  PROVE  ReadsHold'
<1>1. AccountsTypeOK /\ AccountsTypeOK' /\ CopiesBehind
  BY DEF Typed, TypeOK, ReadsHold
<1>2. CopiesBehind' /\ \A layer \in Layers : Advances(layer)
  BY <1>1, LayersAdvance
<1>3. ASSUME NEW a \in Reads PROVE Held(a)'
  <2>1. a \in RowRecord /\ Held(a)
    BY ReadsTyped DEF ReadsHold
  <2>2. SUFFICES ASSUME a.source # None
                 PROVE  /\ a.slot <= slot'[a.source]
                        /\ a.version <= Served(a.source)'
                        /\ a.slot = slot'[a.source] => a.version = Served(a.source)'
    BY DEF Held, Served
  <2>3. a.source \in Layers /\ a.slot \in Nat /\ a.version \in Nat
    BY <2>1, <2>2 DEF RowRecord
  <2> DEFINE before == Served(a.source)
             now    == Served(a.source)'
  <2>4. before \in Nat /\ slot[a.source] \in Nat
    BY <1>1, <2>3, LayersTyped
  <2>5. now \in Nat /\ slot'[a.source] \in Nat
    <3>1. version'[MARKET] \in Nat /\ committed'[MARKET] \in Nat /\ slot'[a.source] \in Nat
      BY <1>1, <2>3, SessionAssumption DEF AccountsTypeOK
    <3> QED  BY <3>1 DEF Served
  <2>6. /\ slot'[a.source] >= slot[a.source] /\ now >= before
        /\ now # before => slot'[a.source] > slot[a.source]
    BY <1>2, <2>3 DEF Advances
  <2>7. /\ a.slot <= slot[a.source] /\ a.version <= before
        /\ a.slot = slot[a.source] => a.version = before
    BY <2>1, <2>2 DEF Held
  <2> HIDE DEF before, now
  <2>8. /\ a.slot <= slot'[a.source] /\ a.version <= now
        /\ a.slot = slot'[a.source] => a.version = now
    BY <2>3, <2>4, <2>5, <2>6, <2>7
  <2> QED  BY <2>8 DEF now
<1>4. Held(NoRow)'
  BY DEF Held, NoRow
<1>5. \A a \in Reads' : Held(a)'
  BY <1>3, <1>4 DEF Held
<1>6. \A a, b \in Reads' : InOrder(a, b)
  BY DEF ReadsHold, InOrder, NoRow
<1> QED  BY <1>2, <1>5, <1>6 DEF ReadsHold, InOrder

\* A new read is of what its layer serves, in the current slot: after all the others.
LEMMA ReadsGrow ==
  ASSUME Typed, ReadsHold, UNCHANGED accountVars,
         NEW layer \in Layers, NEW new,
         new = [source |-> layer, slot |-> slot[layer], version |-> Served(layer)],
         Reads' \subseteq Reads \cup {new}
  PROVE  ReadsHold'
<1>1. UNCHANGED <<market_at, version, committed, slot>>
  BY DEF accountVars, placeVars
<1>2. Served(layer) \in Nat /\ slot[layer] \in Nat
  BY LayersTyped DEF Typed, TypeOK
<1>3. CopiesBehind'
  BY <1>1 DEF ReadsHold, CopiesBehind
<1>4. \A a : Held(a) => Held(a)'
  BY <1>1 DEF Held, Served
<1>5. Held(new)
  BY <1>2 DEF Held
<1>6. \A a \in Reads' : Held(a)'
  BY <1>4, <1>5 DEF ReadsHold
<1>7. ASSUME NEW a \in Reads PROVE InOrder(a, new) /\ InOrder(new, a)
  <2>1. a \in RowRecord /\ Held(a)
    BY ReadsTyped DEF ReadsHold
  <2> QED  BY <1>2, <2>1 DEF InOrder, Held, RowRecord
<1>8. InOrder(new, new)
  BY <1>2 DEF InOrder
<1>9. \A a, b \in Reads' : InOrder(a, b)
  BY <1>7, <1>8 DEF ReadsHold
<1> QED  BY <1>3, <1>6, <1>9 DEF ReadsHold, InOrder

\* What a step does to the reads of one process.
LEMMA ReadsOf ==
  ASSUME Typed, NEW x \in Processes, NEW s, session' = [session EXCEPT ![x] = s],
         row' \in Reads
  PROVE  Reads' \subseteq Reads \cup {s.read}
<1>1. session \in [Processes -> SessionRecord]
  BY DEF Typed, Shapes
<1>2. \A y \in Processes : session'[y] = session[y] \/ session'[y] = s
  BY <1>1
<1> QED  BY <1>2 DEF Reads

\* What the last step of a reconciliation leaves.
LEMMA RowIsRead ==
  ASSUME NEW x \in Processes, Reconcile(x)
  PROVE  row' \in Reads
BY DEF Reconcile, RowAfter, Reads

\* Every step keeps what is held in order: it drops a read, copies one, or makes the newest.
LEMMA NextReads == Typed /\ Typed' /\ ReadsHold /\ [Next]_vars => ReadsHold'
<1> SUFFICES ASSUME Typed, Typed', ReadsHold, [Next]_vars PROVE ReadsHold'
  OBVIOUS
<1>0. session \in [Processes -> SessionRecord] /\ [AccountsNext]_accountVars
  BY SessionsLeaveAccounts DEF Typed, Shapes
<1>1. ASSUME UNCHANGED <<row, session>> PROVE ReadsHold'
  BY <1>0, <1>1, ReadsStay DEF Reads
<1>2. ASSUME NEW x \in Processes, NEW s, session' = [session EXCEPT ![x] = s],
             s.read \in {session[x].read, NoRow}, row' \in Reads
      PROVE  ReadsHold'
  <2>1. Reads' \subseteq Reads \cup {s.read}
    BY <1>2, ReadsOf
  <2>2. session[x].read \in Reads
    BY DEF Reads
  <2> QED  BY <1>0, <1>2, <2>1, <2>2, ReadsStay
<1>3. row \in Reads
  BY DEF Reads
<1>4. ASSUME NEW x \in Processes, Drop(x), row' \in Reads PROVE ReadsHold'
  <2>1. Idle.read = NoRow
    BY DEF Idle
  <2> QED  BY <1>2, <1>4, <2>1 DEF Drop
<1>5. CASE Connect \/ FailWriter
  <2>1. "writer" \in Processes
    BY DEF Processes
  <2>2. CASE Connect
    <3> DEFINE s == [session["writer"] EXCEPT !.phase = "catching_up",
                                              !.source = Route(MarketAccount)]
    <3>1. session' = [session EXCEPT !["writer"] = s]
      BY <1>0, <2>2 DEF Connect
    <3>2. s.read = session["writer"].read
      BY <1>0, <2>1 DEF SessionRecord
    <3>3. row' \in Reads
      BY <1>3, <2>2 DEF Connect, tableVars
    <3> QED  BY <1>2, <2>1, <3>1, <3>2, <3>3
  <2>3. CASE FailWriter
    <3>1. Failed.read = NoRow
      BY DEF Failed, Idle
    <3>2. row' \in Reads
      BY <1>3, <2>3 DEF FailWriter, tableVars
    <3> QED  BY <1>2, <2>1, <2>3, <3>1, <3>2 DEF FailWriter
  <2> QED  BY <1>5, <2>2, <2>3
<1>6. CASE RouteChanged \/ FailSmoke
  <2>1. "writer" \in Processes /\ "smoke" \in Processes
    BY DEF Processes
  <2> QED  BY <1>3, <1>4, <1>6, <2>1 DEF RouteChanged, FailSmoke, tableVars
<1>7. ASSUME NEW x \in Processes, RunWithStorage(x) PROVE ReadsHold'
  <2>0. session[x] \in SessionRecord
    BY <1>0
  <2>1. CASE ResolveMarket(x) \/ ResolveAccount(x) \/ PersistMarket(x) \/ LoadTracked(x) \/ PersistAccount(x)
    <3>1. row' \in Reads
      BY <1>3, <2>1 DEF ResolveMarket, ResolveAccount, PersistMarket, LoadTracked,
                        PersistAccount, tableVars
    <3>2. PICK s : session' = [session EXCEPT ![x] = s]
      BY <1>7, StepBecomes DEF Becomes
    <3>3. session'[x] = s
      BY <1>0, <3>2
    <3>4. session'[x].read \in {session[x].read, NoRow}
      <4>1. CASE Drop(x)
        BY <1>0, <4>1 DEF Drop, Idle
      <4>2. CASE ~Drop(x)
        BY <1>0, <2>0, <2>1, <4>2
        DEF ResolveMarket, ResolveAccount, PersistMarket, LoadTracked, PersistAccount,
            RouteNext, SessionRecord
      <4> QED  BY <4>1, <4>2
    <3> QED  BY <1>2, <3>1, <3>2, <3>3, <3>4
  <2>2. CASE ReadAccounts(x)
    <3> DEFINE from == IF Phase(x) = "reading_base" THEN Base ELSE session[x].er
               new  == [source |-> from, slot |-> slot[from], version |-> Served(from)]
               s    == [session[x] EXCEPT
                          !.phase = IF from = Base THEN "applying_base" ELSE "applying_er",
                          !.read  = new]
    <3>1. session' = [session EXCEPT ![x] = s]
      BY <1>0, <2>2 DEF ReadAccounts, Served
    <3>2. s.read = new
      BY <2>0 DEF SessionRecord
    <3>3. from \in Layers
      BY <2>2 DEF ReadAccounts, Typed, TypeOK, SessionTypeOK, Phase, Endpoints, Layers
    <3>4. row' \in Reads /\ UNCHANGED accountVars
      BY <1>3, <2>2 DEF ReadAccounts, tableVars
    <3>5. Reads' \subseteq Reads \cup {new}
      BY <3>1, <3>2, <3>4, ReadsOf
    <3> QED  BY <3>3, <3>4, <3>5, ReadsGrow
  <2>3. CASE Reconcile(x)
    <3>1. row' \in Reads
      BY <2>3, RowIsRead
    <3>2. PICK s : session' = [session EXCEPT ![x] = s]
      BY <1>7, StepBecomes DEF Becomes
    <3>3. session'[x] = s
      BY <1>0, <3>2
    <3>4. session'[x].read \in {session[x].read, NoRow}
      BY <1>0, <2>0, <2>3 DEF Reconcile, Drop, Enter, Idle, SessionRecord
    <3> QED  BY <1>2, <3>1, <3>2, <3>3, <3>4
  <2> QED  BY <1>7, <2>1, <2>2, <2>3 DEF RunWithStorage
<1>8. CASE \E a \in UserAccounts : TrackUserAccount(a)
  BY <1>1, <1>8 DEF TrackUserAccount
<1>9. CASE UNCHANGED vars \/ (AccountsNext /\ UNCHANGED <<tableVars, session>>)
  BY <1>1, <1>9 DEF vars, tableVars
<1>10. "writer" \in Processes /\ "smoke" \in Processes
  BY DEF Processes
<1> QED  BY <1>5, <1>6, <1>7, <1>8, <1>9, <1>10 DEF Next, Writer

-----------------------------------------------------------------------------
(***************************************************************************)
(* A ready writer.                                                         *)
(***************************************************************************)

\* The last read of a session is of the Market's rollup, and the row of a ready writer
\* is of one too.
ReadsOfRollups ==
  /\ \A x \in Processes : Phase(x) = "applying_er" => session[x].read.source \in Rollups
  /\ Phase("writer") = "live" =>
       row.source \in Rollups /\ session["writer"].read.source \in Rollups

Ready == ReadsOfRollups /\ LiveRowIsFresh

\* The command's reconciliation puts nothing older over the row.
LEMMA RowStaysFresh ==
  ASSUME Typed, ReadsHold, NEW read, read \in Reads, row' = RowAfter(read),
         row.source \in Rollups
  PROVE  row'.source = row.source /\ row'.version >= row.version
<1>1. row \in RowRecord /\ read \in RowRecord /\ row \in Reads
  BY ReadsTyped DEF Reads
<1>2. InOrder(row, read)
  BY <1>1 DEF ReadsHold
<1>3. row.source # None /\ row.source # Base
  BY SessionAssumption, AccountsAssumption DEF Layers
<1>4. row' = row \/ (row' = read /\ row.source = read.source /\ row.slot <= read.slot)
  BY <1>1, <1>3 DEF RowAfter, RowRecord
<1> QED  BY <1>1, <1>2, <1>3, <1>4 DEF InOrder, RowRecord

\* The writer's own last reconciliation leaves a row at least as new as what it read.
LEMMA LastReconciliation ==
  ASSUME Typed, ReadsHold, NEW read, read \in Reads, row' = RowAfter(read),
         read.source \in Rollups
  PROVE  /\ row'.source \in Rollups
         /\ row'.source = read.source => row'.version >= read.version
<1>1. row \in RowRecord /\ read \in RowRecord /\ row \in Reads
  BY ReadsTyped DEF Reads
<1>2. InOrder(read, row)
  BY <1>1 DEF ReadsHold
<1>3. read.source # None /\ read.source # Base
  BY SessionAssumption, AccountsAssumption DEF Layers
<1>4. CASE row' = read
  BY <1>1, <1>4 DEF RowRecord
<1>5. CASE row' = row /\ row' # read
  <2>1. row.source # None /\ row.source # Base
        /\ (row.source = read.source => read.slot <= row.slot)
    BY <1>1, <1>3, <1>5 DEF RowAfter, RowRecord
  <2>2. row.source \in Rollups
    BY <1>1, <2>1 DEF RowRecord, Layers
  <2> QED  BY <1>1, <1>2, <1>3, <1>5, <2>1, <2>2 DEF InOrder, RowRecord
<1> QED  BY <1>4, <1>5 DEF RowAfter

\* A step that changes neither the row nor a read, and makes nobody ready.
LEMMA QuietStep ==
  ASSUME Typed, Ready, NEW x \in Processes, NEW s, session' = [session EXCEPT ![x] = s],
         row' = row,
         s.phase = "applying_er" => s.read.source \in Rollups,
         x = "writer" => s.phase # "live"
  PROVE  Ready'
<1>1. session \in [Processes -> SessionRecord] /\ "writer" \in Processes
  BY DEF Typed, Shapes, Processes
<1>2. session'[x] = s /\ \A y \in Processes : y # x => session'[y] = session[y]
  BY <1>1
<1>3. ReadsOfRollups'
  BY <1>1, <1>2 DEF Ready, ReadsOfRollups, Phase
<1>4. LiveRowIsFresh'
  BY <1>1, <1>2 DEF Ready, LiveRowIsFresh, Phase
<1> QED  BY <1>3, <1>4 DEF Ready

\* Every step keeps a ready writer's row fresh: it stays, or one that is no older replaces it.
LEMMA NextReady == Typed /\ ReadsHold /\ Ready /\ [Next]_vars => Ready'
<1> SUFFICES ASSUME Typed, ReadsHold, Ready, [Next]_vars PROVE Ready'
  OBVIOUS
<1>0. /\ session \in [Processes -> SessionRecord]
      /\ "writer" \in Processes /\ "smoke" \in Processes /\ "writer" # "smoke"
  BY DEF Typed, Shapes, Processes
<1>1. ASSUME UNCHANGED <<row, session>> PROVE Ready'
  BY <1>1 DEF Ready, ReadsOfRollups, LiveRowIsFresh, Phase
<1>2. ASSUME NEW x \in Processes, Drop(x), row' = row PROVE Ready'
  <2>1. Idle.phase = "idle"
    BY DEF Idle
  <2> QED  BY <1>2, <2>1, QuietStep DEF Drop
<1>3. CASE Connect \/ FailWriter \/ RouteChanged \/ FailSmoke
  <2>1. CASE Connect
    <3> DEFINE s == [session["writer"] EXCEPT !.phase = "catching_up",
                                              !.source = Route(MarketAccount)]
    <3>1. session' = [session EXCEPT !["writer"] = s] /\ row' = row
      BY <1>0, <2>1 DEF Connect, tableVars
    <3>2. s.phase = "catching_up"
      BY <1>0 DEF SessionRecord
    <3> QED  BY <1>0, <3>1, <3>2, QuietStep
  <2>2. CASE FailWriter
    <3>1. Failed.phase = "failed"
      BY IdleTyped
    <3>2. session' = [session EXCEPT !["writer"] = Failed] /\ row' = row
      BY <2>2 DEF FailWriter, tableVars
    <3> QED  BY <1>0, <3>1, <3>2, QuietStep
  <2>3. CASE RouteChanged \/ FailSmoke
    BY <1>0, <1>2, <2>3 DEF RouteChanged, FailSmoke, tableVars
  <2> QED  BY <1>3, <2>1, <2>2, <2>3
<1>4. ASSUME NEW x \in Processes, RunWithStorage(x) PROVE Ready'
  <2>0. session[x] \in SessionRecord
    BY <1>0
  <2>1. PICK s : Becomes(x, s)
    BY <1>4, StepBecomes
  <2>2. session'[x] = s /\ session' = [session EXCEPT ![x] = s]
    BY <1>0, <2>1 DEF Becomes
  <2>3. CASE ResolveMarket(x) \/ ResolveAccount(x) \/ PersistMarket(x) \/ LoadTracked(x) \/ PersistAccount(x)
    <3>1. row' = row
      BY <2>3 DEF ResolveMarket, ResolveAccount, PersistMarket, LoadTracked, PersistAccount,
                  tableVars
    <3>2. session'[x].phase \in {"idle", "persisting", "loading", "routing", "reading_base"}
      <4>1. CASE Drop(x)
        BY <1>0, <4>1 DEF Drop, Idle
      <4>2. CASE ~Drop(x) /\ (LoadTracked(x) \/ PersistAccount(x))
        <5>1. PICK todo, astray : RouteNext(x, todo, astray)
          BY <4>2 DEF LoadTracked, PersistAccount
        <5>2. NextPhase(todo, astray) \in {"idle", "routing", "reading_base"}
          BY DEF NextPhase
        <5>3. session'[x].phase = NextPhase(todo, astray)
          BY <1>0, <2>0, <4>2, <5>1 DEF RouteNext, SessionRecord
        <5> QED  BY <5>2, <5>3
      <4>3. CASE ~Drop(x) /\ (ResolveMarket(x) \/ ResolveAccount(x) \/ PersistMarket(x))
        BY <1>0, <2>0, <4>3 DEF ResolveMarket, ResolveAccount, PersistMarket, SessionRecord
      <4> QED  BY <2>3, <4>1, <4>2, <4>3
    <3> QED  BY <2>2, <3>1, <3>2, QuietStep
  <2>4. CASE ReadAccounts(x)
    <3>1. row' = row
      BY <2>4 DEF ReadAccounts, tableVars
    <3> DEFINE from == IF Phase(x) = "reading_base" THEN Base ELSE session[x].er
    <3>2. /\ session'[x].phase = IF from = Base THEN "applying_base" ELSE "applying_er"
          /\ session'[x].read.source = from
      BY <1>0, <2>0, <2>4 DEF ReadAccounts, SessionRecord
    <3>3. from \in Layers
      BY <2>4 DEF ReadAccounts, Typed, TypeOK, SessionTypeOK, Phase, Endpoints, Layers
    <3>4. session'[x].phase = "applying_er" => session'[x].read.source \in Rollups
      BY <3>2, <3>3 DEF Layers
    <3>5. session'[x].phase # "live"
      BY <3>2
    <3> QED  BY <2>2, <3>1, <3>4, <3>5, QuietStep
  <2>5. CASE Reconcile(x)
    <3> DEFINE read == session[x].read
    <3>1. row' = RowAfter(read) /\ read \in Reads /\ Phase(x) \in {"applying_base", "applying_er"}
      BY <2>5 DEF Reconcile, Reads
    <3>2. CASE x = "writer"
      <4>1. \A y \in Processes : y # "writer" => session'[y] = session[y]
        BY <1>0, <2>2, <3>2
      <4>2. CASE Phase(x) = "applying_base"
        <5>1. session'[x].phase = "reading_er"
          BY <1>0, <2>0, <2>5, <4>2 DEF Reconcile, SessionRecord
        <5> QED
          BY <1>0, <3>2, <4>1, <5>1 DEF Ready, ReadsOfRollups, LiveRowIsFresh, Phase
      <4>3. CASE Phase(x) = "applying_er"
        <5>1. session'[x].phase = "live" /\ session'[x].read = read
          BY <1>0, <2>0, <2>5, <3>2, <4>3 DEF Reconcile, Enter, SessionRecord
        <5>2. read.source \in Rollups
          BY <4>3 DEF Ready, ReadsOfRollups
        <5>3. /\ row'.source \in Rollups
              /\ row'.source = read.source => row'.version >= read.version
          BY <3>1, <5>2, LastReconciliation
        <5> QED
          BY <1>0, <3>2, <4>1, <5>1, <5>2, <5>3
          DEF Ready, ReadsOfRollups, LiveRowIsFresh, Phase
      <4> QED  BY <3>1, <4>2, <4>3
    <3>3. CASE x = "smoke"
      <4>1. session'["writer"] = session["writer"]
        BY <1>0, <2>2, <3>3
      <4>2. session'[x].phase \in {"reading_er", "reading_base", "idle"}
        BY <1>0, <2>0, <2>5, <3>3 DEF Reconcile, Drop, Idle, SessionRecord
      <4>3. CASE Phase("writer") # "live"
        BY <1>0, <3>3, <4>1, <4>2, <4>3
        DEF Ready, ReadsOfRollups, LiveRowIsFresh, Phase, Processes
      <4>4. CASE Phase("writer") = "live"
        <5> DEFINE own == session["writer"].read
        <5>1. row.source \in Rollups /\ own.source \in Rollups
          BY <4>4 DEF Ready, ReadsOfRollups
        <5>2. row'.source = row.source /\ row'.version >= row.version
          BY <3>1, <5>1, RowStaysFresh
        <5>3. row.source = own.source => row.version >= own.version
          BY <4>4 DEF Ready, LiveRowIsFresh
        <5>4. row'.version \in Nat /\ row.version \in Nat /\ own.version \in Nat
          <6>1. row \in Reads /\ own \in Reads /\ row' \in Reads
            BY <1>0, <3>1 DEF Reads, RowAfter
          <6> QED  BY <6>1, ReadsTyped DEF RowRecord
        <5>5. row'.source = own.source => row'.version >= own.version
          BY <5>2, <5>3, <5>4
        <5> HIDE DEF own
        <5>6. ReadsOfRollups'
          BY <1>0, <3>3, <4>1, <4>2, <5>1, <5>2 DEF Ready, ReadsOfRollups, Phase, Processes
        <5>7. LiveRowIsFresh'
          BY <4>1, <5>5 DEF LiveRowIsFresh, own
        <5> QED  BY <5>6, <5>7 DEF Ready
      <4> QED  BY <4>3, <4>4
    <3> QED  BY <3>2, <3>3 DEF Processes
  <2> QED  BY <1>4, <2>3, <2>4, <2>5 DEF RunWithStorage
<1>5. CASE \E a \in UserAccounts : TrackUserAccount(a)
  BY <1>1, <1>5 DEF TrackUserAccount
<1>6. CASE UNCHANGED vars \/ (AccountsNext /\ UNCHANGED <<tableVars, session>>)
  BY <1>1, <1>6 DEF vars, tableVars
<1> QED  BY <1>0, <1>3, <1>4, <1>5, <1>6 DEF Next, Writer

\* Before anything was read, and before the Market is delegated anywhere.
LEMMA InitReady == Init => ReadsHold /\ Ready
<1> SUFFICES ASSUME Init PROVE ReadsHold /\ Ready
  OBVIOUS
<1>1. \A a \in Reads : a = NoRow
  BY DEF Init, Reads, Idle
<1>2. CopiesBehind
  BY SessionAssumption DEF Init, AccountsInit, CopiesBehind
<1>3. ReadsHold
  BY <1>1, <1>2 DEF ReadsHold, Held, InOrder, NoRow
<1>4. Ready
  BY DEF Init, Ready, ReadsOfRollups, LiveRowIsFresh, Phase, Idle, Processes
<1> QED  BY <1>3, <1>4

\* A ready writer shows a Market at least as new as the one its session read from the
\* rollup, whatever the command reconciles and whatever a session before it read.
THEOREM ReadyMeansFresh == Spec => []LiveRowIsFresh
<1>1. Spec => []ReadsHold
  BY InitReady, NextReads, AlwaysTyped, PTL DEF Spec
<1>2. Ready => LiveRowIsFresh
  BY DEF Ready
<1> QED  BY InitReady, NextReady, AlwaysTyped, <1>1, <1>2, PTL DEF Spec
=============================================================================
