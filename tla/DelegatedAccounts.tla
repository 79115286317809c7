-------------------------- MODULE DelegatedAccounts --------------------------
(***************************************************************************)
(* Where the program's accounts are: absent, on the base layer, or         *)
(* delegated to a rollup, and which instructions that allows.  A Market    *)
(* and a user's UserPositions and UserLiquidity are created on the base    *)
(* layer and delegated each by an instruction of its own, to a validator   *)
(* the caller names; an instruction on a rollup can change only accounts   *)
(* delegated to that rollup.                                               *)
(*                                                                         *)
(* What the accounts hold is kept to what decides where they may go: the   *)
(* Markets in which a UserLiquidity has shares, those in which a           *)
(* UserPositions has open positions, and of a Market how often it has been *)
(* changed.  PredictionMarket has the amounts.                             *)
(*                                                                         *)
(* A definition named as UndelegateUserLiquidity_Unchecked is a mutant, as *)
(* in SettlementMath.                                                      *)
(***************************************************************************)
EXTENDS Integers, FiniteSets

CONSTANTS
  Markets,
  Users,
  Rollups,                         \* validators an account may be delegated to
  MarketRollups,                   \* those the authority delegates Markets to
  Base,                            \* the base layer
  Absent,                          \* where an account is that was never created
  USER_LIQUIDITY_MARKET_CAPACITY,  \* entries in a UserLiquidity
  MAX_OPERATIONS                   \* bound: instructions on the rollups, and migrations

ASSUME AccountsAssumption ==
  /\ MarketRollups \subseteq Rollups
  /\ Base \notin Rollups /\ Absent \notin Rollups \cup {Base}
  /\ USER_LIQUIDITY_MARKET_CAPACITY \in Nat
  /\ MAX_OPERATIONS \in Nat

Layers == Rollups \cup {Base}

VARIABLES
  configured,           \* the ProtocolConfig exists
  market_at,            \* where each Market is
  positions_at,         \* where each user's UserPositions is
  liquidity_at,         \* where each user's UserLiquidity is
  open_in,              \* the Markets in which a user has open positions
  shares_in,            \* the Markets in which a user has shares
  version, committed,   \* changes of a Market: made, and seen by the base layer
  slot,                 \* steps each layer has taken
  emitted,              \* per rollup, the user accounts its events have named
  operations            \* instructions on the rollups, and migrations

placeVars   == <<configured, market_at, positions_at, liquidity_at>>
holdingVars == <<open_in, shares_in>>
accountVars ==
  <<placeVars, holdingVars, version, committed, slot, emitted, operations>>

\* A user's accounts, as the indexer tracks them.
UserAccounts == {"user_positions", "user_liquidity"} \X Users

AccountsInit ==
  /\ configured = FALSE
  /\ market_at = [m \in Markets |-> Absent]
  /\ positions_at = [u \in Users |-> Absent]
  /\ liquidity_at = [u \in Users |-> Absent]
  /\ open_in = [u \in Users |-> {}] /\ shares_in = [u \in Users |-> {}]
  /\ version = [m \in Markets |-> 0] /\ committed = [m \in Markets |-> 0]
  /\ slot = [l \in Layers |-> 0]
  /\ emitted = [r \in Rollups |-> {}]
  /\ operations = 0

(***************************************************************************)
(* On the base layer: creation and delegation.                             *)
(***************************************************************************)

InitializeProtocolConfig ==
  /\ ~configured
  /\ configured' = TRUE
  /\ UNCHANGED <<market_at, positions_at, liquidity_at, holdingVars, version, committed,
                 slot, emitted, operations>>

\* init: the account must not exist yet.
InitializeMarket(m) ==
  /\ configured
  /\ market_at[m] = Absent
  /\ market_at' = [market_at EXCEPT ![m] = Base]
  /\ UNCHANGED <<configured, positions_at, liquidity_at, holdingVars, version, committed,
                 slot, emitted, operations>>

\* init_if_needed; on an account already on the base layer the handler changes
\* nothing, and a delegated one has another owner and fails the check of its type.
InitializeUserPositions(u) ==
  /\ positions_at[u] = Absent
  /\ positions_at' = [positions_at EXCEPT ![u] = Base]
  /\ UNCHANGED <<configured, market_at, liquidity_at, holdingVars, version, committed,
                 slot, emitted, operations>>

InitializeUserLiquidity(u) ==
  /\ liquidity_at[u] = Absent
  /\ liquidity_at' = [liquidity_at EXCEPT ![u] = Base]
  /\ UNCHANGED <<configured, market_at, positions_at, holdingVars, version, committed,
                 slot, emitted, operations>>

\* The authority of the configuration signs and names the validator.
DelegateMarket(m, r) ==
  /\ configured
  /\ r \in MarketRollups
  /\ market_at[m] = Base
  /\ market_at' = [market_at EXCEPT ![m] = r]
  /\ UNCHANGED <<configured, positions_at, liquidity_at, holdingVars, version, committed,
                 slot, emitted, operations>>

\* The caller names the validator; nothing compares it with where the Market is.
DelegateUserPositions(u, r) ==
  /\ positions_at[u] = Base
  /\ positions_at' = [positions_at EXCEPT ![u] = r]
  /\ UNCHANGED <<configured, market_at, liquidity_at, holdingVars, version, committed,
                 slot, emitted, operations>>

DelegateUserLiquidity(u, r) ==
  /\ liquidity_at[u] = Base
  /\ liquidity_at' = [liquidity_at EXCEPT ![u] = r]
  /\ UNCHANGED <<configured, market_at, positions_at, holdingVars, version, committed,
                 slot, emitted, operations>>

(***************************************************************************)
(* On a rollup.                                                            *)
(***************************************************************************)

Operation ==
  /\ operations < MAX_OPERATIONS
  /\ operations' = operations + 1

\* An instruction on rollup r.
Operate(r) ==
  /\ Operation
  /\ slot' = [slot EXCEPT ![r] = @ + 1]

\* A change of what the base layer has, and with it of the copies other layers serve.
EverySlot == slot' = [l \in Layers |-> slot[l] + 1]

\* An instruction on rollup r that changes Market m and names the account in an event.
Trade(m, r, account) ==
  /\ r \in Rollups
  /\ market_at[m] = r
  /\ Operate(r)
  /\ version' = [version EXCEPT ![m] = @ + 1]
  /\ emitted' = [emitted EXCEPT ![r] = @ \cup {account}]
  /\ UNCHANGED <<placeVars, committed>>

IsNoRisk(m) == \A u \in Users : m \notin open_in[u]

\* market_or_insert_mut: an entry for the Market, or room for one.
DepositLiquidity(u, m) ==
  /\ IsNoRisk(m)
  /\ m \in shares_in[u] \/ Cardinality(shares_in[u]) < USER_LIQUIDITY_MARKET_CAPACITY
  /\ Trade(m, liquidity_at[u], <<"user_liquidity", u>>)
  /\ shares_in' = [shares_in EXCEPT ![u] = @ \cup {m}]
  /\ UNCHANGED open_in

\* With the last shares remove_empty_market removes the entry.
ExecuteWithdrawal(u, m) ==
  /\ IsNoRisk(m)
  /\ m \in shares_in[u]
  /\ Trade(m, liquidity_at[u], <<"user_liquidity", u>>)
  /\ \E left \in SUBSET {m} : shares_in' = [shares_in EXCEPT ![u] = (@ \ {m}) \cup left]
  /\ UNCHANGED open_in

\* The shares the pool needs may be those of providers that are not in Users.
OpenPosition(u, m) ==
  /\ Trade(m, positions_at[u], <<"user_positions", u>>)
  /\ open_in' = [open_in EXCEPT ![u] = @ \cup {m}]
  /\ UNCHANGED shares_in

\* The user's last position in the Market, or one of several.  The event of a settlement
\* names no account; the one it would name is known.
SettlePosition(u, m) ==
  /\ m \in open_in[u]
  /\ Trade(m, positions_at[u], <<"user_positions", u>>)
  /\ \E left \in SUBSET {m} : open_in' = [open_in EXCEPT ![u] = (@ \ {m}) \cup left]
  /\ UNCHANGED shares_in

UndelegateUserLiquidity_Unchecked(u) ==
  /\ liquidity_at[u] \in Rollups
  /\ Operate(liquidity_at[u])
  /\ liquidity_at' = [liquidity_at EXCEPT ![u] = Base]
  /\ UNCHANGED <<configured, market_at, positions_at, holdingVars, version, committed,
                 emitted>>

\* require_empty, then commit and undelegate.  No instruction undelegates a Market or
\* a UserPositions.
UndelegateUserLiquidity(u) ==
  /\ liquidity_at[u] \in Rollups
  /\ shares_in[u] = {}
  /\ Operate(liquidity_at[u])
  /\ liquidity_at' = [liquidity_at EXCEPT ![u] = Base]
  /\ UNCHANGED <<configured, market_at, positions_at, holdingVars, version, committed,
                 emitted>>

(***************************************************************************)
(* What the validators and operators do, outside the program.              *)
(***************************************************************************)

\* The rollup commits its copy of a Market, every commit_frequency_ms.
Commit(m) ==
  /\ market_at[m] \in Rollups
  /\ committed[m] # version[m]
  /\ committed' = [committed EXCEPT ![m] = version[m]]
  /\ EverySlot
  /\ UNCHANGED <<placeVars, holdingVars, version, emitted, operations>>

\* A rollup is replaced by another: its Markets move, committed, and with them the
\* users' accounts that hold something there.  An empty account stays where it is.
Migrate(r, s) ==
  LET moved(at, holding) ==
        [x \in DOMAIN at |-> IF at[x] = r /\ holding[x] # {} THEN s ELSE at[x]]
  IN  /\ Operation
      /\ r # s
      /\ \E m \in Markets : market_at[m] = r
      /\ market_at' = [m \in Markets |-> IF market_at[m] = r THEN s ELSE market_at[m]]
      /\ positions_at' = moved(positions_at, open_in)
      /\ liquidity_at' = moved(liquidity_at, shares_in)
      /\ committed' = [m \in Markets |-> IF market_at[m] = r THEN version[m] ELSE committed[m]]
      /\ EverySlot
      /\ UNCHANGED <<configured, holdingVars, version, emitted>>

AccountsNext ==
  \/ InitializeProtocolConfig
  \/ \E m \in Markets : InitializeMarket(m) \/ Commit(m)
  \/ \E m \in Markets, r \in Rollups : DelegateMarket(m, r)
  \/ \E u \in Users :
       InitializeUserPositions(u) \/ InitializeUserLiquidity(u) \/ UndelegateUserLiquidity(u)
  \/ \E u \in Users, r \in Rollups : DelegateUserPositions(u, r) \/ DelegateUserLiquidity(u, r)
  \/ \E u \in Users, m \in Markets :
       DepositLiquidity(u, m) \/ ExecuteWithdrawal(u, m) \/ OpenPosition(u, m) \/ SettlePosition(u, m)
  \/ \E r, s \in Rollups : Migrate(r, s)

AccountsSpec == AccountsInit /\ [][AccountsNext]_accountVars

-----------------------------------------------------------------------------
(***************************************************************************)
(* Properties.                                                             *)
(***************************************************************************)

Places == Layers \cup {Absent}

AccountsTypeOK ==
  /\ configured \in BOOLEAN
  /\ market_at \in [Markets -> Places]
  /\ positions_at \in [Users -> Places]
  /\ liquidity_at \in [Users -> Places]
  /\ open_in \in [Users -> SUBSET Markets]
  /\ shares_in \in [Users -> SUBSET Markets]
  /\ version \in [Markets -> Nat] /\ committed \in [Markets -> Nat]
  /\ slot \in [Layers -> Nat]
  /\ emitted \in [Rollups -> SUBSET UserAccounts]
  /\ operations \in 0..MAX_OPERATIONS

\* What a user owns stays within reach: shares and open positions of a Market are in
\* accounts delegated to the rollup that Market is on, so that the withdrawal and the
\* settlement can still be executed there, through undelegations, delegations to
\* another validator and migrations.
HoldingsWithinReach ==
  \A u \in Users :
    /\ \A m \in shares_in[u] : market_at[m] \in Rollups /\ liquidity_at[u] = market_at[m]
    /\ \A m \in open_in[u] : market_at[m] \in Rollups /\ positions_at[u] = market_at[m]
=============================================================================
