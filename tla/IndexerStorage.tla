--------------------------- MODULE IndexerStorage ---------------------------
(***************************************************************************)
(* What one call of the indexer's storage does to the database: a table is *)
(* a function from the primary key to the rest of the row, and each upsert *)
(* an operator on its table.  IndexerIngest has the order of the calls and *)
(* the position row reduced to three fields; here the rows are whole, and  *)
(* the liquidity, fee, tracked-account and snapshot tables are there too.  *)
(*                                                                         *)
(* None is SQL's NULL.  An observation is a record [source, program,       *)
(* signature, slot, time, path, cursor, value, event]; its source is       *)
(* [id, network], its event has the field variant and those of the         *)
(* variant, which are the program's.  Left out: event_contract_version,    *)
(* the same for all these rows, and the columns that say when a row was    *)
(* written.                                                                *)
(***************************************************************************)
EXTENDS Integers, Sequences, SequencesExt

CONSTANTS
  None,
  I64_MAX      \* the largest BIGINT

\* The tables of one database.
EmptyDatabase ==
  [transactions |-> <<>>, instructions |-> <<>>, positions |-> <<>>, liquidity_events |-> <<>>,
   fee_events |-> <<>>, tracked_accounts |-> <<>>, sync_cursors |-> <<>>,
   dead_letters |-> <<>>, account_observations |-> <<>>, markets |-> <<>>]

\* INSERT ... ON CONFLICT DO UPDATE, to this row in either case.
Upserted(table, key, row) ==
  [k \in DOMAIN table \cup {key} |-> IF k = key THEN row ELSE table[k]]

\* INSERT ... ON CONFLICT DO NOTHING.
InsertedOnce(table, key, row) ==
  IF key \in DOMAIN table THEN table ELSE Upserted(table, key, row)

GREATEST(a, b) == IF a >= b THEN a ELSE b

(***************************************************************************)
(* The logs of a transaction.                                              *)
(***************************************************************************)

\* A line is a record [kind, program, data]: an invocation, the end of one, the data of
\* an event, or another.  What another program says, inside the target's invocation or
\* around it, is not the target's.
ProgramDataLogs(logs, target) ==
  LET Read(seen, index) ==
        LET line  == logs[index]
            stack == seen.stack
        IN  CASE line.kind = "invoke" -> [seen EXCEPT !.stack = Append(stack, line.program)]
              [] line.kind = "end"    -> [seen EXCEPT !.stack = IF stack = <<>> THEN stack
                                                                ELSE Front(stack)]
              [] line.kind = "data" /\ stack # <<>> /\ Last(stack) = target ->
                   [seen EXCEPT !.found = Append(@, <<index, line.data>>)]
              [] OTHER -> seen
  IN  FoldLeft(Read, [stack |-> <<>>, found |-> <<>>], [i \in 1..Len(logs) |-> i]).found

DomainEvents ==
  {"position_created", "position_closed", "liquidity_deposited", "withdrawal_requested",
   "withdrawal_cancelled", "withdrawal_executed", "protocol_fees_withdrawn",
   "fallback_payout_claimed"}

\* decode_event: the event of a discriminator, none for a change of the market's mode,
\* or the kind of failure its dead letter is recorded with.
DecodeEvent(data) ==
  CASE ~data.discriminated                         -> [err |-> "malformed_payload"]
    [] data.variant \notin DomainEvents \cup {"market_mode_changed"} ->
         [err |-> "unknown_discriminator"]
    [] ~data.whole                                 -> [err |-> "malformed_payload"]
    [] data.variant = "market_mode_changed"        -> [ok |-> None]
    [] OTHER                                       -> [ok |-> data.event]

(***************************************************************************)
(* The raw rows.                                                           *)
(***************************************************************************)

\* insert_raw_observation
WithRaw(db, o) ==
  [db EXCEPT
     !.transactions = InsertedOnce(@, <<o.source.id, o.signature>>,
                                   [slot |-> o.slot, time |-> o.time, partial |-> FALSE]),
     !.instructions = InsertedOnce(@, <<o.source.id, o.signature, o.path, o.event.variant>>,
                                   [program |-> o.program, payload |-> o.event])]

\* record_legacy_transaction: a transaction before v2, of which no event is kept.
WithLegacyTransaction(db, source, signature, slot, time) ==
  [db EXCEPT !.transactions = InsertedOnce(@, <<source.id, signature>>,
                                           [slot |-> slot, time |-> time, partial |-> TRUE])]

(***************************************************************************)
(* Positions.                                                              *)
(***************************************************************************)

PositionKey(o) == <<o.source.network, o.program, o.event.market, o.event.position>>

\* The columns of a row nothing has been said about.
BlankPosition ==
  [user |-> None, entry_price |-> None, collateral |-> None, direction |-> None,
   expires |-> None, opened |-> None, created_by |-> None,
   status |-> "open", outcome |-> None, payout |-> None, lp_fee |-> None,
   platform_fee |-> None, closed |-> None, closed_by |-> None,
   partial |-> FALSE, slot |-> 0]

POSITION_SECONDS == 10

\* upsert_position_created.  The columns of the close, and with them the status, stay.
CreatedRow(row, o) ==
  [row EXCEPT !.user = o.event.user, !.entry_price = o.event.entry_price,
              !.collateral = o.event.collateral, !.direction = o.event.direction,
              !.expires = o.event.expires, !.opened = o.event.expires - POSITION_SECONDS,
              !.created_by = <<o.source.id, o.signature>>,
              !.partial = FALSE, !.slot = GREATEST(row.slot, o.slot)]

LifecycleStatus(outcome) == IF outcome = "refunded" THEN "refunded" ELSE "settled"

\* The columns of upsert_position_closed, but for the closing time.
SettledRow(row, o) ==
  [row EXCEPT !.status = LifecycleStatus(o.event.outcome), !.outcome = o.event.outcome,
              !.payout = o.event.payout, !.lp_fee = o.event.lp_fee,
              !.platform_fee = o.event.platform_fee,
              !.closed_by = <<o.source.id, o.signature>>,
              !.partial = (row.user = None), !.slot = GREATEST(row.slot, o.slot)]

\* upsert_position_closed.  A row that has all of them is not written, not even to give
\* it the closing time it lacks.
ClosedRow(row, o) ==
  IF SettledRow(row, o) = row THEN row
  ELSE [SettledRow(row, o) EXCEPT !.closed = IF row.closed = None THEN o.time ELSE row.closed]

PositionBefore(table, o) ==
  IF PositionKey(o) \in DOMAIN table THEN table[PositionKey(o)]
  ELSE [BlankPosition EXCEPT !.slot = o.slot]

PositionsAfter(table, o) ==
  LET before == PositionBefore(table, o)
  IN  CASE o.event.variant = "position_created" ->
             Upserted(table, PositionKey(o), CreatedRow(before, o))
        [] o.event.variant = "position_closed" ->
             Upserted(table, PositionKey(o), ClosedRow(before, o))
        [] OTHER -> table

NetPnl(row) == IF None \in {row.payout, row.collateral} THEN None ELSE row.payout - row.collateral

TotalFee(row) ==
  IF None \in {row.lp_fee, row.platform_fee} THEN None ELSE row.lp_fee + row.platform_fee

\* user_position_history, without the order of its rows.
UserPositionHistory(db, network, program, market, user) ==
  { db.positions[k] : k \in {k \in DOMAIN db.positions :
      /\ k[1] = network /\ k[2] = program /\ k[3] = market
      /\ db.positions[k].user = user} }

(***************************************************************************)
(* Liquidity, fees and tracked accounts.                                   *)
(***************************************************************************)

LiquidityVariants ==
  {"liquidity_deposited", "withdrawal_requested", "withdrawal_cancelled", "withdrawal_executed"}

FeeVariants == {"protocol_fees_withdrawn", "fallback_payout_claimed"}

\* A column the variant does not have is NULL.
Column(event, name) == IF name \in DOMAIN event THEN event[name] ELSE None

EventKey(o) == <<o.source.id, o.signature, o.path, o.event.variant>>

\* insert_liquidity_event
LiquidityAfter(table, o) ==
  IF o.event.variant \notin LiquidityVariants THEN table
  ELSE InsertedOnce(table, EventKey(o),
         [network |-> o.source.network, program |-> o.program, market |-> o.event.market,
          user |-> o.event.user, shares |-> o.event.shares, time |-> o.time,
          assets |-> Column(o.event, "assets"),
          min_assets |-> Column(o.event, "min_assets")])

\* insert_fee_event: a fallback claim names no market, a fee withdrawal no user.
FeesAfter(table, o) ==
  IF o.event.variant \notin FeeVariants THEN table
  ELSE InsertedOnce(table, EventKey(o),
         [network |-> o.source.network, program |-> o.program, time |-> o.time,
          destination |-> o.event.destination, assets |-> o.event.assets,
          market |-> Column(o.event, "market"), user |-> Column(o.event, "user")])

AccountTypeOf(event) ==
  IF event.variant = "position_created" THEN "user_positions" ELSE "user_liquidity"

\* track_user_account: the market of the last event wins.  The address is derived from the
\* type and the user.
TrackedAfter(table, o) ==
  IF o.event.variant \notin LiquidityVariants \cup {"position_created"} THEN table
  ELSE Upserted(table, <<o.source.network, o.program, AccountTypeOf(o.event), o.event.user>>,
                o.event.market)

\* apply_projection
WithProjection(db, o) ==
  [db EXCEPT !.positions = PositionsAfter(@, o), !.liquidity_events = LiquidityAfter(@, o),
             !.fee_events = FeesAfter(@, o), !.tracked_accounts = TrackedAfter(@, o)]

(***************************************************************************)
(* Cursors and batches.                                                    *)
(***************************************************************************)

\* advance_cursor, in its three places: an older slot changes nothing.
CursorsAfter(table, key, slot, value) ==
  IF key \in DOMAIN table /\ slot < table[key].slot THEN table
  ELSE Upserted(table, key, [slot |-> slot, value |-> value])

WithCursor(db, o) ==
  [db EXCEPT !.sync_cursors = CursorsAfter(@, <<o.source.id, o.cursor>>, o.slot, o.value)]

\* One observation, with its raw rows.
Observed(db, o) == WithProjection(WithRaw(db, o), o)

\* The columns the amounts of a program's u64 are stored in hold an i64.
AmountsFit(event) ==
  \A name \in {"payout", "lp_fee", "platform_fee", "assets", "min_assets"} \cap DOMAIN event :
    event[name] <= I64_MAX

OneTransaction(batch) ==
  LET of(o) == <<o.source.id, o.signature, o.slot, o.cursor, o.value>>
  IN  \A o \in ToSet(batch) : of(o) = of(batch[1])

\* apply_batch: all of a transaction's events and the cursor, or nothing.
Applied(db, batch) ==
  IF batch = <<>> \/ ~OneTransaction(batch) \/ ~\A o \in ToSet(batch) : AmountsFit(o.event)
  THEN db
  ELSE WithCursor(FoldLeft(Observed, db, batch), batch[1])

(***************************************************************************)
(* Dead letters and snapshots.                                             *)
(***************************************************************************)

\* dead_letters::record
WithDeadLetter(db, source, signature, path, kind) ==
  LET key == <<source.id, signature, path, kind>>
  IN  [db EXCEPT !.dead_letters =
         Upserted(@, key, [attempts |-> IF key \in DOMAIN @ THEN @[key].attempts + 1 ELSE 1])]

\* record_market_snapshot, which only the replay fixture calls: unlike the reconciliation
\* it orders the rows of all sources by their slots.
WithMarketSnapshot(db, source, program, market, pubkey, slot, hash, shares, balance) ==
  LET key == <<source.network, program, market>>
      stale == key \in DOMAIN db.markets /\ slot < db.markets[key].slot
  IN  IF balance > I64_MAX THEN db
      ELSE [db EXCEPT
        !.account_observations = InsertedOnce(@, <<source.id, pubkey, slot, hash>>,
                                              [shares |-> shares, balance |-> balance]),
        !.markets = IF stale THEN @
                    ELSE Upserted(@, key, [shares |-> shares, balance |-> balance,
                                           source |-> source.id, slot |-> slot])]
=============================================================================
