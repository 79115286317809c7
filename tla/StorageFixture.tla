--------------------------- MODULE StorageFixture ---------------------------
(***************************************************************************)
(* The indexer's replay and recovery fixtures and the test of its log      *)
(* parser, put to IndexerStorage: what they store, and what they ensure of *)
(* the tables afterwards.                                                  *)
(***************************************************************************)
EXTENDS Integers, Sequences, FiniteSets

CONSTANT None

S == INSTANCE IndexerStorage WITH I64_MAX <- 2000000000

Rows(table) == Cardinality(DOMAIN table)

(***************************************************************************)
(* fixture.rs: eight transactions of one source, each with one event.      *)
(***************************************************************************)

FixtureSource == [id |-> 1, network |-> "fixture"]

Event(index, event) ==
  [source |-> FixtureSource, program |-> "program", signature |-> index, slot |-> index,
   time |-> index, path |-> index, cursor |-> "fixture", value |-> index, event |-> event]

FixtureEvents ==
  << Event(1, [variant |-> "position_created", market |-> 1, position |-> 7, user |-> "USER",
               entry_price |-> 100000, collateral |-> 1000000, direction |-> "up",
               expires |-> 10]),
     Event(2, [variant |-> "position_closed", market |-> 1, position |-> 7, outcome |-> "won",
               payout |-> 1900000, lp_fee |-> 80000, platform_fee |-> 20000]),
     Event(3, [variant |-> "liquidity_deposited", market |-> 1, user |-> "USER",
               assets |-> 100000000, shares |-> 100000000]),
     Event(4, [variant |-> "withdrawal_requested", market |-> 1, user |-> "USER",
               shares |-> 10000000, min_assets |-> 9000000]),
     Event(5, [variant |-> "withdrawal_executed", market |-> 1, user |-> "USER",
               shares |-> 10000000, assets |-> 10000000]),
     Event(6, [variant |-> "protocol_fees_withdrawn", market |-> 1,
               destination |-> "DESTINATION", assets |-> 20000]),
     Event(7, [variant |-> "fallback_payout_claimed", user |-> "USER",
               destination |-> "DESTINATION", assets |-> 50000]),
     Event(8, [variant |-> "withdrawal_cancelled", market |-> 1, user |-> "USER",
               shares |-> 1]) >>

ApplyOne(db, o) == S!Applied(db, <<o>>)

Pass(db) ==
  S!WithMarketSnapshot(S!FoldLeft(ApplyOne, db, FixtureEvents),
    FixtureSource, "program", 1, "market", 9, "fixture-market-pool-hash", 90000000, 90000000)

\* replay: two passes leave what one does.
ReplayAgrees ==
  LET db       == Pass(Pass(S!EmptyDatabase))
      market   == db.markets[<<"fixture", "program", 1>>]
      history  == S!UserPositionHistory(db, "fixture", "program", 1, "USER")
      position == CHOOSE p \in history : TRUE
  IN  /\ db = Pass(S!EmptyDatabase)
      /\ Rows(db.transactions) = 8 /\ Rows(db.instructions) = 8
      /\ Rows(db.positions) = 1
      /\ Rows(db.liquidity_events) = 4 /\ Rows(db.fee_events) = 2
      /\ Rows(db.account_observations) = 1
      /\ market.balance = 90000000 /\ market.shares = 90000000
      /\ db.sync_cursors[<<1, "fixture">>].value = 8
      /\ Cardinality(history) = 1
      /\ position.status = "settled" /\ position.outcome = "won"
      /\ S!NetPnl(position) = 900000 /\ S!TotalFee(position) = 100000
      /\ position.lp_fee = 80000 /\ position.platform_fee = 20000

\* record_legacy_transaction: two partial transactions and no position.
LegacyAgrees ==
  LET record(db, signature) ==
        S!WithLegacyTransaction(db, [id |-> 2, network |-> "devnet"], signature, 0, None)
      db == S!FoldLeft(record, S!EmptyDatabase, <<"legacy_open", "legacy_settlement">>)
  IN  /\ \A k \in DOMAIN db.transactions : db.transactions[k].partial
      /\ Rows(db.transactions) = 2 /\ Rows(db.positions) = 0

(***************************************************************************)
(* recovery.rs.                                                            *)
(***************************************************************************)

RecoveryObservation ==
  [source |-> [id |-> 1, network |-> "recovery"], program |-> "program",
   signature |-> "recovery-position-signature", slot |-> 101, time |-> None,
   path |-> "log/0", cursor |-> "transactions", value |-> "recovery-position-signature",
   event |-> [variant |-> "position_created", market |-> 1, position |-> 1, user |-> "42",
              entry_price |-> 100000, collateral |-> 1000000, direction |-> "up",
              expires |-> 100]]

\* verify.  (What is rolled back leaves no trace: the operators are whole transactions.)
RecoveryAgrees ==
  LET letter(db, n) == S!WithDeadLetter(db, [id |-> 1, network |-> "recovery"],
                                        "dead-letter-signature", "log/1", "unknown_discriminator")
      letters == S!FoldLeft(letter, S!EmptyDatabase, <<1, 2>>).dead_letters
      move(cursors, to) == S!CursorsAfter(cursors, <<to[1], "ordering">>, to[2], to[2])
      cursors == S!FoldLeft(move, <<>>, << <<1, 100>>, <<1, 99>>, <<2, 100>> >>)
      once == ApplyOne(S!EmptyDatabase, RecoveryObservation)
  IN  /\ Rows(letters) = 1 /\ \A k \in DOMAIN letters : letters[k].attempts = 2
      /\ cursors[<<1, "ordering">>].slot = 100 /\ cursors[<<2, "ordering">>].slot = 100
      /\ ApplyOne(once, RecoveryObservation) = once /\ Rows(once.positions) = 1

(***************************************************************************)
(* The tests of ingest.rs.                                                 *)
(***************************************************************************)

Line(kind, program, data) == [kind |-> kind, program |-> program, data |-> data]

\* recovery_only_collects_target_program_data and the tests of decode_event.
ParserAgrees ==
  /\ S!ProgramDataLogs(
       << Line("invoke", "target", ""), Line("invoke", "Other", ""), Line("data", "", "foreign"),
          Line("end", "Other", ""), Line("data", "", "owned"), Line("end", "target", "") >>,
       "target") = << <<5, "owned">> >>
  /\ S!DecodeEvent([discriminated |-> TRUE, variant |-> "legacy", whole |-> TRUE])
       = [err |-> "unknown_discriminator"]
  /\ S!DecodeEvent([discriminated |-> TRUE, variant |-> "position_created", whole |-> FALSE])
       = [err |-> "malformed_payload"]

\* An amount the column cannot hold keeps the whole transaction, and the cursor, out.
TooLargeIsRefused ==
  LET o == Event(3, [variant |-> "liquidity_deposited", market |-> 1, user |-> "USER",
                     assets |-> 2000000001, shares |-> 1])
  IN  ApplyOne(S!EmptyDatabase, o) = S!EmptyDatabase

ASSUME FixturesAgree ==
  ReplayAgrees /\ LegacyAgrees /\ RecoveryAgrees /\ ParserAgrees /\ TooLargeIsRefused
=============================================================================
