---------------------------- MODULE IndexerIngest ----------------------------
(***************************************************************************)
(* The writer of the indexer: the loop of sessions that subscribes to the  *)
(* program's logs on the rollup the Market is routed to, catches up from   *)
(* the stored cursor, and then applies each notification; and the tables   *)
(* it writes, which are the cursor of each source, the raw transactions,   *)
(* the dead letters and the position projection.                           *)
(*                                                                         *)
(* A source is an endpoint, and has a chain of transactions of its own.  A *)
(* transaction is identified by its index in that chain, which is also the *)
(* order in which the RPC lists signatures.  A database transaction is one *)
(* step.  Of a position row only what events of one kind could undo of     *)
(* another is kept: whether the creation has been seen, the life cycle     *)
(* status ("closed" is settled or refunded), and the is_partial mark.      *)
(*                                                                         *)
(* A definition named as Backlog_NewestFirst is a mutant, as in            *)
(* SettlementMath.                                                         *)
(***************************************************************************)
EXTENDS Integers, Sequences, FiniteSets

CONSTANTS
  Endpoints,            \* rollup endpoints the router may answer with
  Positions,
  INDEXER_CATCHUP_LIMIT,
  CRAWL_CAP,            \* the largest number of transactions of one crawl, 10 000
  OVERLAP,              \* transactions crawled again behind the cursor
  V2_MIN_SLOT,          \* the slots before it are not decoded
  MAX_TRANSACTIONS,     \* bound: transactions landed, over all the chains
  MAX_FAILURES,         \* bound: failures of the session or its connection
  MAX_MOVES             \* bound: changes of the Market's route

ASSUME IngestAssumption ==
  /\ Endpoints # {}
  /\ INDEXER_CATCHUP_LIMIT \in Nat \ {0}   \* validate_config
  /\ CRAWL_CAP \in Nat \ {0} /\ OVERLAP \in Nat /\ V2_MIN_SLOT \in Nat
  /\ MAX_TRANSACTIONS \in Nat /\ MAX_FAILURES \in Nat /\ MAX_MOVES \in Nat

VARIABLES
  \* The chains, and where the Market is delegated
  chain, route,
  \* The session: its phase, its source, the subscription's undelivered
  \* notifications and whether it still receives any, what the catch-up has yet
  \* to apply, and whether it ended short of the cursor
  phase, source, stream, connected, backlog, short,
  \* The database
  cursor, stored, dead, rows,
  \* Counters of what the bounds bound
  failures, moves

chainVars    == <<chain, route, moves>>
sessionVars  == <<phase, source, stream, connected, backlog, short>>
databaseVars == <<cursor, stored, dead, rows>>
vars == <<chainVars, sessionVars, databaseVars, failures>>

TransactionRecord ==
  [slot : Nat, failed : BOOLEAN, created : SUBSET Positions, closed : SUBSET Positions,
   garbled : BOOLEAN]

PositionRow ==
  [opened : BOOLEAN, status : {"none", "open", "closed"}, partial : BOOLEAN]

NoRow == [opened |-> FALSE, status |-> "none", partial |-> FALSE]

Phases == {"down", "subscribed", "catching_up", "starting", "live"}

Init ==
  /\ chain = [e \in Endpoints |-> <<>>]
  /\ route \in Endpoints
  /\ phase = "down" /\ source = route
  /\ stream = <<>> /\ connected = FALSE /\ backlog = <<>> /\ short = FALSE
  /\ cursor = [e \in Endpoints |-> 0]        \* no cursor
  /\ stored = [e \in Endpoints |-> {}]
  /\ dead = [e \in Endpoints |-> {}]
  /\ rows = [p \in Positions |-> NoRow]
  /\ failures = 0 /\ moves = 0

(***************************************************************************)
(* The chain: transactions land where the Market is, in slots that do not  *)
(* decrease.  A transaction may fail, emit no event of the program, emit   *)
(* one the decoder rejects, or create and close positions.                 *)
(***************************************************************************)

Landed(e) == 1..Len(chain[e])

Mentioned(kind) == UNION {UNION {chain[e][i][kind] : i \in Landed(e)} : e \in Endpoints}

Landings ==
  LET last   == Len(chain[route])
      slot   == IF last = 0 THEN 1 ELSE chain[route][last].slot
      fresh  == Positions \ Mentioned("created")
      active == Mentioned("created") \ Mentioned("closed")
      one(S) == {{}} \cup {{p} : p \in S}
  IN  { tx \in [slot : {slot, slot + 1}, failed : BOOLEAN, created : one(fresh),
                closed : one(active), garbled : BOOLEAN] :
          /\ tx.failed => tx.created = {} /\ tx.closed = {} /\ ~tx.garbled
          /\ tx.created # {} => tx.closed = {} /\ ~tx.garbled }

TransactionCount ==
  Cardinality(UNION {{e} \X Landed(e) : e \in Endpoints})

\* The transaction reaches the RPC's history and, if the session is subscribed to
\* this endpoint, its stream.
Land ==
  /\ TransactionCount < MAX_TRANSACTIONS
  /\ \E tx \in Landings : chain' = [chain EXCEPT ![route] = Append(@, tx)]
  /\ stream' = IF connected /\ source = route
               THEN Append(stream, Len(chain[route]) + 1) ELSE stream
  /\ UNCHANGED <<route, moves, phase, source, connected, backlog, short, databaseVars, failures>>

\* The Market is delegated to another rollup.
Move ==
  /\ moves < MAX_MOVES
  /\ moves' = moves + 1
  /\ route' \in Endpoints \ {route}
  /\ UNCHANGED <<chain, sessionVars, databaseVars, failures>>

(***************************************************************************)
(* The tables.                                                             *)
(***************************************************************************)

\* The upsert of the cursor: a smaller slot never replaces a larger one, an equal
\* one does.
CursorAfter(e, i) ==
  IF cursor[e] = 0 \/ chain[e][i].slot >= chain[e][cursor[e]].slot THEN i ELSE cursor[e]

AdvanceCursor(e, i) == cursor' = [cursor EXCEPT ![e] = CursorAfter(e, i)]

RowAfterCreated_Reopens(row) == [opened |-> TRUE, status |-> "open", partial |-> FALSE]

\* upsert_position_created: on a row that is there the life cycle stays as it is.
RowAfterCreated(row) ==
  [opened |-> TRUE, partial |-> FALSE,
   status |-> IF row.status = "none" THEN "open" ELSE row.status]

RowAfterClosed_StaysPartial(row) ==
  [opened |-> row.opened, status |-> "closed", partial |-> TRUE]

\* upsert_position_closed: a close before its creation leaves a partial row.
RowAfterClosed(row) ==
  [opened |-> row.opened, status |-> "closed", partial |-> ~row.opened]

RowsAfter(tx) ==
  [p \in Positions |->
     LET row == IF p \in tx.created THEN RowAfterCreated(rows[p]) ELSE rows[p]
     IN  IF p \in tx.closed THEN RowAfterClosed(row) ELSE row]

HasEvents(tx) == tx.created # {} \/ tx.closed # {}

\* A dead letter is committed at once, before the batch it was found beside.
RecordDeadLetter(e, i) ==
  dead' = [dead EXCEPT ![e] = IF chain[e][i].garbled THEN @ \cup {i} ELSE @]

\* apply_program_logs, or only the cursor of a transaction before v2: raw rows,
\* projection and cursor are one database transaction.
Ingest(e, i) ==
  LET tx == chain[e][i]
  IN  /\ AdvanceCursor(e, i)
      /\ IF tx.slot < V2_MIN_SLOT
         THEN UNCHANGED <<stored, dead, rows>>
         ELSE /\ RecordDeadLetter(e, i)
              /\ IF HasEvents(tx)
                 THEN /\ stored' = [stored EXCEPT ![e] = @ \cup {i}]
                      /\ rows' = RowsAfter(tx)
                 ELSE UNCHANGED <<stored, rows>>

(***************************************************************************)
(* The session.                                                            *)
(***************************************************************************)

EndSession ==
  /\ phase' = "down"
  /\ stream' = <<>> /\ connected' = FALSE /\ backlog' = <<>> /\ short' = FALSE
  /\ UNCHANGED source

\* The route is resolved, then the subscription is open, before the crawl starts.
Connect ==
  /\ phase = "down"
  /\ phase' = "subscribed"
  /\ source' = route
  /\ connected' = TRUE
  /\ UNCHANGED <<chainVars, stream, backlog, short, databaseVars, failures>>

Lesser(a, b) == IF a <= b THEN a ELSE b
Larger(a, b) == IF a >= b THEN a ELSE b

CrawlMaximum == Lesser(INDEXER_CATCHUP_LIMIT, CRAWL_CAP)

OldestCrawled_PastTheStart ==
  Larger(Len(chain[source]) - CrawlMaximum + 1, cursor[source] - OVERLAP)

\* Newest first, at most the maximum; past the cursor, at most the overlap.
OldestCrawled ==
  LET bounded == Larger(1, Len(chain[source]) - CrawlMaximum + 1)
  IN  IF cursor[source] >= bounded
      THEN Larger(bounded, cursor[source] - OVERLAP) ELSE bounded

CursorFound == cursor[source] # 0 /\ cursor[source] >= OldestCrawled

Backlog_NewestFirst(first, last) == [k \in 1..(last - first + 1) |-> last - k + 1]

\* What was crawled is applied oldest first.
Backlog(first, last) == [k \in 1..(last - first + 1) |-> first + k - 1]

Crawl ==
  /\ phase = "subscribed"
  /\ phase' = "catching_up"
  /\ backlog' = Backlog(OldestCrawled, Len(chain[source]))
  /\ short' = ( /\ cursor[source] # 0
                /\ ~CursorFound
                /\ Len(backlog') >= INDEXER_CATCHUP_LIMIT )
  /\ UNCHANGED <<chainVars, source, stream, connected, databaseVars, failures>>

\* A failed transaction is passed over, and leaves the cursor where it is.
CatchUp ==
  /\ phase = "catching_up"
  /\ backlog # <<>>
  /\ IF chain[source][Head(backlog)].failed
     THEN UNCHANGED databaseVars
     ELSE Ingest(source, Head(backlog))
  /\ backlog' = Tail(backlog)
  /\ UNCHANGED <<chainVars, phase, source, stream, connected, short, failures>>

\* The check that the catch-up reached the cursor comes after it was applied.
FinishCatchUp ==
  /\ phase = "catching_up"
  /\ backlog = <<>>
  /\ IF short
     THEN EndSession
     ELSE /\ phase' = "starting"
          /\ UNCHANGED <<source, stream, connected, backlog, short>>
  /\ UNCHANGED <<chainVars, databaseVars, failures>>

GoLive_DropsBuffered ==
  /\ phase = "starting"
  /\ phase' = "live"
  /\ stream' = <<>>
  /\ UNCHANGED <<chainVars, source, connected, backlog, short, databaseVars, failures>>

\* Reconciliation of the tracked accounts and refresh of the leaderboards are over.
GoLive ==
  /\ phase = "starting"
  /\ phase' = "live"
  /\ UNCHANGED <<chainVars, source, stream, connected, backlog, short, databaseVars, failures>>

\* logs_with_storage: here a failed transaction does move the cursor.
Notify ==
  /\ phase = "live"
  /\ stream # <<>>
  /\ IF chain[source][Head(stream)].failed
     THEN AdvanceCursor(source, Head(stream)) /\ UNCHANGED <<stored, dead, rows>>
     ELSE Ingest(source, Head(stream))
  /\ stream' = Tail(stream)
  /\ UNCHANGED <<chainVars, phase, source, connected, backlog, short, failures>>

RouteChanged_Unnoticed == FALSE

\* The periodic route check finds another endpoint: the session is given up with
\* whatever its stream still holds.
RouteChanged == phase = "live" /\ route # source

StreamEnded == phase = "live" /\ ~connected /\ stream = <<>>

Leave ==
  /\ RouteChanged \/ StreamEnded
  /\ EndSession
  /\ UNCHANGED <<chainVars, databaseVars, failures>>

(***************************************************************************)
(* Failures: the connection is lost with notifications undelivered, or a   *)
(* call to the RPC, the router or the database fails, or the process is    *)
(* restarted, at any point of a session.                                   *)
(***************************************************************************)

LoseConnection ==
  /\ failures < MAX_FAILURES
  /\ failures' = failures + 1
  /\ connected
  /\ connected' = FALSE
  /\ UNCHANGED <<chainVars, phase, source, stream, backlog, short, databaseVars>>

\* The last thing a failed session may have done is to commit a dead letter.
FailSession ==
  /\ failures < MAX_FAILURES
  /\ failures' = failures + 1
  /\ phase # "down"
  /\ \/ UNCHANGED dead
     \/ /\ phase = "catching_up" /\ backlog # <<>>
        /\ chain[source][Head(backlog)].slot >= V2_MIN_SLOT
        /\ RecordDeadLetter(source, Head(backlog))
     \/ /\ phase = "live" /\ stream # <<>>
        /\ chain[source][Head(stream)].slot >= V2_MIN_SLOT
        /\ RecordDeadLetter(source, Head(stream))
  /\ EndSession
  /\ UNCHANGED <<chainVars, cursor, stored, rows>>

Session == Connect \/ Crawl \/ CatchUp \/ FinishCatchUp \/ GoLive \/ Notify \/ Leave

Next == Land \/ Move \/ Session \/ LoseConnection \/ FailSession

Spec == Init /\ [][Next]_vars

\* The loop of run() never stops retrying, and each await of a session that does
\* not fail returns.
FairSpec == Spec /\ WF_vars(Session)

-----------------------------------------------------------------------------
(***************************************************************************)
(* Properties.                                                             *)
(***************************************************************************)

TypeOK ==
  /\ chain \in [Endpoints -> Seq(TransactionRecord)]
  /\ route \in Endpoints /\ source \in Endpoints
  /\ phase \in Phases
  /\ connected \in BOOLEAN /\ short \in BOOLEAN
  /\ \A i \in DOMAIN stream : stream[i] \in Landed(source)
  /\ \A i \in DOMAIN backlog : backlog[i] \in Landed(source)
  /\ \A e \in Endpoints :
       /\ cursor[e] \in {0} \cup Landed(e)
       /\ stored[e] \subseteq Landed(e) /\ dead[e] \subseteq Landed(e)
  /\ rows \in [Positions -> PositionRow]
  /\ failures \in 0..MAX_FAILURES /\ moves \in 0..MAX_MOVES

\* What a transaction carries is in the tables: its events in the projection's
\* source rows, what could not be decoded among the dead letters.
Indexed(e, i) ==
  LET tx == chain[e][i]
  IN  tx.slot >= V2_MIN_SLOT =>
        /\ HasEvents(tx) => i \in stored[e]
        /\ tx.garbled => i \in dead[e]

\* Nothing behind a cursor is missing, through failures, restarts, equal slots and
\* repeated deliveries, as long as an outage is shorter than the catch-up limit.
NothingBehindCursor ==
  \A e \in Endpoints : \A i \in 1..cursor[e] : Indexed(e, i)

InStream(i) == \E k \in DOMAIN stream : stream[k] = i

\* A live session will see everything that has landed at its source, up to the
\* loss of its connection: it is indexed, or still in the stream.
LiveMissesNothing ==
  phase = "live" /\ connected =>
    \A i \in Landed(source) : Indexed(source, i) \/ InStream(i)

\* What a catch-up that is short of the stored cursor has to leave out.
LeftOut(i) ==
  /\ phase = "catching_up" /\ short
  /\ backlog # <<>> /\ i \in (cursor[source] + 1)..(Head(backlog) - 1)
  /\ ~Indexed(source, i)

\* A catch-up which does not reach the stored cursor is an error: no session is ready
\* again while what it left out is missing.
ReadyMeansCaughtUp ==
  \A i \in 1..MAX_TRANSACTIONS :
    [](LeftOut(i) => [](phase = "live" => i \in Landed(source) /\ Indexed(source, i)))

StoredEvents(kind) ==
  UNION {UNION {chain[e][i][kind] : i \in stored[e]} : e \in Endpoints}

\* The row of a position depends on which of its two events are stored, and not on
\* the order, the source or the number of times they were applied.
ProjectionFaithful ==
  \A p \in Positions :
    LET created == p \in StoredEvents("created")
        closed  == p \in StoredEvents("closed")
    IN  rows[p] = [opened |-> created, partial |-> closed /\ ~created,
                   status |-> IF closed THEN "closed" ELSE IF created THEN "open" ELSE "none"]

\* A client may treat a closed position as closed for good, and one that has been
\* completed stays complete.
TerminalIsMonotonic ==
  [][ \A p \in Positions :
        /\ rows[p].status = "closed" => rows'[p].status = "closed"
        /\ rows[p].opened => rows'[p].opened ]_vars

\* Whatever failed and however often the route changed, all that has landed where
\* the Market stays is indexed in the end, and the session is live.
EverythingIndexed ==
  <>[](phase = "live" /\ source = route /\ \A i \in Landed(route) : Indexed(route, i))
=============================================================================
