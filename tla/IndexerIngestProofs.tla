------------------------- MODULE IndexerIngestProofs -------------------------
(***************************************************************************)
(* Proofs about IndexerIngest for any number of endpoints and positions,   *)
(* any limits, and histories of any length: the types, that the projection *)
(* is a function of the stored events, that a closed position stays        *)
(* closed, and that nothing is lost while no outage outgrows a crawl.      *)
(*                                                                         *)
(* The projection is inductive together with the types: that only landed   *)
(* transactions are stored is what keeps a stored event what it was while  *)
(* the chains grow.  The types need, besides, that the two queues of a     *)
(* session are sequences, and that a session that is down has emptied them *)
(* before it can be given another source.                                  *)
(*                                                                         *)
(* Then proofs about IndexerStorage, for any tables, sources and values:   *)
(* what is delivered twice, in another order or late leaves the tables as  *)
(* they are, and the upserts of whole position rows do to a row what       *)
(* IndexerIngest says of its three fields.  The latter makes what is       *)
(* proved of the projection hold of the rows of the storage.               *)
(***************************************************************************)
EXTENDS IndexerIngest, TLAPS

\* What TypeOK leaves open: the shapes of the queues and of the tables.
Shapes ==
  /\ stream \in Seq(Nat) /\ backlog \in Seq(Nat)
  /\ phase = "down" => stream = <<>> /\ backlog = <<>> /\ ~connected
  /\ cursor \in [Endpoints -> Nat]
  /\ stored \in [Endpoints -> SUBSET Nat] /\ dead \in [Endpoints -> SUBSET Nat]

IInv == TypeOK /\ Shapes /\ ProjectionFaithful

-----------------------------------------------------------------------------
(***************************************************************************)
(* The data.                                                               *)
(***************************************************************************)

\* The transactions that may land are transactions.
LEMMA LandingsTyped ==
  ASSUME TypeOK
  PROVE  Landings \subseteq TransactionRecord
<1>1. route \in Endpoints /\ chain[route] \in Seq(TransactionRecord)
  BY DEF TypeOK
<1>2. Len(chain[route]) \in Nat
  BY <1>1
<1>3. Len(chain[route]) # 0 => chain[route][Len(chain[route])].slot \in Nat
  <2>1. Len(chain[route]) # 0 => chain[route][Len(chain[route])] \in TransactionRecord
    BY <1>1, <1>2
  <2> QED  BY <2>1 DEF TransactionRecord
<1>4. Mentioned("created") \subseteq Positions
  <2>1. SUFFICES ASSUME NEW e \in Endpoints, NEW i \in Landed(e)
                 PROVE  chain[e][i].created \subseteq Positions
    BY <2>1 DEF Mentioned
  <2>2. chain[e][i] \in TransactionRecord
    BY DEF TypeOK, Landed
  <2> QED  BY <2>2 DEF TransactionRecord
<1> QED  BY <1>2, <1>3, <1>4 DEF Landings, TransactionRecord

\* Landing changes none of the transactions that had landed.
LEMMA LandKeeps ==
  ASSUME TypeOK, Land
  PROVE  /\ chain' \in [Endpoints -> Seq(TransactionRecord)]
         /\ \A e \in Endpoints : /\ Landed(e) \subseteq Landed(e)'
                                 /\ \A i \in Landed(e) : chain'[e][i] = chain[e][i]
         /\ Len(chain[route]) + 1 \in Landed(route)'
<1>1. PICK tx \in Landings : chain' = [chain EXCEPT ![route] = Append(@, tx)]
  BY DEF Land
<1>2. tx \in TransactionRecord
  BY LandingsTyped
<1>3. route \in Endpoints /\ chain \in [Endpoints -> Seq(TransactionRecord)]
  BY DEF TypeOK
<1>4. chain' \in [Endpoints -> Seq(TransactionRecord)]
  BY <1>1, <1>2, <1>3
<1>5. ASSUME NEW e \in Endpoints
      PROVE  /\ Landed(e) \subseteq Landed(e)'
             /\ \A i \in Landed(e) : chain'[e][i] = chain[e][i]
  <2>1. CASE e = route
    <3>1. chain'[e] = Append(chain[e], tx) /\ chain[e] \in Seq(TransactionRecord)
      BY <1>1, <1>3, <2>1
    <3>2. Len(chain'[e]) = Len(chain[e]) + 1 /\ Len(chain[e]) \in Nat
      BY <3>1, <1>2
    <3>3. \A i \in 1..Len(chain[e]) : chain'[e][i] = chain[e][i]
      BY <3>1, <1>2
    <3> QED  BY <3>2, <3>3 DEF Landed
  <2>2. CASE e # route
    <3>1. chain'[e] = chain[e]
      BY <1>1, <1>3, <2>2
    <3> QED  BY <3>1 DEF Landed
  <2> QED  BY <2>1, <2>2
<1>6. Len(chain[route]) + 1 \in Landed(route)'
  <2>1. route' = route /\ chain'[route] = Append(chain[route], tx)
    BY <1>1, <1>3 DEF Land
  <2>2. chain[route] \in Seq(TransactionRecord)
    BY <1>3
  <2>3. Len(chain'[route']) = Len(chain[route]) + 1 /\ Len(chain[route]) \in Nat
    BY <2>1, <2>2, <1>2
  <2> QED  BY <2>1, <2>3 DEF Landed
<1> QED  BY <1>4, <1>5, <1>6

\* What a crawl returns has landed.
LEMMA BacklogLanded ==
  ASSUME IngestAssumption, TypeOK
  PROVE  LET crawled == Backlog(OldestCrawled, Len(chain[source]))
         IN  /\ crawled \in Seq(Nat)
             /\ \A k \in DOMAIN crawled : crawled[k] \in Landed(source)
<1> DEFINE last == Len(chain[source])
           first == OldestCrawled
<1>1. last \in Nat /\ cursor[source] \in Nat
  <2>1. source \in Endpoints /\ chain[source] \in Seq(TransactionRecord)
    BY DEF TypeOK
  <2>2. last \in Nat
    BY <2>1
  <2>3. cursor[source] \in {0} \cup 1..last
    BY <2>1 DEF TypeOK, Landed
  <2> QED  BY <2>2, <2>3
<1>2. CrawlMaximum \in Nat
  BY DEF IngestAssumption, CrawlMaximum, Lesser
<1>3. OVERLAP \in Nat
  BY DEF IngestAssumption
<1>4. first \in Nat /\ first >= 1
  BY <1>1, <1>2, <1>3 DEF OldestCrawled, Larger
<1> HIDE DEF first, last
<1>5. Backlog(first, last) = [k \in 1..(last - first + 1) |-> first + k - 1]
  BY DEF Backlog
<1>6. \A k \in 1..(last - first + 1) : first + k - 1 \in Nat /\ first + k - 1 \in 1..last
  BY <1>1, <1>4
<1>7. PICK n \in Nat : 1..(last - first + 1) = 1..n
  <2>1. CASE last - first + 1 >= 0
    <3>1. last - first + 1 \in Nat
      BY <2>1, <1>1, <1>4
    <3> QED  BY <3>1
  <2>2. CASE last - first + 1 < 0
    <3>1. 1..(last - first + 1) = 1..0
      BY <2>2, <1>1, <1>4
    <3> QED  BY <3>1
  <2> QED  BY <2>1, <2>2, <1>1, <1>4
<1>8. Backlog(first, last) \in [1..n -> Nat]
  BY <1>5, <1>6, <1>7
<1>9. Backlog(first, last) \in Seq(Nat)
  BY <1>8
<1>10. \A k \in DOMAIN Backlog(first, last) : Backlog(first, last)[k] \in 1..last
  BY <1>5, <1>6
<1> QED  BY <1>9, <1>10 DEF Landed, first, last

\* The head and the tail of a queue of landed transactions.
LEMMA QueueHead ==
  ASSUME NEW q \in Seq(Nat), q # <<>>, NEW S, \A k \in DOMAIN q : q[k] \in S
  PROVE  /\ Head(q) \in S
         /\ Tail(q) \in Seq(Nat)
         /\ \A k \in DOMAIN Tail(q) : Tail(q)[k] \in S
<1>1. Len(q) \in Nat \ {0} /\ DOMAIN q = 1..Len(q)
  OBVIOUS
<1>2. Head(q) = q[1] /\ 1 \in DOMAIN q
  BY <1>1
<1>3. Tail(q) \in Seq(Nat) /\ DOMAIN Tail(q) = 1..(Len(q) - 1)
  BY <1>1
<1>4. \A k \in 1..(Len(q) - 1) : Tail(q)[k] = q[k + 1] /\ k + 1 \in DOMAIN q
  BY <1>1
<1> QED  BY <1>2, <1>3, <1>4

-----------------------------------------------------------------------------
(***************************************************************************)
(* The types.                                                              *)
(***************************************************************************)

Tables ==
  /\ cursor \in [Endpoints -> Nat]
  /\ stored \in [Endpoints -> SUBSET Nat] /\ dead \in [Endpoints -> SUBSET Nat]
  /\ \A e \in Endpoints :
       /\ cursor[e] \in {0} \cup Landed(e)
       /\ stored[e] \subseteq Landed(e) /\ dead[e] \subseteq Landed(e)
  /\ rows \in [Positions -> PositionRow]

\* The rows stay rows.
LEMMA RowsTyped ==
  ASSUME rows \in [Positions -> PositionRow], NEW tx
  PROVE  RowsAfter(tx) \in [Positions -> PositionRow]
<1>1. ASSUME NEW row \in PositionRow
      PROVE  RowAfterCreated(row) \in PositionRow /\ RowAfterClosed(row) \in PositionRow
  BY <1>1 DEF PositionRow, RowAfterCreated, RowAfterClosed
<1>2. ASSUME NEW p \in Positions
      PROVE  rows[p] \in PositionRow
  OBVIOUS
<1> QED  BY <1>1, <1>2 DEF RowsAfter

\* Applying a landed transaction, or moving the cursor to it, keeps the tables' types.
LEMMA ApplyTyped ==
  ASSUME TypeOK, Shapes, NEW i \in Landed(source), chain' = chain,
         \/ Ingest(source, i)
         \/ AdvanceCursor(source, i) /\ UNCHANGED <<stored, dead, rows>>
         \/ UNCHANGED databaseVars
  PROVE  Tables'
<1>1. source \in Endpoints /\ i \in Nat
  BY DEF TypeOK, Landed
<1>2. Tables /\ \A e \in Endpoints : Landed(e)' = Landed(e)
  BY DEF TypeOK, Shapes, Tables, Landed
<1>3. CASE UNCHANGED databaseVars
  BY <1>2, <1>3 DEF Tables, databaseVars
<1>4. ASSUME AdvanceCursor(source, i)
      PROVE  /\ cursor' \in [Endpoints -> Nat]
             /\ \A e \in Endpoints : cursor'[e] \in {0} \cup Landed(e)
  <2>1. cursor' = [cursor EXCEPT ![source] = CursorAfter(source, i)]
    BY <1>4 DEF AdvanceCursor
  <2>2. CursorAfter(source, i) = i \/ CursorAfter(source, i) = cursor[source]
    BY DEF CursorAfter
  <2> QED  BY <1>1, <1>2, <2>1, <2>2 DEF Tables
<1>5. CASE AdvanceCursor(source, i) /\ UNCHANGED <<stored, dead, rows>>
  BY <1>2, <1>4, <1>5 DEF Tables
<1>6. CASE Ingest(source, i)
  <2>1. AdvanceCursor(source, i)
    BY <1>6 DEF Ingest
  <2>2. /\ dead' \in [Endpoints -> SUBSET Nat]
        /\ \A e \in Endpoints : dead'[e] \subseteq Landed(e)
    BY <1>1, <1>2, <1>6 DEF Ingest, RecordDeadLetter, Tables
  <2>3. /\ stored' \in [Endpoints -> SUBSET Nat]
        /\ \A e \in Endpoints : stored'[e] \subseteq Landed(e)
    BY <1>1, <1>2, <1>6 DEF Ingest, Tables
  <2>4. rows' \in [Positions -> PositionRow]
    BY <1>2, <1>6, RowsTyped DEF Ingest, Tables
  <2> QED  BY <1>2, <1>4, <2>1, <2>2, <2>3, <2>4 DEF Tables
<1> QED  BY <1>3, <1>5, <1>6

\* A session that ends leaves its types.
LEMMA EndTyped ==
  ASSUME TypeOK, Shapes, EndSession, UNCHANGED chainVars, Tables', failures' \in 0..MAX_FAILURES
  PROVE  TypeOK' /\ Shapes'
<1>1. /\ stream' = <<>> /\ backlog' = <<>> /\ phase' = "down" /\ source' = source
      /\ connected' = FALSE /\ short' = FALSE /\ chain' = chain /\ route' = route /\ moves' = moves
  BY DEF EndSession, chainVars
<1>2. stream' \in Seq(Nat) /\ backlog' \in Seq(Nat) /\ DOMAIN stream' = {} /\ DOMAIN backlog' = {}
  BY <1>1
<1>3. connected' \in BOOLEAN /\ short' \in BOOLEAN /\ ~connected'
  BY <1>1
<1>4. TypeOK'
  BY <1>1, <1>2, <1>3 DEF TypeOK, Tables, Phases
<1>5. Shapes'
  BY <1>1, <1>2, <1>3 DEF Shapes, Tables
<1> QED  BY <1>4, <1>5

\* Before anything has landed, with no session, the types hold.
LEMMA TypesInit ==
  ASSUME IngestAssumption, Init
  PROVE  TypeOK /\ Shapes
<1>1. chain \in [Endpoints -> Seq(TransactionRecord)]
  BY DEF Init
<1>2. rows \in [Positions -> PositionRow]
  BY DEF Init, NoRow, PositionRow
<1>3. stream \in Seq(Nat) /\ backlog \in Seq(Nat) /\ DOMAIN stream = {} /\ DOMAIN backlog = {}
  BY DEF Init
<1>4. connected \in BOOLEAN /\ short \in BOOLEAN /\ ~connected
  BY DEF Init
<1>5. /\ cursor \in [Endpoints -> Nat] /\ \A e \in Endpoints : cursor[e] = 0
      /\ stored \in [Endpoints -> SUBSET Nat] /\ dead \in [Endpoints -> SUBSET Nat]
      /\ \A e \in Endpoints : stored[e] = {} /\ dead[e] = {}
  BY DEF Init
<1>6. failures \in 0..MAX_FAILURES /\ moves \in 0..MAX_MOVES
  BY DEF Init, IngestAssumption
<1>7. TypeOK
  BY <1>1, <1>2, <1>3, <1>4, <1>5, <1>6 DEF Init, TypeOK, Phases
<1>8. Shapes
  BY <1>3, <1>4, <1>5 DEF Init, Shapes
<1> QED  BY <1>7, <1>8

\* Every step of the chains and of the session keeps the types.
LEMMA TypesStep ==
  ASSUME IngestAssumption, TypeOK, Shapes, [Next]_vars
  PROVE  TypeOK' /\ Shapes'
<1> USE DEF Phases
<1>0. Tables /\ route \in Endpoints /\ source \in Endpoints /\ failures \in 0..MAX_FAILURES
  BY DEF TypeOK, Shapes, Tables
<1>1. CASE Land
  <2>1. /\ chain' \in [Endpoints -> Seq(TransactionRecord)]
        /\ \A e \in Endpoints : Landed(e) \subseteq Landed(e)'
        /\ Len(chain[route]) + 1 \in Landed(route)'
    BY <1>1, LandKeeps
  <2>2. UNCHANGED <<route, moves, phase, source, connected, backlog, short, databaseVars, failures>>
    BY <1>1 DEF Land
  <2>3. Tables'
    BY <1>0, <2>1, <2>2 DEF Tables, databaseVars
  <2>4. \/ stream' = stream
        \/ stream' = Append(stream, Len(chain[route]) + 1) /\ source = route /\ connected
    BY <1>1 DEF Land
  <2>5. ASSUME stream' = Append(stream, Len(chain[route]) + 1), source = route
        PROVE  stream' \in Seq(Nat) /\ \A k \in DOMAIN stream' : stream'[k] \in Landed(source)'
    <3>1. Len(chain[route]) + 1 \in Nat
      BY <2>1 DEF Landed
    <3>2. stream \in Seq(Nat) /\ \A k \in DOMAIN stream : stream[k] \in Landed(source)
      BY DEF TypeOK, Shapes
    <3>3. \A k \in DOMAIN stream' :
             IF k \in DOMAIN stream THEN stream'[k] = stream[k]
                                    ELSE stream'[k] = Len(chain[route]) + 1
      BY <2>5, <3>1, <3>2
    <3>4. source' = source /\ Landed(source)' = Landed(route)' /\ Landed(source) \subseteq Landed(source)'
      BY <2>1, <2>2, <2>5, <1>0
    <3> QED  BY <2>1, <2>5, <3>1, <3>2, <3>3, <3>4
  <2>6. phase = "down" => stream' = stream
    BY <1>1 DEF Land, Shapes
  <2>7. /\ stream' \in Seq(Nat) /\ \A k \in DOMAIN stream' : stream'[k] \in Landed(source)'
        /\ \A k \in DOMAIN backlog' : backlog'[k] \in Landed(source)'
    BY <1>0, <2>1, <2>2, <2>4, <2>5 DEF TypeOK, Shapes
  <2>8. TypeOK'
    BY <2>1, <2>2, <2>3, <2>7 DEF TypeOK, Tables
  <2>9. Shapes'
    BY <2>2, <2>3, <2>6, <2>7 DEF Shapes, Tables
  <2> QED  BY <2>8, <2>9
<1>2. CASE Move
  <2>1. UNCHANGED <<chain, sessionVars, databaseVars, failures>> /\ route' \in Endpoints
        /\ moves' \in 0..MAX_MOVES
    BY <1>2 DEF Move, TypeOK, IngestAssumption
  <2> QED  BY <2>1 DEF TypeOK, Shapes, Landed, sessionVars, databaseVars
<1>3. CASE Connect
  BY <1>3 DEF Connect, TypeOK, Shapes, Landed, chainVars, databaseVars
<1>4. CASE Crawl
  <2>1. /\ backlog' \in Seq(Nat)
        /\ \A k \in DOMAIN backlog' : backlog'[k] \in Landed(source)
    BY <1>4, BacklogLanded DEF Crawl
  <2>2. short' \in BOOLEAN
    BY <1>4 DEF Crawl
  <2>3. /\ phase' = "catching_up"
        /\ UNCHANGED <<chainVars, source, stream, connected, databaseVars, failures>>
    BY <1>4 DEF Crawl
  <2> QED  BY <2>1, <2>2, <2>3 DEF TypeOK, Shapes, Landed, chainVars, databaseVars
<1>5. CASE CatchUp
  <2>1. /\ backlog # <<>> /\ backlog \in Seq(Nat) /\ phase = "catching_up"
        /\ \A k \in DOMAIN backlog : backlog[k] \in Landed(source)
    BY <1>5 DEF CatchUp, TypeOK, Shapes
  <2>2. /\ Head(backlog) \in Landed(source)
        /\ Tail(backlog) \in Seq(Nat)
        /\ \A k \in DOMAIN Tail(backlog) : Tail(backlog)[k] \in Landed(source)
    BY <2>1, QueueHead
  <2>3. /\ backlog' = Tail(backlog)
        /\ UNCHANGED <<chainVars, phase, source, stream, connected, short, failures>>
        /\ Ingest(source, Head(backlog)) \/ UNCHANGED databaseVars
    BY <1>5 DEF CatchUp
  <2>4. Tables'
    BY <2>2, <2>3, ApplyTyped DEF chainVars
  <2> QED  BY <2>1, <2>2, <2>3, <2>4 DEF TypeOK, Shapes, Tables, Landed, chainVars
<1>6. CASE FinishCatchUp
  <2>1. UNCHANGED <<chainVars, databaseVars, failures>>
    BY <1>6 DEF FinishCatchUp
  <2>2. Tables' /\ failures' \in 0..MAX_FAILURES
    BY <1>0, <2>1 DEF Tables, Landed, chainVars, databaseVars
  <2>3. CASE EndSession
    BY <2>1, <2>2, <2>3, EndTyped
  <2>4. CASE phase' = "starting" /\ UNCHANGED <<source, stream, connected, backlog, short>>
    BY <2>1, <2>4 DEF TypeOK, Shapes, Landed, chainVars, databaseVars
  <2> QED  BY <1>6, <2>3, <2>4 DEF FinishCatchUp
<1>7. CASE GoLive
  BY <1>7 DEF GoLive, TypeOK, Shapes, Landed, chainVars, databaseVars
<1>8. CASE Notify
  <2>1. /\ stream # <<>> /\ stream \in Seq(Nat) /\ phase = "live"
        /\ \A k \in DOMAIN stream : stream[k] \in Landed(source)
    BY <1>8 DEF Notify, TypeOK, Shapes
  <2>2. /\ Head(stream) \in Landed(source)
        /\ Tail(stream) \in Seq(Nat)
        /\ \A k \in DOMAIN Tail(stream) : Tail(stream)[k] \in Landed(source)
    BY <2>1, QueueHead
  <2>3. /\ stream' = Tail(stream)
        /\ UNCHANGED <<chainVars, phase, source, connected, backlog, short, failures>>
        /\ \/ Ingest(source, Head(stream))
           \/ AdvanceCursor(source, Head(stream)) /\ UNCHANGED <<stored, dead, rows>>
    BY <1>8 DEF Notify
  <2>4. Tables'
    BY <2>2, <2>3, ApplyTyped DEF chainVars
  <2> QED  BY <2>1, <2>2, <2>3, <2>4 DEF TypeOK, Shapes, Tables, Landed, chainVars
<1>9. CASE Leave
  <2>1. EndSession /\ UNCHANGED <<chainVars, databaseVars, failures>>
    BY <1>9 DEF Leave
  <2>2. Tables' /\ failures' \in 0..MAX_FAILURES
    BY <1>0, <2>1 DEF Tables, Landed, chainVars, databaseVars
  <2> QED  BY <2>1, <2>2, EndTyped
<1>10. CASE LoseConnection
  <2>1. /\ failures' \in 0..MAX_FAILURES /\ connected' = FALSE
        /\ UNCHANGED <<chainVars, phase, source, stream, backlog, short, databaseVars>>
    BY <1>0, <1>10 DEF LoseConnection, IngestAssumption
  <2> QED  BY <2>1 DEF TypeOK, Shapes, Landed, chainVars, databaseVars
<1>11. CASE FailSession
  <2>1. EndSession /\ UNCHANGED <<chainVars, cursor, stored, rows>>
    BY <1>11 DEF FailSession
  <2>2. failures' \in 0..MAX_FAILURES
    BY <1>0, <1>11 DEF FailSession, IngestAssumption
  <2>3. \/ UNCHANGED dead
        \/ \E i \in Landed(source) : RecordDeadLetter(source, i)
    <3>1. /\ phase = "catching_up" /\ backlog # <<>> => Head(backlog) \in Landed(source)
          /\ phase = "live" /\ stream # <<>> => Head(stream) \in Landed(source)
      BY QueueHead DEF TypeOK, Shapes
    <3> QED  BY <1>11, <3>1 DEF FailSession
  <2>4. /\ dead' \in [Endpoints -> SUBSET Nat]
        /\ \A e \in Endpoints : dead'[e] \subseteq Landed(e)
    <3>1. \A i \in Landed(source) : i \in Nat
      BY DEF Landed
    <3> QED  BY <1>0, <2>3, <3>1 DEF RecordDeadLetter, Tables
  <2>5. Tables'
    BY <1>0, <2>1, <2>4 DEF Tables, Landed, chainVars
  <2> QED  BY <2>1, <2>2, <2>5, EndTyped
<1>12. CASE UNCHANGED vars
  BY <1>12 DEF TypeOK, Shapes, Landed, vars, chainVars, sessionVars, databaseVars
<1> QED
  BY <1>1, <1>2, <1>3, <1>4, <1>5, <1>6, <1>7, <1>8, <1>9, <1>10, <1>11, <1>12 DEF Next, Session
-----------------------------------------------------------------------------
(***************************************************************************)
(* The projection.                                                         *)
(***************************************************************************)

\* What the row of a position has to be, given the positions created and closed.
FaithfulRow(p, created, closed) ==
  [opened |-> p \in created, partial |-> p \in closed /\ p \notin created,
   status |-> IF p \in closed THEN "closed" ELSE IF p \in created THEN "open" ELSE "none"]

\* One transaction more: the row of a position follows, whatever came before it.
LEMMA RowFollows ==
  ASSUME NEW tx, NEW p \in Positions, NEW created, NEW closed,
         rows[p] = FaithfulRow(p, created, closed)
  PROVE  RowsAfter(tx)[p] = FaithfulRow(p, created \cup tx.created, closed \cup tx.closed)
<1> DEFINE row == IF p \in tx.created THEN RowAfterCreated(rows[p]) ELSE rows[p]
<1>1. RowsAfter(tx)[p] = IF p \in tx.closed THEN RowAfterClosed(row) ELSE row
  BY DEF RowsAfter
<1>2. row = FaithfulRow(p, created \cup tx.created, closed)
  <2>1. CASE p \in tx.created
    <3>1. rows[p].status = "none" <=> p \notin created /\ p \notin closed
      BY DEF FaithfulRow
    <3>2. (p \in created \cup tx.created) = TRUE
      BY <2>1
    <3>3. (p \in closed /\ p \notin created \cup tx.created) = FALSE
      BY <2>1
    <3>4. FaithfulRow(p, created \cup tx.created, closed) =
            [opened |-> TRUE, partial |-> FALSE,
             status |-> IF p \in closed THEN "closed" ELSE "open"]
      BY <2>1, <3>2, <3>3 DEF FaithfulRow
    <3>5. rows[p].status = IF p \in closed THEN "closed" ELSE IF p \in created THEN "open" ELSE "none"
      BY DEF FaithfulRow
    <3>6. RowAfterCreated(rows[p]) =
            [opened |-> TRUE, partial |-> FALSE,
             status |-> IF p \in closed THEN "closed" ELSE "open"]
      BY <3>5 DEF RowAfterCreated
    <3> QED  BY <2>1, <3>4, <3>6
  <2>2. CASE p \notin tx.created
    <3>1. p \in created \cup tx.created <=> p \in created
      BY <2>2
    <3> QED  BY <2>2, <3>1 DEF FaithfulRow
  <2> QED  BY <2>1, <2>2
<1> HIDE DEF row
<1>3. CASE p \in tx.closed
  <2>1. p \in closed \cup tx.closed
    BY <1>3
  <2> QED  BY <1>1, <1>2, <1>3, <2>1 DEF FaithfulRow, RowAfterClosed
<1>4. CASE p \notin tx.closed
  <2>1. p \in closed \cup tx.closed <=> p \in closed
    BY <1>4
  <2> QED  BY <1>1, <1>2, <1>4, <2>1 DEF FaithfulRow
<1> QED  BY <1>3, <1>4

\* Storing a transaction adds its events to the stored ones, and nothing else.
LEMMA StoredGrows ==
  ASSUME TypeOK, Shapes, NEW i \in Landed(source), NEW kind \in {"created", "closed"},
         chain' = chain, stored' = [stored EXCEPT ![source] = @ \cup {i}]
  PROVE  StoredEvents(kind)' = StoredEvents(kind) \cup chain[source][i][kind]
<1>1. source \in Endpoints /\ stored \in [Endpoints -> SUBSET Nat]
  BY DEF TypeOK, Shapes
<1>2. \A e \in Endpoints : \A k : k \in stored'[e] <=> k \in stored[e] \/ (e = source /\ k = i)
  BY <1>1
<1>3. \A x : x \in StoredEvents(kind)' <=>
               \E e \in Endpoints : \E k \in stored'[e] : x \in chain[e][k][kind]
  BY DEF StoredEvents
<1>4. \A x : x \in StoredEvents(kind) <=>
               \E e \in Endpoints : \E k \in stored[e] : x \in chain[e][k][kind]
  BY DEF StoredEvents
<1>5. \A x : x \in StoredEvents(kind)' <=>
               x \in StoredEvents(kind) \/ x \in chain[source][i][kind]
  BY <1>1, <1>2, <1>3, <1>4
<1> QED  BY <1>5

\* Nothing is stored at first, and no position has a row.
LEMMA ProjectionInit ==
  ASSUME Init
  PROVE  ProjectionFaithful
<1>1. \A e \in Endpoints : stored[e] = {}
  BY DEF Init
<1>2. StoredEvents("created") = {} /\ StoredEvents("closed") = {}
  BY <1>1 DEF StoredEvents
<1>3. \A p \in Positions : rows[p] = [opened |-> FALSE, status |-> "none", partial |-> FALSE]
  BY DEF Init, NoRow
<1>4. ASSUME NEW p \in Positions
      PROVE  /\ (p \in StoredEvents("created")) = FALSE
             /\ (p \in StoredEvents("closed") /\ p \notin StoredEvents("created")) = FALSE
  BY <1>2
<1> QED  BY <1>2, <1>3, <1>4 DEF ProjectionFaithful

\* The projection as the lemmas state it.
LEMMA FaithfulRows ==
  ProjectionFaithful <=>
    \A p \in Positions :
      rows[p] = FaithfulRow(p, StoredEvents("created"), StoredEvents("closed"))
BY DEF ProjectionFaithful, FaithfulRow

\* Applying a transaction, or moving the cursor only, keeps the projection.
LEMMA ApplyFaithful ==
  ASSUME TypeOK, Shapes, ProjectionFaithful, NEW i \in Landed(source), chain' = chain,
         Ingest(source, i) \/ UNCHANGED <<stored, rows>>
  PROVE  ProjectionFaithful'
<1>1. CASE UNCHANGED <<stored, rows>>
  BY <1>1 DEF ProjectionFaithful, StoredEvents
<1>2. CASE Ingest(source, i)
  <2>1. CASE UNCHANGED <<stored, rows>>
    BY <1>1, <2>1
  <2>2. CASE /\ stored' = [stored EXCEPT ![source] = @ \cup {i}]
             /\ rows' = RowsAfter(chain[source][i])
    <3>1. /\ StoredEvents("created")' = StoredEvents("created") \cup chain[source][i].created
          /\ StoredEvents("closed")' = StoredEvents("closed") \cup chain[source][i].closed
      BY <2>2, StoredGrows
    <3>2. ASSUME NEW p \in Positions
          PROVE  rows'[p] = FaithfulRow(p, StoredEvents("created")', StoredEvents("closed")')
      <4>1. rows[p] = FaithfulRow(p, StoredEvents("created"), StoredEvents("closed"))
        BY FaithfulRows
      <4>2. rows'[p] = FaithfulRow(p, StoredEvents("created") \cup chain[source][i].created,
                                      StoredEvents("closed") \cup chain[source][i].closed)
        BY <2>2, <4>1, RowFollows
      <4> QED  BY <3>1, <4>2
    <3> QED  BY <3>2 DEF ProjectionFaithful, FaithfulRow
  <2> QED  BY <1>2, <2>1, <2>2 DEF Ingest
<1> QED  BY <1>1, <1>2

\* Only what stores a transaction changes the rows, and it changes them as its events say.
LEMMA ProjectionStep ==
  ASSUME IInv, [Next]_vars
  PROVE  ProjectionFaithful'
<1> USE DEF IInv
<1>1. CASE Land
  <2>1. UNCHANGED <<stored, rows>>
    BY <1>1 DEF Land, databaseVars
  <2>2. \A e \in Endpoints : \A i \in stored[e] : chain'[e][i] = chain[e][i]
    BY <1>1, LandKeeps DEF TypeOK
  <2>3. /\ StoredEvents("created")' = StoredEvents("created")
        /\ StoredEvents("closed")' = StoredEvents("closed")
    BY <2>1, <2>2 DEF StoredEvents
  <2> QED  BY <2>1, <2>3 DEF ProjectionFaithful
<1>2. CASE CatchUp
  <2>1. Head(backlog) \in Landed(source)
    BY <1>2, QueueHead DEF CatchUp, TypeOK, Shapes
  <2>2. chain' = chain /\ (Ingest(source, Head(backlog)) \/ UNCHANGED <<stored, rows>>)
    BY <1>2 DEF CatchUp, chainVars, databaseVars
  <2> QED  BY <2>1, <2>2, ApplyFaithful
<1>3. CASE Notify
  <2>1. Head(stream) \in Landed(source)
    BY <1>3, QueueHead DEF Notify, TypeOK, Shapes
  <2>2. chain' = chain /\ (Ingest(source, Head(stream)) \/ UNCHANGED <<stored, rows>>)
    BY <1>3 DEF Notify, chainVars
  <2> QED  BY <2>1, <2>2, ApplyFaithful
<1>4. CASE Move \/ Connect \/ Crawl \/ FinishCatchUp \/ GoLive \/ Leave \/ LoseConnection
           \/ FailSession \/ UNCHANGED vars
  <2>1. UNCHANGED <<chain, stored, rows>>
    BY <1>4 DEF Move, Connect, Crawl, FinishCatchUp, GoLive, Leave, LoseConnection, FailSession,
                vars, chainVars, databaseVars
  <2> QED  BY <2>1 DEF ProjectionFaithful, StoredEvents
<1> QED  BY <1>1, <1>2, <1>3, <1>4 DEF Next, Session

-----------------------------------------------------------------------------
(***************************************************************************)
(* What the crawl and the stream account for, as long as no outage is      *)
(* longer than a crawl.                                                    *)
(***************************************************************************)

\* A failed transaction emits nothing.
FailedCarriesNothing ==
  \A e \in Endpoints : \A i \in Landed(e) :
    chain[e][i].failed => ~HasEvents(chain[e][i]) /\ ~chain[e][i].garbled

Consecutive(q) == \A k \in DOMAIN q : q[k] = q[1] + k - 1

Has(q, i) == \E k \in DOMAIN q : q[k] = i

\* Both queues are runs of the source's chain; the stream's ends where the chain does
\* until the connection is lost.
QueuesInOrder ==
  /\ Consecutive(stream) /\ Consecutive(backlog)
  /\ connected /\ stream # <<>> => stream[Len(stream)] = Len(chain[source])
  /\ phase # "catching_up" => backlog = <<>>

Crawled == phase \in {"catching_up", "starting", "live"}

\* What is before the backlog is indexed; what is before the stream is that or in the
\* backlog; while connected, whatever has landed is one of these or in the stream.
Accounted ==
  /\ backlog # <<>> => \A i \in 1..(backlog[1] - 1) : Indexed(source, i)
  /\ Crawled /\ stream # <<>> =>
       \A i \in 1..(stream[1] - 1) : Indexed(source, i) \/ Has(backlog, i)
  /\ Crawled /\ connected =>
       \A i \in Landed(source) : Indexed(source, i) \/ Has(backlog, i) \/ Has(stream, i)

Complete == FailedCarriesNothing /\ QueuesInOrder /\ Accounted /\ NothingBehindCursor

\* What has landed since the cursor, or since the beginning when there is none, fits
\* into one crawl.
CursorInReach == Len(chain[source]) - cursor[source] <= CrawlMaximum

\* No outage is longer than that: whenever a session crawls, the cursor is in reach.
OutagesAreShort == [][Crawl => CursorInReach]_vars

\* The head of a run, and what is left of it.
LEMMA RunTail ==
  ASSUME NEW q \in Seq(Nat), q # <<>>, Consecutive(q)
  PROVE  /\ Head(q) = q[1] /\ q[1] \in Nat
         /\ Consecutive(Tail(q))
         /\ Tail(q) # <<>> => Tail(q)[1] = q[1] + 1 /\ Tail(q)[Len(Tail(q))] = q[Len(q)]
         /\ \A i : Has(q, i) <=> i = q[1] \/ Has(Tail(q), i)
<1>1. Len(q) \in Nat \ {0} /\ DOMAIN q = 1..Len(q)
  OBVIOUS
<1>2. Head(q) = q[1] /\ q[1] \in Nat
  BY <1>1
<1>9. Tail(q) \in Seq(Nat) /\ Len(Tail(q)) = Len(q) - 1 /\ DOMAIN Tail(q) = 1..(Len(q) - 1)
  BY <1>1
<1>10. \A k \in 1..(Len(q) - 1) : Tail(q)[k] = q[k + 1] /\ k + 1 \in 1..Len(q)
  BY <1>1
<1>0. PICK t \in Seq(Nat) : t = Tail(q)
  BY <1>9
<1>11. t # <<>> <=> Len(t) # 0
  OBVIOUS
<1>3. Len(t) = Len(q) - 1 /\ DOMAIN t = 1..(Len(q) - 1) /\ (t # <<>> <=> Len(t) # 0)
  BY <1>0, <1>9, <1>11
<1>4. \A k \in 1..(Len(q) - 1) : t[k] = q[k + 1] /\ k + 1 \in 1..Len(q)
  BY <1>0, <1>10
<1>5. \A k \in 1..Len(q) : q[k] = q[1] + k - 1
  BY <1>1 DEF Consecutive
<1>6. ASSUME t # <<>>
      PROVE  t[1] = q[1] + 1 /\ t[Len(t)] = q[Len(q)]
  <2>1. Len(q) - 1 >= 1
    BY <1>1, <1>3, <1>6
  <2>2. 1 \in 1..(Len(q) - 1) /\ Len(q) - 1 \in 1..(Len(q) - 1)
    BY <1>1, <2>1
  <2>3. t[1] = q[1 + 1] /\ q[1 + 1] = q[1] + (1 + 1) - 1
    BY <1>4, <1>5, <2>2
  <2>4. t[Len(q) - 1] = q[Len(q) - 1 + 1]
    BY <1>4, <2>2
  <2>5. Len(q) - 1 + 1 = Len(q) /\ 1 + 1 - 1 = 1
    BY <1>1
  <2>6. t[1] = q[1] + 1
    BY <1>2, <2>3
  <2> QED  BY <1>3, <2>4, <2>5, <2>6
<1>7. Consecutive(t)
  <2>1. ASSUME NEW k \in 1..(Len(q) - 1)
        PROVE  t[k] = t[1] + k - 1
    <3>1. t # <<>>
      BY <1>1, <1>3, <2>1
    <3>2. t[k] = q[1] + (k + 1) - 1
      BY <1>4, <1>5, <2>1
    <3> QED  BY <1>1, <1>2, <1>6, <2>1, <3>1, <3>2
  <2> QED  BY <1>3, <2>1 DEF Consecutive
<1>8. ASSUME NEW i
      PROVE  Has(q, i) <=> i = q[1] \/ Has(t, i)
  <2>1. ASSUME NEW k \in 1..Len(q), q[k] = i, k # 1
        PROVE  Has(t, i)
    <3>1. k - 1 \in 1..(Len(q) - 1) /\ k - 1 + 1 = k
      BY <1>1, <2>1
    <3> QED  BY <1>3, <1>4, <2>1, <3>1 DEF Has
  <2>2. ASSUME Has(t, i)
        PROVE  Has(q, i)
    BY <1>1, <1>3, <1>4, <2>2 DEF Has
  <2>3. Has(q, q[1])
    BY <1>1 DEF Has
  <2> QED  BY <1>1, <2>1, <2>2, <2>3 DEF Has
<1> QED  BY <1>0, <1>2, <1>6, <1>7, <1>8

\* A run that goes on with the number after its last.
LEMMA RunAppend ==
  ASSUME NEW q \in Seq(Nat), Consecutive(q), NEW n \in Nat, q # <<>> => q[Len(q)] = n
  PROVE  LET r == Append(q, n + 1)
         IN  /\ Consecutive(r) /\ r # <<>> /\ r[Len(r)] = n + 1
             /\ r[1] = IF q = <<>> THEN n + 1 ELSE q[1]
             /\ \A i : Has(r, i) <=> i = n + 1 \/ Has(q, i)
<1>1. Len(q) \in Nat /\ DOMAIN q = 1..Len(q)
  OBVIOUS
<1>8. n + 1 \in Nat /\ Append(q, n + 1) \in Seq(Nat)
  OBVIOUS
<1>0. PICK r \in Seq(Nat) : r = Append(q, n + 1)
  BY <1>8
<1>2. r \in Seq(Nat) /\ Len(r) = Len(q) + 1 /\ DOMAIN r = 1..(Len(q) + 1)
  BY <1>0, <1>1
<1>3. r[Len(q) + 1] = n + 1 /\ \A k \in 1..Len(q) : r[k] = q[k]
  BY <1>0, <1>1
<1>4. r # <<>>
  BY <1>1, <1>2
<1>5. r[1] = IF q = <<>> THEN n + 1 ELSE q[1]
  <2>1. CASE q = <<>>
    <3>1. Len(q) = 0
      BY <2>1
    <3> QED  BY <1>3, <2>1, <3>1
  <2>2. CASE q # <<>>
    <3>1. 1 \in 1..Len(q)
      BY <1>1, <2>2
    <3> QED  BY <1>3, <2>2, <3>1
  <2> QED  BY <2>1, <2>2
<1>6. Consecutive(r)
  <2>1. ASSUME NEW k \in 1..(Len(q) + 1)
        PROVE  r[k] = r[1] + k - 1
    <3>1. CASE q = <<>>
      <4>1. Len(q) = 0
        BY <3>1
      <4>2. k = 1
        BY <2>1, <4>1
      <4> QED  BY <1>5, <3>1, <4>2
    <3>2. CASE q # <<>>
      <4>1. Len(q) \in 1..Len(q) /\ 1 \in 1..Len(q)
        BY <1>1, <3>2
      <4>2. q[Len(q)] = q[1] + Len(q) - 1 /\ q[1] \in Nat
        BY <1>1, <4>1 DEF Consecutive
      <4>3. r[1] = q[1]
        BY <1>5, <3>2
      <4>4. CASE k \in 1..Len(q)
        <5>1. r[k] = q[k] /\ q[k] = q[1] + k - 1
          BY <1>1, <1>3, <4>4 DEF Consecutive
        <5> QED  BY <4>3, <5>1
      <4>5. CASE k = Len(q) + 1
        BY <1>1, <1>3, <3>2, <4>2, <4>3, <4>5
      <4> QED  BY <1>1, <2>1, <4>4, <4>5
    <3> QED  BY <3>1, <3>2
  <2> QED  BY <1>2, <2>1 DEF Consecutive
<1>7. ASSUME NEW i
      PROVE  Has(r, i) <=> i = n + 1 \/ Has(q, i)
  <2>1. \A k \in DOMAIN r : k \in 1..Len(q) \/ k = Len(q) + 1
    BY <1>1, <1>2
  <2>2. 1..Len(q) \subseteq DOMAIN r /\ Len(q) + 1 \in DOMAIN r
    BY <1>1, <1>2
  <2> QED  BY <1>1, <1>3, <2>1, <2>2 DEF Has
<1> QED  BY <1>0, <1>2, <1>3, <1>4, <1>5, <1>6, <1>7

\* A crawl whose reach the cursor is in returns all that has landed after the cursor.
LEMMA CrawlReaches ==
  ASSUME IngestAssumption, TypeOK, CursorInReach
  PROVE  LET crawled == Backlog(OldestCrawled, Len(chain[source]))
         IN  /\ Consecutive(crawled)
             /\ \A i \in Landed(source) : i > cursor[source] => Has(crawled, i)
             /\ crawled # <<>> => crawled[1] = OldestCrawled
             /\ OldestCrawled \in Nat /\ OldestCrawled <= cursor[source] + 1
             /\ \A i \in Landed(source) : i >= OldestCrawled => Has(crawled, i)
<1> DEFINE last == Len(chain[source])
           first == OldestCrawled
           crawled == Backlog(first, last)
<1>1. last \in Nat /\ cursor[source] \in Nat
  <2>1. source \in Endpoints /\ chain[source] \in Seq(TransactionRecord)
    BY DEF TypeOK
  <2>2. last \in Nat
    BY <2>1
  <2>3. cursor[source] \in {0} \cup 1..last
    BY <2>1 DEF TypeOK, Landed
  <2> QED  BY <2>2, <2>3
<1>2. CrawlMaximum \in Nat /\ OVERLAP \in Nat
  BY DEF IngestAssumption, CrawlMaximum, Lesser
<1>3. first \in Nat /\ first >= 1 /\ first <= cursor[source] + 1
  BY <1>1, <1>2 DEF OldestCrawled, Larger, CursorInReach
<1> HIDE DEF first, last
<1>4. crawled = [k \in 1..(last - first + 1) |-> first + k - 1]
  BY DEF Backlog
<1>5. ASSUME NEW i \in 1..last, i >= first
      PROVE  Has(crawled, i)
  <2>1. i - first + 1 \in 1..(last - first + 1) /\ first + (i - first + 1) - 1 = i
    BY <1>1, <1>3, <1>5
  <2> QED  BY <1>4, <2>1 DEF Has
<1>6. ASSUME crawled # <<>>
      PROVE  1 \in 1..(last - first + 1)
  <2>1. CASE last - first + 1 >= 1
    BY <1>1, <1>3, <2>1
  <2>2. CASE last - first + 1 < 1
    <3>1. 1..(last - first + 1) = {}
      BY <1>1, <1>3, <2>2
    <3>2. crawled = <<>>
      BY <1>4, <3>1
    <3> QED  BY <1>6, <3>2
  <2> QED  BY <1>1, <1>3, <2>1, <2>2
<1>7. crawled # <<>> => crawled[1] = first
  <2> SUFFICES ASSUME crawled # <<>> PROVE crawled[1] = first
    OBVIOUS
  <2>1. 1 \in 1..(last - first + 1)
    BY <1>6
  <2>2. crawled[1] = first + 1 - 1
    BY <1>4, <2>1
  <2> QED  BY <1>3, <2>2
<1>8. Consecutive(crawled)
  <2>1. ASSUME NEW k \in 1..(last - first + 1)
        PROVE  crawled[k] = crawled[1] + k - 1
    <3>1. 1 \in 1..(last - first + 1)
      BY <1>1, <1>3
    <3>2. crawled[1] = first + 1 - 1 /\ crawled[k] = first + k - 1
      BY <1>4, <3>1
    <3> QED  BY <1>3, <3>2
  <2> QED  BY <1>4, <2>1 DEF Consecutive
<1>9. \A i \in 1..last : i > cursor[source] => i >= first
  BY <1>1, <1>3
<1> HIDE DEF crawled
<1> QED  BY <1>3, <1>5, <1>7, <1>8, <1>9 DEF Landed, crawled, first, last

\* The tables only grow.
LEMMA TablesGrow ==
  ASSUME TypeOK, Shapes, [Next]_vars, NEW e \in Endpoints
  PROVE  stored[e] \subseteq stored'[e] /\ dead[e] \subseteq dead'[e]
<1>1. stored \in [Endpoints -> SUBSET Nat] /\ dead \in [Endpoints -> SUBSET Nat]
  BY DEF Shapes
<1>2. ASSUME NEW i, RecordDeadLetter(source, i)
      PROVE  dead[e] \subseteq dead'[e]
  BY <1>1, <1>2 DEF RecordDeadLetter
<1>3. ASSUME NEW i, Ingest(source, i)
      PROVE  stored[e] \subseteq stored'[e] /\ dead[e] \subseteq dead'[e]
  BY <1>1, <1>2, <1>3 DEF Ingest
<1>4. CASE CatchUp
  BY <1>3, <1>4 DEF CatchUp, databaseVars
<1>5. CASE Notify
  BY <1>3, <1>5 DEF Notify
<1>6. CASE FailSession
  BY <1>2, <1>6 DEF FailSession
<1>7. CASE Land \/ Move \/ Connect \/ Crawl \/ FinishCatchUp \/ GoLive \/ Leave
           \/ LoseConnection \/ UNCHANGED vars
  BY <1>7 DEF Land, Move, Connect, Crawl, FinishCatchUp, GoLive, Leave, LoseConnection, vars,
              databaseVars
<1> QED  BY <1>4, <1>5, <1>6, <1>7 DEF Next, Session

\* What is in the chains stays there.
LEMMA ChainsGrow ==
  ASSUME TypeOK, [Next]_vars, NEW e \in Endpoints
  PROVE  Landed(e) \subseteq Landed(e)' /\ \A i \in Landed(e) : chain'[e][i] = chain[e][i]
<1>1. CASE Land
  BY <1>1, LandKeeps
<1>2. CASE ~Land
  <2>1. chain' = chain
    BY <1>2 DEF Next, Session, Move, Connect, Crawl, CatchUp, FinishCatchUp, GoLive, Notify, Leave,
                LoseConnection, FailSession, vars, chainVars
  <2> QED  BY <2>1 DEF Landed
<1> QED  BY <1>1, <1>2

\* So what is indexed stays indexed.
LEMMA IndexedKept ==
  ASSUME TypeOK, Shapes, [Next]_vars, NEW e \in Endpoints, NEW i \in Landed(e), Indexed(e, i)
  PROVE  Indexed(e, i)'
BY TablesGrow, ChainsGrow DEF Indexed, HasEvents

\* A transaction that is applied, or has failed, is indexed after the step.
LEMMA AppliedIsIndexed ==
  ASSUME TypeOK, Shapes, FailedCarriesNothing, NEW e \in Endpoints, NEW i \in Landed(e),
         chain' = chain, Ingest(e, i) \/ chain[e][i].failed
  PROVE  Indexed(e, i)'
<1>1. stored \in [Endpoints -> SUBSET Nat] /\ dead \in [Endpoints -> SUBSET Nat]
  BY DEF Shapes
<1>2. CASE chain[e][i].failed
  BY <1>2 DEF FailedCarriesNothing, Indexed, HasEvents
<1>3. CASE Ingest(e, i)
  <2>1. HasEvents(chain[e][i])' <=> HasEvents(chain[e][i])
    BY DEF HasEvents
  <2>2. CASE chain[e][i].slot < V2_MIN_SLOT
    <3>1. chain[e] \in Seq(TransactionRecord) /\ chain[e][i] \in TransactionRecord
      BY DEF TypeOK, Landed
    <3>2. chain[e][i].slot \in Nat /\ V2_MIN_SLOT \in Nat
      BY <3>1, IngestAssumption DEF TransactionRecord
    <3> QED  BY <2>2, <3>2 DEF Indexed
  <2>3. CASE ~(chain[e][i].slot < V2_MIN_SLOT)
    <3>1. HasEvents(chain[e][i]) => i \in stored'[e]
      BY <1>1, <1>3, <2>3 DEF Ingest
    <3>2. chain[e][i].garbled => i \in dead'[e]
      BY <1>1, <1>3, <2>3 DEF Ingest, RecordDeadLetter
    <3> QED  BY <2>1, <3>1, <3>2 DEF Indexed
  <2> QED  BY <2>2, <2>3
<1> QED  BY <1>2, <1>3

\* The cursor may move to a transaction up to which all is indexed.
LEMMA CursorMoves ==
  ASSUME TypeOK, Shapes, NothingBehindCursor, [Next]_vars,
         NEW e \in Endpoints, NEW i \in Landed(e), \A j \in 1..i : Indexed(e, j)',
         AdvanceCursor(e, i) \/ UNCHANGED cursor
  PROVE  NothingBehindCursor'
<1>1. cursor \in [Endpoints -> Nat]
  BY DEF Shapes
<1>2. ASSUME NEW d \in Endpoints, NEW j \in 1..cursor'[d]
      PROVE  Indexed(d, j)'
  <2>1. CASE cursor'[d] = cursor[d]
    <3>1. cursor[d] \in {0} \cup Landed(d)
      BY DEF TypeOK
    <3>2. j \in Landed(d) /\ Indexed(d, j)
      <4>1. Len(chain[d]) \in Nat
        BY DEF TypeOK
      <4>2. j \in 1..cursor[d]
        BY <2>1
      <4> QED  BY <3>1, <4>1, <4>2 DEF NothingBehindCursor, Landed
    <3> QED  BY <3>2, IndexedKept
  <2>2. CASE cursor'[d] # cursor[d]
    <3>1. d = e /\ cursor'[d] = i
      BY <1>1, <2>2 DEF AdvanceCursor, CursorAfter
    <3>2. j \in 1..i
      BY <3>1
    <3> QED  BY <3>1, <3>2
  <2> QED  BY <2>1, <2>2
<1> QED  BY <1>2 DEF NothingBehindCursor

\* A step that moves no cursor leaves nothing behind one.
LEMMA CursorStays ==
  ASSUME TypeOK, Shapes, NothingBehindCursor, [Next]_vars, UNCHANGED cursor
  PROVE  NothingBehindCursor'
<1>1. ASSUME NEW e \in Endpoints, NEW j \in 1..cursor[e]
      PROVE  j \in Landed(e)
  <2>1. cursor[e] \in {0} \cup 1..Len(chain[e]) /\ Len(chain[e]) \in Nat
    BY DEF TypeOK, Landed
  <2> QED  BY <2>1 DEF Landed
<1> QED  BY <1>1, IndexedKept DEF NothingBehindCursor

\* Nothing has landed at first, and nothing is queued.
LEMMA CompleteInit ==
  ASSUME Init
  PROVE  Complete
<1>1. \A e \in Endpoints : Landed(e) = {} /\ cursor[e] = 0
  BY DEF Init, Landed
<1>2. DOMAIN stream = {} /\ DOMAIN backlog = {} /\ stream = <<>> /\ backlog = <<>>
  BY DEF Init
<1>3. phase = "down" /\ ~connected
  BY DEF Init
<1>4. FailedCarriesNothing /\ NothingBehindCursor
  BY <1>1 DEF FailedCarriesNothing, NothingBehindCursor
<1> QED
  BY <1>2, <1>3, <1>4 DEF Complete, QueuesInOrder, Accounted, Consecutive, Crawled

\* A session that ends leaves nothing to account for.
LEMMA EndAccounted ==
  ASSUME EndSession
  PROVE  QueuesInOrder' /\ Accounted'
<1>1. stream' = <<>> /\ backlog' = <<>> /\ phase' = "down" /\ ~connected'
  BY DEF EndSession
<1>2. DOMAIN stream' = {} /\ DOMAIN backlog' = {}
  BY <1>1
<1> QED  BY <1>1, <1>2 DEF QueuesInOrder, Accounted, Consecutive, Crawled

\* A failed transaction lands without events.
LEMMA LandingsFail ==
  ASSUME TypeOK, FailedCarriesNothing, Land
  PROVE  FailedCarriesNothing'
<1>1. PICK tx \in Landings : chain' = [chain EXCEPT ![route] = Append(@, tx)]
  BY DEF Land
<1>2. tx.failed => ~HasEvents(tx) /\ ~tx.garbled
  BY DEF Landings, HasEvents
<1>3. chain \in [Endpoints -> Seq(TransactionRecord)] /\ route \in Endpoints
  BY DEF TypeOK
<1>4. ASSUME NEW e \in Endpoints, NEW i \in Landed(e)'
      PROVE  chain'[e][i].failed => ~HasEvents(chain'[e][i]) /\ ~chain'[e][i].garbled
  <2>1. CASE i \in Landed(e)
    <3>1. chain'[e][i] = chain[e][i]
      BY <2>1, LandKeeps
    <3> QED  BY <2>1, <3>1 DEF FailedCarriesNothing
  <2>2. CASE i \notin Landed(e)
    <3>1. e = route
      BY <1>1, <1>3, <2>2 DEF Landed
    <3>2. chain'[e] = Append(chain[e], tx) /\ chain[e] \in Seq(TransactionRecord)
          /\ tx \in TransactionRecord
      BY <1>1, <1>3, <3>1, LandingsTyped
    <3>3. Len(chain[e]) \in Nat /\ Len(chain'[e]) = Len(chain[e]) + 1
          /\ chain'[e][Len(chain[e]) + 1] = tx
      BY <3>2
    <3>4. i = Len(chain[e]) + 1
      BY <1>4, <2>2, <3>3 DEF Landed
    <3> QED  BY <1>2, <3>3, <3>4
  <2> QED  BY <2>1, <2>2
<1> QED  BY <1>4 DEF FailedCarriesNothing, HasEvents

\* What lands is in the stream of whoever is connected, behind what was in it.
LEMMA LandAccounted ==
  ASSUME TypeOK, Shapes, Complete, Land
  PROVE  QueuesInOrder' /\ Accounted'
<1> DEFINE n == Len(chain[route])
<1>1. n \in Nat /\ Landed(route)' = Landed(route) \cup {n + 1} /\ Len(chain'[route]) = n + 1
      /\ Landed(route) = 1..n /\ route \in Endpoints
      /\ \A e \in Endpoints : e # route => chain'[e] = chain[e]
  <2>1. PICK tx \in Landings : chain' = [chain EXCEPT ![route] = Append(@, tx)]
    BY DEF Land
  <2>2. chain \in [Endpoints -> Seq(TransactionRecord)] /\ route \in Endpoints
        /\ tx \in TransactionRecord
    BY LandingsTyped DEF TypeOK
  <2>3. chain'[route] = Append(chain[route], tx) /\ chain[route] \in Seq(TransactionRecord)
    BY <2>1, <2>2
  <2>4. n \in Nat /\ Len(chain'[route]) = n + 1
    BY <2>2, <2>3
  <2>5. route' = route
    BY DEF Land
  <2> HIDE DEF n
  <2>6. Landed(route)' = 1..(n + 1) /\ Landed(route) = 1..n
    BY <2>4, <2>5 DEF Landed, n
  <2>7. 1..(n + 1) = (1..n) \cup {n + 1}
    BY <2>4
  <2> QED  BY <2>1, <2>2, <2>4, <2>6, <2>7
<1>2. UNCHANGED <<phase, source, connected, backlog>> /\ source \in Endpoints
  BY DEF Land, TypeOK
<1>3. stream \in Seq(Nat) /\ backlog \in Seq(Nat)
  BY DEF Shapes
<1>4. /\ stream # <<>> => stream[1] \in Landed(source) /\ 1 \in DOMAIN stream
      /\ backlog # <<>> => backlog[1] \in Landed(source) /\ 1 \in DOMAIN backlog
  BY <1>3 DEF TypeOK
<1>5. \A i \in Landed(source) : Indexed(source, i) => Indexed(source, i)'
  <2>1. [Next]_vars
    BY DEF Next
  <2> QED  BY <1>2, <2>1, IndexedKept
<1>6. Landed(source) = 1..Len(chain[source]) /\ Len(chain[source]) \in Nat
  BY <1>2 DEF TypeOK, Landed
<1>7. backlog # <<>> => \A i \in 1..(backlog[1] - 1) : Indexed(source, i)'
  <2>1. backlog # <<>> => 1..(backlog[1] - 1) \subseteq Landed(source)
    BY <1>4, <1>6
  <2> QED  BY <1>5, <2>1 DEF Complete, Accounted
<1>8. Crawled /\ stream # <<>> =>
        \A i \in 1..(stream[1] - 1) : Indexed(source, i)' \/ Has(backlog, i)
  <2>1. stream # <<>> => 1..(stream[1] - 1) \subseteq Landed(source)
    BY <1>4, <1>6
  <2> QED  BY <1>5, <2>1 DEF Complete, Accounted
<1>9. CASE connected /\ source = route
  <2>1. stream' = Append(stream, n + 1)
    BY <1>9 DEF Land
  <2> HIDE DEF n
  <2>2. Consecutive(stream) /\ (stream # <<>> => stream[Len(stream)] = n)
    BY <1>9 DEF Complete, QueuesInOrder, n
  <2>3. /\ Consecutive(stream') /\ stream' # <<>> /\ stream'[Len(stream')] = n + 1
        /\ stream'[1] = IF stream = <<>> THEN n + 1 ELSE stream[1]
        /\ \A i : Has(stream', i) <=> i = n + 1 \/ Has(stream, i)
    BY <1>1, <1>3, <2>1, <2>2, RunAppend
  <2>4. QueuesInOrder'
    BY <1>1, <1>2, <1>9, <2>3 DEF Complete, QueuesInOrder, Consecutive
  <2>5. Crawled => \A i \in Landed(source) : Indexed(source, i)' \/ Has(backlog, i) \/ Has(stream, i)
    BY <1>5, <1>9 DEF Complete, Accounted
  <2>6. Crawled' => \A i \in Landed(source)' : Indexed(source, i)' \/ Has(backlog, i) \/ Has(stream', i)
    BY <1>1, <1>2, <1>9, <2>3, <2>5 DEF Crawled, Landed
  <2>7. Crawled' => \A i \in 1..(stream'[1] - 1) : Indexed(source, i)' \/ Has(backlog, i)
    <3>1. CASE stream = <<>>
      <4>1. \A i : ~Has(stream, i)
        BY <3>1 DEF Has
      <4>2. 1..(stream'[1] - 1) = Landed(source)
        BY <1>1, <1>9, <2>3, <3>1
      <4> QED  BY <1>2, <2>5, <4>1, <4>2 DEF Crawled
    <3>2. CASE stream # <<>>
      BY <1>2, <1>8, <2>3, <3>2 DEF Crawled
    <3> QED  BY <3>1, <3>2
  <2> QED  BY <1>2, <1>7, <2>4, <2>6, <2>7 DEF Accounted, Has
<1>10. CASE ~(connected /\ source = route)
  <2>1. stream' = stream
    BY <1>10 DEF Land
  <2>2. connected => chain'[source] = chain[source]
    BY <1>1, <1>2, <1>10
  <2>3. QueuesInOrder'
    BY <1>2, <2>1, <2>2 DEF Complete, QueuesInOrder, Consecutive
  <2>4. Crawled /\ connected =>
          \A i \in Landed(source)' : Indexed(source, i)' \/ Has(backlog, i) \/ Has(stream, i)
    BY <1>2, <1>5, <2>2 DEF Complete, Accounted, Landed
  <2> QED  BY <1>2, <1>7, <1>8, <2>1, <2>3, <2>4 DEF Accounted, Crawled, Has
<1> QED  BY <1>9, <1>10

\* Every step keeps what is accounted for; only a crawl needs the cursor in reach.
LEMMA CompleteStep ==
  ASSUME IngestAssumption, TypeOK, Shapes, Complete, [Next]_vars, Crawl => CursorInReach
  PROVE  Complete'
<1>0. /\ source \in Endpoints /\ stream \in Seq(Nat) /\ backlog \in Seq(Nat)
      /\ Landed(source) = 1..Len(chain[source]) /\ Len(chain[source]) \in Nat
  BY DEF TypeOK, Shapes, Landed
<1>1. CASE Land
  <2>1. UNCHANGED cursor
    BY <1>1 DEF Land, databaseVars
  <2> QED  BY <1>1, <2>1, LandingsFail, LandAccounted, CursorStays DEF Complete
<1>2. ~Land => chain' = chain
  BY DEF Next, Session, Move, Connect, Crawl, CatchUp, FinishCatchUp, GoLive, Notify, Leave,
         LoseConnection, FailSession, vars, chainVars
<1>3. ~Land => FailedCarriesNothing'
  BY <1>2 DEF Complete, FailedCarriesNothing, Landed
<1> PICK e \in Endpoints : e = source
  BY <1>0
<1>4. \A i \in Landed(source) : Indexed(source, i) => Indexed(e, i)'
  BY <1>0, IndexedKept
<1>14. source' = source => \A i : Indexed(source, i)' <=> Indexed(e, i)'
  BY DEF Indexed, HasEvents
<1>5. /\ stream # <<>> => stream[1] \in Landed(source) /\ 1..(stream[1] - 1) \subseteq Landed(source)
      /\ backlog # <<>> => backlog[1] \in Landed(source) /\ 1..(backlog[1] - 1) \subseteq Landed(source)
  <2>1. /\ stream # <<>> => 1 \in DOMAIN stream
        /\ backlog # <<>> => 1 \in DOMAIN backlog
    BY <1>0
  <2>2. /\ stream # <<>> => stream[1] \in Landed(source)
        /\ backlog # <<>> => backlog[1] \in Landed(source)
    BY <2>1 DEF TypeOK
  <2> QED  BY <1>0, <2>2
<1>6. CASE EndSession /\ UNCHANGED cursor
  <2>1. ~Land \/ Complete'
    BY <1>1
  <2> QED  BY <1>3, <1>6, <2>1, EndAccounted, CursorStays DEF Complete
<1>7. CASE Move \/ GoLive \/ LoseConnection \/ UNCHANGED vars
  <2>1. /\ UNCHANGED <<chain, source, stream, backlog, cursor, stored, dead>>
        /\ connected' => connected
        /\ phase' = phase \/ (phase = "starting" /\ phase' = "live")
    BY <1>7 DEF Move, GoLive, LoseConnection, vars, chainVars, sessionVars, databaseVars
  <2>2. QueuesInOrder' /\ (Crawled' => Crawled)
    BY <2>1 DEF Complete, QueuesInOrder, Consecutive, Crawled
  <2>3. \A i : Indexed(source, i)' <=> Indexed(source, i)
    BY <2>1 DEF Indexed, HasEvents
  <2>4. Accounted'
    BY <2>1, <2>2, <2>3 DEF Complete, Accounted, Has, Landed
  <2>5. FailedCarriesNothing'
    BY <2>1 DEF Complete, FailedCarriesNothing, Landed
  <2> QED  BY <2>1, <2>2, <2>4, <2>5, CursorStays DEF Complete
<1>8. CASE Connect
  <2>1. /\ phase = "down" /\ phase' = "subscribed"
        /\ UNCHANGED <<chain, stream, backlog, cursor>>
    BY <1>8 DEF Connect, chainVars, databaseVars
  <2>2. stream' = <<>> /\ backlog' = <<>> /\ DOMAIN stream' = {} /\ DOMAIN backlog' = {}
    BY <2>1 DEF Shapes
  <2>3. QueuesInOrder' /\ Accounted'
    BY <2>1, <2>2 DEF QueuesInOrder, Accounted, Consecutive, Crawled
  <2>4. FailedCarriesNothing'
    BY <2>1 DEF Complete, FailedCarriesNothing, Landed
  <2> QED  BY <2>1, <2>3, <2>4, CursorStays DEF Complete
<1>9. CASE Crawl
  <2>1. /\ phase' = "catching_up" /\ backlog' = Backlog(OldestCrawled, Len(chain[source]))
        /\ UNCHANGED <<chain, source, stream, connected, cursor, stored, dead>>
    BY <1>9 DEF Crawl, chainVars, databaseVars
  <2>2. /\ Consecutive(backlog')
        /\ \A i \in Landed(source) : i >= OldestCrawled => Has(backlog', i)
        /\ backlog' # <<>> => backlog'[1] = OldestCrawled
        /\ OldestCrawled \in Nat /\ OldestCrawled <= cursor[source] + 1
    BY <1>9, <2>1, CrawlReaches
  <2>3. cursor[source] \in Nat
    BY <1>0 DEF Shapes
  <2>4. \A i \in 1..(OldestCrawled - 1) : Indexed(source, i)
    <3>1. 1..(OldestCrawled - 1) \subseteq 1..cursor[source]
      BY <2>2, <2>3
    <3> QED  BY <1>0, <3>1 DEF Complete, NothingBehindCursor
  <2>5. \A i \in Landed(source) : Indexed(source, i) \/ Has(backlog', i)
    <3>1. \A i \in Landed(source) : i >= OldestCrawled \/ i \in 1..(OldestCrawled - 1)
      BY <1>0, <2>2
    <3> QED  BY <2>2, <2>4, <3>1
  <2>6. \A i : Indexed(source, i)' <=> Indexed(source, i)
    BY <2>1 DEF Indexed, HasEvents
  <2>7. stream' # <<>> => \A i \in 1..(stream'[1] - 1) : Indexed(source, i) \/ Has(backlog', i)
    BY <1>5, <2>1, <2>5
  <2>8. Accounted'
    BY <2>1, <2>2, <2>4, <2>5, <2>6, <2>7 DEF Accounted, Has, Landed
  <2>9. QueuesInOrder'
    BY <2>1, <2>2 DEF Complete, QueuesInOrder, Consecutive
  <2>10. FailedCarriesNothing'
    BY <2>1 DEF Complete, FailedCarriesNothing, Landed
  <2> QED  BY <2>1, <2>8, <2>9, <2>10, CursorStays DEF Complete
<1>10. CASE CatchUp
  <2> PICK b : b = Head(backlog)
    OBVIOUS
  <2>1. /\ phase = "catching_up" /\ backlog # <<>> /\ backlog' = Tail(backlog)
        /\ UNCHANGED <<chain, phase, source, stream, connected>>
        /\ \/ chain[e][b].failed /\ UNCHANGED databaseVars
           \/ Ingest(e, b)
    BY <1>10 DEF CatchUp, chainVars
  <2>0. /\ b = backlog[1] /\ b \in Nat /\ Consecutive(Tail(backlog))
        /\ Tail(backlog) # <<>> => Tail(backlog)[1] = b + 1
        /\ \A i : Has(backlog, i) <=> i = b \/ Has(Tail(backlog), i)
    <3>1. backlog \in Seq(Nat) /\ backlog # <<>> /\ Consecutive(backlog)
      BY <1>0, <2>1 DEF Complete, QueuesInOrder
    <3> QED  BY <2>1, <3>1, RunTail
  <2>2. /\ b = backlog[1] /\ b \in Nat /\ Consecutive(backlog')
        /\ backlog' # <<>> => backlog'[1] = b + 1
        /\ \A i : Has(backlog, i) <=> i = b \/ Has(backlog', i)
    BY <2>0, <2>1
  <2>3. b \in Landed(source) /\ b \in Landed(e)
    BY <1>5, <2>1, <2>2
  <2>4. Indexed(e, b)'
    BY <2>1, <2>3, AppliedIsIndexed DEF Complete
  <2>5. \A i \in 1..b : Indexed(e, i)'
    <3>1. \A i \in 1..(b - 1) : Indexed(e, i)'
      BY <1>4, <1>5, <2>1, <2>2 DEF Complete, Accounted
    <3>2. \A i \in 1..b : i = b \/ i \in 1..(b - 1)
      BY <2>2
    <3> QED  BY <2>4, <3>1, <3>2
  <2>6. NothingBehindCursor'
    <3>1. AdvanceCursor(e, b) \/ UNCHANGED cursor
      BY <2>1 DEF Ingest, databaseVars
    <3> QED  BY <2>1, <2>3, <2>5, <3>1, CursorMoves DEF Complete
  <2>7. Crawled /\ Crawled' /\ QueuesInOrder'
    BY <2>1, <2>2 DEF Complete, QueuesInOrder, Consecutive, Crawled
  <2>8. Accounted'
    <3>1. backlog' # <<>> => \A i \in 1..(backlog'[1] - 1) : Indexed(e, i)'
      BY <2>2, <2>5
    <3>2. \A i \in Landed(source) : Indexed(source, i) \/ Has(backlog, i) =>
                                      Indexed(e, i)' \/ Has(backlog', i)
      BY <1>4, <2>2, <2>4
    <3>3. stream # <<>> => \A i \in 1..(stream[1] - 1) : Indexed(e, i)' \/ Has(backlog', i)
      BY <1>5, <2>7, <3>2 DEF Complete, Accounted
    <3>4. connected => \A i \in Landed(source) : Indexed(e, i)' \/ Has(backlog', i) \/ Has(stream, i)
      BY <2>7, <3>2 DEF Complete, Accounted
    <3> QED  BY <1>14, <2>1, <3>1, <3>3, <3>4 DEF Accounted, Has, Landed
  <2>9. FailedCarriesNothing'
    BY <2>1 DEF Complete, FailedCarriesNothing, Landed
  <2> QED  BY <2>6, <2>7, <2>8, <2>9 DEF Complete
<1>11. CASE FinishCatchUp
  <2>1. CASE EndSession
    <3>1. UNCHANGED cursor
      BY <1>11 DEF FinishCatchUp, databaseVars
    <3> QED  BY <1>6, <2>1, <3>1
  <2>2. CASE phase' = "starting" /\ UNCHANGED <<source, stream, connected, backlog>>
    <3>1. /\ phase = "catching_up" /\ backlog = <<>>
          /\ UNCHANGED <<chain, cursor, stored, dead>>
      BY <1>11 DEF FinishCatchUp, chainVars, databaseVars
    <3>2. QueuesInOrder' /\ Crawled
      BY <2>2, <3>1 DEF Complete, QueuesInOrder, Consecutive, Crawled
    <3>3. \A i : Indexed(source, i)' <=> Indexed(source, i)
      BY <2>2, <3>1 DEF Indexed, HasEvents
    <3>4. Accounted'
      BY <2>2, <3>1, <3>2, <3>3 DEF Complete, Accounted, Has, Landed
    <3>5. FailedCarriesNothing'
      BY <3>1 DEF Complete, FailedCarriesNothing, Landed
    <3> QED  BY <3>1, <3>2, <3>4, <3>5, CursorStays DEF Complete
  <2> QED  BY <1>11, <2>1, <2>2 DEF FinishCatchUp
<1>12. CASE Notify
  <2> PICK b : b = Head(stream)
    OBVIOUS
  <2>1. /\ phase = "live" /\ stream # <<>> /\ stream' = Tail(stream)
        /\ UNCHANGED <<chain, phase, source, backlog, connected>>
        /\ \/ chain[e][b].failed /\ AdvanceCursor(e, b) /\ UNCHANGED <<stored, dead>>
           \/ Ingest(e, b)
    BY <1>12 DEF Notify, chainVars
  <2>0. /\ b = stream[1] /\ b \in Nat /\ Consecutive(Tail(stream))
        /\ Tail(stream) # <<>> => Tail(stream)[1] = b + 1 /\ Tail(stream)[Len(Tail(stream))] = stream[Len(stream)]
        /\ \A i : Has(stream, i) <=> i = b \/ Has(Tail(stream), i)
    <3>1. stream \in Seq(Nat) /\ stream # <<>> /\ Consecutive(stream)
      BY <1>0, <2>1 DEF Complete, QueuesInOrder
    <3> QED  BY <2>1, <3>1, RunTail
  <2>2. /\ b = stream[1] /\ b \in Nat /\ Consecutive(stream')
        /\ stream' # <<>> => stream'[1] = b + 1 /\ stream'[Len(stream')] = stream[Len(stream)]
        /\ \A i : Has(stream, i) <=> i = b \/ Has(stream', i)
    BY <2>0, <2>1
  <2>3. b \in Landed(source) /\ b \in Landed(e)
    BY <1>5, <2>1, <2>2
  <2>4. Indexed(e, b)'
    BY <2>1, <2>3, AppliedIsIndexed DEF Complete
  <2>5. Crawled /\ backlog = <<>> /\ \A i : ~Has(backlog, i)
    BY <2>1 DEF Complete, QueuesInOrder, Crawled, Has
  <2>6. \A i \in 1..b : Indexed(e, i)'
    <3>1. \A i \in 1..(b - 1) : Indexed(e, i)'
      BY <1>4, <1>5, <2>1, <2>2, <2>5 DEF Complete, Accounted
    <3>2. \A i \in 1..b : i = b \/ i \in 1..(b - 1)
      BY <2>2
    <3> QED  BY <2>4, <3>1, <3>2
  <2>7. NothingBehindCursor'
    <3>1. AdvanceCursor(e, b)
      BY <2>1 DEF Ingest
    <3> QED  BY <2>1, <2>3, <2>6, <3>1, CursorMoves DEF Complete
  <2>8. QueuesInOrder'
    BY <2>1, <2>2 DEF Complete, QueuesInOrder, Consecutive
  <2>9. Accounted'
    <3>1. stream' # <<>> => \A i \in 1..(stream'[1] - 1) : Indexed(e, i)'
      BY <2>2, <2>6
    <3>2. connected => \A i \in Landed(source) : Indexed(e, i)' \/ Has(stream', i)
      BY <1>4, <2>2, <2>4, <2>5 DEF Complete, Accounted
    <3> QED  BY <1>14, <2>1, <2>5, <3>1, <3>2 DEF Accounted, Has, Landed
  <2>10. FailedCarriesNothing'
    BY <2>1 DEF Complete, FailedCarriesNothing, Landed
  <2> QED  BY <2>7, <2>8, <2>9, <2>10 DEF Complete
<1>13. CASE Leave \/ FailSession
  BY <1>6, <1>13 DEF Leave, FailSession, databaseVars
<1> QED
  BY <1>1, <1>7, <1>8, <1>9, <1>10, <1>11, <1>12, <1>13 DEF Next, Session

-----------------------------------------------------------------------------
(***************************************************************************)
(* The theorems.                                                           *)
(***************************************************************************)

\* The inductive invariant holds in every state the writer reaches.
THEOREM Invariance == Spec => []IInv
<1>1. Init => IInv
  BY TypesInit, ProjectionInit, IngestAssumption DEF IInv
<1>2. IInv /\ [Next]_vars => IInv'
  BY TypesStep, ProjectionStep, IngestAssumption DEF IInv
<1> QED  BY <1>1, <1>2, PTL DEF Spec

\* Types of the chains, the session and the tables; nothing queued, stored or pointed to
\* by a cursor is a transaction that has not landed.
THEOREM TypeCorrect == Spec => []TypeOK
<1>1. IInv => TypeOK
  BY DEF IInv
<1> QED  BY <1>1, Invariance, PTL

\* The row of every position is the one its stored events make, in whatever order, from
\* whatever source and however often upsert_position_created and _closed were run.
THEOREM ProjectionIsFaithful == Spec => []ProjectionFaithful
<1>1. IInv => ProjectionFaithful
  BY DEF IInv
<1> QED  BY <1>1, Invariance, PTL

\* No step of the writer reopens a closed position or forgets that one was created.
THEOREM ClosedStaysClosed == Spec => TerminalIsMonotonic
<1> DEFINE Kept == \A p \in Positions :
             /\ rows[p].status = "closed" => rows'[p].status = "closed"
             /\ rows[p].opened => rows'[p].opened
<1>1. ASSUME NEW tx, NEW p \in Positions, rows' = RowsAfter(tx)
      PROVE  /\ rows[p].status = "closed" => rows'[p].status = "closed"
             /\ rows[p].opened => rows'[p].opened
  <2>1. CASE p \in tx.created
    BY <1>1, <2>1 DEF RowsAfter, RowAfterCreated, RowAfterClosed
  <2>2. CASE p \notin tx.created
    BY <1>1, <2>2 DEF RowsAfter, RowAfterCreated, RowAfterClosed
  <2> QED  BY <2>1, <2>2
<1>2. ASSUME NEW e, NEW i, Ingest(e, i)
      PROVE  rows' = rows \/ \E tx : rows' = RowsAfter(tx)
  BY <1>2 DEF Ingest
<1>3. [Next]_vars => rows' = rows \/ \E tx : rows' = RowsAfter(tx)
  BY <1>2 DEF Next, Session, Land, Move, Connect, Crawl, CatchUp, FinishCatchUp, GoLive, Notify,
              Leave, LoseConnection, FailSession, vars, databaseVars
<1>4. [Next]_vars => [Kept]_vars
  BY <1>1, <1>3
<1> QED  BY <1>4, PTL DEF Spec, TerminalIsMonotonic

\* Complete holds for as long as every outage has been short.
LEMMA CompleteAlways == Spec /\ OutagesAreShort => [](TypeOK /\ Shapes /\ Complete)
<1>1. Init => TypeOK /\ Shapes /\ Complete
  BY TypesInit, CompleteInit, IngestAssumption
<1>2. /\ TypeOK /\ Shapes /\ Complete /\ [Next]_vars /\ [Crawl => CursorInReach]_vars
      => (TypeOK /\ Shapes /\ Complete)'
  <2>1. vars' = vars => ~Crawl
    BY DEF vars, sessionVars, Crawl
  <2> QED  BY <2>1, TypesStep, CompleteStep, IngestAssumption
<1> QED  BY <1>1, <1>2, PTL DEF Spec, OutagesAreShort

\* Nothing behind a cursor is missing, whatever failed or moved between or within the
\* sessions, if no outage outgrew a crawl.  (One that did is what the run on short
\* catch-ups is about.)
THEOREM CursorsLoseNothing == Spec /\ OutagesAreShort => []NothingBehindCursor
<1>1. Complete => NothingBehindCursor
  BY DEF Complete
<1> QED  BY <1>1, CompleteAlways, PTL

\* A live session has indexed, or will be notified of, everything at its source, the
\* transactions between its subscription and its crawl included.
THEOREM LiveSeesAll == Spec /\ OutagesAreShort => []LiveMissesNothing
<1>1. TypeOK /\ Shapes /\ Complete => LiveMissesNothing
  BY DEF Complete, QueuesInOrder, Accounted, Crawled, Has, LiveMissesNothing, InStream
<1> QED  BY <1>1, CompleteAlways, PTL

-----------------------------------------------------------------------------
(***************************************************************************)
(* The upserts of the storage, on whole rows.                              *)
(***************************************************************************)

CONSTANTS None, I64_MAX

S == INSTANCE IndexerStorage

\* The columns of a position, and the rows that have them.
Columns == DOMAIN S!BlankPosition

LifeCycles == {"open", "settled", "refunded"}

IsRow(row) ==
  /\ row = [c \in Columns |-> row[c]]
  /\ row.slot \in Nat /\ row.status \in LifeCycles /\ row.partial \in BOOLEAN

\* What the program's events say; the fields of one kind do not matter to the other.
IsCreation(o) ==
  o.event.variant = "position_created" /\ o.event.user # None /\ o.slot \in Nat

IsClose(o) ==
  o.event.variant = "position_closed" /\ o.slot \in Nat

\* The columns of a position row, by name.
LEMMA ColumnsAre ==
  Columns = {"user", "entry_price", "collateral", "direction", "expires", "opened", "created_by",
             "status", "outcome", "payout", "lp_fee", "platform_fee", "closed", "closed_by",
             "partial", "slot"}
BY DEF Columns, S!BlankPosition

\* A row that an event has just made is a row.
LEMMA BlankIsRow ==
  ASSUME NEW n \in Nat
  PROVE  IsRow([S!BlankPosition EXCEPT !.slot = n])
BY ColumnsAre DEF IsRow, S!BlankPosition, LifeCycles

\* A creation fills its columns, and no other but the mark and the slot.
CreatedFrom(new, row, o) ==
  /\ IsRow(new)
  /\ new.user = o.event.user /\ new.entry_price = o.event.entry_price
  /\ new.collateral = o.event.collateral /\ new.direction = o.event.direction
  /\ new.expires = o.event.expires
  /\ new.opened = o.event.expires - S!POSITION_SECONDS
  /\ new.created_by = <<o.source.id, o.signature>>
  /\ new.partial = FALSE
  /\ new.slot = IF row.slot >= o.slot THEN row.slot ELSE o.slot
  /\ new.status = row.status /\ new.outcome = row.outcome /\ new.payout = row.payout
  /\ new.lp_fee = row.lp_fee /\ new.platform_fee = row.platform_fee
  /\ new.closed = row.closed /\ new.closed_by = row.closed_by

\* The upsert of upsert_position_created fills what it should and nothing else.
LEMMA Created ==
  ASSUME NEW row, IsRow(row), NEW o, IsCreation(o)
  PROVE  CreatedFrom(S!CreatedRow(row, o), row, o)
BY ColumnsAre DEF CreatedFrom, IsRow, IsCreation, S!CreatedRow, S!GREATEST, LifeCycles

\* A close fills its columns and the life cycle; the time only where none is known, and
\* not in a row that has all the others already.
ClosedFrom(new, row, o) ==
  /\ IsRow(new)
  /\ new.user = row.user /\ new.entry_price = row.entry_price
  /\ new.collateral = row.collateral /\ new.direction = row.direction
  /\ new.expires = row.expires /\ new.opened = row.opened
  /\ new.created_by = row.created_by
  /\ new.partial = (row.user = None)
  /\ new.slot = IF row.slot >= o.slot THEN row.slot ELSE o.slot
  /\ new.status = S!LifecycleStatus(o.event.outcome)
  /\ new.outcome = o.event.outcome /\ new.payout = o.event.payout
  /\ new.lp_fee = o.event.lp_fee /\ new.platform_fee = o.event.platform_fee
  /\ new.closed_by = <<o.source.id, o.signature>>
  /\ new.closed = IF S!SettledRow(row, o) = row \/ row.closed # None
                  THEN row.closed ELSE o.time

\* So does the one of upsert_position_closed.
LEMMA Closed ==
  ASSUME NEW row, IsRow(row), NEW o, IsClose(o)
  PROVE  ClosedFrom(S!ClosedRow(row, o), row, o)
<1> DEFINE settled == S!SettledRow(row, o)
<1>1. S!LifecycleStatus(o.event.outcome) \in {"refunded", "settled"}
  BY DEF S!LifecycleStatus
<1>2. /\ IsRow(settled)
      /\ settled.user = row.user /\ settled.entry_price = row.entry_price
      /\ settled.collateral = row.collateral /\ settled.direction = row.direction
      /\ settled.expires = row.expires /\ settled.opened = row.opened
      /\ settled.created_by = row.created_by
      /\ settled.partial = (row.user = None)
      /\ settled.slot = IF row.slot >= o.slot THEN row.slot ELSE o.slot
      /\ settled.status = S!LifecycleStatus(o.event.outcome)
      /\ settled.outcome = o.event.outcome /\ settled.payout = o.event.payout
      /\ settled.lp_fee = o.event.lp_fee /\ settled.platform_fee = o.event.platform_fee
      /\ settled.closed_by = <<o.source.id, o.signature>>
      /\ settled.closed = row.closed
  BY <1>1, ColumnsAre DEF IsRow, IsClose, S!SettledRow, S!GREATEST, LifeCycles
<1> HIDE DEF settled
<1>3. CASE settled = row
  <2>1. S!ClosedRow(row, o) = row
    BY <1>3 DEF S!ClosedRow, settled
  <2>2. S!SettledRow(row, o) = row
    BY <1>3 DEF settled
  <2> QED  BY <1>2, <1>3, <2>1, <2>2 DEF ClosedFrom
<1>4. CASE settled # row
  <2>1. S!ClosedRow(row, o) =
          [settled EXCEPT !.closed = IF row.closed = None THEN o.time ELSE row.closed]
    BY <1>4 DEF S!ClosedRow, settled
  <2>2. S!SettledRow(row, o) # row
    BY <1>4 DEF settled
  <2> QED  BY <1>2, <2>1, <2>2, ColumnsAre DEF IsRow, ClosedFrom
<1> QED  BY <1>3, <1>4

\* Rows with the same columns are the same.
LEMMA SameColumns ==
  ASSUME NEW a, NEW b, IsRow(a), IsRow(b),
         a.user = b.user, a.entry_price = b.entry_price, a.collateral = b.collateral,
         a.direction = b.direction, a.expires = b.expires, a.opened = b.opened,
         a.created_by = b.created_by, a.status = b.status, a.outcome = b.outcome,
         a.payout = b.payout, a.lp_fee = b.lp_fee, a.platform_fee = b.platform_fee,
         a.closed = b.closed, a.closed_by = b.closed_by, a.partial = b.partial, a.slot = b.slot
  PROVE  a = b
<1>1. \A c \in Columns : a[c] = b[c]
  BY ColumnsAre
<1>2. [c \in Columns |-> a[c]] = [c \in Columns |-> b[c]]
  BY <1>1
<1> QED  BY <1>2 DEF IsRow

-----------------------------------------------------------------------------
(***************************************************************************)
(* Rows.                                                                   *)
(***************************************************************************)

\* A creation delivered again changes nothing, before the close and after it.
LEMMA CreatedTwice ==
  ASSUME NEW row, IsRow(row), NEW o, IsCreation(o)
  PROVE  S!CreatedRow(S!CreatedRow(row, o), o) = S!CreatedRow(row, o)
<1> DEFINE once  == S!CreatedRow(row, o)
           twice == S!CreatedRow(once, o)
<1>1. CreatedFrom(once, row, o)
  BY Created
<1>2. CreatedFrom(twice, once, o)
  BY <1>1, Created DEF CreatedFrom
<1> HIDE DEF once, twice
<1>3. once.slot = twice.slot
  <2>1. row.slot \in Nat /\ o.slot \in Nat
    BY DEF IsRow, IsCreation
  <2> QED  BY <1>1, <1>2, <2>1 DEF CreatedFrom
<1>4. twice = once
  BY <1>1, <1>2, <1>3, SameColumns DEF CreatedFrom
<1> QED  BY <1>4 DEF once, twice

\* A close delivered again changes nothing: not even to fill in the time it lacks, when
\* it comes with one.
LEMMA ClosedTwice ==
  ASSUME NEW row, IsRow(row), NEW o, IsClose(o), NEW again, IsClose(again),
         again.event = o.event, again.source = o.source, again.signature = o.signature,
         again.slot = o.slot
  PROVE  S!ClosedRow(S!ClosedRow(row, o), again) = S!ClosedRow(row, o)
<1> DEFINE once == S!ClosedRow(row, o)
<1>1. /\ IsRow(once) /\ once.partial = (once.user = None) /\ once.slot >= o.slot
      /\ once.status = S!LifecycleStatus(o.event.outcome)
      /\ once.outcome = o.event.outcome /\ once.payout = o.event.payout
      /\ once.lp_fee = o.event.lp_fee /\ once.platform_fee = o.event.platform_fee
      /\ once.closed_by = <<o.source.id, o.signature>>
  <2>1. row.slot \in Nat /\ o.slot \in Nat
    BY DEF IsRow, IsClose
  <2>2. ClosedFrom(once, row, o)
    BY Closed
  <2> QED  BY <2>1, <2>2 DEF ClosedFrom
<1> HIDE DEF once
<1>2. S!SettledRow(once, again) = once
  <2>1. S!GREATEST(once.slot, again.slot) = once.slot
    BY <1>1 DEF S!GREATEST
  <2> DEFINE new == S!SettledRow(once, again)
  <2>2. \A c \in Columns : new[c] = once[c]
    BY <1>1, <2>1, ColumnsAre DEF IsRow, S!SettledRow
  <2>3. new = [c \in Columns |-> new[c]]
    BY <1>1, ColumnsAre DEF IsRow, S!SettledRow
  <2>4. once = [c \in Columns |-> once[c]]
    BY <1>1 DEF IsRow
  <2> HIDE DEF new
  <2>5. [c \in Columns |-> new[c]] = [c \in Columns |-> once[c]]
    BY <2>2
  <2>6. new = once
    BY <2>3, <2>4, <2>5
  <2> QED  BY <2>6 DEF new
<1>3. S!ClosedRow(once, again) = once
  BY <1>2 DEF S!ClosedRow
<1> QED  BY <1>3 DEF once

\* A close changes an open row.
LEMMA OpenIsNotSettled ==
  ASSUME NEW row, IsRow(row), row.status = "open", NEW o, IsClose(o)
  PROVE  S!SettledRow(row, o) # row
<1>1. S!LifecycleStatus(o.event.outcome) # "open"
  BY DEF S!LifecycleStatus
<1>2. S!SettledRow(row, o).status = S!LifecycleStatus(o.event.outcome)
  BY ColumnsAre DEF IsRow, S!SettledRow
<1> QED  BY <1>1, <1>2

\* Of an open position it does not matter which of its two events is stored first.
LEMMA RowsCommute ==
  ASSUME NEW row, IsRow(row), row.status = "open",
         NEW c, IsCreation(c), NEW d, IsClose(d)
  PROVE  S!ClosedRow(S!CreatedRow(row, c), d) = S!CreatedRow(S!ClosedRow(row, d), c)
<1> DEFINE created == S!CreatedRow(row, c)
           closed  == S!ClosedRow(row, d)
           a       == S!ClosedRow(created, d)
           b       == S!CreatedRow(closed, c)
<1>1. CreatedFrom(created, row, c) /\ ClosedFrom(closed, row, d)
  BY Created, Closed
<1>2. IsRow(created) /\ IsRow(closed)
  BY <1>1 DEF CreatedFrom, ClosedFrom
<1>3. ClosedFrom(a, created, d) /\ CreatedFrom(b, closed, c)
  BY <1>2, Created, Closed
<1>4. created.status = "open" /\ created.user # None
  BY <1>1 DEF CreatedFrom, IsCreation
<1>5. S!SettledRow(row, d) # row /\ S!SettledRow(created, d) # created
  BY <1>2, <1>4, OpenIsNotSettled
<1> HIDE DEF created, closed, a, b
<1>6. a.closed = b.closed
  BY <1>1, <1>3, <1>5 DEF CreatedFrom, ClosedFrom
<1>7. a.slot = b.slot
  <2>1. row.slot \in Nat /\ c.slot \in Nat /\ d.slot \in Nat
    BY DEF IsRow, IsCreation, IsClose
  <2> QED  BY <1>1, <1>3, <2>1 DEF CreatedFrom, ClosedFrom
<1>8. a.partial = b.partial
  BY <1>3, <1>4 DEF CreatedFrom, ClosedFrom
<1>9. /\ a.user = b.user /\ a.entry_price = b.entry_price /\ a.collateral = b.collateral
      /\ a.direction = b.direction /\ a.expires = b.expires /\ a.opened = b.opened
      /\ a.created_by = b.created_by
  BY <1>1, <1>3 DEF CreatedFrom, ClosedFrom
<1>10. /\ a.status = b.status /\ a.outcome = b.outcome /\ a.payout = b.payout
       /\ a.lp_fee = b.lp_fee /\ a.platform_fee = b.platform_fee /\ a.closed_by = b.closed_by
  BY <1>1, <1>3 DEF CreatedFrom, ClosedFrom
<1>11. IsRow(a) /\ IsRow(b)
  BY <1>3 DEF CreatedFrom, ClosedFrom
<1>12. a = b
  BY <1>6, <1>7, <1>8, <1>9, <1>10, <1>11, SameColumns
<1> QED  BY <1>12 DEF a, b, created, closed

\* A row that was never there gets its first slot from the event that makes it.
LEMMA FirstSlot ==
  ASSUME NEW o, IsCreation(o) \/ IsClose(o)
  PROVE  LET new == [S!BlankPosition EXCEPT !.slot = o.slot]
         IN  /\ IsRow(new) /\ IsRow(S!BlankPosition)
             /\ S!BlankPosition.status = "open" /\ S!BlankPosition.user = None
             /\ IsCreation(o) => S!CreatedRow(new, o) = S!CreatedRow(S!BlankPosition, o)
             /\ IsClose(o) => S!ClosedRow(new, o) = S!ClosedRow(S!BlankPosition, o)
<1> DEFINE blank == S!BlankPosition
           new   == [blank EXCEPT !.slot = o.slot]
<1>1. IsRow(blank) /\ blank.status = "open" /\ blank.user = None /\ blank.slot = 0
  BY ColumnsAre DEF IsRow, S!BlankPosition, LifeCycles
<1>2. o.slot \in Nat
  BY DEF IsCreation, IsClose
<1>3. IsRow(new) /\ new.slot = o.slot
  BY <1>2, BlankIsRow, ColumnsAre DEF S!BlankPosition
<1>4. \A column \in Columns \ {"slot"} : new[column] = blank[column]
  BY ColumnsAre DEF S!BlankPosition
<1> HIDE DEF blank, new
<1>5. /\ new.user = blank.user /\ new.entry_price = blank.entry_price
      /\ new.collateral = blank.collateral /\ new.direction = blank.direction
      /\ new.expires = blank.expires /\ new.opened = blank.opened
      /\ new.created_by = blank.created_by /\ new.status = blank.status
      /\ new.outcome = blank.outcome /\ new.payout = blank.payout
      /\ new.lp_fee = blank.lp_fee /\ new.platform_fee = blank.platform_fee
      /\ new.closed = blank.closed /\ new.closed_by = blank.closed_by
      /\ new.partial = blank.partial
  BY <1>4, ColumnsAre
<1>6. ASSUME IsCreation(o) PROVE S!CreatedRow(new, o) = S!CreatedRow(blank, o)
  <2> DEFINE a == S!CreatedRow(new, o)
             b == S!CreatedRow(blank, o)
  <2>1. CreatedFrom(a, new, o) /\ CreatedFrom(b, blank, o)
    BY <1>1, <1>3, <1>6, Created
  <2> HIDE DEF a, b
  <2>2. a.slot = b.slot
    BY <1>1, <1>2, <1>3, <2>1 DEF CreatedFrom
  <2>3. a = b
    BY <1>5, <2>1, <2>2, SameColumns DEF CreatedFrom
  <2> QED  BY <2>3 DEF a, b
<1>7. ASSUME IsClose(o) PROVE S!ClosedRow(new, o) = S!ClosedRow(blank, o)
  <2> DEFINE a == S!ClosedRow(new, o)
             b == S!ClosedRow(blank, o)
  <2>1. ClosedFrom(a, new, o) /\ ClosedFrom(b, blank, o)
    BY <1>1, <1>3, <1>7, Closed
  <2>2. S!SettledRow(new, o) # new /\ S!SettledRow(blank, o) # blank
    BY <1>1, <1>3, <1>5, <1>7, OpenIsNotSettled
  <2> HIDE DEF a, b
  <2>3. a.slot = b.slot
    BY <1>1, <1>2, <1>3, <2>1 DEF ClosedFrom
  <2>4. a.closed = b.closed
    BY <1>5, <2>1, <2>2 DEF ClosedFrom
  <2>5. a = b
    BY <1>5, <2>1, <2>3, <2>4, SameColumns DEF ClosedFrom
  <2> QED  BY <2>5 DEF a, b
<1> QED  BY <1>1, <1>3, <1>6, <1>7 DEF new, blank

-----------------------------------------------------------------------------
(***************************************************************************)
(* Tables.                                                                 *)
(***************************************************************************)

\* The last of two rows of one key is the row.
LEMMA UpsertedTwice ==
  ASSUME NEW table, NEW key, NEW a, NEW b
  PROVE  S!Upserted(S!Upserted(table, key, a), key, b) = S!Upserted(table, key, b)
<1> DEFINE once == S!Upserted(table, key, a)
           D    == DOMAIN table \cup {key}
<1>1. DOMAIN once = D /\ \A k \in D : k # key => once[k] = table[k]
  BY DEF S!Upserted
<1>2. D \cup {key} = D
  OBVIOUS
<1>3. \A k \in D : (IF k = key THEN b ELSE once[k]) = (IF k = key THEN b ELSE table[k])
  BY <1>1
<1> HIDE DEF once, D
<1>4. [k \in D |-> IF k = key THEN b ELSE once[k]] = [k \in D |-> IF k = key THEN b ELSE table[k]]
  BY <1>3
<1>5. S!Upserted(once, key, b) = [k \in D |-> IF k = key THEN b ELSE once[k]]
  BY <1>1, <1>2 DEF S!Upserted
<1>6. S!Upserted(table, key, b) = [k \in D |-> IF k = key THEN b ELSE table[k]]
  BY DEF S!Upserted, D
<1> QED  BY <1>4, <1>5, <1>6 DEF once

\* Rows of different keys do not meet.
LEMMA UpsertedApart ==
  ASSUME NEW table, NEW k, NEW l, k # l, NEW a, NEW b
  PROVE  S!Upserted(S!Upserted(table, k, a), l, b) = S!Upserted(S!Upserted(table, l, b), k, a)
<1> DEFINE D  == (DOMAIN table \cup {k}) \cup {l}
           t1 == S!Upserted(table, k, a)
           t2 == S!Upserted(table, l, b)
<1>1. DOMAIN t1 = DOMAIN table \cup {k} /\ DOMAIN t2 = DOMAIN table \cup {l}
  BY DEF S!Upserted
<1>2. \A x \in D : (IF x = l THEN b ELSE t1[x]) = (IF x = k THEN a ELSE t2[x])
  BY DEF S!Upserted
<1>3. S!Upserted(t1, l, b) = [x \in D |-> IF x = l THEN b ELSE t1[x]]
  BY <1>1 DEF S!Upserted
<1>4. S!Upserted(t2, k, a) = [x \in D |-> IF x = k THEN a ELSE t2[x]]
  <2>1. DOMAIN t2 \cup {k} = D
    BY <1>1
  <2> HIDE DEF D, t2
  <2> QED  BY <2>1 DEF S!Upserted
<1> HIDE DEF D, t1, t2
<1> QED  BY <1>2, <1>3, <1>4 DEF t1, t2

IsTable(table) == \A k \in DOMAIN table : IsRow(table[k])

\* The row an event finds, and what it makes of it.
RowOf(table, key) == IF key \in DOMAIN table THEN table[key] ELSE S!BlankPosition

RowAfterEvent(row, o) ==
  IF o.event.variant = "position_created" THEN S!CreatedRow(row, o) ELSE S!ClosedRow(row, o)

\* What an event of a position does to the table, with the first slot of a row aside.
LEMMA AfterEvent ==
  ASSUME NEW table, IsTable(table), NEW o, IsCreation(o) \/ IsClose(o)
  PROVE  LET key == S!PositionKey(o)
         IN  /\ IsRow(RowOf(table, key))
             /\ S!PositionsAfter(table, o)
                  = S!Upserted(table, key, RowAfterEvent(RowOf(table, key), o))
             /\ IsRow(RowAfterEvent(RowOf(table, key), o))
             /\ IsTable(S!PositionsAfter(table, o))
<1> DEFINE key == S!PositionKey(o)
           row == RowOf(table, key)
           new == RowAfterEvent(row, o)
<1>1. IsRow(row)
  BY FirstSlot DEF RowOf, IsTable
<1>2. RowAfterEvent(S!PositionBefore(table, o), o) = new
  BY FirstSlot DEF RowAfterEvent, S!PositionBefore, RowOf, IsCreation, IsClose
<1>3. S!PositionsAfter(table, o) = S!Upserted(table, key, new)
  <2>1. S!PositionsAfter(table, o)
          = S!Upserted(table, key, RowAfterEvent(S!PositionBefore(table, o), o))
    BY DEF S!PositionsAfter, RowAfterEvent, IsCreation, IsClose
  <2> QED  BY <1>2, <2>1
<1>4. IsRow(new)
  BY <1>1, Created, Closed DEF RowAfterEvent, CreatedFrom, ClosedFrom, IsCreation, IsClose
<1> HIDE DEF new
<1>5. IsTable(S!Upserted(table, key, new))
  BY <1>4 DEF IsTable, S!Upserted
<1> QED  BY <1>1, <1>3, <1>4, <1>5 DEF new

\* What an upsert leaves under its key, and under the others.
LEMMA RowUpserted ==
  ASSUME NEW table, NEW key, NEW row
  PROVE  /\ RowOf(S!Upserted(table, key, row), key) = row
         /\ \A k : k # key => RowOf(S!Upserted(table, key, row), k) = RowOf(table, k)
BY DEF RowOf, S!Upserted

\* upsert_position_created and upsert_position_closed: of a position that is not closed
\* yet, whether its row is there or not, it does not matter which of the two events is
\* stored first, nor in which order the events of two positions are.
THEOREM OrderDoesNotMatter ==
  ASSUME NEW table, IsTable(table), NEW c, IsCreation(c), NEW d, IsClose(d),
         RowOf(table, S!PositionKey(d)).status = "open"
  PROVE  S!PositionsAfter(S!PositionsAfter(table, c), d)
           = S!PositionsAfter(S!PositionsAfter(table, d), c)
<1> DEFINE k == S!PositionKey(c)
           l == S!PositionKey(d)
           r == RowOf(table, k)
           q == RowOf(table, l)
           tc == S!PositionsAfter(table, c)
           td == S!PositionsAfter(table, d)
<1>1. /\ tc = S!Upserted(table, k, S!CreatedRow(r, c)) /\ IsTable(tc)
      /\ td = S!Upserted(table, l, S!ClosedRow(q, d)) /\ IsTable(td)
      /\ IsRow(r) /\ IsRow(q)
  BY AfterEvent DEF RowAfterEvent, IsCreation, IsClose
<1>2. /\ S!PositionsAfter(tc, d) = S!Upserted(tc, l, S!ClosedRow(RowOf(tc, l), d))
      /\ S!PositionsAfter(td, c) = S!Upserted(td, k, S!CreatedRow(RowOf(td, k), c))
  BY <1>1, AfterEvent DEF RowAfterEvent, IsCreation, IsClose
<1>3. CASE k = l
  <2>1. RowOf(tc, l) = S!CreatedRow(r, c) /\ RowOf(td, k) = S!ClosedRow(r, d)
    BY <1>1, <1>3, RowUpserted
  <2>2. S!ClosedRow(S!CreatedRow(r, c), d) = S!CreatedRow(S!ClosedRow(r, d), c)
    BY <1>1, <1>3, RowsCommute
  <2> QED  BY <1>1, <1>2, <1>3, <2>1, <2>2, UpsertedTwice
<1>4. CASE k # l
  <2>1. RowOf(tc, l) = q /\ RowOf(td, k) = r
    BY <1>1, <1>4, RowUpserted
  <2> QED  BY <1>1, <1>2, <1>4, <2>1, UpsertedApart
<1> QED  BY <1>3, <1>4

\* Once both events of a position are stored, either of them delivered again, by a crawl
\* that overlaps or a notification that was buffered, changes nothing.
THEOREM LateDeliveryChangesNothing ==
  ASSUME NEW table, IsTable(table), NEW c, IsCreation(c), NEW d, IsClose(d),
         S!PositionKey(c) = S!PositionKey(d), RowOf(table, S!PositionKey(d)).status = "open",
         NEW both, both = S!PositionsAfter(S!PositionsAfter(table, c), d)
  PROVE  S!PositionsAfter(both, c) = both /\ S!PositionsAfter(both, d) = both
<1> DEFINE k == S!PositionKey(c)
           r == RowOf(table, k)
           tc == S!PositionsAfter(table, c)
           row == S!ClosedRow(S!CreatedRow(r, c), d)
<1>1. /\ tc = S!Upserted(table, k, S!CreatedRow(r, c)) /\ IsTable(tc)
      /\ IsRow(r) /\ IsRow(S!CreatedRow(r, c))
  BY AfterEvent, Created DEF RowAfterEvent, IsCreation, CreatedFrom
<1>2. RowOf(tc, k) = S!CreatedRow(r, c)
  BY <1>1, RowUpserted
<1>3. both = S!Upserted(tc, k, row) /\ IsTable(both) /\ IsRow(row)
  <2>1. /\ both = S!Upserted(tc, k, RowAfterEvent(RowOf(tc, k), d))
        /\ IsTable(both) /\ IsRow(RowAfterEvent(RowOf(tc, k), d))
    BY <1>1, AfterEvent
  <2>2. RowAfterEvent(RowOf(tc, k), d) = row
    BY <1>2 DEF RowAfterEvent, IsClose
  <2> QED  BY <2>1, <2>2
<1>4. RowOf(both, k) = row
  BY <1>3, RowUpserted
<1>5. S!ClosedRow(row, d) = row
  BY <1>1, ClosedTwice
<1>6. S!CreatedRow(row, c) = row
  <2>1. row = S!CreatedRow(S!ClosedRow(r, d), c)
    BY <1>1, RowsCommute
  <2>2. IsRow(S!ClosedRow(r, d))
    BY <1>1, Closed DEF ClosedFrom
  <2> QED  BY <2>1, <2>2, CreatedTwice
<1>7. S!PositionsAfter(both, c) = S!Upserted(both, k, S!CreatedRow(row, c))
  BY <1>3, <1>4, AfterEvent DEF RowAfterEvent, IsCreation
<1>8. S!PositionsAfter(both, d) = S!Upserted(both, k, S!ClosedRow(row, d))
  BY <1>3, <1>4, AfterEvent DEF RowAfterEvent, IsClose
<1>9. S!Upserted(both, k, row) = both
  BY <1>3, UpsertedTwice
<1> QED  BY <1>5, <1>6, <1>7, <1>8, <1>9

\* A close that came without a block time keeps none when the same source delivers it
\* again with one: that position never enters a leaderboard.
THEOREM MissingTimeStays ==
  ASSUME NEW table, IsTable(table), NEW o, IsClose(o), NEW again, IsClose(again),
         again.event = o.event, again.source = o.source, again.program = o.program,
         again.signature = o.signature, again.slot = o.slot
  PROVE  S!PositionsAfter(S!PositionsAfter(table, o), again) = S!PositionsAfter(table, o)
<1> DEFINE k == S!PositionKey(o)
           r == RowOf(table, k)
           once == S!PositionsAfter(table, o)
<1>1. S!PositionKey(again) = k
  BY DEF S!PositionKey
<1>2. once = S!Upserted(table, k, S!ClosedRow(r, o)) /\ IsTable(once) /\ IsRow(r)
  BY AfterEvent DEF RowAfterEvent, IsClose
<1>3. RowOf(once, k) = S!ClosedRow(r, o)
  BY <1>2, RowUpserted
<1>4. S!PositionsAfter(once, again) = S!Upserted(once, k, S!ClosedRow(RowOf(once, k), again))
  BY <1>1, <1>2, AfterEvent DEF RowAfterEvent, IsClose
<1>5. S!ClosedRow(S!ClosedRow(r, o), again) = S!ClosedRow(r, o)
  BY <1>2, ClosedTwice
<1> QED  BY <1>2, <1>3, <1>4, <1>5, UpsertedTwice

-----------------------------------------------------------------------------
(***************************************************************************)
(* Observations.                                                           *)
(***************************************************************************)

TableNames == DOMAIN S!EmptyDatabase

\* The tables of the database, by name.
LEMMA TableNamesAre ==
  TableNames = {"transactions", "instructions", "positions", "liquidity_events", "fee_events",
                "tracked_accounts", "sync_cursors", "dead_letters", "account_observations",
                "markets"}
BY DEF TableNames, S!EmptyDatabase

IsDatabase(db) == db = [name \in TableNames |-> db[name]] /\ IsTable(db.positions)

\* An observation of an event of the program.
IsObservation(o) ==
  \/ IsCreation(o) \/ IsClose(o)
  \/ o.event.variant \notin {"position_created", "position_closed"}

\* What an observation does, table by table.
ObservedFrom(new, db, o) ==
  /\ new = [name \in TableNames |-> new[name]]
  /\ new.transactions = S!InsertedOnce(db.transactions, <<o.source.id, o.signature>>,
                                       [slot |-> o.slot, time |-> o.time, partial |-> FALSE])
  /\ new.instructions = S!InsertedOnce(db.instructions,
                                       <<o.source.id, o.signature, o.path, o.event.variant>>,
                                       [program |-> o.program, payload |-> o.event])
  /\ new.positions = S!PositionsAfter(db.positions, o)
  /\ new.liquidity_events = S!LiquidityAfter(db.liquidity_events, o)
  /\ new.fee_events = S!FeesAfter(db.fee_events, o)
  /\ new.tracked_accounts = S!TrackedAfter(db.tracked_accounts, o)
  /\ new.sync_cursors = db.sync_cursors /\ new.dead_letters = db.dead_letters
  /\ new.account_observations = db.account_observations /\ new.markets = db.markets

\* apply_batch does to the tables what ObservedFrom lists, and leaves the others.
LEMMA ObservedTables ==
  ASSUME NEW db, IsDatabase(db), NEW o
  PROVE  ObservedFrom(S!Observed(db, o), db, o)
<1> DEFINE raw == S!WithRaw(db, o)
<1>1. /\ raw = [name \in TableNames |-> raw[name]]
      /\ raw.transactions = S!InsertedOnce(db.transactions, <<o.source.id, o.signature>>,
                                           [slot |-> o.slot, time |-> o.time, partial |-> FALSE])
      /\ raw.instructions = S!InsertedOnce(db.instructions,
                                           <<o.source.id, o.signature, o.path, o.event.variant>>,
                                           [program |-> o.program, payload |-> o.event])
      /\ \A name \in TableNames \ {"transactions", "instructions"} : raw[name] = db[name]
  BY TableNamesAre DEF IsDatabase, S!WithRaw
<1> HIDE DEF raw
<1>2. ObservedFrom(S!WithProjection(raw, o), db, o)
  BY <1>1, TableNamesAre DEF ObservedFrom, S!WithProjection
<1> QED  BY <1>2 DEF S!Observed, raw

\* A row inserted once is there the second time.
LEMMA InsertedTwice ==
  ASSUME NEW table, NEW key, NEW row, NEW other
  PROVE  S!InsertedOnce(S!InsertedOnce(table, key, row), key, other) = S!InsertedOnce(table, key, row)
BY DEF S!InsertedOnce, S!Upserted

\* apply_batch of what has just been applied changes no row of any table: a notification
\* that was buffered while the catch-up delivered its transaction.
THEOREM ReplayChangesNothing ==
  ASSUME NEW db, IsDatabase(db), NEW o, IsObservation(o)
  PROVE  S!Observed(S!Observed(db, o), o) = S!Observed(db, o)
<1> DEFINE once  == S!Observed(db, o)
           twice == S!Observed(once, o)
<1>1. ObservedFrom(once, db, o)
  BY ObservedTables
<1>2. /\ S!PositionsAfter(S!PositionsAfter(db.positions, o), o) = S!PositionsAfter(db.positions, o)
      /\ IsTable(S!PositionsAfter(db.positions, o))
  <2> DEFINE t == db.positions
             k == S!PositionKey(o)
             r == RowOf(t, k)
  <2>0. IsTable(t)
    BY DEF IsDatabase
  <2>1. CASE IsCreation(o) \/ IsClose(o)
    <3>1. /\ S!PositionsAfter(t, o) = S!Upserted(t, k, RowAfterEvent(r, o)) /\ IsRow(r)
          /\ IsTable(S!PositionsAfter(t, o))
      BY <2>0, <2>1, AfterEvent
    <3>2. S!PositionsAfter(S!PositionsAfter(t, o), o)
            = S!Upserted(S!PositionsAfter(t, o), k, RowAfterEvent(RowAfterEvent(r, o), o))
      BY <2>1, <3>1, AfterEvent, RowUpserted
    <3>3. RowAfterEvent(RowAfterEvent(r, o), o) = RowAfterEvent(r, o)
      BY <2>1, <3>1, CreatedTwice, ClosedTwice DEF RowAfterEvent, IsCreation, IsClose
    <3> QED  BY <3>1, <3>2, <3>3, UpsertedTwice
  <2>2. CASE o.event.variant \notin {"position_created", "position_closed"}
    BY <2>0, <2>2 DEF S!PositionsAfter
  <2> QED  BY <2>1, <2>2 DEF IsObservation
<1>3. IsDatabase(once)
  BY <1>1, <1>2 DEF IsDatabase, ObservedFrom
<1>4. ObservedFrom(twice, once, o)
  BY <1>3, ObservedTables
<1> HIDE DEF once, twice
<1>5. twice.transactions = once.transactions /\ twice.instructions = once.instructions
  BY <1>1, <1>4, InsertedTwice DEF ObservedFrom
<1>6. twice.positions = once.positions
  BY <1>1, <1>2, <1>4 DEF ObservedFrom
<1>7. twice.liquidity_events = once.liquidity_events
  BY <1>1, <1>4, InsertedTwice DEF ObservedFrom, S!LiquidityAfter
<1>8. twice.fee_events = once.fee_events
  BY <1>1, <1>4, InsertedTwice DEF ObservedFrom, S!FeesAfter
<1>9. twice.tracked_accounts = once.tracked_accounts
  BY <1>1, <1>4, UpsertedTwice DEF ObservedFrom, S!TrackedAfter
<1>10. \A name \in TableNames : twice[name] = once[name]
  BY <1>1, <1>4, <1>5, <1>6, <1>7, <1>8, <1>9, TableNamesAre DEF ObservedFrom
<1>11. [name \in TableNames |-> twice[name]] = [name \in TableNames |-> once[name]]
  BY <1>10
<1>12. twice = once
  BY <1>1, <1>4, <1>11 DEF ObservedFrom
<1> QED  BY <1>12 DEF once, twice

-----------------------------------------------------------------------------
(***************************************************************************)
(* The rows of IndexerIngest.                                              *)
(***************************************************************************)

\* A position of the tables as IndexerIngest has it.
Reduced(table, key) ==
  IF key \in DOMAIN table
  THEN [opened |-> table[key].user # None, partial |-> table[key].partial,
        status |-> IF table[key].status = "open" THEN "open" ELSE "closed"]
  ELSE NoRow

\* The whole-row upserts do to each position what IndexerIngest does to its three fields,
\* and nothing to the others.
THEOREM RowsFollowIngest ==
  ASSUME NEW table, IsTable(table), NEW o, IsCreation(o) \/ IsClose(o), NEW key
  PROVE  LET before == Reduced(table, key)
             after  == Reduced(S!PositionsAfter(table, o), key)
         IN  /\ key # S!PositionKey(o) => after = before
             /\ key = S!PositionKey(o) /\ IsCreation(o) => after = RowAfterCreated(before)
             /\ key = S!PositionKey(o) /\ IsClose(o) => after = RowAfterClosed(before)
<1> DEFINE k   == S!PositionKey(o)
           r   == RowOf(table, k)
           new == RowAfterEvent(r, o)
<1>1. IsRow(r) /\ IsRow(new) /\ S!PositionsAfter(table, o) = S!Upserted(table, k, new)
  BY AfterEvent
<1>2. CASE key # k
  <2>1. Reduced(S!Upserted(table, k, new), key) = Reduced(table, key)
    BY <1>2 DEF Reduced, S!Upserted
  <2> QED  BY <1>1, <1>2, <2>1
<1>3. CASE key = k
  <2>1. Reduced(S!Upserted(table, k, new), k)
          = [opened |-> new.user # None, partial |-> new.partial,
             status |-> IF new.status = "open" THEN "open" ELSE "closed"]
    BY DEF Reduced, S!Upserted
  <2>2. /\ Reduced(table, k).opened = (r.user # None)
        /\ k \in DOMAIN table => Reduced(table, k).status = IF r.status = "open" THEN "open" ELSE "closed"
        /\ k \notin DOMAIN table => Reduced(table, k).status = "none" /\ r.status = "open"
    <3>1. CASE k \in DOMAIN table
      BY <3>1 DEF Reduced, RowOf
    <3>2. CASE k \notin DOMAIN table
      BY <3>2, FirstSlot DEF Reduced, RowOf, NoRow, S!BlankPosition
    <3> QED  BY <3>1, <3>2
  <2>3. CASE IsCreation(o)
    <3>1. new.user # None /\ new.partial = FALSE /\ new.status = r.status
      BY <1>1, <2>3, Created DEF RowAfterEvent, IsCreation, CreatedFrom
    <3>2. (IF new.status = "open" THEN "open" ELSE "closed")
            = (IF Reduced(table, k).status = "none" THEN "open" ELSE Reduced(table, k).status)
      BY <2>2, <3>1
    <3>3. (new.user # None) = TRUE
      BY <3>1
    <3>4. Reduced(S!Upserted(table, k, new), k) = RowAfterCreated(Reduced(table, k))
      BY <2>1, <3>1, <3>2, <3>3 DEF RowAfterCreated
    <3> QED  BY <1>1, <1>3, <2>3, <3>4 DEF IsCreation, IsClose
  <2>4. CASE IsClose(o)
    <3>1. new.user = r.user /\ new.partial = (r.user = None) /\ new.status # "open"
      BY <1>1, <2>4, Closed DEF RowAfterEvent, IsClose, ClosedFrom, S!LifecycleStatus
    <3>2. (new.user # None) = Reduced(table, k).opened
      BY <2>2, <3>1
    <3>3. new.partial = ~Reduced(table, k).opened
      BY <2>2, <3>1
    <3>4. Reduced(S!Upserted(table, k, new), k) = RowAfterClosed(Reduced(table, k))
      BY <2>1, <3>1, <3>2, <3>3 DEF RowAfterClosed
    <3> QED  BY <1>1, <1>3, <2>4, <3>4 DEF IsCreation, IsClose
  <2> QED  BY <2>3, <2>4
<1> QED  BY <1>2, <1>3
=============================================================================
