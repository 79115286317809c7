---------------------------- MODULE PositionStream ----------------------------
(***************************************************************************)
(* How a change of a position's row reaches the page of its user: the      *)
(* trigger of the table, the API's listener, its broadcast channel, the    *)
(* task of a socket, the websocket, and usePersistentPositions, which      *)
(* merges them with the pages of the history that it fetches on loading.   *)
(*                                                                         *)
(* One page of one user.  A notification and a broadcast name a position;  *)
(* what is sent to the page is the row as it is when the API reads it.     *)
(* The rows are those IndexerIngest writes, reduced to what a page shows.  *)
(*                                                                         *)
(* A definition named as Merge_Replaces is a mutant, as in SettlementMath. *)
(***************************************************************************)
EXTENDS Integers, Sequences, FiniteSets, SequencesExt, FiniteSetsExt

CONSTANTS
  Mine,          \* positions of the user of the page
  Others,        \* positions of other users, which share the channel
  Won,           \* those of Mine that end as won
  Resync,        \* the broadcast which is not a change
  CAPACITY,      \* POSITION_BROADCAST_CAPACITY
  PAGE,          \* rows in a page of the history
  SOCKET_BUFFER, \* messages the websocket takes before send() waits
  MAX_REWRITES,  \* bound: updates which change nothing the page shows
  MAX_FAILURES   \* bound: connections lost and queries that fail

ASSUME StreamAssumption ==
  /\ Won \subseteq Mine /\ Mine \cap Others = {} /\ Resync \notin Mine \cup Others
  /\ CAPACITY \in Nat \ {0} /\ PAGE \in Nat \ {0} /\ SOCKET_BUFFER \in Nat \ {0}
  /\ MAX_REWRITES \in Nat /\ MAX_FAILURES \in Nat

\* The nonces that name positions are 64-bit integers.
ASSUME MineAssumption == IsFiniteSet(Mine)

VARIABLES
  row, sorted_at,                                        \* the table
  listener, notices,                                     \* the API's listener
  socket, unread, lagged,                                \* the task of the socket
  wire,                                                  \* sent, not yet received
  mounted, shown, observedWins, celebrating, fetch,      \* the page
  rewrites, failures

tableVars == <<row, sorted_at, rewrites>>
taskVars  == <<socket, unread, lagged, wire>>
pageVars  == <<mounted, shown, observedWins, celebrating, fetch>>
vars == <<tableVars, listener, notices, taskVars, pageVars, failures>>

\* A partial row is that of a close stored before its create: it has no user yet.
RowStatus == {"absent", "partial", "open", "settled"}

Shown == {"absent", "open", "settled"}

NoFetch == [phase |-> "idle", rows |-> <<>>, cursor |-> 0]

Init ==
  /\ row = [p \in Mine |-> "absent"] /\ sorted_at = [p \in Mine |-> 0]
  /\ listener = "down" /\ notices = <<>>
  /\ socket = "closed" /\ unread = <<>> /\ lagged = FALSE /\ wire = <<>>
  /\ mounted = FALSE /\ shown = [p \in Mine |-> "absent"]
  /\ observedWins = {} /\ celebrating = {} /\ fetch = NoFetch
  /\ rewrites = 0 /\ failures = 0

Fail == failures < MAX_FAILURES /\ failures' = failures + 1

(***************************************************************************)
(* The table.  Its trigger notifies at the commit, if the row has a user.  *)
(***************************************************************************)

Notify(p) == notices' = IF listener \in {"listening", "relaying"} THEN Append(notices, p) ELSE notices

Later == Max({sorted_at[p] : p \in Mine}) + 1

StoreCreated(p) ==
  /\ \/ row[p] = "absent" /\ row' = [row EXCEPT ![p] = "open"]
                          /\ sorted_at' = [sorted_at EXCEPT ![p] = Later]
     \/ row[p] = "partial" /\ row' = [row EXCEPT ![p] = "settled"] /\ UNCHANGED sorted_at
  /\ Notify(p)
  /\ UNCHANGED <<rewrites, listener, taskVars, pageVars, failures>>

StoreClosed(p) ==
  /\ \/ row[p] = "open" /\ row' = [row EXCEPT ![p] = "settled"] /\ Notify(p)
     \/ row[p] = "absent" /\ row' = [row EXCEPT ![p] = "partial"] /\ UNCHANGED notices
  /\ sorted_at' = [sorted_at EXCEPT ![p] = Later]
  /\ UNCHANGED <<rewrites, listener, taskVars, pageVars, failures>>

Visible(p) == row[p] \in {"open", "settled"}

\* The checkpoint of a settled position, or a change for another user.
Rewrite(p) ==
  /\ rewrites < MAX_REWRITES /\ rewrites' = rewrites + 1
  /\ p \in Mine => row[p] = "settled"
  /\ Notify(p)
  /\ UNCHANGED <<row, sorted_at, listener, taskVars, pageVars, failures>>

(***************************************************************************)
(* The listener.  Whatever it missed while it was not listening is made up *)
(* for by a Resync.  A connection that has died is noticed at once, or by  *)
(* the heartbeat only ("deaf").                                            *)
(***************************************************************************)

\* A receiver of the broadcast keeps the last CAPACITY messages.
Broadcast(m) ==
  IF socket \notin {"subscribed", "streaming"} THEN UNCHANGED <<unread, lagged>>
  ELSE IF Len(unread) < CAPACITY THEN unread' = Append(unread, m) /\ UNCHANGED lagged
  ELSE unread' = Append(Tail(unread), m) /\ lagged' = TRUE

ListenerConnects ==
  /\ listener = "down"
  /\ listener' = "listening"
  /\ UNCHANGED <<tableVars, notices, taskVars, pageVars, failures>>

ListenerResyncs_Silently ==
  /\ listener = "listening"
  /\ listener' = "relaying"
  /\ UNCHANGED <<tableVars, notices, taskVars, pageVars, failures>>

ListenerResyncs ==
  /\ listener = "listening"
  /\ listener' = "relaying"
  /\ Broadcast(Resync)
  /\ UNCHANGED <<tableVars, notices, socket, wire, pageVars, failures>>

Relay ==
  /\ listener = "relaying" /\ notices # <<>>
  /\ Broadcast(Head(notices))
  /\ notices' = Tail(notices)
  /\ UNCHANGED <<tableVars, listener, socket, wire, pageVars, failures>>

LoseListener ==
  /\ listener \in {"listening", "relaying"}
  /\ Fail
  /\ \E after \in {"down", "deaf"} : listener' = after
  /\ notices' = <<>>
  /\ UNCHANGED <<tableVars, taskVars, pageVars>>

HeartbeatTimesOut_Never == FALSE

HeartbeatTimesOut ==
  /\ listener = "deaf"
  /\ listener' = "down"
  /\ UNCHANGED <<tableVars, notices, taskVars, pageVars, failures>>

(***************************************************************************)
(* The task of the socket.                                                 *)
(***************************************************************************)

PositionsForStream_AllRows == [p \in {q \in Mine : row[q] # "absent"} |-> row[p]]

PositionsForStream == [p \in {q \in Mine : Visible(q)} |-> row[p]]

\* The task waits while the page takes nothing; its receiver may lag meanwhile.
Send(type, rows) ==
  /\ Len(wire) < SOCKET_BUFFER
  /\ wire' = Append(wire, [type |-> type, rows |-> rows])

SendSnapshot == Send("snapshot", PositionsForStream)

Connect ==
  /\ mounted /\ socket = "closed"
  /\ socket' = "subscribed" /\ unread' = <<>> /\ lagged' = FALSE
  /\ UNCHANGED <<tableVars, listener, notices, wire, pageVars, failures>>

\* The task ends: what it has sent may still be received.
EndTask == Fail /\ socket' = "ended" /\ UNCHANGED wire

FirstSnapshot ==
  /\ socket = "subscribed"
  /\ \/ SendSnapshot /\ socket' = "streaming" /\ UNCHANGED failures
     \/ EndTask
  /\ UNCHANGED <<tableVars, listener, notices, unread, lagged, pageVars>>

SnapshotOrEnd ==
  \/ SendSnapshot /\ UNCHANGED <<socket, failures>>
  \/ EndTask

AfterLag_Goes_On == UNCHANGED <<socket, wire, failures>>

AfterLag == SnapshotOrEnd

\* The row is read anew, and a snapshot is sent when that fails.
AfterChange(p) ==
  \/ /\ p \in Mine /\ Visible(p)
     /\ Send("upsert", [q \in {p} |-> row[q]])
     /\ UNCHANGED <<socket, failures>>
  \/ p \in Mine /\ Fail /\ SendSnapshot /\ UNCHANGED socket
  \/ p \in Mine /\ EndTask
  \/ (p \in Mine => ~Visible(p)) /\ UNCHANGED <<socket, wire, failures>>

Receive ==
  /\ socket = "streaming"
  /\ \/ lagged /\ lagged' = FALSE /\ AfterLag /\ UNCHANGED unread
     \/ /\ ~lagged /\ unread # <<>>
        /\ unread' = Tail(unread)
        /\ IF Head(unread) = Resync THEN SnapshotOrEnd ELSE AfterChange(Head(unread))
        /\ UNCHANGED lagged
  /\ UNCHANGED <<tableVars, listener, notices, pageVars>>

Disconnected == socket' = "closed" /\ wire' = <<>> /\ unread' = <<>> /\ lagged' = FALSE

SocketCloses ==
  /\ \/ socket = "ended" /\ wire = <<>> /\ UNCHANGED failures
     \/ socket # "closed" /\ Fail
  /\ Disconnected
  /\ UNCHANGED <<tableVars, listener, notices, pageVars>>

(***************************************************************************)
(* The page.                                                               *)
(***************************************************************************)

Mount ==
  /\ ~mounted /\ mounted' = TRUE
  /\ fetch' = [NoFetch EXCEPT !.phase = "reading"]
  /\ UNCHANGED <<tableVars, listener, notices, taskVars, shown, observedWins, celebrating, failures>>

\* Left, or turned to another wallet or market: the state belongs to a scope.
Unmount ==
  /\ mounted /\ mounted' = FALSE
  /\ shown' = [p \in Mine |-> "absent"]
  /\ observedWins' = {} /\ celebrating' = {} /\ fetch' = NoFetch
  /\ Disconnected
  /\ UNCHANGED <<tableVars, listener, notices, failures>>

\* mergeIndexedPosition
Merge_Replaces(current, incoming) == incoming

Merge(current, incoming) ==
  IF current = "settled" /\ incoming = "open" THEN current ELSE incoming

WinsIn(rows) == {p \in Won \cap DOMAIN rows : rows[p] = "settled"}

Observed_UpsertsOnly(message) ==
  IF message.type = "upsert" THEN WinsIn(message.rows) ELSE {}

Observed(message) == WinsIn(message.rows)

MergeIndexed(message) ==
  /\ shown' = [p \in Mine |-> IF p \in DOMAIN message.rows
                              THEN Merge(shown[p], message.rows[p])
                              ELSE shown[p]]
  /\ observedWins' = observedWins \cup Observed(message)

\* Only an upsert celebrates, before it is merged.
CelebrateWin(message) ==
  celebrating' = IF message.type = "upsert"
                 THEN celebrating \cup (WinsIn(message.rows) \ observedWins)
                 ELSE celebrating

Deliver ==
  /\ wire # <<>>
  /\ MergeIndexed(Head(wire)) /\ CelebrateWin(Head(wire))
  /\ wire' = Tail(wire)
  /\ UNCHANGED <<tableVars, listener, notices, socket, unread, lagged, mounted, fetch, failures>>

AnimationEnds(p) ==
  /\ p \in celebrating
  /\ celebrating' = celebrating \ {p}
  /\ UNCHANGED <<tableVars, listener, notices, taskVars, mounted, shown, observedWins, fetch, failures>>

\* The rows that come after the cursor, newest first; sort_time moves when a position
\* is closed.
Remaining ==
  {p \in Mine : Visible(p) /\ (fetch.cursor = 0 \/ sorted_at[p] < fetch.cursor)}

NextPage ==
  {p \in Remaining : Cardinality({q \in Remaining : sorted_at[q] > sorted_at[p]}) < PAGE}

FetchPage ==
  LET rows == [p \in NextPage \cup DOMAIN fetch.rows |->
                 IF p \in NextPage THEN row[p] ELSE fetch.rows[p]]
      more == NextPage # Remaining
  IN  /\ fetch.phase = "reading"
      /\ fetch' = [phase |-> IF more THEN "reading" ELSE "answered",
                   rows |-> rows,
                   cursor |-> IF more THEN Min({sorted_at[p] : p \in NextPage}) ELSE 0]
      /\ UNCHANGED <<tableVars, listener, notices, taskVars, mounted, shown, observedWins,
                     celebrating, failures>>

\* All pages are merged together when the last one has come.
FetchArrives ==
  /\ fetch.phase = "answered"
  /\ MergeIndexed([type |-> "history", rows |-> fetch.rows])
  /\ fetch' = NoFetch
  /\ UNCHANGED <<tableVars, listener, notices, taskVars, mounted, celebrating, failures>>

FetchFails ==
  /\ fetch.phase = "reading"
  /\ Fail
  /\ fetch' = NoFetch
  /\ UNCHANGED <<tableVars, listener, notices, taskVars, mounted, shown, observedWins, celebrating>>

Table == \E p \in Mine : StoreCreated(p) \/ StoreClosed(p)

Listen == ListenerConnects \/ ListenerResyncs \/ Relay \/ HeartbeatTimesOut

Serve == Connect \/ FirstSnapshot \/ Receive \/ SocketCloses

Fetch == FetchPage \/ FetchArrives \/ FetchFails

Next ==
  \/ Table \/ \E p \in Mine \cup Others : Rewrite(p)
  \/ Listen \/ LoseListener
  \/ Serve \/ Deliver
  \/ Mount \/ Unmount \/ Fetch \/ \E p \in Mine : AnimationEnds(p)

Spec == Init /\ [][Next]_vars

\* Every task and connection goes on as long as it does not fail, and the failures
\* end.  Nothing makes a row change, a page open, or a history arrive.
FairSpec ==
  /\ Spec
  /\ WF_vars(Listen) /\ WF_vars(Serve) /\ WF_vars(Deliver)

-----------------------------------------------------------------------------
(***************************************************************************)
(* Properties.                                                             *)
(***************************************************************************)

RowsOf(statuses) == UNION {[S -> statuses] : S \in SUBSET Mine}

\* Only rows that have the user of the page are ever sent to it.
TypeOK ==
  /\ row \in [Mine -> RowStatus] /\ sorted_at \in [Mine -> 0..2 * Cardinality(Mine)]
  /\ listener \in {"down", "listening", "relaying", "deaf"}
  /\ notices \in Seq(Mine \cup Others)
  /\ socket \in {"closed", "subscribed", "streaming", "ended"}
  /\ unread \in Seq(Mine \cup Others \cup {Resync}) /\ Len(unread) <= CAPACITY
  /\ lagged \in BOOLEAN
  /\ wire \in Seq([type : {"snapshot", "upsert"}, rows : RowsOf({"open", "settled"})])
  /\ mounted \in BOOLEAN /\ shown \in [Mine -> Shown]
  /\ observedWins \subseteq Won /\ celebrating \subseteq Won
  /\ fetch.phase \in {"idle", "reading", "answered"}
  /\ fetch.rows \in RowsOf({"open", "settled"})
  /\ rewrites \in 0..MAX_REWRITES /\ failures \in 0..MAX_FAILURES

Behind(p) == mounted /\ Visible(p) /\ shown[p] # row[p]

\* A snapshot is yet to be taken: by a socket that has to connect, for a listener
\* that has to resync, or for messages that the socket's task has lost.
SnapshotToCome ==
  \/ socket # "streaming" \/ listener # "relaying"
  \/ lagged \/ Resync \in ToSet(unread)

\* What a page does not show of its user's positions is on its way to it, whatever
\* was lost, overtaken or late: no notification falls between the listener's
\* sessions, between the socket's subscription and its snapshot, or out of a full
\* channel.
EveryChangeIsOnItsWay ==
  \A p \in Mine :
    Behind(p) =>
      \/ SnapshotToCome
      \/ p \in ToSet(notices) \cup ToSet(unread)
      \/ \E i \in DOMAIN wire : p \in DOMAIN wire[i].rows /\ wire[i].rows[p] = row[p]

\* A page that has shown a position as settled does not show it as open again,
\* although a history read earlier may arrive later.
NeverReopened ==
  [][\A p \in Mine : shown[p] = "settled" /\ mounted' => shown'[p] = "settled"]_vars

\* A win is celebrated when the page learns of it, and never again: not for a
\* repeated upsert, nor for one that a snapshot or the history has overtaken.
CelebratesNews ==
  [][\A p \in Mine : p \in celebrating' \ celebrating => shown[p] # "settled"]_vars

\* A page that stays open comes to show every settlement of its user: time and again
\* none is missing.
SettlementShown ==
  []<>(mounted => \A p \in Mine : row[p] = "settled" => shown[p] = "settled")
=============================================================================
