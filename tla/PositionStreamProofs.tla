------------------------- MODULE PositionStreamProofs -------------------------
(***************************************************************************)
(* Proofs about PositionStream for any number of positions, channels and   *)
(* buffers of any size, and any number of failures.                        *)
(*                                                                         *)
(* A change is on its way because every place it is taken from is followed *)
(* by the next: a notice is broadcast, a broadcast is read or makes the    *)
(* receiver lag, and whatever ends a session of the listener or the socket *)
(* leaves a snapshot to come.  The merge does not undo it, because nothing *)
(* on its way to the page, nor the history it has fetched, is ahead of the *)
(* table: rows only go from open to settled.                               *)
(***************************************************************************)
EXTENDS PositionStream, FiniteSetTheorems, SequenceTheorems, WellFoundedInduction, TLAPS

-----------------------------------------------------------------------------
(***************************************************************************)
(* The inductive invariant.                                                *)
(***************************************************************************)

\* The value v was that of a row which is now r.
Reached(v, r) ==
  /\ v = "open" => r \in {"open", "settled"}
  /\ v = "settled" => r = "settled"

Honest(rows, table) == \A p \in DOMAIN rows : Reached(rows[p], table[p])

NothingAhead ==
  /\ \A p \in Mine : Reached(shown[p], row[p])
  /\ Honest(fetch.rows, row)
  /\ \A m \in ToSet(wire) : Honest(m.rows, row)

\* What the page shows as won it has observed as a win.
WinsObserved == \A p \in Won : shown[p] = "settled" => p \in observedWins

ClosedUnlessMounted == ~mounted => socket = "closed"

\* A position takes a new sort_time when it is stored, and at most once again.
Stored  == {p \in Mine : row[p] # "absent"}
Settled == {p \in Mine : row[p] = "settled"}

SortTimesBounded == \A p \in Mine : sorted_at[p] <= Cardinality(Stored) + Cardinality(Settled)

IInv ==
  TypeOK /\ SortTimesBounded /\ NothingAhead /\ WinsObserved /\ ClosedUnlessMounted
         /\ EveryChangeIsOnItsWay

-----------------------------------------------------------------------------
(***************************************************************************)
(* Sequences by the sets of their elements, and the largest of a set.      *)
(***************************************************************************)

\* Appending adds an element.
LEMMA AppendSet ==
  ASSUME NEW S, NEW s \in Seq(S), NEW e \in S
  PROVE  /\ Append(s, e) \in Seq(S) /\ Len(Append(s, e)) = Len(s) + 1
         /\ ToSet(Append(s, e)) = ToSet(s) \cup {e}
<1>1. /\ Append(s, e) \in Seq(S) /\ Len(Append(s, e)) = Len(s) + 1
      /\ \A i \in 1..Len(s) : Append(s, e)[i] = s[i]
      /\ Append(s, e)[Len(s) + 1] = e
  BY AppendProperties
<1>2. Len(s) \in Nat /\ DOMAIN s = 1..Len(s) /\ DOMAIN Append(s, e) = 1..(Len(s) + 1)
  BY <1>1, LenProperties
<1> QED  BY <1>1, <1>2 DEF ToSet

\* Taking the head of a sequence leaves the other elements.
LEMMA TailSet ==
  ASSUME NEW S, NEW s \in Seq(S), s # <<>>
  PROVE  /\ Head(s) \in S /\ Tail(s) \in Seq(S) /\ Len(Tail(s)) = Len(s) - 1
         /\ ToSet(s) = {Head(s)} \cup ToSet(Tail(s))
<1>1. /\ Head(s) \in S /\ Tail(s) \in Seq(S) /\ Len(Tail(s)) = Len(s) - 1
      /\ \A i \in 1..Len(Tail(s)) : Tail(s)[i] = s[i + 1]
  BY HeadTailProperties
<1>2. Len(s) \in Nat \ {0} /\ DOMAIN s = 1..Len(s) /\ DOMAIN Tail(s) = 1..(Len(s) - 1)
  BY <1>1, LenProperties, EmptySeq
<1>3. Head(s) = s[1]
  OBVIOUS
<1>4. ASSUME NEW i \in 1..Len(s)
      PROVE  s[i] \in {Head(s)} \cup ToSet(Tail(s))
  <2>1. CASE i = 1
    BY <1>3, <2>1
  <2>2. CASE i # 1
    <3>1. i - 1 \in 1..(Len(s) - 1) /\ Tail(s)[i - 1] = s[i - 1 + 1] /\ i - 1 + 1 = i
      BY <1>1, <1>2, <2>2
    <3> QED  BY <1>2, <3>1 DEF ToSet
  <2> QED  BY <2>1, <2>2
<1>5. {Head(s)} \cup ToSet(Tail(s)) \subseteq ToSet(s)
  <2>1. ASSUME NEW i \in 1..(Len(s) - 1)
        PROVE  Tail(s)[i] \in ToSet(s)
    <3>1. Tail(s)[i] = s[i + 1] /\ i + 1 \in 1..Len(s)
      BY <1>1, <1>2
    <3> QED  BY <1>2, <3>1 DEF ToSet
  <2>2. Head(s) \in ToSet(s)
    BY <1>2, <1>3 DEF ToSet
  <2> QED  BY <1>2, <2>1, <2>2 DEF ToSet
<1> QED  BY <1>1, <1>2, <1>4, <1>5 DEF ToSet

\* The empty sequence has none.
LEMMA EmptySet ==
  ASSUME NEW S
  PROVE  <<>> \in Seq(S) /\ Len(<<>>) = 0 /\ ToSet(<<>>) = {}
<1>1. <<>> \in Seq(S) /\ Len(<<>>) = 0
  BY EmptySeq
<1>2. DOMAIN <<>> = {}
  BY <1>1, LenProperties
<1> QED  BY <1>1, <1>2 DEF ToSet

\* The elements of a sequence are of its set.
LEMMA ElementsTyped ==
  ASSUME NEW S, NEW s \in Seq(S)
  PROVE  ToSet(s) \subseteq S
BY ElementOfSeq, LenProperties DEF ToSet

\* A set of numbers below a bound has a largest one: the one with the fewest above it.
LEMMA MaxOfBounded ==
  ASSUME NEW S, S \subseteq Nat, S # {}, NEW b \in Nat, \A x \in S : x <= b
  PROVE  Max(S) \in S /\ \A x \in S : Max(S) >= x
<1> DEFINE Above(x) == {y \in S : y > x}
           tops == {Above(x) : x \in S}
<1>1. IsFiniteSet(S)
  BY FS_BoundedSetOfNaturals
<1>2. tops \subseteq FiniteSubsetsOf(S) /\ tops # {}
  <2>1. ASSUME NEW x \in S
        PROVE  Above(x) \in FiniteSubsetsOf(S)
    BY <1>1, FS_Subset DEF FiniteSubsetsOf
  <2> QED  BY <2>1
<1>3. PICK T \in tops : \A U \in tops : ~(<<U, T>> \in StrictSubsetOrdering(S))
  <2>1. IsWellFoundedOn(StrictSubsetOrdering(S), FiniteSubsetsOf(S))
    BY FS_StrictSubsetOrderingWellFounded
  <2> HIDE DEF tops
  <2> QED  BY <1>2, <2>1, WFMin
<1>4. PICK x \in S : T = Above(x)
  OBVIOUS
<1>5. \A y \in S : x >= y
  <2> SUFFICES ASSUME NEW y \in S, y > x PROVE FALSE
    OBVIOUS
  <2>1. Above(y) \subseteq Above(x) /\ y \in Above(x) /\ y \notin Above(y)
    <3>1. \A z \in S : z > y => z > x
      OBVIOUS
    <3>2. ~(y > y)
      OBVIOUS
    <3> QED  BY <3>1, <3>2
  <2>2. <<Above(y), Above(x)>> \in StrictSubsetOrdering(S)
    BY <2>1 DEF StrictSubsetOrdering
  <2> QED  BY <1>3, <1>4, <2>2
<1> QED  BY <1>5 DEF Max

-----------------------------------------------------------------------------
(***************************************************************************)
(* Rows, messages and the channel.                                         *)
(***************************************************************************)

Values == {"open", "settled"}

Channel == Mine \cup Others \cup {Resync}

Message == [type : {"snapshot", "upsert"}, rows : RowsOf(Values)]

\* Some of the user's rows.
LEMMA RowsTyped ==
  /\ \A rows \in RowsOf(Values) : /\ DOMAIN rows \subseteq Mine
                                  /\ \A p \in DOMAIN rows : rows[p] \in Values
  /\ \A S \in SUBSET Mine : \A rows \in [S -> Values] : rows \in RowsOf(Values)
  /\ <<>> \in RowsOf(Values) /\ DOMAIN <<>> = {}
<1>1. \A rows \in RowsOf(Values) : /\ DOMAIN rows \subseteq Mine
                                   /\ \A p \in DOMAIN rows : rows[p] \in Values
  BY DEF RowsOf
<1>2. \A S \in SUBSET Mine : \A rows \in [S -> Values] : rows \in RowsOf(Values)
  BY DEF RowsOf
<1>3. DOMAIN <<>> = {}
  OBVIOUS
<1>4. <<>> = [p \in {} |-> "open"]
  BY <1>3
<1>5. [p \in {} |-> "open"] \in [{} -> Values]
  OBVIOUS
<1> QED  BY <1>1, <1>2, <1>3, <1>4, <1>5

\* A message in the channel either stays for the task to read, or the task learns that
\* it has missed some.
LEMMA BroadcastReaches ==
  ASSUME TypeOK, NEW m \in Channel, Broadcast(m)
  PROVE  /\ unread' \in Seq(Channel) /\ Len(unread') <= CAPACITY
         /\ lagged' \in BOOLEAN
         /\ socket = "streaming" =>
              \/ lagged'
              \/ ToSet(unread') = ToSet(unread) \cup {m} /\ UNCHANGED lagged
<1> USE DEF TypeOK, Channel
<1>0. Len(unread) \in Nat /\ CAPACITY \in Nat \ {0} /\ unread \in Seq(Channel)
  BY StreamAssumption, LenProperties
<1>1. CASE socket \notin {"subscribed", "streaming"}
  BY <1>0, <1>1 DEF Broadcast
<1>2. CASE socket \in {"subscribed", "streaming"} /\ Len(unread) < CAPACITY
  <2>1. unread' = Append(unread, m) /\ UNCHANGED lagged
    BY <1>2 DEF Broadcast
  <2>2. /\ Append(unread, m) \in Seq(Channel) /\ Len(Append(unread, m)) = Len(unread) + 1
        /\ ToSet(Append(unread, m)) = ToSet(unread) \cup {m}
    BY <1>0, AppendSet
  <2> QED  BY <1>0, <1>2, <2>1, <2>2
<1>3. CASE socket \in {"subscribed", "streaming"} /\ ~(Len(unread) < CAPACITY)
  <2>1. unread' = Append(Tail(unread), m) /\ lagged' = TRUE
    BY <1>3 DEF Broadcast
  <2>2. Len(unread) = CAPACITY /\ unread # <<>>
    BY <1>0, <1>3, EmptySet
  <2>3. Tail(unread) \in Seq(Channel) /\ Len(Tail(unread)) = Len(unread) - 1
    BY <1>0, <2>2, TailSet
  <2>4. /\ Append(Tail(unread), m) \in Seq(Channel)
        /\ Len(Append(Tail(unread), m)) = Len(Tail(unread)) + 1
    BY <2>3, AppendSet
  <2> QED  BY <1>0, <2>1, <2>2, <2>3, <2>4
<1> QED  BY <1>1, <1>2, <1>3

\* What a message carries to the page, of rows as they are.
Carries(m, p) == p \in DOMAIN m.rows /\ m.rows[p] = row[p]

\* A snapshot has every row of the user.
LEMMA SnapshotSent ==
  ASSUME TypeOK, SendSnapshot
  PROVE  \E m \in Message :
           /\ wire' = Append(wire, m)
           /\ Honest(m.rows, row)
           /\ \A p \in Mine : Visible(p) => Carries(m, p)
<1> DEFINE rows == PositionsForStream
           m == [type |-> "snapshot", rows |-> rows]
<1>1. rows \in [{q \in Mine : Visible(q)} -> Values]
  BY DEF PositionsForStream, Visible, Values
<1>2. \A p \in DOMAIN rows : rows[p] = row[p]
  BY DEF PositionsForStream
<1>3. wire' = Append(wire, m)
  BY DEF SendSnapshot, Send
<1>4. DOMAIN rows = {q \in Mine : Visible(q)}
  BY DEF PositionsForStream
<1> HIDE DEF rows
<1>5. rows \in RowsOf(Values)
  BY <1>1, RowsTyped
<1>6. m \in Message /\ m.rows = rows
  BY <1>5 DEF Message
<1>7. Honest(m.rows, row)
  <2>1. \A p \in Mine : Visible(p) => Reached(row[p], row[p])
    BY DEF Reached
  <2> QED  BY <1>2, <1>4, <1>6, <2>1 DEF Honest
<1>8. \A p \in Mine : Visible(p) => Carries(m, p)
  BY <1>2, <1>4, <1>6 DEF Carries
<1> QED  BY <1>3, <1>6, <1>7, <1>8

\* What the task sends after a lag or a Resync.
LEMMA SnapshotOrEndSends ==
  ASSUME TypeOK, socket = "streaming", SnapshotOrEnd
  PROVE  /\ failures' \in 0..MAX_FAILURES /\ socket' \in {"streaming", "ended"}
         /\ wire' \in Seq(Message) /\ ToSet(wire) \subseteq ToSet(wire')
         /\ \A m \in ToSet(wire') : m \in ToSet(wire) \/ Honest(m.rows, row)
         /\ socket' = "streaming" =>
              \A p \in Mine : Visible(p) => \E m \in ToSet(wire') : Carries(m, p)
<1>0. wire \in Seq(Message)
  BY DEF TypeOK, Message, Values
<1>1. CASE SendSnapshot /\ UNCHANGED <<socket, failures>>
  <2>1. PICK m \in Message :
          /\ wire' = Append(wire, m)
          /\ Honest(m.rows, row)
          /\ \A p \in Mine : Visible(p) => Carries(m, p)
    BY <1>1, SnapshotSent
  <2>2. wire' \in Seq(Message) /\ ToSet(wire') = ToSet(wire) \cup {m}
    BY <1>0, <2>1, AppendSet
  <2> QED  BY <1>1, <2>1, <2>2 DEF TypeOK
<1>2. CASE EndTask
  BY <1>0, <1>2, StreamAssumption DEF EndTask, Fail, TypeOK
<1> QED  BY <1>1, <1>2 DEF SnapshotOrEnd

\* What it sends after a change of the row of p, or of another user's position.
LEMMA AfterChangeSends ==
  ASSUME TypeOK, socket = "streaming", NEW p, AfterChange(p)
  PROVE  /\ failures' \in 0..MAX_FAILURES /\ socket' \in {"streaming", "ended"}
         /\ wire' \in Seq(Message) /\ ToSet(wire) \subseteq ToSet(wire')
         /\ \A m \in ToSet(wire') : m \in ToSet(wire) \/ Honest(m.rows, row)
         /\ socket' = "streaming" /\ p \in Mine /\ Visible(p) =>
              \E m \in ToSet(wire') : Carries(m, p)
<1>0. wire \in Seq(Message)
  BY DEF TypeOK, Message, Values
<1>1. CASE p \in Mine /\ Visible(p) /\ Send("upsert", [q \in {p} |-> row[q]]) /\ UNCHANGED <<socket, failures>>
  <2> DEFINE rows == [q \in {p} |-> row[q]]
             m == [type |-> "upsert", rows |-> rows]
  <2>1. rows \in [{p} -> Values] /\ DOMAIN rows = {p} /\ rows[p] = row[p]
    BY <1>1 DEF Visible, Values
  <2>2. wire' = Append(wire, m)
    BY <1>1 DEF Send
  <2> HIDE DEF rows
  <2>3. m \in Message /\ m.rows = rows
    BY <1>1, <2>1, RowsTyped DEF Message
  <2>4. Honest(m.rows, row) /\ Carries(m, p)
    BY <2>1, <2>3 DEF Honest, Reached, Carries
  <2>5. wire' \in Seq(Message) /\ ToSet(wire') = ToSet(wire) \cup {m}
    BY <1>0, <2>2, <2>3, AppendSet
  <2> QED  BY <1>1, <2>4, <2>5 DEF TypeOK
<1>2. CASE Fail /\ SendSnapshot /\ UNCHANGED socket
  <2>1. PICK m \in Message :
          /\ wire' = Append(wire, m)
          /\ Honest(m.rows, row)
          /\ \A q \in Mine : Visible(q) => Carries(m, q)
    BY <1>2, SnapshotSent
  <2>2. wire' \in Seq(Message) /\ ToSet(wire') = ToSet(wire) \cup {m}
    BY <1>0, <2>1, AppendSet
  <2>3. failures' \in 0..MAX_FAILURES
    BY <1>2, StreamAssumption DEF Fail, TypeOK
  <2> QED  BY <1>2, <2>1, <2>2, <2>3
<1>3. CASE EndTask
  BY <1>0, <1>3, StreamAssumption DEF EndTask, Fail, TypeOK
<1>4. CASE (p \in Mine => ~Visible(p)) /\ UNCHANGED <<socket, wire, failures>>
  BY <1>0, <1>4 DEF TypeOK
<1> QED  BY <1>1, <1>2, <1>3, <1>4 DEF AfterChange

-----------------------------------------------------------------------------
(***************************************************************************)
(* The table.                                                              *)
(***************************************************************************)

\* The next sort_time is one above those given.
LEMMA LaterBounded ==
  ASSUME TypeOK, SortTimesBounded, NEW p \in Mine
  PROVE  /\ Later \in Nat /\ Later <= Cardinality(Stored) + Cardinality(Settled) + 1
         /\ \A q \in Mine : sorted_at[q] < Later
<1> DEFINE S == {sorted_at[q] : q \in Mine}
           b == Cardinality(Stored) + Cardinality(Settled)
<1>1. IsFiniteSet(Stored) /\ IsFiniteSet(Settled)
  BY MineAssumption, FS_Subset DEF Stored, Settled
<1>2. b \in Nat
  BY <1>1, FS_CardinalityType
<1>3. S \subseteq Nat /\ S # {}
  <2>1. \A q \in Mine : sorted_at[q] \in Nat
    BY DEF TypeOK
  <2> QED  BY <2>1
<1>4. \A x \in S : x <= b
  BY DEF SortTimesBounded
<1> HIDE DEF b
<1>5. Max(S) \in S /\ \A x \in S : Max(S) >= x
  BY <1>2, <1>3, <1>4, MaxOfBounded
<1>6. Later = Max(S) + 1
  BY DEF Later
<1>7. Max(S) \in Nat /\ Max(S) <= b
  BY <1>3, <1>4, <1>5
<1>8. \A q \in Mine : sorted_at[q] \in Nat /\ Max(S) >= sorted_at[q]
  BY <1>3, <1>5
<1> HIDE DEF S
<1> QED  BY <1>2, <1>6, <1>7, <1>8 DEF b

\* Storing a create or a close moves one row on, and gives it the latest sort_time at
\* most twice.
LEMMA TableSteps ==
  ASSUME TypeOK, SortTimesBounded, NEW p \in Mine, StoreCreated(p) \/ StoreClosed(p)
  PROVE  /\ row' \in [Mine -> RowStatus] /\ sorted_at' \in [Mine -> 0..2 * Cardinality(Mine)]
         /\ SortTimesBounded'
         /\ \A q \in Mine \ {p} : row'[q] = row[q]
         /\ \A v : Reached(v, row[p]) => Reached(v, row'[p])
<1>1. row' \in [Mine -> RowStatus] /\ \A q \in Mine \ {p} : row'[q] = row[q]
  BY DEF StoreCreated, StoreClosed, TypeOK, RowStatus
<1>2. \/ row[p] = "absent" /\ row'[p] \in {"open", "partial"}
      \/ row[p] \in {"open", "partial"} /\ row'[p] = "settled"
  BY DEF StoreCreated, StoreClosed, TypeOK
<1>3. \A v : Reached(v, row[p]) => Reached(v, row'[p])
  BY <1>2 DEF Reached
<1>4. IsFiniteSet(Stored) /\ IsFiniteSet(Settled) /\ IsFiniteSet(Stored') /\ IsFiniteSet(Settled')
  BY MineAssumption, FS_Subset DEF Stored, Settled
<1>5. /\ Cardinality(Stored) \in Nat /\ Cardinality(Settled) \in Nat
      /\ Cardinality(Stored') \in Nat /\ Cardinality(Settled') \in Nat
      /\ Cardinality(Mine) \in Nat
      /\ Cardinality(Stored') <= Cardinality(Mine) /\ Cardinality(Settled') <= Cardinality(Mine)
  BY <1>4, MineAssumption, FS_CardinalityType, FS_Subset DEF Stored, Settled
<1>6. Cardinality(Stored') + Cardinality(Settled') = Cardinality(Stored) + Cardinality(Settled) + 1
  <2>1. CASE row[p] = "absent" /\ row'[p] \in {"open", "partial"}
    <3>1. Stored' = Stored \cup {p} /\ p \notin Stored /\ Settled' = Settled
      BY <1>1, <2>1 DEF Stored, Settled
    <3>2. Cardinality(Stored') = Cardinality(Stored) + 1
      BY <1>4, <3>1, FS_AddElement
    <3> QED  BY <1>5, <3>1, <3>2
  <2>2. CASE row[p] \in {"open", "partial"} /\ row'[p] = "settled"
    <3>1. Settled' = Settled \cup {p} /\ p \notin Settled /\ Stored' = Stored
      BY <1>1, <2>2 DEF Stored, Settled
    <3>2. Cardinality(Settled') = Cardinality(Settled) + 1
      BY <1>4, <3>1, FS_AddElement
    <3> QED  BY <1>5, <3>1, <3>2
  <2> QED  BY <1>2, <2>1, <2>2
<1>7. \A q \in Mine : sorted_at'[q] \in {sorted_at[q], Later}
  <2>1. sorted_at' = [sorted_at EXCEPT ![p] = Later] \/ UNCHANGED sorted_at
    BY DEF StoreCreated, StoreClosed
  <2> QED  BY <2>1 DEF TypeOK
<1>8. Later \in Nat /\ Later <= Cardinality(Stored) + Cardinality(Settled) + 1
  BY LaterBounded
<1>9. \A q \in Mine : /\ sorted_at'[q] \in Nat
                      /\ sorted_at'[q] <= Cardinality(Stored') + Cardinality(Settled')
  <2> SUFFICES ASSUME NEW q \in Mine
               PROVE  /\ sorted_at'[q] \in Nat
                      /\ sorted_at'[q] <= Cardinality(Stored') + Cardinality(Settled')
    OBVIOUS
  <2>1. sorted_at[q] \in Nat /\ sorted_at[q] <= Cardinality(Stored) + Cardinality(Settled)
    BY DEF TypeOK, SortTimesBounded
  <2> QED  BY <1>5, <1>6, <1>7, <1>8, <2>1
<1>10. sorted_at' \in [Mine -> 0..2 * Cardinality(Mine)]
  <2>1. \A q \in Mine : sorted_at'[q] \in 0..2 * Cardinality(Mine)
    BY <1>5, <1>9
  <2>2. \E f : sorted_at' = [sorted_at EXCEPT ![p] = f]
    <3>1. CASE UNCHANGED sorted_at
      <4>1. sorted_at' = [sorted_at EXCEPT ![p] = sorted_at[p]]
        BY <3>1 DEF TypeOK
      <4> QED  BY <4>1
    <3>2. CASE sorted_at' = [sorted_at EXCEPT ![p] = Later]
      BY <3>2
    <3> QED  BY <3>1, <3>2 DEF StoreCreated, StoreClosed
  <2> QED  BY <2>1, <2>2 DEF TypeOK
<1> QED  BY <1>1, <1>3, <1>9, <1>10 DEF SortTimesBounded

-----------------------------------------------------------------------------
(***************************************************************************)
(* A change on its way.                                                    *)
(***************************************************************************)

OnItsWay(p) ==
  \/ SnapshotToCome
  \/ p \in ToSet(notices) \cup ToSet(unread)
  \/ \E m \in ToSet(wire) : Carries(m, p)

Flow == \A p \in Mine : Behind(p) => OnItsWay(p)

\* EveryChangeIsOnItsWay, told of the messages instead of their places.
LEMMA FlowIs == EveryChangeIsOnItsWay <=> Flow
BY DEF EveryChangeIsOnItsWay, Flow, OnItsWay, Carries, ToSet

\* A listener that listens takes note of the change.
LEMMA NotifyTyped ==
  ASSUME TypeOK, NEW p \in Mine \cup Others, Notify(p)
  PROVE  /\ notices' \in Seq(Mine \cup Others)
         /\ ToSet(notices) \subseteq ToSet(notices')
         /\ listener = "relaying" => p \in ToSet(notices')
<1>1. CASE notices' = Append(notices, p)
  BY <1>1, AppendSet DEF TypeOK
<1>2. CASE UNCHANGED notices /\ listener # "relaying"
  BY <1>2 DEF TypeOK
<1> QED  BY <1>1, <1>2 DEF Notify

\* What was on its way stays so when more is, and nothing else changes.
LEMMA StaysOnItsWay ==
  ASSUME NEW p, OnItsWay(p), row'[p] = row[p],
         ToSet(notices) \subseteq ToSet(notices'), ToSet(unread) \subseteq ToSet(unread'),
         ToSet(wire) \subseteq ToSet(wire'),
         UNCHANGED <<socket, listener, lagged>>
  PROVE  OnItsWay(p)'
<1>1. CASE SnapshotToCome
  BY <1>1 DEF SnapshotToCome, OnItsWay
<1>2. CASE p \in ToSet(notices) \cup ToSet(unread)
  BY <1>2 DEF OnItsWay
<1>3. ASSUME NEW m \in ToSet(wire), Carries(m, p)
      PROVE  OnItsWay(p)'
  <2>1. m \in ToSet(wire') /\ p \in DOMAIN m.rows /\ m.rows[p] = row'[p]
    BY <1>3 DEF Carries
  <2> QED  BY <2>1 DEF OnItsWay, Carries
<1> QED  BY <1>1, <1>2, <1>3 DEF OnItsWay

-----------------------------------------------------------------------------
(***************************************************************************)
(* The steps.                                                              *)
(***************************************************************************)

\* A row changes.
LEMMA TableInv ==
  ASSUME IInv, NEW p \in Mine, StoreCreated(p) \/ StoreClosed(p)
  PROVE  IInv'
<1> USE DEF IInv
<1>1. /\ row' \in [Mine -> RowStatus] /\ sorted_at' \in [Mine -> 0..2 * Cardinality(Mine)]
      /\ SortTimesBounded'
      /\ \A q \in Mine \ {p} : row'[q] = row[q]
      /\ \A v : Reached(v, row[p]) => Reached(v, row'[p])
  BY TableSteps
<1>2. UNCHANGED <<rewrites, listener, socket, unread, lagged, wire, mounted, shown, observedWins,
                  celebrating, fetch, failures>>
  BY DEF StoreCreated, StoreClosed, taskVars, pageVars
<1>3. /\ notices' \in Seq(Mine \cup Others) /\ ToSet(notices) \subseteq ToSet(notices')
      /\ row'[p] # "partial" /\ listener = "relaying" => p \in ToSet(notices')
  <2>1. CASE Notify(p)
    BY <2>1, NotifyTyped
  <2>2. CASE row'[p] = "partial" /\ UNCHANGED notices
    BY <2>2 DEF TypeOK
  <2> QED  BY <2>1, <2>2 DEF StoreCreated, StoreClosed, TypeOK
<1>4. TypeOK'
  BY <1>1, <1>2, <1>3 DEF TypeOK
<1>5. \A q \in Mine : \A v : Reached(v, row[q]) => Reached(v, row'[q])
  BY <1>1
<1>6. NothingAhead'
  <2>1. \A q \in Mine : Reached(shown'[q], row'[q])
    BY <1>2, <1>5 DEF NothingAhead
  <2>2. ASSUME NEW rows \in RowsOf(Values), Honest(rows, row)
        PROVE  Honest(rows, row')
    BY <1>5, <2>2, RowsTyped DEF Honest
  <2>3. Honest(fetch'.rows, row')
    BY <1>2, <2>2 DEF NothingAhead, TypeOK, Values
  <2>4. \A m \in ToSet(wire') : m.rows \in RowsOf(Values)
    <3>1. wire \in Seq(Message)
      BY DEF TypeOK, Message, Values
    <3>2. \A m \in ToSet(wire) : m \in Message
      BY <3>1, ElementsTyped
    <3> QED  BY <1>2, <3>2 DEF Message
  <2>5. \A m \in ToSet(wire') : Honest(m.rows, row')
    BY <1>2, <2>2, <2>4 DEF NothingAhead
  <2> QED  BY <2>1, <2>3, <2>5 DEF NothingAhead
<1>7. Flow'
  <2> SUFFICES ASSUME NEW q \in Mine, Behind(q)' PROVE OnItsWay(q)'
    BY DEF Flow
  <2>1. CASE listener # "relaying"
    BY <1>2, <2>1 DEF OnItsWay, SnapshotToCome
  <2>2. CASE listener = "relaying" /\ q = p
    BY <1>2, <1>3, <2>2 DEF OnItsWay, Behind, Visible
  <2>3. CASE q # p
    <3>1. row'[q] = row[q]
      BY <1>1, <2>3
    <3>2. Behind(q)
      BY <1>2, <3>1 DEF Behind, Visible
    <3>3. OnItsWay(q)
      BY <3>2, FlowIs DEF Flow
    <3> QED  BY <1>2, <1>3, <3>1, <3>3, StaysOnItsWay
  <2> QED  BY <2>1, <2>2, <2>3
<1>8. WinsObserved' /\ ClosedUnlessMounted'
  BY <1>2 DEF WinsObserved, ClosedUnlessMounted
<1>9. EveryChangeIsOnItsWay'
  BY <1>7 DEF EveryChangeIsOnItsWay, Flow, OnItsWay, Carries, ToSet
<1> QED  BY <1>1, <1>4, <1>6, <1>8, <1>9

\* The rows stay what they are, and so does what the page shows of them.
LEMMA RowsStay ==
  ASSUME IInv, UNCHANGED <<row, sorted_at, shown, observedWins, fetch>>,
         TypeOK', ClosedUnlessMounted', Flow',
         \A m \in ToSet(wire') : m \in ToSet(wire) \/ Honest(m.rows, row)
  PROVE  IInv'
<1> USE DEF IInv
<1>1. SortTimesBounded'
  BY DEF SortTimesBounded, Stored, Settled
<1>2. NothingAhead'
  BY DEF NothingAhead
<1>3. WinsObserved'
  BY DEF WinsObserved
<1>4. EveryChangeIsOnItsWay'
  BY DEF EveryChangeIsOnItsWay, Flow, OnItsWay, Carries, ToSet
<1> QED  BY <1>1, <1>2, <1>3, <1>4

\* A row is written anew with what it had, or is another user's.
LEMMA RewriteInv ==
  ASSUME IInv, NEW p \in Mine \cup Others, Rewrite(p)
  PROVE  IInv'
<1> USE DEF IInv
<1>1. UNCHANGED <<row, sorted_at, listener, socket, unread, lagged, wire, mounted, shown,
                  observedWins, celebrating, fetch, failures>>
  BY DEF Rewrite, taskVars, pageVars
<1>2. notices' \in Seq(Mine \cup Others) /\ ToSet(notices) \subseteq ToSet(notices')
  BY NotifyTyped DEF Rewrite
<1>3. rewrites' \in 0..MAX_REWRITES
  BY StreamAssumption DEF Rewrite, TypeOK
<1>4. TypeOK'
  BY <1>1, <1>2, <1>3 DEF TypeOK
<1>5. Flow'
  <2> SUFFICES ASSUME NEW q \in Mine, Behind(q)' PROVE OnItsWay(q)'
    BY DEF Flow
  <2>1. OnItsWay(q)
    BY <1>1, FlowIs DEF Flow, Behind, Visible
  <2> QED  BY <1>1, <1>2, <2>1, StaysOnItsWay
<1>6. ClosedUnlessMounted'
  BY <1>1 DEF ClosedUnlessMounted
<1> QED  BY <1>1, <1>4, <1>5, <1>6, RowsStay

\* The listener connects, and is lost: a Resync is then to come.
LEMMA SessionInv ==
  ASSUME IInv, ListenerConnects \/ LoseListener \/ HeartbeatTimesOut
  PROVE  IInv'
<1> USE DEF IInv
<1>1. /\ UNCHANGED <<row, sorted_at, rewrites, socket, unread, lagged, wire, mounted, shown,
                     observedWins, celebrating, fetch>>
      /\ listener' \in {"listening", "down", "deaf"}
  BY DEF ListenerConnects, LoseListener, HeartbeatTimesOut, tableVars, taskVars, pageVars
<1>2. notices' \in Seq(Mine \cup Others)
  BY EmptySet DEF ListenerConnects, LoseListener, HeartbeatTimesOut, TypeOK
<1>3. failures' \in 0..MAX_FAILURES
  BY StreamAssumption DEF ListenerConnects, LoseListener, HeartbeatTimesOut, Fail, TypeOK
<1>4. TypeOK'
  BY <1>1, <1>2, <1>3 DEF TypeOK
<1>5. Flow'
  BY <1>1 DEF Flow, OnItsWay, SnapshotToCome
<1>6. ClosedUnlessMounted'
  BY <1>1 DEF ClosedUnlessMounted
<1> QED  BY <1>1, <1>4, <1>5, <1>6, RowsStay

\* The listener broadcasts.
LEMMA BroadcastInv ==
  ASSUME IInv, ListenerResyncs \/ Relay
  PROVE  IInv'
<1> USE DEF IInv
<1>1. UNCHANGED <<row, sorted_at, rewrites, socket, wire, mounted, shown, observedWins,
                  celebrating, fetch, failures>>
  BY DEF ListenerResyncs, Relay, tableVars, pageVars
<1>2. CASE ListenerResyncs
  <2>1. Broadcast(Resync) /\ UNCHANGED notices /\ listener' = "relaying"
    BY <1>2 DEF ListenerResyncs
  <2>2. /\ unread' \in Seq(Channel) /\ Len(unread') <= CAPACITY /\ lagged' \in BOOLEAN
        /\ socket = "streaming" => lagged' \/ Resync \in ToSet(unread')
    <3>1. Resync \in Channel
      BY DEF Channel
    <3> QED  BY <2>1, <3>1, BroadcastReaches
  <2>3. TypeOK'
    BY <1>1, <2>1, <2>2 DEF TypeOK, Channel
  <2>4. Flow'
    BY <1>1, <2>2 DEF Flow, OnItsWay, SnapshotToCome
  <2>5. ClosedUnlessMounted'
    BY <1>1 DEF ClosedUnlessMounted
  <2> QED  BY <1>1, <2>3, <2>4, <2>5, RowsStay
<1>3. CASE Relay
  <2>1. /\ listener = "relaying" /\ notices # <<>> /\ UNCHANGED listener
        /\ Broadcast(Head(notices)) /\ notices' = Tail(notices)
    BY <1>3 DEF Relay
  <2>2. /\ Head(notices) \in Mine \cup Others /\ notices' \in Seq(Mine \cup Others)
        /\ ToSet(notices) = {Head(notices)} \cup ToSet(notices')
    BY <2>1, TailSet DEF TypeOK
  <2>3. /\ unread' \in Seq(Channel) /\ Len(unread') <= CAPACITY /\ lagged' \in BOOLEAN
        /\ socket = "streaming" =>
             \/ lagged'
             \/ ToSet(unread') = ToSet(unread) \cup {Head(notices)} /\ UNCHANGED lagged
    <3>1. PICK m \in Channel : m = Head(notices)
      BY <2>2 DEF Channel
    <3> QED  BY <2>1, <3>1, BroadcastReaches
  <2>4. TypeOK'
    BY <1>1, <2>1, <2>2, <2>3 DEF TypeOK, Channel
  <2>5. Flow'
    <3> SUFFICES ASSUME NEW q \in Mine, Behind(q)', ~(socket # "streaming" \/ lagged')
                 PROVE  OnItsWay(q)'
      BY <1>1 DEF Flow, OnItsWay, SnapshotToCome
    <3>1. OnItsWay(q)
      BY <1>1, FlowIs DEF Flow, Behind, Visible
    <3>2. /\ ToSet(unread') = ToSet(unread) \cup {Head(notices)} /\ UNCHANGED lagged
      BY <2>3
    <3>3. CASE q \in ToSet(notices) \cup ToSet(unread) \/ Resync \in ToSet(unread)
      BY <2>2, <3>2, <3>3 DEF OnItsWay, SnapshotToCome
    <3>4. CASE \E m \in ToSet(wire) : Carries(m, q)
      <4>1. PICK m \in ToSet(wire) : Carries(m, q)
        BY <3>4
      <4>2. m \in ToSet(wire') /\ q \in DOMAIN m.rows /\ m.rows[q] = row'[q]
        BY <1>1, <4>1 DEF Carries
      <4> QED  BY <4>2 DEF OnItsWay, Carries
    <3>5. CASE lagged \/ listener # "relaying" \/ socket # "streaming"
      BY <2>1, <3>2, <3>5
    <3> QED  BY <3>1, <3>3, <3>4, <3>5 DEF OnItsWay, SnapshotToCome
  <2>6. ClosedUnlessMounted'
    BY <1>1 DEF ClosedUnlessMounted
  <2> QED  BY <1>1, <2>4, <2>5, <2>6, RowsStay
<1> QED  BY <1>2, <1>3

\* The task of the socket subscribes, sends, and ends; the connection closes.
LEMMA ServeInv ==
  ASSUME IInv, Serve
  PROVE  IInv'
<1> USE DEF IInv
<1>1. /\ UNCHANGED <<row, sorted_at, rewrites, listener, notices, mounted, shown, observedWins,
                     celebrating, fetch>>
  BY DEF Serve, Connect, FirstSnapshot, Receive, SocketCloses, tableVars, pageVars
<1>2. wire \in Seq(Message) /\ unread \in Seq(Channel)
  BY DEF TypeOK, Message, Values, Channel
<1>3. CASE Connect
  <2>1. /\ socket' = "subscribed" /\ unread' = <<>> /\ lagged' = FALSE
        /\ UNCHANGED <<wire, failures>> /\ mounted
    BY <1>3 DEF Connect
  <2>2. unread' \in Seq(Channel) /\ Len(unread') <= CAPACITY
    BY <2>1, EmptySet, StreamAssumption
  <2>3. TypeOK'
    BY <1>1, <2>1, <2>2 DEF TypeOK, Channel
  <2>4. Flow' /\ ClosedUnlessMounted'
    BY <1>1, <2>1 DEF Flow, OnItsWay, SnapshotToCome, ClosedUnlessMounted
  <2> QED  BY <1>1, <2>1, <2>3, <2>4, RowsStay
<1>4. CASE SocketCloses
  <2>1. Disconnected
    BY <1>4 DEF SocketCloses
  <2>2. failures' \in 0..MAX_FAILURES
    BY <1>4, StreamAssumption DEF SocketCloses, Fail, TypeOK
  <2>3. /\ unread' \in Seq(Channel) /\ Len(unread') <= CAPACITY
        /\ wire' \in Seq(Message) /\ ToSet(wire') = {}
    BY <2>1, EmptySet, StreamAssumption DEF Disconnected
  <2>4. TypeOK'
    BY <1>1, <2>1, <2>2, <2>3 DEF TypeOK, Disconnected, Channel, Message, Values
  <2>5. Flow' /\ ClosedUnlessMounted'
    BY <2>1 DEF Flow, OnItsWay, SnapshotToCome, ClosedUnlessMounted, Disconnected
  <2> QED  BY <1>1, <2>3, <2>4, <2>5, RowsStay
<1>5. CASE FirstSnapshot
  <2>1. socket = "subscribed" /\ mounted /\ UNCHANGED <<unread, lagged>>
    BY <1>5 DEF FirstSnapshot, ClosedUnlessMounted
  <2>2. CASE SendSnapshot /\ socket' = "streaming" /\ UNCHANGED failures
    <3>1. PICK m \in Message :
            /\ wire' = Append(wire, m)
            /\ Honest(m.rows, row)
            /\ \A p \in Mine : Visible(p) => Carries(m, p)
      BY <2>2, SnapshotSent
    <3>2. wire' \in Seq(Message) /\ ToSet(wire') = ToSet(wire) \cup {m}
      BY <1>2, <3>1, AppendSet
    <3>3. TypeOK'
      BY <1>1, <2>1, <2>2, <3>2 DEF TypeOK, Message, Values
    <3>4. \A p \in Mine : Visible(p)' => Visible(p)
      BY <1>1 DEF Visible
    <3>5. \A p \in Mine : Carries(m, p) => p \in DOMAIN m.rows /\ m.rows[p] = row'[p]
      BY <1>1 DEF Carries
    <3>6. Flow'
      BY <3>1, <3>2, <3>4, <3>5 DEF Flow, OnItsWay, Behind, Carries
    <3>7. ClosedUnlessMounted'
      BY <1>1, <2>1 DEF ClosedUnlessMounted
    <3> QED  BY <1>1, <3>1, <3>2, <3>3, <3>6, <3>7, RowsStay
  <2>3. CASE EndTask
    <3>1. failures' \in 0..MAX_FAILURES /\ socket' = "ended" /\ UNCHANGED wire
      BY <2>3, StreamAssumption DEF EndTask, Fail, TypeOK
    <3>2. TypeOK'
      BY <1>1, <2>1, <3>1 DEF TypeOK
    <3>3. Flow' /\ ClosedUnlessMounted'
      BY <1>1, <2>1, <3>1 DEF Flow, OnItsWay, SnapshotToCome, ClosedUnlessMounted
    <3> QED  BY <1>1, <3>1, <3>2, <3>3, RowsStay
  <2> QED  BY <1>5, <2>2, <2>3 DEF FirstSnapshot
<1>6. CASE Receive
  <2>1. socket = "streaming" /\ mounted
    BY <1>6 DEF Receive, ClosedUnlessMounted
  <2>2. /\ failures' \in 0..MAX_FAILURES /\ socket' \in {"streaming", "ended"}
        /\ wire' \in Seq(Message) /\ ToSet(wire) \subseteq ToSet(wire')
        /\ \A m \in ToSet(wire') : m \in ToSet(wire) \/ Honest(m.rows, row)
        /\ unread' \in Seq(Channel) /\ Len(unread') <= CAPACITY /\ lagged' \in BOOLEAN
        /\ socket' = "streaming" =>
             \A p \in Mine :
               \/ Visible(p) => \E m \in ToSet(wire') : Carries(m, p)
               \/ ~lagged /\ ~lagged' /\ ToSet(unread) \ ToSet(unread') \subseteq {Head(unread)}
                  /\ Head(unread) \notin {p, Resync}
    <3>1. CASE lagged /\ lagged' = FALSE /\ AfterLag /\ UNCHANGED unread
      BY <1>2, <2>1, <3>1, SnapshotOrEndSends DEF AfterLag, TypeOK
    <3>2. CASE /\ ~lagged /\ unread # <<>> /\ unread' = Tail(unread) /\ UNCHANGED lagged
               /\ IF Head(unread) = Resync THEN SnapshotOrEnd ELSE AfterChange(Head(unread))
      <4>1. /\ unread' \in Seq(Channel) /\ Len(unread') = Len(unread) - 1
            /\ ToSet(unread) = {Head(unread)} \cup ToSet(unread')
        BY <1>2, <3>2, TailSet
      <4>2. Len(unread') <= CAPACITY
        BY <1>2, <4>1, LenProperties, StreamAssumption DEF TypeOK
      <4>3. CASE Head(unread) = Resync /\ SnapshotOrEnd
        <5>1. /\ failures' \in 0..MAX_FAILURES /\ socket' \in {"streaming", "ended"}
              /\ wire' \in Seq(Message) /\ ToSet(wire) \subseteq ToSet(wire')
              /\ \A m \in ToSet(wire') : m \in ToSet(wire) \/ Honest(m.rows, row)
              /\ socket' = "streaming" =>
                   \A p \in Mine : Visible(p) => \E m \in ToSet(wire') : Carries(m, p)
          BY <2>1, <4>3, SnapshotOrEndSends
        <5>2. lagged' \in BOOLEAN
          BY <3>2 DEF TypeOK
        <5> QED  BY <4>1, <4>2, <5>1, <5>2
      <4>4. CASE Head(unread) # Resync /\ AfterChange(Head(unread))
        <5>1. PICK p : p = Head(unread)
          OBVIOUS
        <5>2. /\ failures' \in 0..MAX_FAILURES /\ socket' \in {"streaming", "ended"}
              /\ wire' \in Seq(Message) /\ ToSet(wire) \subseteq ToSet(wire')
              /\ \A m \in ToSet(wire') : m \in ToSet(wire) \/ Honest(m.rows, row)
              /\ socket' = "streaming" /\ p \in Mine /\ Visible(p) =>
                   \E m \in ToSet(wire') : Carries(m, p)
          BY <2>1, <4>4, <5>1, AfterChangeSends
        <5>3. ToSet(unread) \ ToSet(unread') \subseteq {Head(unread)}
          BY <4>1
        <5>4. lagged' \in BOOLEAN /\ ~lagged /\ ~lagged'
          BY <3>2 DEF TypeOK
        <5>5. ASSUME NEW q \in Mine, socket' = "streaming"
              PROVE  \/ Visible(q) => \E m \in ToSet(wire') : Carries(m, q)
                     \/ Head(unread) \notin {q, Resync}
          BY <4>4, <5>1, <5>2, <5>5
        <5> QED  BY <4>1, <4>2, <5>2, <5>3, <5>4, <5>5
      <4> QED  BY <3>2, <4>3, <4>4
    <3> QED  BY <1>6, <3>1, <3>2 DEF Receive
  <2>3. TypeOK'
    BY <1>1, <2>2 DEF TypeOK, Message, Values, Channel
  <2>4. Flow'
    <3> SUFFICES ASSUME NEW q \in Mine, Behind(q)', socket' = "streaming" PROVE OnItsWay(q)'
      BY DEF Flow, OnItsWay, SnapshotToCome
    <3>1. Visible(q) /\ OnItsWay(q)
      BY <1>1, FlowIs DEF Flow, Behind, Visible
    <3>2. CASE \E m \in ToSet(wire') : Carries(m, q)
      <4>1. PICK m \in ToSet(wire') : Carries(m, q)
        BY <3>2
      <4>2. q \in DOMAIN m.rows /\ m.rows[q] = row'[q]
        BY <1>1, <4>1 DEF Carries
      <4> QED  BY <4>2 DEF OnItsWay, Carries
    <3>3. CASE /\ ~lagged /\ ~lagged' /\ ToSet(unread) \ ToSet(unread') \subseteq {Head(unread)}
               /\ Head(unread) \notin {q, Resync}
      <4>1. CASE \E m \in ToSet(wire) : Carries(m, q)
        BY <2>2, <3>2, <4>1
      <4>2. CASE listener # "relaying" \/ Resync \in ToSet(unread)
        BY <1>1, <3>3, <4>2 DEF OnItsWay, SnapshotToCome
      <4>3. CASE q \in ToSet(notices) \cup ToSet(unread)
        BY <1>1, <3>3, <4>3 DEF OnItsWay
      <4> QED  BY <2>1, <3>1, <3>3, <4>1, <4>2, <4>3 DEF OnItsWay, SnapshotToCome
    <3> QED  BY <2>2, <3>1, <3>2, <3>3
  <2>5. ClosedUnlessMounted'
    BY <1>1, <2>1 DEF ClosedUnlessMounted
  <2> QED  BY <1>1, <2>2, <2>3, <2>4, <2>5, RowsStay
<1> QED  BY <1>3, <1>4, <1>5, <1>6 DEF Serve

\* Merging rows that are not ahead of the table brings the page no further than it, and
\* undoes nothing that is up to date.
LEMMA MergeSound ==
  ASSUME IInv, NEW message, message.rows \in RowsOf(Values), Honest(message.rows, row),
         MergeIndexed(message), UNCHANGED row
  PROVE  /\ shown' \in [Mine -> Shown] /\ observedWins' \subseteq Won
         /\ \A p \in Mine : Reached(shown'[p], row[p])
         /\ WinsObserved'
         /\ \A p \in Mine :
              Visible(p) /\ (shown[p] = row[p] \/ Carries(message, p)) => shown'[p] = row[p]
<1> USE DEF IInv
<1>1. \A p \in Mine : shown'[p] = IF p \in DOMAIN message.rows
                                  THEN Merge(shown[p], message.rows[p])
                                  ELSE shown[p]
  BY DEF MergeIndexed
<1>2. \A p \in DOMAIN message.rows : message.rows[p] \in Values /\ Reached(message.rows[p], row[p])
  BY RowsTyped DEF Honest
<1>3. \A p \in Mine : shown[p] \in Shown /\ Reached(shown[p], row[p])
  BY DEF TypeOK, NothingAhead
<1>4. \A p \in Mine : shown'[p] \in Shown /\ Reached(shown'[p], row[p])
  BY <1>1, <1>2, <1>3 DEF Merge, Shown, Values
<1>5. shown' \in [Mine -> Shown]
  <2>1. shown' = [p \in Mine |-> shown'[p]]
    BY DEF MergeIndexed
  <2> QED  BY <1>4, <2>1
<1>6. observedWins' = observedWins \cup WinsIn(message.rows)
  BY DEF MergeIndexed, Observed
<1>7. observedWins' \subseteq Won
  BY <1>6 DEF WinsIn, TypeOK
<1>8. WinsObserved'
  <2> SUFFICES ASSUME NEW p \in Won, shown'[p] = "settled" PROVE p \in observedWins'
    BY DEF WinsObserved
  <2>1. p \in Mine
    BY StreamAssumption
  <2>2. CASE shown[p] = "settled"
    BY <1>6, <2>2 DEF WinsObserved
  <2>3. CASE shown[p] # "settled"
    <3>1. p \in DOMAIN message.rows /\ message.rows[p] = "settled"
      BY <1>1, <2>1, <2>3 DEF Merge
    <3> QED  BY <1>6, <3>1 DEF WinsIn
  <2> QED  BY <2>2, <2>3
<1>9. ASSUME NEW p \in Mine, Visible(p), shown[p] = row[p] \/ Carries(message, p)
      PROVE  shown'[p] = row[p]
  <2>1. CASE p \notin DOMAIN message.rows
    BY <1>1, <1>9, <2>1 DEF Carries
  <2>2. CASE p \in DOMAIN message.rows
    <3>1. shown'[p] = Merge(shown[p], message.rows[p])
      BY <1>1, <2>2
    <3>2. message.rows[p] \in Values /\ Reached(message.rows[p], row[p])
      BY <1>2, <2>2
    <3> QED  BY <1>3, <1>9, <3>1, <3>2 DEF Merge, Carries, Visible, Reached, Values
  <2> QED  BY <2>1, <2>2
<1> QED  BY <1>4, <1>5, <1>7, <1>8, <1>9

\* The page takes a message.
LEMMA DeliverInv ==
  ASSUME IInv, Deliver
  PROVE  IInv'
<1> USE DEF IInv
<1>1. /\ wire # <<>> /\ wire' = Tail(wire)
      /\ MergeIndexed(Head(wire)) /\ CelebrateWin(Head(wire))
      /\ UNCHANGED <<row, sorted_at, rewrites, listener, notices, socket, unread, lagged, mounted,
                     fetch, failures>>
  BY DEF Deliver, tableVars
<1>2. wire \in Seq(Message)
  BY DEF TypeOK, Message, Values
<1>3. /\ Head(wire) \in Message /\ wire' \in Seq(Message)
      /\ ToSet(wire) = {Head(wire)} \cup ToSet(wire')
  BY <1>1, <1>2, TailSet
<1>4. PICK message \in Message : message = Head(wire)
  BY <1>3
<1>5. message.rows \in RowsOf(Values) /\ Honest(message.rows, row)
  BY <1>3, <1>4 DEF Message, NothingAhead
<1>6. /\ shown' \in [Mine -> Shown] /\ observedWins' \subseteq Won
      /\ \A p \in Mine : Reached(shown'[p], row[p])
      /\ WinsObserved'
      /\ \A p \in Mine :
           Visible(p) /\ (shown[p] = row[p] \/ Carries(message, p)) => shown'[p] = row[p]
  BY <1>1, <1>4, <1>5, MergeSound
<1>7. celebrating' \subseteq Won
  BY <1>1 DEF CelebrateWin, WinsIn, TypeOK
<1>8. TypeOK'
  BY <1>1, <1>3, <1>6, <1>7 DEF TypeOK, Message, Values
<1>9. SortTimesBounded' /\ ClosedUnlessMounted'
  BY <1>1 DEF SortTimesBounded, Stored, Settled, ClosedUnlessMounted
<1>10. NothingAhead'
  <2>1. \A m \in ToSet(wire') : Honest(m.rows, row)
    BY <1>3 DEF NothingAhead
  <2>2. Honest(fetch.rows, row)
    BY DEF NothingAhead
  <2> QED  BY <1>1, <1>6, <2>1, <2>2 DEF NothingAhead
<1>11. Flow'
  <2> SUFFICES ASSUME NEW p \in Mine, Behind(p)' PROVE OnItsWay(p)'
    BY DEF Flow
  <2>1. Visible(p) /\ mounted /\ shown'[p] # row[p]
    BY <1>1 DEF Behind, Visible
  <2>2. shown[p] # row[p] /\ ~Carries(message, p)
    BY <1>6, <2>1
  <2>3. OnItsWay(p)
    BY <2>1, <2>2, FlowIs DEF Flow, Behind
  <2>4. CASE SnapshotToCome \/ p \in ToSet(notices) \cup ToSet(unread)
    BY <1>1, <2>4 DEF OnItsWay, SnapshotToCome
  <2>5. CASE \E m \in ToSet(wire) : Carries(m, p)
    <3>1. PICK m \in ToSet(wire) : Carries(m, p)
      BY <2>5
    <3>2. m \in ToSet(wire')
      BY <1>3, <1>4, <2>2, <3>1
    <3>3. p \in DOMAIN m.rows /\ m.rows[p] = row'[p]
      BY <1>1, <3>1 DEF Carries
    <3> QED  BY <3>2, <3>3 DEF OnItsWay, Carries
  <2> QED  BY <2>3, <2>4, <2>5 DEF OnItsWay
<1>12. EveryChangeIsOnItsWay'
  BY <1>11 DEF EveryChangeIsOnItsWay, Flow, OnItsWay, Carries, ToSet
<1> QED  BY <1>6, <1>8, <1>9, <1>10, <1>12

\* The page is opened, and its history asked for.
LEMMA MountInv ==
  ASSUME IInv, Mount
  PROVE  IInv'
<1> USE DEF IInv
<1>1. /\ fetch' = [NoFetch EXCEPT !.phase = "reading"] /\ mounted' = TRUE
      /\ UNCHANGED <<row, sorted_at, rewrites, listener, notices, socket, unread, lagged, wire,
                     shown, observedWins, celebrating, failures>>
      /\ socket = "closed"
  BY DEF Mount, tableVars, taskVars, ClosedUnlessMounted
<1>2. fetch'.phase = "reading" /\ fetch'.rows = <<>>
  BY <1>1 DEF NoFetch
<1>3. fetch'.rows \in RowsOf(Values) /\ Honest(fetch'.rows, row)
  BY <1>2, RowsTyped DEF Honest
<1>4. TypeOK'
  BY <1>1, <1>2, <1>3 DEF TypeOK, Values
<1>5. NothingAhead'
  BY <1>1, <1>3 DEF NothingAhead
<1>6. SortTimesBounded' /\ WinsObserved' /\ ClosedUnlessMounted'
  BY <1>1 DEF SortTimesBounded, Stored, Settled, WinsObserved, ClosedUnlessMounted
<1>7. EveryChangeIsOnItsWay'
  BY <1>1 DEF EveryChangeIsOnItsWay, SnapshotToCome
<1> QED  BY <1>4, <1>5, <1>6, <1>7

\* The page is left, and its connection closed.
LEMMA UnmountInv ==
  ASSUME IInv, Unmount
  PROVE  IInv'
<1> USE DEF IInv
<1>1. /\ fetch' = NoFetch /\ mounted' = FALSE
      /\ shown' = [p \in Mine |-> "absent"] /\ observedWins' = {} /\ celebrating' = {}
      /\ Disconnected
      /\ UNCHANGED <<row, sorted_at, rewrites, listener, notices, failures>>
  BY DEF Unmount, tableVars
<1>2. /\ unread' \in Seq(Channel) /\ Len(unread') <= CAPACITY
      /\ wire' \in Seq(Message) /\ ToSet(wire') = {}
  BY <1>1, EmptySet, StreamAssumption DEF Disconnected
<1>3. fetch'.phase = "idle" /\ fetch'.rows \in RowsOf(Values) /\ Honest(fetch'.rows, row)
  BY <1>1, RowsTyped DEF Honest, NoFetch
<1>4. TypeOK'
  <2>1. shown' \in [Mine -> Shown]
    BY <1>1 DEF Shown
  <2> QED  BY <1>1, <1>2, <1>3, <2>1 DEF TypeOK, Values, Channel, Message, Disconnected
<1>5. NothingAhead'
  BY <1>1, <1>2, <1>3 DEF NothingAhead, Reached
<1>6. WinsObserved'
  BY <1>1, StreamAssumption DEF WinsObserved
<1>7. SortTimesBounded' /\ ClosedUnlessMounted'
  BY <1>1 DEF SortTimesBounded, Stored, Settled, ClosedUnlessMounted, Disconnected
<1>8. EveryChangeIsOnItsWay'
  BY <1>1 DEF EveryChangeIsOnItsWay, Behind
<1> QED  BY <1>4, <1>5, <1>6, <1>7, <1>8

\* A celebration ends.
LEMMA AnimationInv ==
  ASSUME IInv, NEW p \in Mine, AnimationEnds(p)
  PROVE  IInv'
<1> USE DEF IInv
<1>1. /\ UNCHANGED <<row, sorted_at, rewrites, listener, notices, socket, unread, lagged, wire,
                     mounted, shown, observedWins, fetch, failures>>
      /\ celebrating' \subseteq Won
  BY DEF AnimationEnds, tableVars, taskVars, TypeOK
<1>2. TypeOK'
  BY <1>1 DEF TypeOK
<1>3. Flow' /\ ClosedUnlessMounted'
  <2>1. Flow
    BY FlowIs
  <2> QED  BY <1>1, <2>1 DEF Flow, OnItsWay, SnapshotToCome, Behind, Visible, Carries, ClosedUnlessMounted
<1>4. \A m \in ToSet(wire') : m \in ToSet(wire)
  BY <1>1
<1> QED  BY <1>1, <1>2, <1>3, <1>4, RowsStay

\* The history is read page by page and merged when all of it has come.
LEMMA FetchInv ==
  ASSUME IInv, Fetch
  PROVE  IInv'
<1> USE DEF IInv
<1>1. UNCHANGED <<row, sorted_at, rewrites, listener, notices, socket, unread, lagged, wire,
                  mounted, celebrating>>
  BY DEF Fetch, FetchPage, FetchArrives, FetchFails, tableVars, taskVars
<1>2. SortTimesBounded' /\ ClosedUnlessMounted'
  BY <1>1 DEF SortTimesBounded, Stored, Settled, ClosedUnlessMounted
<1>3. fetch.rows \in RowsOf(Values) /\ Honest(fetch.rows, row)
  BY DEF TypeOK, Values, NothingAhead
<1>4. CASE FetchPage \/ FetchFails
  <2>1. UNCHANGED <<shown, observedWins>> /\ failures' \in 0..MAX_FAILURES
    BY <1>4, StreamAssumption DEF FetchPage, FetchFails, Fail, TypeOK
  <2>2. /\ fetch'.phase \in {"idle", "reading", "answered"}
        /\ fetch'.rows \in RowsOf(Values) /\ Honest(fetch'.rows, row)
    <3>1. CASE FetchPage
      <4> DEFINE D == NextPage \cup DOMAIN fetch.rows
                 rows == [p \in D |-> IF p \in NextPage THEN row[p] ELSE fetch.rows[p]]
      <4>1. NextPage \subseteq Mine /\ \A p \in NextPage : row[p] \in Values
        BY DEF NextPage, Remaining, Visible, Values
      <4>2. DOMAIN fetch.rows \subseteq Mine /\ \A p \in DOMAIN fetch.rows : fetch.rows[p] \in Values
        BY <1>3, RowsTyped
      <4>3. D \subseteq Mine /\ rows \in [D -> Values]
        BY <4>1, <4>2
      <4>4. DOMAIN rows = D /\ \A p \in D : Reached(rows[p], row[p])
        BY <1>3, <4>1 DEF Honest, Reached
      <4>5. fetch'.phase \in {"reading", "answered"} /\ fetch'.rows = rows
        BY <3>1 DEF FetchPage
      <4> HIDE DEF rows, D
      <4>6. rows \in RowsOf(Values)
        BY <4>3, RowsTyped
      <4> QED  BY <4>4, <4>5, <4>6 DEF Honest
    <3>2. CASE FetchFails
      <4>1. fetch' = NoFetch
        BY <3>2 DEF FetchFails
      <4> QED  BY <4>1, RowsTyped DEF NoFetch, Honest
    <3> QED  BY <1>4, <3>1, <3>2
  <2>3. TypeOK'
    BY <1>1, <2>1, <2>2 DEF TypeOK, Values
  <2>4. NothingAhead' /\ WinsObserved'
    BY <1>1, <2>1, <2>2 DEF NothingAhead, WinsObserved
  <2>5. EveryChangeIsOnItsWay'
    BY <1>1, <2>1 DEF EveryChangeIsOnItsWay, Behind, Visible, SnapshotToCome
  <2> QED  BY <1>2, <2>3, <2>4, <2>5
<1>5. CASE FetchArrives
  <2> DEFINE message == [type |-> "history", rows |-> fetch.rows]
  <2>1. MergeIndexed(message) /\ fetch' = NoFetch /\ UNCHANGED failures
    BY <1>5 DEF FetchArrives
  <2>2. message.rows = fetch.rows
    OBVIOUS
  <2> HIDE DEF message
  <2>3. /\ shown' \in [Mine -> Shown] /\ observedWins' \subseteq Won
        /\ \A p \in Mine : Reached(shown'[p], row[p])
        /\ WinsObserved'
        /\ \A p \in Mine :
             Visible(p) /\ (shown[p] = row[p] \/ Carries(message, p)) => shown'[p] = row[p]
    <3>1. PICK m : m = message
      OBVIOUS
    <3>2. m.rows \in RowsOf(Values) /\ Honest(m.rows, row) /\ MergeIndexed(m)
      BY <1>3, <2>1, <2>2, <3>1
    <3>3. UNCHANGED row
      BY <1>1
    <3> QED  BY <3>1, <3>2, <3>3, MergeSound
  <2>4. fetch'.phase = "idle" /\ fetch'.rows \in RowsOf(Values) /\ Honest(fetch'.rows, row)
    BY <2>1, RowsTyped DEF NoFetch, Honest
  <2>5. TypeOK'
    BY <1>1, <2>1, <2>3, <2>4 DEF TypeOK, Values
  <2>6. NothingAhead'
    BY <1>1, <2>3, <2>4 DEF NothingAhead
  <2>7. \A p \in Mine : Behind(p)' => Behind(p)
    BY <1>1, <2>3 DEF Behind, Visible
  <2>8. EveryChangeIsOnItsWay'
    BY <1>1, <2>7 DEF EveryChangeIsOnItsWay, SnapshotToCome
  <2> QED  BY <1>2, <2>3, <2>5, <2>6, <2>8
<1> QED  BY <1>4, <1>5 DEF Fetch

-----------------------------------------------------------------------------
(***************************************************************************)
(* The invariant, and the properties it gives.                             *)
(***************************************************************************)

\* Nothing is stored, listened to, sent or shown.
LEMMA InitInv == Init => IInv
<1> SUFFICES ASSUME Init PROVE IInv
  OBVIOUS
<1>1. /\ notices \in Seq(Mine \cup Others)
      /\ unread \in Seq(Channel) /\ Len(unread) <= CAPACITY
      /\ wire \in Seq(Message) /\ ToSet(wire) = {}
  BY EmptySet, StreamAssumption DEF Init
<1>2. fetch.phase = "idle" /\ fetch.rows \in RowsOf(Values) /\ Honest(fetch.rows, row)
  BY RowsTyped DEF Init, NoFetch, Honest
<1>3. Cardinality(Mine) \in Nat
  BY MineAssumption, FS_CardinalityType
<1>4. row \in [Mine -> RowStatus] /\ sorted_at \in [Mine -> 0..2 * Cardinality(Mine)]
  BY <1>3 DEF Init, RowStatus
<1>5. shown \in [Mine -> Shown]
  BY DEF Init, Shown
<1>6. rewrites \in 0..MAX_REWRITES /\ failures \in 0..MAX_FAILURES
  BY StreamAssumption DEF Init
<1>7. TypeOK
  BY <1>1, <1>2, <1>4, <1>5, <1>6 DEF Init, TypeOK, Values, Channel, Message
<1>8. SortTimesBounded
  <2>1. Stored = {} /\ Settled = {}
    BY DEF Init, Stored, Settled
  <2> QED  BY <2>1, FS_EmptySet DEF Init, SortTimesBounded
<1>9. NothingAhead
  BY <1>1, <1>2 DEF Init, NothingAhead, Reached
<1>10. WinsObserved /\ ClosedUnlessMounted /\ EveryChangeIsOnItsWay
  BY StreamAssumption DEF Init, WinsObserved, ClosedUnlessMounted, EveryChangeIsOnItsWay, Behind
<1> QED  BY <1>7, <1>8, <1>9, <1>10 DEF IInv

\* The invariant is inductive.
LEMMA NextInv ==
  ASSUME IInv, [Next]_vars
  PROVE  IInv'
<1>1. CASE UNCHANGED vars
  <2>1. UNCHANGED <<row, sorted_at, rewrites, listener, notices, socket, unread, lagged, wire,
                    mounted, shown, observedWins, celebrating, fetch, failures>>
    BY <1>1 DEF vars, tableVars, taskVars, pageVars
  <2>2. TypeOK' /\ ClosedUnlessMounted'
    BY <2>1 DEF IInv, TypeOK, ClosedUnlessMounted
  <2>3. Flow
    BY FlowIs DEF IInv
  <2>4. Flow'
    BY <2>1, <2>3 DEF Flow, OnItsWay, SnapshotToCome, Behind, Visible, Carries
  <2>5. \A m \in ToSet(wire') : m \in ToSet(wire)
    BY <2>1
  <2> QED  BY <2>1, <2>2, <2>4, <2>5, RowsStay
<1>2. CASE Table \/ \E p \in Mine \cup Others : Rewrite(p)
  BY <1>2, TableInv, RewriteInv DEF Table
<1>3. CASE Listen \/ LoseListener
  BY <1>3, SessionInv, BroadcastInv DEF Listen
<1>4. CASE Serve \/ Deliver
  BY <1>4, ServeInv, DeliverInv
<1>5. CASE Mount \/ Unmount \/ Fetch \/ \E p \in Mine : AnimationEnds(p)
  BY <1>5, MountInv, UnmountInv, FetchInv, AnimationInv
<1> QED  BY <1>1, <1>2, <1>3, <1>4, <1>5 DEF Next

\* It holds in every reachable state.
LEMMA Invariant == Spec => []IInv
BY InitInv, NextInv, PTL DEF Spec

\* The table, the listener, the channel, the socket and the page have their types; what
\* is sent to the page are rows of its user only, and the channel keeps its capacity.
THEOREM TypeCorrect == Spec => []TypeOK
BY Invariant, PTL DEF IInv

\* What a page does not show of its user's positions is on its way to it, or a snapshot
\* of all of them is to come, whatever the sizes of the channel and the buffers.
THEOREM ChangesArrive == Spec => []EveryChangeIsOnItsWay
BY Invariant, PTL DEF IInv

\* What a step does to the positions a page shows, and to what it celebrates.
LEMMA PageSteps ==
  ASSUME IInv, [Next]_vars, NEW p \in Mine
  PROVE  /\ shown[p] = "settled" /\ mounted' => shown'[p] = "settled"
         /\ p \in celebrating' \ celebrating => shown[p] # "settled"
<1> USE DEF IInv
<1>1. CASE Deliver
  <2>1. shown'[p] = IF p \in DOMAIN Head(wire).rows THEN Merge(shown[p], Head(wire).rows[p])
                                                     ELSE shown[p]
    BY <1>1 DEF Deliver, MergeIndexed
  <2>2. shown[p] = "settled" => shown'[p] = "settled"
    <3>1. wire \in Seq(Message) /\ wire # <<>>
      BY <1>1 DEF Deliver, TypeOK, Message, Values
    <3>2. Head(wire).rows \in RowsOf(Values)
      <4>1. Head(wire) \in Message
        BY <3>1, TailSet
      <4> QED  BY <4>1 DEF Message
    <3>3. p \in DOMAIN Head(wire).rows => Head(wire).rows[p] \in Values
      BY <3>2, RowsTyped
    <3> QED  BY <2>1, <3>3 DEF Merge, Values
  <2>3. p \in celebrating' \ celebrating => p \in Won /\ p \notin observedWins
    BY <1>1 DEF Deliver, CelebrateWin, WinsIn
  <2> QED  BY <2>2, <2>3 DEF WinsObserved
<1>2. CASE FetchArrives
  <2>1. shown'[p] = IF p \in DOMAIN fetch.rows THEN Merge(shown[p], fetch.rows[p]) ELSE shown[p]
    BY <1>2 DEF FetchArrives, MergeIndexed
  <2>2. p \in DOMAIN fetch.rows => fetch.rows[p] \in Values
    BY RowsTyped DEF TypeOK, Values
  <2>3. UNCHANGED celebrating
    BY <1>2 DEF FetchArrives
  <2> QED  BY <2>1, <2>2, <2>3 DEF Merge, Values
<1>3. CASE Unmount \/ \E q \in Mine : AnimationEnds(q)
  BY <1>3 DEF Unmount, AnimationEnds
<1>5. CASE ~(Deliver \/ FetchArrives \/ Unmount \/ \E q \in Mine : AnimationEnds(q))
  <2>1. CASE UNCHANGED vars
    BY <2>1 DEF vars, pageVars
  <2>2. CASE Table \/ \E q \in Mine \cup Others : Rewrite(q)
    BY <2>2 DEF Table, StoreCreated, StoreClosed, Rewrite, pageVars
  <2>3. CASE Listen \/ LoseListener
    BY <2>3 DEF Listen, ListenerConnects, ListenerResyncs, Relay, HeartbeatTimesOut, LoseListener,
                pageVars
  <2>4. CASE Serve
    BY <2>4 DEF Serve, Connect, FirstSnapshot, Receive, SocketCloses, pageVars
  <2>5. CASE Mount \/ FetchPage \/ FetchFails
    BY <2>5 DEF Mount, FetchPage, FetchFails
  <2> QED  BY <1>5, <2>1, <2>2, <2>3, <2>4, <2>5 DEF Next, Fetch
<1> QED  BY <1>1, <1>2, <1>3, <1>5

\* A settled position is not shown as open again: the history, or a message that was
\* overtaken, may be older than what the page has merged already.
THEOREM SettledStaysShown == Spec => NeverReopened
<1>1. IInv /\ [Next]_vars =>
        [\A p \in Mine : shown[p] = "settled" /\ mounted' => shown'[p] = "settled"]_vars
  BY PageSteps
<1> QED  BY <1>1, Invariant, PTL DEF Spec, NeverReopened

\* A win is celebrated once at most: what the page shows as won it has observed.
THEOREM WinsAreNews == Spec => CelebratesNews
<1>1. IInv /\ [Next]_vars =>
        [\A p \in Mine : p \in celebrating' \ celebrating => shown[p] # "settled"]_vars
  BY PageSteps
<1> QED  BY <1>1, Invariant, PTL DEF Spec, CelebratesNews
=============================================================================
