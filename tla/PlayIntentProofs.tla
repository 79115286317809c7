--------------------------- MODULE PlayIntentProofs ---------------------------
(***************************************************************************)
(* Proofs about PlayIntent for any number of pages, plays and failures.    *)
(*                                                                         *)
(* What is reported of a play stays true because a transaction that has    *)
(* failed or opened never becomes anything else, and because a new play    *)
(* never takes the number of an earlier one: the plays are numbered        *)
(* without a gap.  Nothing else than storage and the checks has to be      *)
(* followed: every record a page comes to hold was, or becomes at the same *)
(* step, the stored one.  That a page dismisses only what is decided needs *)
(* two more facts: what a snapshot shows was opened, so its nonce is below *)
(* the next one; and a check of the timer that is still active is about    *)
(* the intent the page holds, so clearing an accepted play clears no other.*)
(***************************************************************************)
EXTENDS PlayIntent, FiniteSetTheorems, TLAPS

-----------------------------------------------------------------------------
(***************************************************************************)
(* The inductive invariant.                                                *)
(***************************************************************************)

\* The plays are numbered in the order they are sent.
PlaysAreNumbered == Plays = 1..Cardinality(Plays)

\* A status that is conclusive agrees with the market.
Truthful(r, fates) ==
  /\ r.status = "failed" => fates[r.id] = "failed"
  /\ r.status = "accepted" => fates[r.id] \in {"open", "closed"}

RecordsTruthful == Truthful(storage, fate) /\ \A t \in Tabs : Truthful(held[t], fate)

\* A check in flight is about a play; only one with a signature asks for its status,
\* and only the timer, when the play has opened, is about to clear it.
CheckSound(k, check, fates) ==
  /\ check.phase # "idle" => check.intent.id # 0
  /\ check.phase = "signature" => check.intent.signature
  /\ check.phase = "clearing" => k = "timer" /\ fates[check.intent.id] \in {"open", "closed"}

ChecksSound == \A t \in Tabs : \A k \in CheckKinds : CheckSound(k, checks[t][k], fate)

\* The nonces of open positions, and all that was ever seen of them, have been used.
OpenedIsPast ==
  /\ \A i \in Intents : fate[i] = "open" => quoted[i] < next_nonce
  /\ \A t \in Tabs : \A n \in plays[t] : n < next_nonce

\* The timer's check is active only for the intent of the page, and a closed page
\* waits for nothing.
PagesConsistent ==
  \A t \in Tabs :
    /\ checks[t]["timer"].active => checks[t]["timer"].intent = held[t]
    /\ ~page[t] => /\ held[t] = NoRecord /\ sending[t] = {}
                   /\ \A k \in CheckKinds : checks[t][k] = NoCheck

IInv ==
  TypeOK /\ PlaysAreNumbered /\ RecordsTruthful /\ ChecksSound /\ OpenedIsPast
         /\ PagesConsistent

-----------------------------------------------------------------------------
(***************************************************************************)
(* Records, checks and numbers.                                            *)
(***************************************************************************)

\* The records that the flow writes when it sends.
LEMMA SendRecords ==
  ASSUME NEW i \in Intents
  PROVE  /\ [id |-> i, status |-> "submitting", signature |-> FALSE] \in Record
         /\ [id |-> i, status |-> "ambiguous", signature |-> FALSE] \in Record
         /\ Sent(i) \in Record
<1>1. i \in 0..MAX_PLAYS /\ i # 0
  BY PlayAssumption DEF Intents
<1> QED  BY <1>1 DEF Record, Status, Sent

\* What a page has when it has no intent and no check.
LEMMA NoRecordTyped == NoRecord \in Record /\ NoCheck \in Check
<1>1. NoRecord \in Record
  BY PlayAssumption DEF NoRecord, Record, Status
<1> QED  BY <1>1 DEF NoCheck, Check

\* The records that a check concludes with.
LEMMA ConclusionTyped ==
  ASSUME NEW r \in Record, r.id # 0, NEW status \in {"accepted", "ambiguous", "failed"},
         status = "failed" => r.signature
  PROVE  /\ [r EXCEPT !.status = status] \in Record
         /\ [r EXCEPT !.status = status].id = r.id
         /\ [r EXCEPT !.status = status].status = status
BY DEF Record, Status

\* The number of a record that is one.
LEMMA RecordIds ==
  ASSUME NEW r \in Record
  PROVE  /\ r.id # 0 => r.id \in Intents
         /\ r.status # "none" => r.id # 0
         /\ RequiresRecovery(r) => r.id # 0
<1>1. r.id \in 0..MAX_PLAYS /\ (r.id = 0 <=> r.status = "none")
  BY DEF Record
<1> QED  BY <1>1, PlayAssumption DEF Intents, RequiresRecovery

\* The number of the next play is that of none before it.
LEMMA NextPlayIsNew ==
  ASSUME PlaysAreNumbered, NEW i, i = Cardinality(Plays) + 1, i \in Intents
  PROVE  /\ fate[i] = "unsent"
         /\ Plays \cup {i} = 1..i
         /\ Cardinality(1..i) = i
<1>1. IsFiniteSet(Plays)
  <2>1. IsFiniteSet(Intents)
    BY PlayAssumption, FS_Interval DEF Intents
  <2> QED  BY <2>1, FS_Subset DEF Plays
<1>2. Cardinality(Plays) \in Nat
  BY <1>1, FS_CardinalityType
<1>3. i \notin Plays
  BY <1>2 DEF PlaysAreNumbered
<1>4. Plays \cup {i} = 1..i
  BY <1>2 DEF PlaysAreNumbered
<1>5. Cardinality(1..i) = i
  BY <1>2, FS_Interval
<1> QED  BY <1>3, <1>4, <1>5 DEF Plays

-----------------------------------------------------------------------------
(***************************************************************************)
(* What holds initially.                                                   *)
(***************************************************************************)

\* Nothing is sent, stored, held or checked.
LEMMA InitInv == Init => IInv
<1> SUFFICES ASSUME Init PROVE IInv
  OBVIOUS
<1>1. TypeOK
  BY NoRecordTyped, PlayAssumption DEF Init, TypeOK
<1>2. PlaysAreNumbered
  <2>1. Plays = {}
    BY DEF Init, Plays
  <2>2. Cardinality({}) = 0
    BY FS_EmptySet
  <2> QED  BY <2>1, <2>2 DEF PlaysAreNumbered
<1>3. RecordsTruthful /\ ChecksSound
  BY DEF Init, RecordsTruthful, Truthful, ChecksSound, CheckSound, NoRecord, NoCheck
<1>4. OpenedIsPast /\ PagesConsistent
  BY DEF Init, OpenedIsPast, PagesConsistent, NoCheck, CheckKinds
<1> QED  BY <1>1, <1>2, <1>3, <1>4 DEF IInv

-----------------------------------------------------------------------------
(***************************************************************************)
(* The types.                                                              *)
(***************************************************************************)

\* setIntent and setProgress of one page.
LEMMA HoldTyped ==
  ASSUME TypeOK, NEW t \in Tabs, NEW r \in Record, NEW b \in BOOLEAN, Hold(t, r, b)
  PROVE  /\ held' \in [Tabs -> Record]
         /\ busy' \in [Tabs -> BOOLEAN] /\ timed' \in [Tabs -> BOOLEAN]
BY DEF TypeOK, Hold

\* Ending what the timer of a page had in flight.
LEMMA DeactivatedTyped ==
  ASSUME NEW slots \in [CheckKinds -> Check]
  PROVE  /\ Deactivated(slots) \in [CheckKinds -> Check]
         /\ Deactivated(slots)["timer"].active = FALSE
         /\ \A k \in CheckKinds : /\ Deactivated(slots)[k].phase = slots[k].phase
                                  /\ Deactivated(slots)[k].intent = slots[k].intent
BY DEF Deactivated, CheckKinds, Check

\* What a check concludes is a record, and true of the market.
LEMMA ConcludeTyped ==
  ASSUME TypeOK, ChecksSound, NEW t \in Tabs, NEW k \in CheckKinds,
         NEW status \in {"accepted", "ambiguous", "failed"},
         checks[t][k].phase # "idle",
         status = "failed" => checks[t][k].intent.signature,
         Conclude(t, k, status)
  PROVE  /\ storage' \in Record
         /\ storage'.id = checks[t][k].intent.id /\ storage'.id # 0 /\ storage'.status = status
         /\ \/ Hold(t, storage', FALSE)
            \/ UNCHANGED <<held, busy, timed>>
         /\ held' \in [Tabs -> Record]
         /\ busy' \in [Tabs -> BOOLEAN] /\ timed' \in [Tabs -> BOOLEAN]
         /\ checks' \in [Tabs -> [CheckKinds -> Check]]
<1> DEFINE check == checks[t][k]
           record == [check.intent EXCEPT !.status = status]
           others == [checks[t] EXCEPT ![k] = NoCheck]
<1>1. check \in Check /\ check.intent \in Record /\ check.intent.id # 0
  BY DEF TypeOK, Check, ChecksSound, CheckSound
<1>2. record \in Record /\ record.id = check.intent.id /\ record.status = status
  BY <1>1, ConclusionTyped
<1>3. others \in [CheckKinds -> Check]
  BY NoRecordTyped DEF TypeOK
<1>4. storage' = record
  BY DEF Conclude
<1> HIDE DEF record, others
<1>5. Deactivated(others) \in [CheckKinds -> Check]
  BY <1>3, DeactivatedTyped
<1>6. CASE Reports(k, check)
  <2>1. Hold(t, record, FALSE) /\ checks' = [checks EXCEPT ![t] = Deactivated(others)]
    BY <1>6 DEF Conclude, record, others
  <2>2. checks' \in [Tabs -> [CheckKinds -> Check]]
    BY <2>1, <1>5 DEF TypeOK
  <2>3. Hold(t, storage', FALSE)
    BY <2>1, <1>4 DEF Hold
  <2>4. /\ held' \in [Tabs -> Record]
        /\ busy' \in [Tabs -> BOOLEAN] /\ timed' \in [Tabs -> BOOLEAN]
    BY <2>1, <1>2, HoldTyped
  <2> QED  BY <2>2, <2>3, <2>4, <1>1, <1>2, <1>4
<1>7. CASE ~Reports(k, check)
  <2>1. UNCHANGED <<held, busy, timed>> /\ checks' = [checks EXCEPT ![t] = others]
    BY <1>7 DEF Conclude, others
  <2>2. checks' \in [Tabs -> [CheckKinds -> Check]]
    BY <2>1, <1>3 DEF TypeOK
  <2> QED  BY <2>1, <2>2, <1>1, <1>2, <1>4 DEF TypeOK
<1> QED  BY <1>6, <1>7

\* The market's steps, a page's being opened or closed, and its snapshot.
LEMMA MarketTyped ==
  ASSUME TypeOK, Market
  PROVE  TypeOK'
<1> USE PlayAssumption
<1>1. CASE OtherUserOpens
  BY <1>1 DEF OtherUserOpens, snapshotVars, TypeOK
<1>2. CASE \E i \in Intents : Execute(i) \/ Settle(i)
  <2> PICK i \in Intents : Execute(i) \/ Settle(i)
    BY <1>2
  <2>1. fate' \in [Intents -> {"unsent", "sent", "open", "closed", "failed", "lost"}]
    BY DEF Execute, Settle, TypeOK
  <2>2. next_nonce' \in 0..MAX_NONCE
    BY DEF Execute, Settle, TypeOK
  <2>3. UNCHANGED <<quoted, storage, page, held, busy, timed, sending, checks, plays, quote, failures>>
    BY DEF Execute, Settle, snapshotVars
  <2> QED  BY <2>1, <2>2, <2>3 DEF TypeOK
<1> QED  BY <1>1, <1>2 DEF Market

\* What a snapshot takes from the market.
LEMMA SeenTyped ==
  ASSUME TypeOK
  PROVE  OpenNonces \in SUBSET (0..MAX_NONCE) /\ next_nonce \in 0..MAX_NONCE
BY DEF TypeOK, OpenNonces

\* A snapshot of the positions or of the market.
LEMMA SnapshotTyped ==
  ASSUME TypeOK, NEW t \in Tabs, SeePositions(t) \/ SeeMarket(t)
  PROVE  TypeOK'
BY SeenTyped DEF SeePositions, SeeMarket, marketVars, TypeOK

\* Loading a page and closing it.
LEMMA PageTyped ==
  ASSUME TypeOK, NEW t \in Tabs, OpenPage(t) \/ ClosePage(t)
  PROVE  TypeOK'
<1>1. CASE OpenPage(t)
  <2>1. PICK r \in {storage, NoRecord} : Hold(t, r, FALSE)
    BY <1>1 DEF OpenPage
  <2>2. /\ held' \in [Tabs -> Record]
        /\ busy' \in [Tabs -> BOOLEAN] /\ timed' \in [Tabs -> BOOLEAN]
    BY <2>1, HoldTyped, NoRecordTyped DEF TypeOK
  <2> QED  BY <1>1, <2>2, SeenTyped DEF OpenPage, marketVars, TypeOK
<1>2. CASE ClosePage(t)
  <2>1. /\ held' \in [Tabs -> Record]
        /\ busy' \in [Tabs -> BOOLEAN] /\ timed' \in [Tabs -> BOOLEAN]
    BY <1>2, HoldTyped, NoRecordTyped DEF ClosePage
  <2>2. checks' \in [Tabs -> [CheckKinds -> Check]]
    BY <1>2, NoRecordTyped DEF ClosePage, TypeOK
  <2>3. plays' \in [Tabs -> SUBSET (0..MAX_NONCE)] /\ quote' \in [Tabs -> 0..MAX_NONCE]
    BY <1>2, PlayAssumption DEF ClosePage, TypeOK
  <2>4. page' \in [Tabs -> BOOLEAN] /\ sending' \in [Tabs -> SUBSET Intents]
    BY <1>2 DEF ClosePage, TypeOK
  <2>5. UNCHANGED <<fate, quoted, next_nonce, storage, failures>>
    BY <1>2 DEF ClosePage, marketVars
  <2> QED  BY <2>1, <2>2, <2>3, <2>4, <2>5 DEF TypeOK
<1> QED  BY <1>1, <1>2

\* Sending a play, and what comes back of it.
LEMMA SendTyped ==
  ASSUME TypeOK, NEW t \in Tabs,
         Submit(t) \/ SubmitRefused(t) \/ SendReturns(t) \/ SendThrows(t) \/ Dismiss(t)
  PROVE  TypeOK'
<1>1. PICK r \in Record, b \in BOOLEAN :
        /\ Hold(t, r, b) /\ storage' = r
        /\ failures' \in 0..MAX_FAILURES
        /\ sending' \in [Tabs -> SUBSET Intents]
  <2>1. CASE Submit(t)
    <3> DEFINE i == Cardinality(Plays) + 1
    <3>1. i \in Intents
      BY <2>1 DEF Submit
    <3> HIDE DEF i
    <3>2. [id |-> i, status |-> "submitting", signature |-> FALSE] \in Record
      BY <3>1, SendRecords
    <3>3. /\ storage' = [id |-> i, status |-> "submitting", signature |-> FALSE]
          /\ Hold(t, storage', TRUE)
          /\ sending' = [sending EXCEPT ![t] = @ \cup {i}]
          /\ UNCHANGED failures
      BY <2>1 DEF Submit, i
    <3> QED  BY <3>1, <3>2, <3>3 DEF TypeOK, Hold
  <2>2. CASE SubmitRefused(t)
    BY <2>2 DEF SubmitRefused, TypeOK
  <2>3. CASE SendReturns(t)
    <3>1. PICK i \in sending[t] :
            /\ storage' = Sent(i) /\ Hold(t, Sent(i), TRUE)
            /\ sending' = [sending EXCEPT ![t] = @ \ {i}]
            /\ UNCHANGED failures
      BY <2>3 DEF SendReturns
    <3>2. Sent(i) \in Record
      BY SendRecords DEF TypeOK
    <3> QED  BY <3>1, <3>2 DEF TypeOK
  <2>4. CASE SendThrows(t)
    <3>1. PICK i \in sending[t] :
            /\ failures < MAX_FAILURES /\ failures' = failures + 1
            /\ storage' = [id |-> i, status |-> "ambiguous", signature |-> FALSE]
            /\ Hold(t, storage', FALSE)
            /\ sending' = [sending EXCEPT ![t] = @ \ {i}]
      BY <2>4 DEF SendThrows
    <3>2. [id |-> i, status |-> "ambiguous", signature |-> FALSE] \in Record
      BY SendRecords DEF TypeOK
    <3>3. failures' \in 0..MAX_FAILURES
      BY <3>1, PlayAssumption DEF TypeOK
    <3> QED  BY <3>1, <3>2, <3>3 DEF TypeOK, Hold
  <2>5. CASE Dismiss(t)
    BY <2>5, NoRecordTyped DEF Dismiss, TypeOK
  <2> QED  BY <2>1, <2>2, <2>3, <2>4, <2>5
<1>2. /\ held' \in [Tabs -> Record]
      /\ busy' \in [Tabs -> BOOLEAN] /\ timed' \in [Tabs -> BOOLEAN]
  BY <1>1, HoldTyped
<1>3. checks' = [checks EXCEPT ![t] = Deactivated(@)]
  BY DEF Submit, SubmitRefused, SendReturns, SendThrows, Dismiss
<1>4. checks' \in [Tabs -> [CheckKinds -> Check]]
  <2>1. Deactivated(checks[t]) \in [CheckKinds -> Check]
    BY DeactivatedTyped DEF TypeOK
  <2> QED  BY <1>3, <2>1 DEF TypeOK
<1>5. /\ fate' \in [Intents -> {"unsent", "sent", "open", "closed", "failed", "lost"}]
      /\ quoted' \in [Intents -> 0..MAX_NONCE]
  <2>1. CASE Submit(t)
    BY <2>1 DEF Submit, TypeOK
  <2>2. CASE ~Submit(t)
    BY <2>2 DEF SubmitRefused, SendReturns, SendThrows, Dismiss, marketVars, TypeOK
  <2> QED  BY <2>1, <2>2
<1>6. UNCHANGED <<next_nonce, page, plays, quote>>
  BY DEF Submit, SubmitRefused, SendReturns, SendThrows, Dismiss, marketVars, snapshotVars
<1> QED  BY <1>1, <1>2, <1>4, <1>5, <1>6 DEF TypeOK

\* Starting a check, by the timer or the button.
LEMMA StartTyped ==
  ASSUME TypeOK, NEW t \in Tabs, TimerFires(t) \/ PressCheckStatus(t)
  PROVE  TypeOK'
<1>1. PICK k \in CheckKinds : StartCheck(t, k)
  BY DEF TimerFires, PressCheckStatus, CheckKinds
<1>2. [intent |-> held[t], phase |-> "position", active |-> TRUE] \in Check
  BY DEF TypeOK, Check
<1>3. checks' \in [Tabs -> [CheckKinds -> Check]]
  BY <1>1, <1>2 DEF StartCheck, TypeOK
<1>4. busy' \in [Tabs -> BOOLEAN] /\ timed' \in [Tabs -> BOOLEAN]
  BY DEF TimerFires, PressCheckStatus, TypeOK
<1>5. UNCHANGED <<fate, quoted, next_nonce, storage, page, held, sending, plays, quote, failures>>
  BY DEF TimerFires, PressCheckStatus, marketVars, snapshotVars
<1> QED  BY <1>3, <1>4, <1>5 DEF TypeOK

\* The status that a signature tells.
LEMMA StatusKnown ==
  ASSUME NEW intent
  PROVE  StatusOf(intent) \in {"ambiguous", "failed"}
BY DEF StatusOf

\* The answer to a check.
LEMMA AnswerTyped ==
  ASSUME TypeOK, ChecksSound, NEW t \in Tabs, Answer(t)
  PROVE  TypeOK'
<1>1. /\ storage' \in Record
      /\ held' \in [Tabs -> Record]
      /\ busy' \in [Tabs -> BOOLEAN] /\ timed' \in [Tabs -> BOOLEAN]
      /\ checks' \in [Tabs -> [CheckKinds -> Check]]
  <2>1. ASSUME NEW k \in CheckKinds, ReadPosition(t, k)
        PROVE  /\ storage' \in Record
               /\ held' \in [Tabs -> Record]
               /\ busy' \in [Tabs -> BOOLEAN] /\ timed' \in [Tabs -> BOOLEAN]
               /\ checks' \in [Tabs -> [CheckKinds -> Check]]
    <3> DEFINE check == checks[t][k]
    <3>1. check.phase = "position" /\ check \in Check /\ check.intent \in Record /\ check.intent.id # 0
      BY <2>1 DEF ReadPosition, TypeOK, Check, ChecksSound, CheckSound
    <3>2. CASE Conclude(t, k, "accepted") \/ Conclude(t, k, "ambiguous")
      BY <3>1, <3>2, ConcludeTyped
    <3>3. CASE LookAtSignature(t, k)
      BY <3>1, <3>3 DEF LookAtSignature, TypeOK, Check
    <3>4. CASE k = "timer" /\ AcceptThenClear(t)
      <4>1. storage' \in Record
        BY <3>1, <3>4, ConclusionTyped DEF AcceptThenClear
      <4>2. checks' \in [Tabs -> [CheckKinds -> Check]]
        BY <3>1, <3>4 DEF AcceptThenClear, TypeOK, Check
      <4> QED  BY <3>4, <4>1, <4>2 DEF AcceptThenClear, TypeOK
    <3> QED  BY <2>1, <3>2, <3>3, <3>4 DEF ReadPosition
  <2>2. ASSUME NEW k \in CheckKinds, ReadSignature(t, k)
        PROVE  /\ storage' \in Record
               /\ held' \in [Tabs -> Record]
               /\ busy' \in [Tabs -> BOOLEAN] /\ timed' \in [Tabs -> BOOLEAN]
               /\ checks' \in [Tabs -> [CheckKinds -> Check]]
    <3>1. checks[t][k].phase = "signature" /\ checks[t][k].intent.signature
      BY <2>2 DEF ReadSignature, ChecksSound, CheckSound
    <3>2. PICK status \in {"ambiguous", "failed"} : status = StatusOf(checks[t][k].intent)
      BY StatusKnown
    <3>3. Conclude(t, k, status)
      BY <2>2, <3>2 DEF ReadSignature
    <3> QED  BY <3>1, <3>3, ConcludeTyped
  <2>3. CASE ClearAccepted(t)
    <3>1. checks' \in [Tabs -> [CheckKinds -> Check]]
      BY <2>3, NoRecordTyped DEF ClearAccepted, TypeOK, CheckKinds
    <3>2. CASE Hold(t, NoRecord, FALSE) /\ storage' = NoRecord
      BY <3>1, <3>2, HoldTyped, NoRecordTyped
    <3>3. CASE UNCHANGED <<storage, held, busy, timed>>
      BY <3>1, <3>3 DEF TypeOK
    <3> QED  BY <2>3, <3>2, <3>3 DEF ClearAccepted
  <2> QED  BY <2>1, <2>2, <2>3 DEF Answer
<1>2. UNCHANGED <<fate, quoted, next_nonce, page, sending, plays, quote, failures>>
  BY DEF Answer, ReadPosition, ReadSignature, ClearAccepted, marketVars, snapshotVars
<1> QED  BY <1>1, <1>2 DEF TypeOK

\* A check whose request fails.
LEMMA ThrowTyped ==
  ASSUME TypeOK, NEW t \in Tabs, NEW k \in CheckKinds, CheckThrows(t, k)
  PROVE  TypeOK'
<1>1. failures' \in 0..MAX_FAILURES
  BY PlayAssumption DEF CheckThrows, TypeOK
<1>2. checks' \in [Tabs -> [CheckKinds -> Check]]
  BY NoRecordTyped DEF CheckThrows, TypeOK
<1>3. busy' \in [Tabs -> BOOLEAN]
  BY DEF CheckThrows, TypeOK
<1>4. UNCHANGED <<fate, quoted, next_nonce, storage, page, held, timed, sending, plays, quote>>
  BY DEF CheckThrows, marketVars, snapshotVars
<1> QED  BY <1>1, <1>2, <1>3, <1>4 DEF TypeOK

-----------------------------------------------------------------------------
(***************************************************************************)
(* The market.                                                             *)
(***************************************************************************)

\* A transaction that has failed, or has opened its position, has no other end.
FatesKept ==
  /\ \A i \in Intents : fate[i] = "failed" => fate'[i] = "failed"
  /\ \A i \in Intents : fate[i] \in {"open", "closed"} => fate'[i] \in {"open", "closed"}

\* Only the market and the sending of a play change what the market knows.
LEMMA OthersLeaveTheMarket ==
  ASSUME Next
  PROVE  Market \/ (\E t \in Tabs : Submit(t)) \/ UNCHANGED <<fate, quoted, next_nonce>>
<1> SUFFICES ASSUME ~Market, NEW t \in Tabs, ~Submit(t),
                    \/ OpenPage(t) \/ ClosePage(t) \/ SubmitRefused(t)
                    \/ SeePositions(t) \/ SeeMarket(t)
                    \/ SendReturns(t) \/ SendThrows(t) \/ Dismiss(t)
                    \/ TimerFires(t) \/ PressCheckStatus(t) \/ Answer(t)
                    \/ \E k \in CheckKinds : CheckThrows(t, k)
             PROVE  UNCHANGED marketVars
  BY DEF Next, Visit, marketVars
<1>1. CASE OpenPage(t) \/ ClosePage(t) \/ SubmitRefused(t) \/ SeePositions(t) \/ SeeMarket(t)
  BY <1>1 DEF OpenPage, ClosePage, SubmitRefused, SeePositions, SeeMarket
<1>2. CASE SendReturns(t) \/ SendThrows(t) \/ Dismiss(t) \/ TimerFires(t) \/ PressCheckStatus(t)
  BY <1>2 DEF SendReturns, SendThrows, Dismiss, TimerFires, PressCheckStatus
<1>3. CASE Answer(t)
  BY <1>3 DEF Answer, ReadPosition, ReadSignature, ClearAccepted
<1>4. CASE \E k \in CheckKinds : CheckThrows(t, k)
  BY <1>4 DEF CheckThrows
<1> QED  BY <1>1, <1>2, <1>3, <1>4

\* A play takes a number of its own, and a position opens at the next nonce.
LEMMA MarketSteps ==
  ASSUME TypeOK, PlaysAreNumbered, OpenedIsPast, Next
  PROVE  /\ PlaysAreNumbered' /\ FatesKept
         /\ next_nonce' >= next_nonce
         /\ \A i \in Intents : fate'[i] = "open" => quoted'[i] < next_nonce'
<1>0. next_nonce \in Int /\ quoted \in [Intents -> Int]
  BY DEF TypeOK
<1>1. CASE OtherUserOpens
  <2>1. UNCHANGED <<fate, quoted>> /\ next_nonce' = next_nonce + 1
    BY <1>1 DEF OtherUserOpens
  <2> QED  BY <1>0, <2>1 DEF PlaysAreNumbered, Plays, FatesKept, OpenedIsPast
<1>2. ASSUME NEW i \in Intents, Execute(i)
      PROVE  /\ PlaysAreNumbered' /\ FatesKept
             /\ next_nonce' >= next_nonce
             /\ \A j \in Intents : fate'[j] = "open" => quoted'[j] < next_nonce'
  <2>1. PICK end \in {"open", "failed", "lost"} :
          /\ fate[i] = "sent" /\ fate' = [fate EXCEPT ![i] = end] /\ UNCHANGED quoted
          /\ \/ end = "open" /\ quoted[i] = next_nonce /\ next_nonce' = next_nonce + 1
             \/ end # "open" /\ next_nonce' = next_nonce
    BY <1>2 DEF Execute
  <2>2. Plays' = Plays
    BY <2>1 DEF Plays, TypeOK
  <2>3. FatesKept
    BY <2>1 DEF FatesKept, TypeOK
  <2>4. \A j \in Intents : fate'[j] = "open" => quoted'[j] < next_nonce'
    BY <1>0, <2>1 DEF OpenedIsPast, TypeOK
  <2> QED  BY <1>0, <2>1, <2>2, <2>3, <2>4 DEF PlaysAreNumbered
<1>3. ASSUME NEW i \in Intents, Settle(i)
      PROVE  /\ PlaysAreNumbered' /\ FatesKept
             /\ next_nonce' >= next_nonce
             /\ \A j \in Intents : fate'[j] = "open" => quoted'[j] < next_nonce'
  <2>1. fate[i] = "open" /\ fate' = [fate EXCEPT ![i] = "closed"] /\ UNCHANGED <<quoted, next_nonce>>
    BY <1>3 DEF Settle
  <2>2. Plays' = Plays
    BY <2>1 DEF Plays, TypeOK
  <2> QED  BY <1>0, <2>1, <2>2 DEF PlaysAreNumbered, FatesKept, OpenedIsPast, TypeOK
<1>4. ASSUME NEW t \in Tabs, Submit(t)
      PROVE  /\ PlaysAreNumbered' /\ FatesKept
             /\ next_nonce' >= next_nonce
             /\ \A j \in Intents : fate'[j] = "open" => quoted'[j] < next_nonce'
  <2> DEFINE i == Cardinality(Plays) + 1
  <2>1. /\ i \in Intents
        /\ fate' = [fate EXCEPT ![i] = "sent"] /\ quoted' = [quoted EXCEPT ![i] = quote[t]]
        /\ UNCHANGED next_nonce
    BY <1>4 DEF Submit
  <2>2. fate[i] = "unsent" /\ Plays \cup {i} = 1..i /\ Cardinality(1..i) = i
    BY <2>1, NextPlayIsNew
  <2> HIDE DEF i
  <2>3. Plays' = Plays \cup {i}
    BY <2>1 DEF Plays, TypeOK
  <2>4. PlaysAreNumbered'
    BY <2>2, <2>3 DEF PlaysAreNumbered
  <2> QED  BY <1>0, <2>1, <2>2, <2>4 DEF FatesKept, OpenedIsPast, TypeOK
<1>5. CASE UNCHANGED <<fate, quoted, next_nonce>>
  BY <1>0, <1>5 DEF PlaysAreNumbered, Plays, FatesKept, OpenedIsPast
<1> QED  BY <1>1, <1>2, <1>3, <1>4, <1>5, OthersLeaveTheMarket DEF Market

\* What was true of a play stays true of it.
LEMMA TruthKept ==
  ASSUME FatesKept, NEW r \in Record, Truthful(r, fate)
  PROVE  Truthful(r, fate')
<1>1. r.status # "none" => r.id \in Intents
  BY RecordIds
<1> QED  BY <1>1 DEF Truthful, FatesKept

\* A status that is not conclusive says nothing of the market.
LEMMA NoRecordTruthful ==
  ASSUME NEW fates, NEW r, r.status \notin {"failed", "accepted"}
  PROVE  Truthful(r, fates)
BY DEF Truthful

\* What a check in flight relies on stays true while it is.
LEMMA CheckKept ==
  ASSUME FatesKept, NEW k, NEW check \in Check, CheckSound(k, check, fate)
  PROVE  CheckSound(k, check, fate')
<1>1. check.intent.id # 0 => check.intent.id \in Intents
  BY RecordIds DEF Check
<1> QED  BY <1>1 DEF CheckSound, FatesKept

-----------------------------------------------------------------------------
(***************************************************************************)
(* The pages.                                                              *)
(***************************************************************************)

\* What a step may do to the records and the checks, told of the market before it.
Reported ==
  /\ Truthful(storage', fate)
  /\ \A t \in Tabs : held'[t] \in {held[t], storage, storage', NoRecord}
  /\ \A t \in Tabs : \A k \in CheckKinds : CheckSound(k, checks'[t][k], fate)
  /\ PagesConsistent'

\* Steps that touch neither.
LEMMA QuietSteps ==
  ASSUME IInv, UNCHANGED <<storage, held, checks, page, sending>>
  PROVE  Reported
BY DEF IInv, Reported, RecordsTruthful, ChecksSound, PagesConsistent

\* One check of an open page changes, and the page holds what it held.
LEMMA OneCheckChanged ==
  ASSUME IInv, NEW t \in Tabs, NEW k \in CheckKinds, NEW new, page[t],
         UNCHANGED <<held, page, sending>>,
         \A u \in Tabs : \A j \in CheckKinds :
           checks'[u][j] = IF u = t /\ j = k THEN new ELSE checks[u][j],
         CheckSound(k, new, fate), k = "timer" /\ new.active => new.intent = held[t]
  PROVE  /\ \A u \in Tabs : \A j \in CheckKinds : CheckSound(j, checks'[u][j], fate)
         /\ PagesConsistent'
<1> USE DEF IInv
<1>1. ASSUME NEW u \in Tabs, NEW j \in CheckKinds
      PROVE  CheckSound(j, checks'[u][j], fate)
  <2>1. CASE u = t /\ j = k
    BY <2>1
  <2>2. CASE ~(u = t /\ j = k)
    <3>1. checks'[u][j] = checks[u][j]
      BY <2>2
    <3> QED  BY <3>1 DEF ChecksSound
  <2> QED  BY <2>1, <2>2
<1>2. ASSUME NEW u \in Tabs
      PROVE  /\ checks'[u]["timer"].active => checks'[u]["timer"].intent = held[u]
             /\ ~page[u] => \A j \in CheckKinds : checks'[u][j] = NoCheck
  <2>1. "timer" \in CheckKinds
    BY DEF CheckKinds
  <2>2. CASE u = t
    <3>1. CASE k = "timer"
      BY <2>1, <2>2, <3>1
    <3>2. CASE k # "timer"
      <4>1. checks'[u]["timer"] = checks[u]["timer"]
        BY <2>1, <3>2
      <4> QED  BY <2>2, <4>1 DEF PagesConsistent
    <3> QED  BY <3>1, <3>2
  <2>3. CASE u # t
    <3>1. \A j \in CheckKinds : checks'[u][j] = checks[u][j]
      BY <2>3
    <3> QED  BY <2>1, <3>1 DEF PagesConsistent
  <2> QED  BY <2>2, <2>3
<1> QED  BY <1>1, <1>2 DEF PagesConsistent

\* A page that is opened takes the stored record, and forgets all when it is closed.
LEMMA PageReported ==
  ASSUME IInv, NEW t \in Tabs, OpenPage(t) \/ ClosePage(t)
  PROVE  Reported
<1> USE DEF IInv
<1>1. Truthful(storage', fate) /\ UNCHANGED storage
  BY DEF OpenPage, ClosePage, RecordsTruthful
<1>2. PICK r \in {storage, NoRecord} : held' = [held EXCEPT ![t] = r]
  BY DEF OpenPage, ClosePage, Hold
<1>3. \A u \in Tabs : held'[u] \in {held[u], storage, storage', NoRecord}
  BY <1>2 DEF TypeOK
<1>4. \A u \in Tabs : \A k \in CheckKinds :
        checks'[u][k] = checks[u][k] \/ checks'[u][k] = NoCheck
  <2>1. CASE OpenPage(t)
    BY <2>1 DEF OpenPage
  <2>2. CASE ClosePage(t)
    BY <2>2 DEF ClosePage, TypeOK
  <2> QED  BY <2>1, <2>2
<1>5. \A u \in Tabs : \A k \in CheckKinds : CheckSound(k, checks'[u][k], fate)
  BY <1>4 DEF ChecksSound, CheckSound, NoCheck
<1>6. PagesConsistent'
  <2>1. CASE OpenPage(t)
    <3>1. /\ ~page[t] /\ page' = [page EXCEPT ![t] = TRUE] /\ UNCHANGED <<checks, sending>>
      BY <2>1 DEF OpenPage
    <3>2. ~checks[t]["timer"].active
      BY <3>1 DEF PagesConsistent, NoCheck, CheckKinds
    <3> QED  BY <1>2, <3>1, <3>2 DEF PagesConsistent, TypeOK
  <2>2. CASE ClosePage(t)
    <3>1. /\ page' = [page EXCEPT ![t] = FALSE]
          /\ checks' = [checks EXCEPT ![t] = [k \in CheckKinds |-> NoCheck]]
          /\ held' = [held EXCEPT ![t] = NoRecord] /\ sending' = [sending EXCEPT ![t] = {}]
      BY <2>2 DEF ClosePage, Hold
    <3>2. checks'[t]["timer"] = NoCheck /\ ~NoCheck.active
      BY <3>1 DEF TypeOK, CheckKinds, NoCheck
    <3> QED  BY <3>1, <3>2 DEF PagesConsistent, TypeOK
  <2> QED  BY <2>1, <2>2
<1> QED  BY <1>1, <1>3, <1>5, <1>6 DEF Reported

\* Only an open page has plays to send or to dismiss.
LEMMA SendReported ==
  ASSUME IInv, NEW t \in Tabs,
         Submit(t) \/ SubmitRefused(t) \/ SendReturns(t) \/ SendThrows(t) \/ Dismiss(t)
  PROVE  Reported
<1> USE DEF IInv
<1>1. Truthful(storage', fate)
  <2>1. CASE SubmitRefused(t)
    BY <2>1 DEF SubmitRefused, RecordsTruthful
  <2>2. CASE ~SubmitRefused(t)
    <3>1. storage'.status \notin {"failed", "accepted"}
      <4>1. CASE Submit(t)
        BY <4>1 DEF Submit
      <4>2. CASE SendReturns(t) \/ SendThrows(t)
        <5>1. CASE SendReturns(t)
          BY <5>1 DEF SendReturns, Sent
        <5>2. CASE SendThrows(t)
          BY <5>2 DEF SendThrows
        <5> QED  BY <4>2, <5>1, <5>2
      <4>3. CASE Dismiss(t)
        BY <4>3 DEF Dismiss, NoRecord
      <4> QED  BY <2>2, <4>1, <4>2, <4>3
    <3> QED  BY <3>1, NoRecordTruthful
  <2> QED  BY <2>1, <2>2
<1>2. held' = [held EXCEPT ![t] = storage']
  BY DEF Submit, SubmitRefused, SendReturns, SendThrows, Dismiss, Hold
<1>3. \A u \in Tabs : held'[u] \in {held[u], storage, storage', NoRecord}
  BY <1>2 DEF TypeOK
<1>4. checks' = [checks EXCEPT ![t] = Deactivated(@)]
  BY DEF Submit, SubmitRefused, SendReturns, SendThrows, Dismiss
<1>5. /\ Deactivated(checks[t])["timer"].active = FALSE
      /\ \A k \in CheckKinds : /\ Deactivated(checks[t])[k].phase = checks[t][k].phase
                               /\ Deactivated(checks[t])[k].intent = checks[t][k].intent
  BY DeactivatedTyped DEF TypeOK
<1>6. \A u \in Tabs : \A k \in CheckKinds : CheckSound(k, checks'[u][k], fate)
  BY <1>4, <1>5 DEF ChecksSound, CheckSound, TypeOK
<1>7. UNCHANGED page
  BY DEF Submit, SubmitRefused, SendReturns, SendThrows, Dismiss
<1>8. page[t] /\ \A u \in Tabs \ {t} : sending'[u] = sending[u]
  <2>1. CASE Submit(t)
    BY <2>1 DEF Submit, MayPress, TypeOK
  <2>2. CASE SubmitRefused(t) \/ Dismiss(t)
    BY <2>2 DEF SubmitRefused, Dismiss, MayPress
  <2>3. CASE SendReturns(t) \/ SendThrows(t)
    <3>1. sending[t] # {} /\ \E S : sending' = [sending EXCEPT ![t] = S]
      BY <2>3 DEF SendReturns, SendThrows
    <3> QED  BY <3>1 DEF PagesConsistent, TypeOK
  <2> QED  BY <2>1, <2>2, <2>3
<1>9. PagesConsistent'
  BY <1>2, <1>4, <1>5, <1>7, <1>8 DEF PagesConsistent, TypeOK
<1> QED  BY <1>1, <1>3, <1>6, <1>9 DEF Reported

\* A check starts for the intent of the page.
LEMMA StartReported ==
  ASSUME IInv, NEW t \in Tabs, TimerFires(t) \/ PressCheckStatus(t)
  PROVE  Reported
<1> USE DEF IInv
<1>1. UNCHANGED <<storage, held, page, sending>> /\ page[t]
  BY DEF TimerFires, PressCheckStatus
<1>2. PICK k \in CheckKinds : StartCheck(t, k)
  BY DEF TimerFires, PressCheckStatus, CheckKinds
<1>3. held[t].id # 0
  <2>1. RequiresRecovery(held[t])
    BY DEF TimerFires, PressCheckStatus, RequiresRecovery
  <2> QED  BY <2>1, RecordIds DEF TypeOK
<1>4. \A u \in Tabs : \A j \in CheckKinds :
        checks'[u][j] = IF u = t /\ j = k
                        THEN [intent |-> held[t], phase |-> "position", active |-> TRUE]
                        ELSE checks[u][j]
  BY <1>2 DEF StartCheck, TypeOK
<1> DEFINE new == [intent |-> held[t], phase |-> "position", active |-> TRUE]
<1>5. CheckSound(k, new, fate) /\ new.intent = held[t]
  BY <1>3 DEF CheckSound
<1> HIDE DEF new
<1>6. /\ \A u \in Tabs : \A j \in CheckKinds : CheckSound(j, checks'[u][j], fate)
      /\ PagesConsistent'
  BY <1>1, <1>4, <1>5, OneCheckChanged DEF new
<1> QED  BY <1>1, <1>6 DEF Reported, RecordsTruthful

\* A check that concludes writes what it has read.
LEMMA ConcludeReported ==
  ASSUME IInv, NEW t \in Tabs, NEW k \in CheckKinds,
         NEW status \in {"accepted", "ambiguous", "failed"},
         checks[t][k].phase # "idle",
         status = "failed" => checks[t][k].intent.signature,
         status = "failed" => fate[checks[t][k].intent.id] = "failed",
         status = "accepted" => fate[checks[t][k].intent.id] \in {"open", "closed"},
         Conclude(t, k, status), UNCHANGED <<page, sending>>
  PROVE  Reported
<1> USE DEF IInv
<1>1. /\ storage'.id = checks[t][k].intent.id /\ storage'.status = status
      /\ \/ Hold(t, storage', FALSE)
         \/ UNCHANGED <<held, busy, timed>>
  BY ConcludeTyped
<1>2. Truthful(storage', fate)
  BY <1>1 DEF Truthful
<1>3. \A u \in Tabs : held'[u] = held[u] \/ (u = t /\ held'[u] = storage')
  BY <1>1 DEF Hold, TypeOK
<1> DEFINE others == [checks[t] EXCEPT ![k] = NoCheck]
<1>4. others \in [CheckKinds -> Check]
  BY NoRecordTyped DEF TypeOK
<1>5. \/ checks' = [checks EXCEPT ![t] = others] /\ UNCHANGED held
      \/ checks' = [checks EXCEPT ![t] = Deactivated(others)]
  BY DEF Conclude
<1>6. \A j \in CheckKinds : others[j] = checks[t][j] \/ others[j] = NoCheck
  BY DEF TypeOK
<1> HIDE DEF others
<1>7. /\ Deactivated(others)["timer"].active = FALSE
      /\ \A j \in CheckKinds : /\ Deactivated(others)[j].phase = others[j].phase
                               /\ Deactivated(others)[j].intent = others[j].intent
  BY <1>4, DeactivatedTyped
<1>8. \A u \in Tabs : \A j \in CheckKinds : CheckSound(j, checks'[u][j], fate)
  <2>1. \A j \in CheckKinds : CheckSound(j, others[j], fate) /\ CheckSound(j, Deactivated(others)[j], fate)
    BY <1>6, <1>7 DEF ChecksSound, CheckSound, NoCheck
  <2> QED  BY <1>5, <2>1 DEF ChecksSound, TypeOK
<1>9. page[t]
  BY DEF PagesConsistent, NoCheck
<1>10. PagesConsistent'
  <2> SUFFICES ASSUME NEW u \in Tabs
               PROVE  /\ checks'[u]["timer"].active => checks'[u]["timer"].intent = held'[u]
                      /\ ~page[u] => /\ held'[u] = NoRecord /\ sending[u] = {}
                                     /\ \A j \in CheckKinds : checks'[u][j] = NoCheck
    BY DEF PagesConsistent
  <2>1. CASE u # t
    BY <1>3, <1>5, <2>1 DEF PagesConsistent, TypeOK
  <2>2. CASE u = t
    <3>1. \/ checks'[t] = others /\ held'[t] = held[t]
          \/ checks'[t] = Deactivated(others)
      BY <1>5 DEF TypeOK
    <3>2. others["timer"].active => others["timer"].intent = held[t]
      BY <1>6 DEF PagesConsistent, CheckKinds, NoCheck
    <3> QED  BY <1>7, <1>9, <2>2, <3>1, <3>2
  <2> QED  BY <2>1, <2>2
<1> QED  BY <1>2, <1>3, <1>8, <1>10 DEF Reported

\* An answer is that of the market: the position is open, or the signature has an error.
LEMMA AnswerReported ==
  ASSUME IInv, NEW t \in Tabs, Answer(t)
  PROVE  Reported
<1> USE DEF IInv
<1>0. UNCHANGED <<page, sending>>
  BY DEF Answer, ReadPosition, ReadSignature, ClearAccepted
<1>1. ASSUME NEW k \in CheckKinds, ReadPosition(t, k)
      PROVE  Reported
  <2> DEFINE check == checks[t][k]
  <2>1. /\ check.phase = "position" /\ check \in Check /\ check.intent \in Record
        /\ check.intent.id # 0
    BY <1>1 DEF ReadPosition, TypeOK, Check, ChecksSound, CheckSound
  <2>6. page[t]
    BY <2>1 DEF PagesConsistent, NoCheck
  <2>2. CASE Matches(check.intent) /\ Conclude(t, k, "accepted")
    BY <1>0, <2>1, <2>2, ConcludeReported DEF Matches
  <2>3. CASE Conclude(t, k, "ambiguous")
    BY <1>0, <2>1, <2>3, ConcludeReported
  <2>4. CASE check.intent.signature /\ LookAtSignature(t, k)
    <3> DEFINE new == [check EXCEPT !.phase = "signature"]
    <3>1. UNCHANGED <<storage, held>>
      BY <2>4 DEF LookAtSignature
    <3>2. \A u \in Tabs : \A j \in CheckKinds :
            checks'[u][j] = IF u = t /\ j = k THEN new ELSE checks[u][j]
      BY <2>4 DEF LookAtSignature, TypeOK
    <3>3. /\ new.phase = "signature"
          /\ new.intent = check.intent
          /\ new.active = check.active
      BY <2>1 DEF Check
    <3>4. CheckSound(k, new, fate)
      BY <2>1, <2>4, <3>3 DEF CheckSound
    <3>5. k = "timer" /\ check.active => check.intent = held[t]
      BY DEF PagesConsistent
    <3> HIDE DEF new
    <3>6. /\ \A u \in Tabs : \A j \in CheckKinds : CheckSound(j, checks'[u][j], fate)
          /\ PagesConsistent'
      BY <1>0, <2>6, <3>1, <3>2, <3>3, <3>4, <3>5, OneCheckChanged
    <3> QED  BY <3>1, <3>6 DEF Reported, RecordsTruthful
  <2>5. CASE Matches(check.intent) /\ k = "timer" /\ AcceptThenClear(t)
    <3> DEFINE new == [check EXCEPT !.phase = "clearing"]
    <3>1. /\ storage' = [check.intent EXCEPT !.status = "accepted"]
          /\ UNCHANGED held
      BY <2>5 DEF AcceptThenClear
    <3>2. storage'.id = check.intent.id /\ storage'.status = "accepted"
      BY <2>1, <3>1, ConclusionTyped
    <3>3. Truthful(storage', fate)
      BY <2>5, <3>2 DEF Truthful, Matches
    <3>4. \A u \in Tabs : \A j \in CheckKinds :
            checks'[u][j] = IF u = t /\ j = k THEN new ELSE checks[u][j]
      BY <2>5 DEF AcceptThenClear, TypeOK
    <3>5. /\ new.phase = "clearing"
          /\ new.intent = check.intent
          /\ new.active = check.active
      BY <2>1 DEF Check
    <3>6. CheckSound(k, new, fate)
      BY <2>1, <2>5, <3>5 DEF CheckSound, Matches
    <3>7. k = "timer" /\ check.active => check.intent = held[t]
      BY DEF PagesConsistent
    <3> HIDE DEF new
    <3>8. /\ \A u \in Tabs : \A j \in CheckKinds : CheckSound(j, checks'[u][j], fate)
          /\ PagesConsistent'
      BY <1>0, <2>5, <2>6, <3>1, <3>4, <3>5, <3>6, <3>7, OneCheckChanged
    <3> QED  BY <3>1, <3>3, <3>8 DEF Reported
  <2> QED  BY <1>1, <2>2, <2>3, <2>4, <2>5 DEF ReadPosition
<1>2. ASSUME NEW k \in CheckKinds, ReadSignature(t, k)
      PROVE  Reported
  <2>1. checks[t][k].phase = "signature" /\ checks[t][k].intent.signature
    BY <1>2 DEF ReadSignature, ChecksSound, CheckSound
  <2>2. PICK status \in {"ambiguous", "failed"} : status = StatusOf(checks[t][k].intent)
    BY StatusKnown
  <2>3. status = "failed" => fate[checks[t][k].intent.id] = "failed"
    BY <2>2 DEF StatusOf
  <2>4. Conclude(t, k, status)
    BY <1>2, <2>2 DEF ReadSignature
  <2> QED  BY <1>0, <2>1, <2>3, <2>4, ConcludeReported
<1>3. CASE ClearAccepted(t)
  <2>1. \A u \in Tabs : \A j \in CheckKinds :
          checks'[u][j] = IF u = t /\ j = "timer" THEN NoCheck ELSE checks[u][j]
    BY <1>3 DEF ClearAccepted, TypeOK
  <2>2. \A u \in Tabs : \A j \in CheckKinds : CheckSound(j, checks'[u][j], fate)
    BY <2>1 DEF ChecksSound, CheckSound, NoCheck
  <2>3. page[t]
    BY <1>3 DEF ClearAccepted, PagesConsistent, NoCheck, CheckKinds
  <2>4. \/ storage' = NoRecord /\ held' = [held EXCEPT ![t] = NoRecord]
        \/ UNCHANGED <<storage, held>>
    BY <1>3 DEF ClearAccepted, Hold
  <2>5. PagesConsistent'
    <3>1. "timer" \in CheckKinds /\ ~NoCheck.active
      BY DEF CheckKinds, NoCheck
    <3>2. ~checks'[t]["timer"].active
      BY <2>1, <3>1
    <3>3. \A u \in Tabs \ {t} : held'[u] = held[u] /\ \A j \in CheckKinds : checks'[u][j] = checks[u][j]
      BY <2>1, <2>4 DEF TypeOK
    <3> QED  BY <1>0, <2>3, <3>1, <3>2, <3>3 DEF PagesConsistent
  <2>6. Truthful(storage', fate)
    BY <2>4 DEF Truthful, NoRecord, RecordsTruthful
  <2>7. \A u \in Tabs : held'[u] \in {held[u], storage, storage', NoRecord}
    BY <2>4 DEF TypeOK
  <2> QED  BY <2>2, <2>5, <2>6, <2>7 DEF Reported
<1> QED  BY <1>1, <1>2, <1>3 DEF Answer

\* A check that throws reports nothing.
LEMMA ThrowReported ==
  ASSUME IInv, NEW t \in Tabs, NEW k \in CheckKinds, CheckThrows(t, k)
  PROVE  Reported
<1> USE DEF IInv
<1>1. UNCHANGED <<storage, held, page, sending>>
  BY DEF CheckThrows
<1>2. \A u \in Tabs : \A j \in CheckKinds :
        checks'[u][j] = IF u = t /\ j = k THEN NoCheck ELSE checks[u][j]
  BY DEF CheckThrows, TypeOK
<1>3. page[t]
  BY DEF CheckThrows, PagesConsistent, NoCheck
<1>4. CheckSound(k, NoCheck, fate) /\ ~NoCheck.active
  BY DEF CheckSound, NoCheck
<1>5. /\ \A u \in Tabs : \A j \in CheckKinds : CheckSound(j, checks'[u][j], fate)
      /\ PagesConsistent'
  BY <1>1, <1>2, <1>3, <1>4, OneCheckChanged
<1> QED  BY <1>1, <1>5 DEF Reported, RecordsTruthful

-----------------------------------------------------------------------------
(***************************************************************************)
(* The invariant, and the properties it gives.                             *)
(***************************************************************************)

\* Every step keeps the types.
LEMMA NextTyped ==
  ASSUME IInv, Next
  PROVE  TypeOK'
BY MarketTyped, SnapshotTyped, PageTyped, SendTyped, StartTyped, AnswerTyped, ThrowTyped
   DEF IInv, Next, Visit

\* Every step does to the records and the checks what Reported allows.
LEMMA NextReported ==
  ASSUME IInv, Next
  PROVE  Reported
<1>1. CASE Market
  BY <1>1, QuietSteps DEF Market, OtherUserOpens, Execute, Settle
<1>2. ASSUME NEW t \in Tabs, SeePositions(t) \/ SeeMarket(t)
      PROVE  Reported
  BY <1>2, QuietSteps DEF SeePositions, SeeMarket
<1> QED  BY <1>1, <1>2, PageReported, SendReported, StartReported, AnswerReported, ThrowReported
         DEF Next, Visit

\* A snapshot shows positions that have opened.
LEMMA NextSees ==
  ASSUME IInv, Next
  PROVE  \A t \in Tabs : plays'[t] \subseteq plays[t] \cup OpenNonces
<1> USE DEF IInv
<1> SUFFICES ASSUME ~UNCHANGED plays
             PROVE  \A t \in Tabs : plays'[t] \subseteq plays[t] \cup OpenNonces
  OBVIOUS
<1>1. ~Market
  BY DEF Market, OtherUserOpens, Execute, Settle, snapshotVars
<1>2. PICK t \in Tabs : OpenPage(t) \/ ClosePage(t) \/ SeePositions(t)
  <2>1. ASSUME NEW t \in Tabs, Submit(t) \/ SubmitRefused(t) \/ SeeMarket(t) \/ SendReturns(t)
                              \/ SendThrows(t) \/ Dismiss(t)
        PROVE  UNCHANGED plays
    BY <2>1 DEF Submit, SubmitRefused, SeeMarket, SendReturns, SendThrows, Dismiss, snapshotVars
  <2>2. ASSUME NEW t \in Tabs, TimerFires(t) \/ PressCheckStatus(t) \/ Answer(t)
        PROVE  UNCHANGED plays
    BY <2>2 DEF TimerFires, PressCheckStatus, Answer, ReadPosition, ReadSignature, ClearAccepted,
                snapshotVars
  <2>3. ASSUME NEW t \in Tabs, NEW k \in CheckKinds, CheckThrows(t, k)
        PROVE  UNCHANGED plays
    BY <2>3 DEF CheckThrows, snapshotVars
  <2> QED  BY <1>1, <2>1, <2>2, <2>3 DEF Next, Visit
<1> QED  BY <1>2 DEF OpenPage, ClosePage, SeePositions, TypeOK

\* The invariant is inductive.
LEMMA NextInv ==
  ASSUME IInv, [Next]_vars
  PROVE  IInv'
<1>1. CASE UNCHANGED vars
  BY <1>1 DEF vars, marketVars, snapshotVars, IInv, TypeOK, PlaysAreNumbered, Plays,
              RecordsTruthful, ChecksSound, OpenedIsPast, PagesConsistent
<1>2. CASE Next
  <2>1. TypeOK'
    BY <1>2, NextTyped
  <2>2. /\ PlaysAreNumbered' /\ FatesKept
        /\ next_nonce' >= next_nonce
        /\ \A i \in Intents : fate'[i] = "open" => quoted'[i] < next_nonce'
    BY <1>2, MarketSteps DEF IInv
  <2>3. Reported
    BY <1>2, NextReported
  <2>4. RecordsTruthful'
    <3>1. Truthful(storage', fate')
      BY <2>1, <2>2, <2>3, TruthKept DEF Reported, TypeOK
    <3>2. Truthful(storage, fate')
      BY <2>2, TruthKept DEF IInv, TypeOK, RecordsTruthful
    <3>3. ASSUME NEW t \in Tabs
          PROVE  Truthful(held'[t], fate')
      <4>1. Truthful(held[t], fate')
        BY <2>2, TruthKept DEF IInv, TypeOK, RecordsTruthful
      <4>2. Truthful(NoRecord, fate')
        BY DEF Truthful, NoRecord
      <4> QED  BY <2>3, <3>1, <3>2, <4>1, <4>2 DEF Reported
    <3> QED  BY <3>1, <3>3 DEF RecordsTruthful
  <2>5. ChecksSound'
    <3> SUFFICES ASSUME NEW t \in Tabs, NEW k \in CheckKinds
                 PROVE  CheckSound(k, checks'[t][k], fate')
      BY DEF ChecksSound
    <3>1. checks'[t][k] \in Check
      BY <2>1 DEF TypeOK
    <3> QED  BY <2>2, <2>3, <3>1, CheckKept DEF Reported
  <2>6. OpenedIsPast'
    <3>1. \A t \in Tabs : \A n \in plays[t] \cup OpenNonces : n \in Int /\ n < next_nonce
      BY DEF IInv, OpenedIsPast, OpenNonces, TypeOK
    <3>2. next_nonce \in Int /\ next_nonce' \in Int
      BY <2>1 DEF IInv, TypeOK
    <3>3. \A t \in Tabs : plays'[t] \subseteq plays[t] \cup OpenNonces
      BY <1>2, NextSees
    <3>4. \A t \in Tabs : \A n \in plays'[t] : n < next_nonce'
      BY <2>2, <3>1, <3>2, <3>3
    <3> QED  BY <2>2, <3>4 DEF OpenedIsPast
  <2>7. PagesConsistent'
    BY <2>3 DEF Reported
  <2> QED  BY <2>1, <2>2, <2>4, <2>5, <2>6, <2>7 DEF IInv
<1> QED  BY <1>1, <1>2

\* It holds in every reachable state.
LEMMA Invariant == Spec => []IInv
BY InitInv, NextInv, PTL DEF Spec

\* The state of the market, of the storage and of every page has its type, however
\* many pages share the storage.
THEOREM TypeCorrect == Spec => []TypeOK
BY Invariant, PTL DEF IInv

\* What is known of a play with a conclusive status is what the invariant says of its
\* record.
LEMMA KnownTruthful ==
  ASSUME IInv, NEW status, NEW r \in KnownAs(status)
  PROVE  Truthful(r, fate) /\ r.status = status
BY DEF IInv, RecordsTruthful, KnownAs

\* A play reported as failed has failed for good: no check that answers late and no
\* other page turns the report into a false one, and the number of a failed play is
\* never taken again.
THEOREM FailedIsFinal == Spec => []FailedNeverLands
<1>1. IInv => FailedNeverLands
  BY KnownTruthful DEF FailedNeverLands, Truthful
<1> QED  BY <1>1, Invariant, PTL

\* A play reported as accepted has opened its position.
THEOREM AcceptedIsOpened == Spec => []AcceptedHasLanded
<1>1. IInv => AcceptedHasLanded
  BY KnownTruthful DEF AcceptedHasLanded, Truthful
<1> QED  BY <1>1, Invariant, PTL

\* An open page lets go of a play in two steps only.
LEMMA LettingGo ==
  ASSUME IInv, Next, NEW t \in Tabs, held[t].id # 0, held'[t] = NoRecord, page'[t]
  PROVE  Dismiss(t) \/ (ClearAccepted(t) /\ checks[t]["timer"].active)
<1> USE DEF IInv
<1>0. held'[t] # held[t] /\ NoRecord.id = 0
  BY DEF NoRecord
<1>1. ~Market
  BY <1>0 DEF Market, OtherUserOpens, Execute, Settle
<1>2. PICK u \in Tabs :
        \/ Visit(u) \/ SeePositions(u) \/ SeeMarket(u)
        \/ SendReturns(u) \/ SendThrows(u) \/ Dismiss(u)
        \/ TimerFires(u) \/ PressCheckStatus(u) \/ Answer(u)
        \/ \E k \in CheckKinds : CheckThrows(u, k)
  BY <1>1 DEF Next
<1>3. ~(SeePositions(u) \/ SeeMarket(u) \/ TimerFires(u) \/ PressCheckStatus(u))
  BY <1>0 DEF SeePositions, SeeMarket, TimerFires, PressCheckStatus
<1>4. \A k \in CheckKinds : ~CheckThrows(u, k)
  BY <1>0 DEF CheckThrows
<1>5. ASSUME NEW r, NEW b, Hold(u, r, b)
      PROVE  u = t /\ r = NoRecord
  BY <1>0, <1>5 DEF Hold, TypeOK
<1>6. ~Visit(u)
  <2>1. ~OpenPage(u)
    <3> SUFFICES ASSUME OpenPage(u) PROVE FALSE
      OBVIOUS
    <3>2. u = t /\ ~page[u]
      BY <1>5 DEF OpenPage
    <3> QED  BY <1>0, <3>2 DEF PagesConsistent
  <2>2. ~ClosePage(u)
    <3> SUFFICES ASSUME ClosePage(u) PROVE FALSE
      OBVIOUS
    <3>2. u = t /\ page' = [page EXCEPT ![u] = FALSE]
      BY <1>5 DEF ClosePage
    <3> QED  BY <3>2 DEF TypeOK
  <2>3. ~Submit(u)
    <3> SUFFICES ASSUME Submit(u) PROVE FALSE
      OBVIOUS
    <3>2. storage'.status = "submitting" /\ Hold(u, storage', TRUE)
      BY DEF Submit
    <3> QED  BY <1>0, <3>2 DEF Hold, NoRecord, TypeOK
  <2>4. ~SubmitRefused(u)
    <3> SUFFICES ASSUME SubmitRefused(u) PROVE FALSE
      OBVIOUS
    <3>2. storage = NoRecord
      BY <1>5 DEF SubmitRefused
    <3> QED  BY <3>2 DEF SubmitRefused, RequiresRecovery, NoRecord
  <2> QED  BY <2>1, <2>2, <2>3, <2>4 DEF Visit
<1>7. ~SendReturns(u) /\ ~SendThrows(u)
  <2> SUFFICES ASSUME SendReturns(u) \/ SendThrows(u) PROVE FALSE
    OBVIOUS
  <2>2. held' = [held EXCEPT ![u] = storage'] /\ storage'.status \in {"confirming", "ambiguous"}
    <3>1. CASE SendReturns(u)
      BY <3>1 DEF SendReturns, Hold, Sent
    <3>2. CASE SendThrows(u)
      BY <3>2 DEF SendThrows, Hold
    <3> QED  BY <3>1, <3>2
  <2> QED  BY <1>0, <2>2 DEF NoRecord, TypeOK
<1>8. ASSUME Answer(u)
      PROVE  u = t /\ ClearAccepted(t) /\ checks[t]["timer"].active
  <2>1. ASSUME NEW k \in CheckKinds, NEW status \in {"accepted", "ambiguous", "failed"},
               checks[u][k].phase # "idle",
               status = "failed" => checks[u][k].intent.signature,
               Conclude(u, k, status)
        PROVE  FALSE
    <3>1. /\ storage'.id # 0
          /\ Hold(u, storage', FALSE) \/ UNCHANGED <<held, busy, timed>>
      BY <2>1, ConcludeTyped
    <3> QED  BY <1>0, <3>1 DEF Hold, TypeOK
  <2>2. ASSUME NEW k \in CheckKinds, ReadPosition(u, k)
        PROVE  FALSE
    <3>1. checks[u][k].phase # "idle"
      BY <2>2 DEF ReadPosition
    <3>2. ~Conclude(u, k, "accepted") /\ ~Conclude(u, k, "ambiguous")
      BY <2>1, <3>1
    <3> QED  BY <1>0, <2>2, <3>2 DEF ReadPosition, AcceptThenClear, LookAtSignature
  <2>3. ASSUME NEW k \in CheckKinds, ReadSignature(u, k)
        PROVE  FALSE
    <3>1. checks[u][k].phase = "signature" /\ checks[u][k].intent.signature
      BY <2>3 DEF ReadSignature, ChecksSound, CheckSound
    <3>2. PICK status \in {"ambiguous", "failed"} : status = StatusOf(checks[u][k].intent)
      BY StatusKnown
    <3>3. Conclude(u, k, status)
      BY <2>3, <3>2 DEF ReadSignature
    <3> QED  BY <2>1, <3>1, <3>3
  <2>4. ClearAccepted(u)
    BY <1>8, <2>2, <2>3 DEF Answer
  <2>5. checks[u]["timer"].active /\ Hold(u, NoRecord, FALSE)
    BY <1>0, <2>4 DEF ClearAccepted
  <2> QED  BY <1>5, <2>4, <2>5
<1>9. Dismiss(u) => u = t
  BY <1>5 DEF Dismiss
<1> QED  BY <1>2, <1>3, <1>4, <1>6, <1>7, <1>8, <1>9

\* A page never lets go of a play that may still open: it has seen a position with the
\* nonce of the play, which the market then gives no other, or it has checked that the
\* play itself has opened.
THEOREM DismissesDecided == Spec => DismissedIsDecided
<1> DEFINE Decided(t) == fate[held[t].id] # "sent" \/ quoted[held[t].id] < next_nonce
<1>1. ASSUME IInv, [Next]_vars, NEW t \in Tabs,
             held[t].id # 0, held'[t] = NoRecord, page'[t]
      PROVE  Decided(t)
  <2> USE <1>1 DEF IInv
  <2>1. Next
    BY DEF vars, NoRecord
  <2>2. CASE Dismiss(t)
    BY <2>2 DEF Dismiss, Sighted, OpenedIsPast
  <2>3. CASE ClearAccepted(t) /\ checks[t]["timer"].active
    <3>1. checks[t]["timer"].phase = "clearing" /\ checks[t]["timer"].intent = held[t]
      BY <2>3 DEF ClearAccepted, PagesConsistent
    <3>2. fate[held[t].id] \in {"open", "closed"}
      BY <3>1 DEF ChecksSound, CheckSound, CheckKinds
    <3> QED  BY <3>2
  <2> QED  BY <1>1, <2>1, <2>2, <2>3, LettingGo
<1>2. IInv /\ [Next]_vars =>
        [\A t \in Tabs : held[t].id # 0 /\ held'[t] = NoRecord /\ page'[t] =>
           fate[held[t].id] # "sent" \/ quoted[held[t].id] < next_nonce]_vars
  BY <1>1
<1> QED  BY <1>2, Invariant, PTL DEF Spec, DismissedIsDecided
=============================================================================
