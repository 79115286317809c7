------------------------------ MODULE PlayIntent ------------------------------
(***************************************************************************)
(* The play flow of the frontend: one user, one market, the pages of one   *)
(* browser.  A play is signed with the nonce the page believes to be the   *)
(* market's next one and sent without waiting for its result.  What the    *)
(* page knows of it is its intent: a record in localStorage, of which      *)
(* there is one for the market, and a copy in the state of the page.       *)
(*                                                                         *)
(* Code between two awaits is one step.  The reads of the rollup that the  *)
(* flow awaits are checks in flight: a check carries the intent it was     *)
(* started for, and answers after the page has gone on.  The market is     *)
(* what the flow can see of it: the fate of each transaction, the next     *)
(* nonce, and which of the user's positions are open.                      *)
(*                                                                         *)
(* A definition named as Matches_ByNonce is a mutant, as in SettlementMath.*)
(***************************************************************************)
EXTENDS Integers, FiniteSets

CONSTANTS
  Tabs,          \* pages that share the localStorage
  MAX_PLAYS,     \* bound: plays sent
  MAX_NONCE,     \* bound: positions opened in the market, by this user or others
  MAX_FAILURES   \* bound: requests that fail

ASSUME PlayAssumption == MAX_PLAYS \in Nat /\ MAX_NONCE \in Nat /\ MAX_FAILURES \in Nat

VARIABLES
  \* The market
  fate, quoted, next_nonce,
  \* localStorage
  storage,
  \* The pages: whether open, the state of usePlayTransaction (intent, progress,
  \* whether the timer of the present intent has fired), the sends and the checks
  \* in flight, and the snapshot
  page, held, busy, timed, sending, checks, plays, quote,
  failures

marketVars   == <<fate, quoted, next_nonce>>
snapshotVars == <<plays, quote>>
vars == <<marketVars, storage, page, held, busy, timed, sending, checks, snapshotVars, failures>>

Intents == 1..MAX_PLAYS

Status == {"none", "submitting", "confirming", "accepted", "ambiguous", "failed"}

\* What the flow tells apart in an OpenPositionIntent: its play, its status, and
\* whether it has the signature of the transaction.
Record ==
  { r \in [id : 0..MAX_PLAYS, status : Status, signature : BOOLEAN] :
      /\ r.id = 0 <=> r.status = "none"
      /\ r.status \in {"none", "submitting"} => ~r.signature
      /\ r.status \in {"confirming", "failed"} => r.signature }

NoRecord == [id |-> 0, status |-> "none", signature |-> FALSE]

RequiresRecovery(r) == r.status \in {"submitting", "confirming", "ambiguous"}

\* The timer of a sent play, and the button "Check status".
CheckKinds == {"timer", "button"}

Check ==
  [intent : Record, phase : {"idle", "position", "signature", "clearing"}, active : BOOLEAN]

NoCheck == [intent |-> NoRecord, phase |-> "idle", active |-> FALSE]

Init ==
  /\ fate = [i \in Intents |-> "unsent"]
  /\ quoted = [i \in Intents |-> 0]
  /\ next_nonce = 0
  /\ storage = NoRecord
  /\ page = [t \in Tabs |-> FALSE]
  /\ held = [t \in Tabs |-> NoRecord]
  /\ busy = [t \in Tabs |-> FALSE]
  /\ timed = [t \in Tabs |-> FALSE]
  /\ sending = [t \in Tabs |-> {}]
  /\ checks = [t \in Tabs |-> [k \in CheckKinds |-> NoCheck]]
  /\ plays = [t \in Tabs |-> {}]
  /\ quote = [t \in Tabs |-> 0]
  /\ failures = 0

(***************************************************************************)
(* The market.  A transaction in flight opens a position if it carries the *)
(* next nonce; it may fail for any reason, or never be executed at all.    *)
(***************************************************************************)

OpenNonces == {quoted[i] : i \in {j \in Intents : fate[j] = "open"}}

Execute(i) ==
  /\ fate[i] = "sent"
  /\ \/ /\ quoted[i] = next_nonce /\ next_nonce < MAX_NONCE
        /\ fate' = [fate EXCEPT ![i] = "open"]
        /\ next_nonce' = next_nonce + 1
     \/ /\ \E end \in {"failed", "lost"} : fate' = [fate EXCEPT ![i] = end]
        /\ UNCHANGED next_nonce
  /\ UNCHANGED <<quoted, storage, page, held, busy, timed, sending, checks, snapshotVars, failures>>

Settle(i) ==
  /\ fate[i] = "open"
  /\ fate' = [fate EXCEPT ![i] = "closed"]
  /\ UNCHANGED <<quoted, next_nonce, storage, page, held, busy, timed, sending, checks,
                 snapshotVars, failures>>

OtherUserOpens ==
  /\ next_nonce < MAX_NONCE
  /\ next_nonce' = next_nonce + 1
  /\ UNCHANGED <<fate, quoted, storage, page, held, busy, timed, sending, checks,
                 snapshotVars, failures>>

(***************************************************************************)
(* The page.                                                               *)
(***************************************************************************)

\* setIntent and setProgress.  Another intent ends the timer's effect and starts a
\* new one: the check it had in flight is no longer active.
Hold(t, r, b) ==
  /\ held' = [held EXCEPT ![t] = r]
  /\ busy' = [busy EXCEPT ![t] = b]
  /\ timed' = [timed EXCEPT ![t] = FALSE]

Deactivated(slots) == [slots EXCEPT !["timer"].active = FALSE]

\* The page is loaded, its first snapshot arrives, and a stored intent which
\* requires recovery becomes that of the page.
OpenPage(t) ==
  /\ ~page[t]
  /\ page' = [page EXCEPT ![t] = TRUE]
  /\ Hold(t, IF RequiresRecovery(storage) THEN storage ELSE NoRecord, FALSE)
  /\ plays' = [plays EXCEPT ![t] = OpenNonces]
  /\ quote' = [quote EXCEPT ![t] = next_nonce]
  /\ UNCHANGED <<marketVars, storage, sending, checks, failures>>

\* Closed or reloaded: all that was in flight is forgotten.
ClosePage(t) ==
  /\ page[t]
  /\ page' = [page EXCEPT ![t] = FALSE]
  /\ Hold(t, NoRecord, FALSE)
  /\ sending' = [sending EXCEPT ![t] = {}]
  /\ checks' = [checks EXCEPT ![t] = [k \in CheckKinds |-> NoCheck]]
  /\ plays' = [plays EXCEPT ![t] = {}]
  /\ quote' = [quote EXCEPT ![t] = 0]
  /\ UNCHANGED <<marketVars, storage, failures>>

\* Positions and Market come over two streams, and by a poll.
SeePositions(t) ==
  /\ page[t]
  /\ plays' = [plays EXCEPT ![t] = OpenNonces]
  /\ UNCHANGED <<marketVars, storage, page, held, busy, timed, sending, checks, quote, failures>>

SeeMarket(t) ==
  /\ page[t]
  /\ quote' = [quote EXCEPT ![t] = next_nonce]
  /\ UNCHANGED <<marketVars, storage, page, held, busy, timed, sending, checks, plays, failures>>

Plays == {i \in Intents : fate[i] # "unsent"}

MayPress(t) == page[t] /\ ~busy[t] /\ ~RequiresRecovery(held[t])

\* openPositionFlow up to the send: the intent is stored before anything leaves.
Submit(t) ==
  LET i == Cardinality(Plays) + 1
  IN  /\ MayPress(t)
      /\ ~RequiresRecovery(storage)
      /\ i \in Intents
      /\ fate' = [fate EXCEPT ![i] = "sent"]
      /\ quoted' = [quoted EXCEPT ![i] = quote[t]]
      /\ storage' = [id |-> i, status |-> "submitting", signature |-> FALSE]
      /\ Hold(t, storage', TRUE)
      /\ checks' = [checks EXCEPT ![t] = Deactivated(@)]
      /\ sending' = [sending EXCEPT ![t] = @ \cup {i}]
      /\ UNCHANGED <<next_nonce, page, snapshotVars, failures>>

\* "Check the previous play before sending another one."
SubmitRefused(t) ==
  /\ MayPress(t)
  /\ RequiresRecovery(storage)
  /\ Hold(t, storage, FALSE)
  /\ checks' = [checks EXCEPT ![t] = Deactivated(@)]
  /\ UNCHANGED <<marketVars, storage, page, sending, snapshotVars, failures>>

Sent_NoSignature(i) == [id |-> i, status |-> "confirming", signature |-> FALSE]

Sent(i) == [id |-> i, status |-> "confirming", signature |-> TRUE]

\* sendRawTransaction has returned the signature.
SendReturns(t) ==
  \E i \in sending[t] :
    /\ storage' = Sent(i)
    /\ Hold(t, Sent(i), TRUE)
    /\ sending' = [sending EXCEPT ![t] = @ \ {i}]
    /\ checks' = [checks EXCEPT ![t] = Deactivated(@)]
    /\ UNCHANGED <<marketVars, page, snapshotVars, failures>>

\* It has thrown, which says nothing of the transaction.
SendThrows(t) ==
  \E i \in sending[t] :
    /\ failures < MAX_FAILURES
    /\ failures' = failures + 1
    /\ storage' = [id |-> i, status |-> "ambiguous", signature |-> FALSE]
    /\ Hold(t, storage', FALSE)
    /\ sending' = [sending EXCEPT ![t] = @ \ {i}]
    /\ checks' = [checks EXCEPT ![t] = Deactivated(@)]
    /\ UNCHANGED <<marketVars, page, snapshotVars>>

Sighted_AnyPlay(t) == held[t].id # 0 /\ plays[t] # {}

\* The snapshot has the position of the intent, by its nonce.
Sighted(t) == held[t].id # 0 /\ quoted[held[t].id] \in plays[t]

\* The play is dismissed: the stored intent is cleared, whichever it is.
Dismiss(t) ==
  /\ page[t]
  /\ Sighted(t)
  /\ storage' = NoRecord
  /\ Hold(t, NoRecord, FALSE)
  /\ checks' = [checks EXCEPT ![t] = Deactivated(@)]
  /\ UNCHANGED <<marketVars, page, sending, snapshotVars, failures>>

(***************************************************************************)
(* Recovery: the position is looked for first, then the signature.         *)
(***************************************************************************)

StartCheck(t, k) ==
  checks' = [checks EXCEPT ![t][k] = [intent |-> held[t], phase |-> "position", active |-> TRUE]]

\* Four seconds after an intent became that of the page, once for each.
TimerFires(t) ==
  /\ page[t]
  /\ held[t].status = "confirming" /\ held[t].signature
  /\ ~timed[t]
  /\ checks[t]["timer"].phase = "idle"
  /\ timed' = [timed EXCEPT ![t] = TRUE]
  /\ StartCheck(t, "timer")
  /\ UNCHANGED <<marketVars, storage, page, held, busy, sending, snapshotVars, failures>>

PressCheckStatus(t) ==
  /\ page[t]
  /\ RequiresRecovery(held[t])
  /\ checks[t]["button"].phase = "idle"
  /\ busy' = [busy EXCEPT ![t] = TRUE]
  /\ StartCheck(t, "button")
  /\ UNCHANGED <<marketVars, storage, page, held, timed, sending, snapshotVars, failures>>

\* A check of the button always reports; that of the timer, as long as the page
\* still holds the intent it was started for.
Reports(k, check) == k = "button" \/ check.active

\* recoverOpenPositionIntent stores its result before anyone asks whether it is
\* still wanted.
Conclude(t, k, status) ==
  LET check  == checks[t][k]
      record == [check.intent EXCEPT !.status = status]
      others == [checks[t] EXCEPT ![k] = NoCheck]
  IN  /\ storage' = record
      /\ IF Reports(k, check)
         THEN /\ Hold(t, record, FALSE)
              /\ checks' = [checks EXCEPT ![t] = Deactivated(others)]
         ELSE /\ checks' = [checks EXCEPT ![t] = others]
              /\ UNCHANGED <<held, busy, timed>>

Matches_ByNonce(intent) == quoted[intent.id] \in OpenNonces

\* positionMatchesIntent: the nonce and the salt, which no two intents share.
Matches(intent) == fate[intent.id] = "open"

\* The page is refreshed before the timer clears the accepted play.
AcceptThenClear(t) ==
  /\ storage' = [checks[t]["timer"].intent EXCEPT !.status = "accepted"]
  /\ checks' = [checks EXCEPT ![t]["timer"].phase = "clearing"]
  /\ UNCHANGED <<held, busy, timed>>

LookAtSignature(t, k) ==
  /\ checks' = [checks EXCEPT ![t][k].phase = "signature"]
  /\ UNCHANGED <<storage, held, busy, timed>>

ReadPosition(t, k) ==
  LET check  == checks[t][k]
      clears == k = "timer" /\ check.active
  IN  /\ check.phase = "position"
      /\ \/ Matches(check.intent) /\ clears /\ AcceptThenClear(t)
         \/ Matches(check.intent) /\ ~clears /\ Conclude(t, k, "accepted")
         \/ ~Matches(check.intent) /\ check.intent.signature /\ LookAtSignature(t, k)
         \/ ~Matches(check.intent) /\ ~check.intent.signature /\ Conclude(t, k, "ambiguous")
      /\ UNCHANGED <<marketVars, page, sending, snapshotVars, failures>>

StatusOf_UnknownFails(intent) ==
  IF fate[intent.id] \in {"failed", "sent", "lost"} THEN "failed" ELSE "ambiguous"

StatusOf_ErrorUnread(intent) == "ambiguous"

\* Only an error is conclusive: no status, and a status without an error, are both
\* ambiguous.
StatusOf(intent) == IF fate[intent.id] = "failed" THEN "failed" ELSE "ambiguous"

ReadSignature(t, k) ==
  /\ checks[t][k].phase = "signature"
  /\ Conclude(t, k, StatusOf(checks[t][k].intent))
  /\ UNCHANGED <<marketVars, page, sending, snapshotVars, failures>>

ClearAccepted(t) ==
  LET check == checks[t]["timer"]
      ended == [checks[t] EXCEPT !["timer"] = NoCheck]
  IN  /\ check.phase = "clearing"
      /\ checks' = [checks EXCEPT ![t] = ended]
      /\ IF check.active
         THEN storage' = NoRecord /\ Hold(t, NoRecord, FALSE)
         ELSE UNCHANGED <<storage, held, busy, timed>>
      /\ UNCHANGED <<marketVars, page, sending, snapshotVars, failures>>

CheckThrows(t, k) ==
  /\ failures < MAX_FAILURES
  /\ failures' = failures + 1
  /\ checks[t][k].phase \in {"position", "signature"}
  /\ busy' = [busy EXCEPT ![t] = IF Reports(k, checks[t][k]) THEN FALSE ELSE @]
  /\ checks' = [checks EXCEPT ![t][k] = NoCheck]
  /\ UNCHANGED <<marketVars, storage, page, held, timed, sending, snapshotVars>>

Answer(t) ==
  \/ \E k \in CheckKinds : ReadPosition(t, k) \/ ReadSignature(t, k)
  \/ ClearAccepted(t)

Market == OtherUserOpens \/ \E i \in Intents : Execute(i) \/ Settle(i)

Visit(t) == OpenPage(t) \/ ClosePage(t) \/ Submit(t) \/ SubmitRefused(t)

Next ==
  \/ Market
  \/ \E t \in Tabs :
       \/ Visit(t)
       \/ SeePositions(t) \/ SeeMarket(t)
       \/ SendReturns(t) \/ SendThrows(t) \/ Dismiss(t)
       \/ TimerFires(t) \/ PressCheckStatus(t) \/ Answer(t)
       \/ \E k \in CheckKinds : CheckThrows(t, k)

Spec == Init /\ [][Next]_vars

\* Everything answers, the pages poll, and the user presses "Check status" while
\* it is shown.  Nobody is bound to play, to come back or to stay.
FairSpec ==
  /\ Spec
  /\ \A i \in Intents : WF_vars(Execute(i)) /\ WF_vars(Settle(i))
  /\ \A t \in Tabs :
       /\ WF_vars(SeePositions(t)) /\ WF_vars(SendReturns(t)) /\ WF_vars(Dismiss(t))
       /\ WF_vars(TimerFires(t)) /\ WF_vars(PressCheckStatus(t)) /\ WF_vars(Answer(t))

-----------------------------------------------------------------------------
(***************************************************************************)
(* Properties.                                                             *)
(***************************************************************************)

TypeOK ==
  /\ fate \in [Intents -> {"unsent", "sent", "open", "closed", "failed", "lost"}]
  /\ quoted \in [Intents -> 0..MAX_NONCE] /\ next_nonce \in 0..MAX_NONCE
  /\ storage \in Record
  /\ held \in [Tabs -> Record]
  /\ page \in [Tabs -> BOOLEAN] /\ busy \in [Tabs -> BOOLEAN] /\ timed \in [Tabs -> BOOLEAN]
  /\ sending \in [Tabs -> SUBSET Intents]
  /\ checks \in [Tabs -> [CheckKinds -> Check]]
  /\ plays \in [Tabs -> SUBSET (0..MAX_NONCE)] /\ quote \in [Tabs -> 0..MAX_NONCE]
  /\ failures \in 0..MAX_FAILURES

KnownAs(status) ==
  {r \in {storage} \cup {held[t] : t \in Tabs} : r.status = status}

\* A play reported as failed will never take the user's money: it cannot open any
\* more, whichever check said so and however late it answered.
FailedNeverLands == \A r \in KnownAs("failed") : fate[r.id] = "failed"

\* A play reported as accepted has opened, and not another one with its nonce.
AcceptedHasLanded == \A r \in KnownAs("accepted") : fate[r.id] \in {"open", "closed"}

\* A page dismisses a play only when nothing is left to happen to it: it has been
\* executed, or its nonce has been used.
DismissedIsDecided ==
  [][ \A t \in Tabs :
        held[t].id # 0 /\ held'[t] = NoRecord /\ page'[t] =>
          fate[held[t].id] # "sent" \/ quoted[held[t].id] < next_nonce ]_vars

Undecided(i) == fate[i] = "sent" /\ quoted[i] = next_nonce

\* The intent is durable: a play which has been sent and may still open is the one
\* that is stored, so that whatever becomes of the page it is checked and not blindly
\* retried.
IntentIsDurable ==
  \A i \in Intents :
    Undecided(i) /\ (\A t \in Tabs : i \notin sending[t])
      => storage.id = i /\ RequiresRecovery(storage)

Blocked(t, fates) ==
  page[t] /\ RequiresRecovery(held[t]) /\ held[t].signature /\ fate[held[t].id] \in fates

\* A play whose transaction has failed, and has a signature to ask for, does not
\* keep an open page blocked, whatever else answers late or throws.
FailureIsReported == \A t \in Tabs : ~ <>[]Blocked(t, {"failed"})

\* Retries are blocked only while the play is unresolved: an open page does not ask
\* for ever for a status that the market has long had.
BlockedOnlyWhileUnresolved == \A t \in Tabs : ~ <>[]Blocked(t, {"closed", "failed"})
=============================================================================
