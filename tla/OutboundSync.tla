---------------------------- MODULE OutboundSync ----------------------------
(***************************************************************************)
(* OutboundSyncWorker.processDueEvents on top of the request lifecycle,    *)
(* with HcmClient.submitApprovedUsage and the HCM behind it.               *)
(*                                                                         *)
(* A run of the worker is one POST /sync/hcm/outbound/process.  It lists   *)
(* the due events once (with their attempt counts), then handles them one  *)
(* by one, oldest first, awaiting HCM for each.  Everything between two    *)
(* awaits is one atomic step of Node's event loop:                         *)
(*                                                                         *)
(*   StartRun       list the batch, send the first submission              *)
(*   HcmConsume...  HCM handles the submission in flight                   *)
(*   Resume...      the answer arrives: write the outcome, send the next   *)
(*                                                                         *)
(* Nothing prevents a second run from starting while one is awaiting, so   *)
(* Runs is a set.  The listed attempt count is the one used on resuming.   *)
(***************************************************************************)
EXTENDS TimeOffRequests

CONSTANTS
  Runs,             \* concurrent invocations of processDueEvents
  Limit,            \* its "limit" argument
  MaxAttempts,      \* configService.syncMaxAttempts
  Faults,           \* the ways a submission can go wrong, see AllFaults
  HcmChecksBalance  \* whether HCM refuses to go below zero

(* unavailable: HCM answers 5xx and does nothing.   functional: it answers *)
(* 4xx.  refused: fetch throws before HCM sees the request.  lateError:    *)
(* HCM consumes the days and then answers 5xx.  lost: HCM consumes the     *)
(* days and the connection breaks before the answer arrives.               *)
AllFaults == {"unavailable", "functional", "refused", "lateError", "lost"}

\* Faults after which the worker cannot know that HCM consumed the days.
Ambiguous == {"lateError", "lost"}

ASSUME LimitAssumption == Limit \in Nat \ {0}
ASSUME MaxAttemptsAssumption == MaxAttempts \in Nat \ {0}
ASSUME FaultsAssumption == Faults \subseteq AllFaults
ASSUME HcmChecksBalanceAssumption == HcmChecksBalance \in BOOLEAN

VARIABLES
  hcm,      \* HCM's own balance per key
  due,      \* per run: the listed events still to handle, id -> attemptCount
  answer,   \* per run: what HCM answered to the submission in flight
  applied,  \* history: how often HCM consumed the days of a request
  submits   \* history: how often a request was submitted

workerVars == <<hcm, due, answer, applied, submits>>
vars == <<requests, balances, ledger, events, hcm, due, answer, applied, submits>>

\* UNKNOWN is an error without a kind: fetch itself threw.
Answers == {"NONE", "OK", "TRANSIENT", "FUNCTIONAL", "UNKNOWN"}

NothingDue == [r \in {} |-> 0]

----------------------------------------------------------------------------
(* The outbox query *)

\* Slips in the query: processed events are sent again, retries never are.
LiveOrProcessed(r) == events[r].status # "FAILED"

Live(r) == events[r].status \in {"QUEUED", "RETRY_PENDING"}

DueFirstTime(r) == events[r].status = "QUEUED" /\ ~events[r].waiting

IsDue(r) == Live(r) /\ ~events[r].waiting

Older(s, r) == events[s].createdAt < events[r].createdAt

\* ORDER BY created_at ASC LIMIT ?
listDueOutboundSyncEvents ==
  LET dueNow == {r \in DOMAIN events : IsDue(r)}
      batch == {r \in dueNow :
                  Cardinality({s \in dueNow : Older(s, r)}) < Limit}
  IN [r \in batch |-> events[r].attemptCount]

\* The event the for loop is at: the oldest one not handled yet.
Oldest(w) == {r \in DOMAIN due[w] : \A s \in DOMAIN due[w] : ~Older(s, r)}
Current(w) == CHOOSE r \in Oldest(w) : TRUE

\* The listed events without the current one.
Rest(w) == Restrict(due[w], DOMAIN due[w] \ {Current(w)})

----------------------------------------------------------------------------
OutboundInit ==
  /\ Init
  /\ hcm = Imported
  /\ due = [w \in Runs |-> NothingDue]
  /\ answer = [w \in Runs |-> "NONE"]
  /\ applied = [r \in Requests |-> 0]
  /\ submits = [r \in Requests |-> 0]

\* POST /sync/hcm/outbound/process
StartRun(w) ==
  /\ DOMAIN due[w] = {}
  /\ DOMAIN listDueOutboundSyncEvents # {}
  /\ due' = [due EXCEPT ![w] = listDueOutboundSyncEvents]
  /\ UNCHANGED <<reqVars, hcm, answer, applied, submits>>

InFlight(w) == DOMAIN due[w] # {} /\ answer[w] = "NONE"

\* HCM answers a submission without consuming anything.
Refuse(w, kind) ==
  /\ answer' = [answer EXCEPT ![w] = kind]
  /\ submits' = [submits EXCEPT ![Current(w)] = @ + 1]
  /\ UNCHANGED <<reqVars, hcm, due, applied>>

\* HCM consumes the days of the submission in flight.
Accept(w, kind) ==
  LET r == Current(w) IN
  /\ HcmChecksBalance => hcm[requests[r].key] >= requests[r].days
  /\ hcm' = [hcm EXCEPT ![requests[r].key] = @ - requests[r].days]
  /\ applied' = [applied EXCEPT ![r] = @ + 1]
  /\ submits' = [submits EXCEPT ![r] = @ + 1]
  /\ answer' = [answer EXCEPT ![w] = kind]
  /\ UNCHANGED <<reqVars, due>>

HcmConsume(w) == InFlight(w) /\ Accept(w, "OK")

HcmInsufficient(w) ==
  /\ InFlight(w)
  /\ HcmChecksBalance
  /\ hcm[requests[Current(w)].key] < requests[Current(w)].days
  /\ Refuse(w, "FUNCTIONAL")

\* status >= 500 is TRANSIENT, any other status that is not 2xx FUNCTIONAL;
\* an error thrown by fetch carries no kind.
HcmFault(w) ==
  /\ InFlight(w)
  /\ \/ "unavailable" \in Faults /\ Refuse(w, "TRANSIENT")
     \/ "functional" \in Faults /\ Refuse(w, "FUNCTIONAL")
     \/ "refused" \in Faults /\ Refuse(w, "UNKNOWN")
     \/ "lateError" \in Faults /\ Accept(w, "TRANSIENT")
     \/ "lost" \in Faults /\ Accept(w, "UNKNOWN")

----------------------------------------------------------------------------
(* Resuming after the await *)

\* A slip: the answer is left behind for the next event.
AdvanceKeepsAnswer(w) ==
  /\ due' = [due EXCEPT ![w] = Rest(w)]
  /\ UNCHANGED <<answer, ledger, hcm, applied, submits>>

\* The loop goes on to the next listed event.
Advance(w) ==
  /\ due' = [due EXCEPT ![w] = Rest(w)]
  /\ answer' = [answer EXCEPT ![w] = "NONE"]
  /\ UNCHANGED <<ledger, hcm, applied, submits>>

\* A slip: a request that is not APPROVED any more is left as it is.
SyncedIfApproved(r) ==
  IF requests[r].status = "APPROVED"
    THEN [requests EXCEPT ![r].status = "SYNCED", ![r].syncState = "DONE"]
    ELSE requests

\* markRequestSynced: no check of the current status.
RequestSynced(r) == [requests EXCEPT ![r].status = "SYNCED",
                                     ![r].syncState = "DONE"]

\* A slip: the request is put back to PENDING for another approval.
RequestReopened(r) == [requests EXCEPT ![r].status = "PENDING",
                                       ![r].syncState = "FAILED"]

\* The first UPDATE of markRequestFailedAndReversed: no check either.
RequestReversed(r) == [requests EXCEPT ![r].status = "REVERSED",
                                       ![r].syncState = "FAILED"]

\* A slip: the days are not given back.
NothingReturned(r) == balances

\* Its second UPDATE.
DaysReturned(r) ==
  [balances EXCEPT ![requests[r].key] = Credit(@, requests[r].days)]

\* A slip: the event is never closed.
EventLeftOpen(r) == events

\* markSyncEventSynced clears next_attempt_at, markSyncEventFailed does not.
EventSynced(r) == [events EXCEPT ![r].status = "PROCESSED",
                                 ![r].waiting = FALSE]
EventFailed(r) == [events EXCEPT ![r].status = "FAILED"]

\* markSyncEventRetry writes the count listed at the start of the run plus 1.
EventRetry(r, attempt) == [events EXCEPT ![r].status = "RETRY_PENDING",
                                         ![r].attemptCount = attempt,
                                         ![r].waiting = TRUE]

\* A slip: off by one.
RetriesOnceTooOften(w) ==
  answer[w] = "TRANSIENT" /\ due[w][Current(w)] < MaxAttempts

\* A slip: the last attempt is not made.
GivesUpEarly(w) ==
  answer[w] = "TRANSIENT" /\ due[w][Current(w)] + 2 < MaxAttempts

\* transient && event.attemptCount + 1 < syncMaxAttempts
ShouldRetry(w) ==
  answer[w] = "TRANSIENT" /\ due[w][Current(w)] + 1 < MaxAttempts

\* A slip: an error without a kind is taken for success.
ResumeOkOrUnknown(w) ==
  /\ answer[w] \in {"OK", "UNKNOWN"}
  /\ requests' = RequestSynced(Current(w))
  /\ events' = EventSynced(Current(w))
  /\ Advance(w)
  /\ UNCHANGED balances

\* submitApprovedUsage returned.
ResumeOk(w) ==
  /\ answer[w] = "OK"
  /\ requests' = RequestSynced(Current(w))
  /\ events' = EventSynced(Current(w))
  /\ Advance(w)
  /\ UNCHANGED balances

\* It threw, and there are attempts left.
ResumeRetry(w) ==
  /\ ShouldRetry(w)
  /\ events' = EventRetry(Current(w), due[w][Current(w)] + 1)
  /\ Advance(w)
  /\ UNCHANGED <<requests, balances>>

\* It threw for good.
ResumeFail(w) ==
  /\ answer[w] \notin {"NONE", "OK"}
  /\ ~ShouldRetry(w)
  /\ events' = EventFailed(Current(w))
  /\ requests' = RequestReversed(Current(w))
  /\ balances' = DaysReturned(Current(w))
  /\ Advance(w)

\* The wall clock passes next_attempt_at (computeNextAttemptIso is in the
\* future when it is written).
BackoffElapsed(r) ==
  /\ r \in DOMAIN events
  /\ events[r].waiting
  /\ events' = [events EXCEPT ![r].waiting = FALSE]
  /\ UNCHANGED <<requests, balances, ledger, workerVars>>

----------------------------------------------------------------------------
WorkerNext ==
  \/ \E w \in Runs : \/ StartRun(w)
                     \/ HcmConsume(w) \/ HcmInsufficient(w) \/ HcmFault(w)
                     \/ ResumeOk(w) \/ ResumeRetry(w) \/ ResumeFail(w)
  \/ \E r \in Requests : BackoffElapsed(r)

Next == (RequestNext /\ UNCHANGED workerVars) \/ WorkerNext

Spec == OutboundInit /\ [][Next]_vars

HcmStep(w) == HcmConsume(w) \/ HcmInsufficient(w) \/ HcmFault(w)
Resume(w) == ResumeOk(w) \/ ResumeRetry(w) \/ ResumeFail(w)

\* The event loop resumes a settled promise, fetch settles (it gives up after
\* its own timeout), and the clock moves on.
EventLoopFairness ==
  /\ \A w \in Runs : WF_vars(HcmStep(w)) /\ WF_vars(Resume(w))
  /\ \A r \in Requests : WF_vars(BackoffElapsed(r))

\* The service has no timer of its own: a run starts only when somebody posts
\* to /sync/hcm/outbound/process (docs/samples.md, "Manual Trigger").  This
\* assumes that somebody keeps doing so.
TriggerFairness == \A w \in Runs : WF_vars(StartRun(w))

FairSpec == Spec /\ EventLoopFairness /\ TriggerFairness

-----------------------------------------------------------------------------
(* Properties *)

\* Types, and: only listed events are in flight, and every listed event
\* belongs to a request that was approved.
WorkerTypeOK ==
  /\ TypeOK
  /\ hcm \in [Keys -> Int]
  /\ DOMAIN due = Runs
  /\ \A w \in Runs : /\ DOMAIN due[w] \subseteq DOMAIN events
                      /\ due[w] \in [DOMAIN due[w] -> Nat]
  /\ answer \in [Runs -> Answers]
  /\ \A w \in Runs : answer[w] # "NONE" => DOMAIN due[w] # {}
  /\ applied \in [Requests -> Nat]
  /\ submits \in [Requests -> Nat]

\* The outbox tells the truth: a request is APPROVED exactly while its event
\* is still to be sent, SYNCED exactly when the event was processed and
\* REVERSED exactly when it failed for good.
OutboxMatchesRequest ==
  \A r \in DOMAIN events :
    /\ Live(r) <=> requests[r].status = "APPROVED"
    /\ events[r].status = "PROCESSED" <=> requests[r].status = "SYNCED"
    /\ events[r].status = "FAILED" <=> requests[r].status = "REVERSED"

\* What survives overlapping runs: an event that is settled settled its
\* request the same way.
SettledMatchesRequest ==
  \A r \in DOMAIN events :
    /\ events[r].status = "PROCESSED" => requests[r].status = "SYNCED"
    /\ events[r].status = "FAILED" => requests[r].status = "REVERSED"

\* HCM consumes the days of a request at most once, and has done so when the
\* service says SYNCED and has not when it gave the days back.
ExactlyOnceAtHcm ==
  \A r \in DOMAIN requests :
    /\ applied[r] <= 1
    /\ requests[r].status = "SYNCED" => applied[r] = 1
    /\ requests[r].status \notin {"APPROVED", "SYNCED"} => applied[r] = 0

\* SYNCED is never claimed of days HCM did not consume.
SyncedMeansApplied ==
  \A r \in DOMAIN requests : requests[r].status = "SYNCED" => applied[r] >= 1

\* An OK the worker has yet to see stands for days HCM consumed.
OkMeansApplied ==
  \A w \in Runs : answer[w] = "OK" => applied[Current(w)] >= 1

\* HCM is only ever charged for requests a manager approved.
OnlyApprovedReachHcm ==
  \A r \in Requests :
    submits[r] > 0 => r \in DOMAIN requests /\ WasApproved(r)

\* Inductive for any number of overlapping runs and every kind of fault, and
\* kept by crashes.
WorkerInv ==
  /\ WorkerTypeOK
  /\ ApprovalAtomic
  /\ SyncedMeansApplied
  /\ OkMeansApplied
  /\ OnlyApprovedReachHcm

OverlapInv == WorkerInv /\ SettledMatchesRequest

\* Days HCM has yet to hear about.
PendingDays(k) ==
  MapThenSumSet(LAMBDA r : requests[r].days,
                {r \in DOMAIN requests : /\ requests[r].key = k
                                         /\ requests[r].status = "APPROVED"
                                         /\ applied[r] = 0})

\* The two systems of record differ by exactly the approvals still on their
\* way, so they agree whenever the outbox is empty.
HcmAgreement ==
  \A k \in Keys : hcm[k] = balances[k].availableDays + PendingDays(k)

\* SYNC_MAX_ATTEMPTS bounds the submissions of a request.
AttemptsBounded == \A r \in Requests : submits[r] <= MaxAttempts

\* The two assumptions under which the worker keeps its promises exactly: runs
\* never overlap, and an answer that reports a failure is true.
AtMostOneRun == \A v, w \in Runs : v = w
TrustedAnswers == Faults \intersect Ambiguous = {}

\* HCM's answer for r has arrived and the worker has not acted on it yet.
Answered(r) == \E w \in Runs : answer[w] # "NONE" /\ Current(w) = r
Confirmed(r) == \E w \in Runs : answer[w] = "OK" /\ Current(w) = r

\* What a run listed is still what the tables say.
ListingIsFresh ==
  \A w \in Runs : \A r \in DOMAIN due[w] :
    Live(r) /\ due[w][r] = events[r].attemptCount

\* HCM consumed exactly the requests that are SYNCED or about to be.
ConsumedIsKnown ==
  \A r \in Requests :
    applied[r] = IF /\ r \in DOMAIN requests
                    /\ requests[r].status = "SYNCED" \/ Confirmed(r)
                   THEN 1 ELSE 0

\* attempt_count counts the submissions the worker has acted on.
SubmitsCounted ==
  /\ AttemptsBounded
  /\ \A r \in Requests \ DOMAIN events : submits[r] = 0
  /\ \A r \in DOMAIN events :
       Live(r) => /\ events[r].attemptCount < MaxAttempts
                  /\ submits[r] = events[r].attemptCount
                                    + (IF Answered(r) THEN 1 ELSE 0)

\* No attempt is counted, in the tables or in a listing, that was not made.
AttemptsMade ==
  /\ \A r \in DOMAIN events : events[r].attemptCount <= submits[r]
  /\ \A w \in Runs : \A r \in DOMAIN due[w] : due[w][r] <= submits[r]
  /\ \A w \in Runs :
       answer[w] # "NONE" => due[w][Current(w)] + 1 <= submits[Current(w)]

\* The balance row of an approved request exists, a missing row counts as no
\* days, and requests ask for days a client sent.
RowsExist ==
  /\ \A k \in Keys : ~HasRow(balances[k]) => balances[k].availableDays = 0
  /\ \A r \in DOMAIN events : HasRow(balances[requests[r].key])
  /\ \A r \in DOMAIN requests : requests[r].days \in DayInputs

\* Inductive for one run at a time and answers that can be trusted.
SerialInv ==
  /\ OverlapInv
  /\ OutboxMatchesRequest
  /\ ListingIsFresh
  /\ ConsumedIsKnown
  /\ SubmitsCounted
  /\ RowsExist

\* Overlapping runs never make an employee lose days.
NeverUnderCredited ==
  \A k \in Keys : balances[k].availableDays + HeldDays(k) >= Imported[k]

\* No step gives an employee days that were not imported.
NeverOverCredited ==
  \A k \in Keys : balances[k].availableDays + HeldDays(k) <= Imported[k]

\* What the two bounds rest on, for any number of overlapping runs.
AccountsInv == WorkerInv /\ RowsExist /\ IsFiniteSet(DOMAIN requests)

CreditInv == AccountsInv /\ NeverUnderCredited

\* With one run at a time, whatever the faults: the days of an event still to
\* be sent are still held, and what a run listed is still to be sent.
HeldUntilSettled ==
  /\ \A r \in DOMAIN events : Live(r) => Holding(r)
  /\ \A w \in Runs : \A r \in DOMAIN due[w] : Live(r)

OneRunInv == AccountsInv /\ HeldUntilSettled

\* Inductive with HcmAgreement.
AgreementInv == SerialInv /\ IsFiniteSet(DOMAIN requests) /\ HcmAgreement

\* The worker writes a request's status without consulting the policy; its
\* writes follow the policy's edges all the same.
PolicyRespected ==
  [][\A r \in DOMAIN requests :
       requests'[r].status # requests[r].status
         => CanTransition(requests[r].status, requests'[r].status)]_vars

\* A run is about to act on a failure of r's submission, and if it was a
\* transient one HCM was asked MaxAttempts times.
FinalFailure(r) ==
  \E w \in Runs : /\ answer[w] \notin {"NONE", "OK"}
                  /\ Current(w) = r
                  /\ answer[w] = "TRANSIENT" => submits[r] >= MaxAttempts

\* An approval is reversed only for a failure HCM answered or fetch threw, and
\* for transient ones not early: attempt_count, stale as it may be when runs
\* overlap, is never ahead of the submissions that were really made.
RetriesExhausted ==
  [][\A r \in DOMAIN requests :
       requests[r].status # "REVERSED" /\ requests'[r].status = "REVERSED"
         => FinalFailure(r)]_vars

\* Every approval is settled: HCM took the days or the employee got them back.
ApprovalsSettle ==
  \A r \in Requests :
    (r \in DOMAIN requests /\ requests[r].status = "APPROVED")
      ~> (r \in DOMAIN requests /\ requests[r].status \in {"SYNCED", "REVERSED"})

\* Refinement mapping: a reservation is charged once HCM consumed its days.
HoldOf(r) == [key |-> requests[r].key, days |-> requests[r].days,
              state |-> IF applied[r] > 0 THEN "CHARGED"
                        ELSE IF requests[r].status = "REVERSED" THEN "RETURNED"
                        ELSE "HELD"]

availBar == [k \in Keys |-> balances[k].availableDays]
heldBar == [r \in DOMAIN events |-> HoldOf(r)]

R == INSTANCE Reservation WITH avail <- availBar, charged <- hcm, held <- heldBar

\* The worker, its outbox and its retries implement the reservation contract:
\* every approval is charged once or returned once.
ImplementsReservation == R!RSpec
=============================================================================
