------------------------- MODULE SerialSync_proofs -------------------------
(***************************************************************************)
(* Theorems about the outbound worker when runs do not overlap and HCM's   *)
(* failures can be trusted: every approval is consumed by HCM exactly once *)
(* or given back exactly once, and the worker implements the reservation   *)
(* contract.                                                               *)
(***************************************************************************)
EXTENDS OutboundSync_proofs

-----------------------------------------------------------------------------
(* Answers that wait for the worker *)

LEMMA AnsweredIsListed ==
  ASSUME WorkerTypeOK, NEW r, Answered(r)
  PROVE  r \in DOMAIN events
BY CurrentIsListed DEF Answered, WorkerTypeOK

LEMMA ConfirmedIsAnswered ==
  ASSUME NEW r, Confirmed(r)
  PROVE  Answered(r)
BY DEF Confirmed, Answered

LEMMA AnswersStable ==
  ASSUME answer' = answer, \A w \in Runs : Current(w)' = Current(w), NEW r
  PROVE  (Answered(r)' <=> Answered(r)) /\ (Confirmed(r)' <=> Confirmed(r))
BY DEF Answered, Confirmed

\* With one run, an idle run means that no answer waits.
LEMMA NothingAnswered ==
  ASSUME AtMostOneRun, NEW w \in Runs, answer[w] = "NONE", NEW r
  PROVE  ~Answered(r) /\ ~Confirmed(r)
BY DEF AtMostOneRun, Answered, Confirmed

-----------------------------------------------------------------------------
LEMMA SerialInit == OutboundInit => SerialInv
<1> SUFFICES ASSUME OutboundInit PROVE SerialInv
  OBVIOUS
<1>1. OverlapInv
  BY OverlapInit
<1>2. requests = [r \in {} |-> NoBalance] /\ events = [r \in {} |-> NoBalance]
  BY DEF OutboundInit, Init
<1>3. /\ \A w \in Runs : due[w] = NothingDue
      /\ \A r \in Requests : applied[r] = 0 /\ submits[r] = 0
  BY DEF OutboundInit
<1>4. OutboxMatchesRequest
  BY <1>2 DEF OutboxMatchesRequest
<1>5. ListingIsFresh
  BY <1>3 DEF ListingIsFresh, NothingDue
<1>6. ConsumedIsKnown
  BY <1>2, <1>3 DEF ConsumedIsKnown
<1>7. SubmitsCounted
  BY <1>2, <1>3, MaxAttemptsAssumption DEF SubmitsCounted, AttemptsBounded
<1>8. RowsExist
  BY <1>2, ImportedAssumption DEF RowsExist, OutboundInit, Init, NoBalance, HasRow, upsertAbsolute
<1> QED BY <1>1, <1>4, <1>5, <1>6, <1>7, <1>8 DEF SerialInv

\* The lifecycle's handlers while the run is awaiting HCM.
LEMMA SerialLifecycle ==
  ASSUME SerialInv, [RequestNext]_reqVars, UNCHANGED workerVars
  PROVE  SerialInv'
<1>1. WorkerTypeOK /\ TypeOK /\ ApprovalAtomic
  BY DEF SerialInv, OverlapInv, WorkerInv, WorkerTypeOK
<1>2. UNCHANGED <<hcm, due, answer, applied, submits>>
  BY DEF workerVars
<1>3. \A x \in DOMAIN events : x \in DOMAIN requests /\ WasApproved(x)
  BY <1>1, EventsAreApproved
<1>4. /\ DOMAIN events \subseteq DOMAIN events'
      /\ \A x \in DOMAIN events : events'[x] = events[x] /\ requests'[x] = requests[x]
      /\ \A x \in DOMAIN events' \ DOMAIN events :
           /\ events'[x].status = "QUEUED"
           /\ events'[x].attemptCount = 0
           /\ requests'[x].status = "APPROVED"
  BY <1>1, <1>3, LifecycleFrame
<1>5. \A w \in Runs : Current(w)' = Current(w)
  BY <1>1, <1>2, <1>4, CurrentStable DEF WorkerTypeOK
<1>6. \A x : (Answered(x)' <=> Answered(x)) /\ (Confirmed(x)' <=> Confirmed(x))
  BY <1>2, <1>5, AnswersStable
<1>7. \A x : Answered(x) \/ Confirmed(x) => x \in DOMAIN events
  BY <1>1, AnsweredIsListed, ConfirmedIsAnswered
<1>8. OverlapInv'
  BY OverlapStep DEF SerialInv, Next, vars, reqVars, workerVars
<1>9. OutboxMatchesRequest'
  BY <1>4 DEF SerialInv, OutboxMatchesRequest, Live
<1>10. ListingIsFresh'
  BY <1>1, <1>2, <1>4 DEF SerialInv, ListingIsFresh, Live, WorkerTypeOK
<1>11. ConsumedIsKnown'
  <2> SUFFICES ASSUME NEW x \in Requests
               PROVE  applied[x] = IF /\ x \in DOMAIN requests'
                                      /\ requests'[x].status = "SYNCED" \/ Confirmed(x)
                                     THEN 1 ELSE 0
    BY <1>2, <1>6 DEF ConsumedIsKnown
  <2>1. applied[x] = IF /\ x \in DOMAIN requests
                        /\ requests[x].status = "SYNCED" \/ Confirmed(x)
                       THEN 1 ELSE 0
    BY DEF SerialInv, ConsumedIsKnown
  <2>2. CASE x \in DOMAIN requests /\ WasApproved(x)
    BY <1>1, <2>1, <2>2, LifecycleFrame
  <2>3. CASE ~(x \in DOMAIN requests /\ WasApproved(x))
    <3>1. ~Confirmed(x)
      BY <1>3, <1>7, <2>3
    <3>2. x \in DOMAIN requests => requests[x].status # "SYNCED"
      BY <2>3 DEF WasApproved
    <3>3. x \in DOMAIN requests' => requests'[x].status # "SYNCED"
      BY <1>1, <2>3, LifecycleFrame
    <3> QED BY <2>1, <3>1, <3>2, <3>3
  <2> QED BY <2>2, <2>3
<1>12. SubmitsCounted'
  <2>1. AttemptsBounded' /\ \A x \in Requests \ DOMAIN events' : submits'[x] = 0
    BY <1>2, <1>4 DEF SerialInv, SubmitsCounted, AttemptsBounded
  <2>2. ASSUME NEW x \in DOMAIN events'
        PROVE  Live(x)' => /\ events'[x].attemptCount < MaxAttempts
                           /\ submits'[x] = events'[x].attemptCount
                                              + (IF Answered(x)' THEN 1 ELSE 0)
    <3>1. CASE x \in DOMAIN events
      BY <1>2, <1>4, <1>6, <3>1 DEF SerialInv, SubmitsCounted, Live
    <3>2. CASE x \notin DOMAIN events
      <4>1. x \in Requests
        BY <1>8 DEF OverlapInv, WorkerInv, WorkerTypeOK, TypeOK
      <4>2. submits'[x] = 0 /\ events'[x].attemptCount = 0 /\ ~Answered(x)'
        BY <1>2, <1>4, <1>6, <1>7, <3>2, <4>1 DEF SerialInv, SubmitsCounted
      <4> QED BY <4>2, MaxAttemptsAssumption
    <3> QED BY <3>1, <3>2
  <2> QED BY <2>1, <2>2 DEF SubmitsCounted
<1>13. RowsExist'
  BY <1>1, <1>3, RowsExistLifecycle DEF SerialInv
<1> QED BY <1>8, <1>9, <1>10, <1>11, <1>12, <1>13 DEF SerialInv

LEMMA SerialStart ==
  ASSUME AtMostOneRun, SerialInv, NEW w \in Runs, StartRun(w)
  PROVE  SerialInv'
<1>1. WorkerTypeOK
  BY DEF SerialInv, OverlapInv, WorkerInv
<1>2. UNCHANGED <<requests, balances, ledger, events, hcm, answer, applied, submits>>
  BY DEF StartRun, reqVars
<1>3. due' = [due EXCEPT ![w] = listDueOutboundSyncEvents] /\ DOMAIN due[w] = {}
  BY DEF StartRun
<1>4. answer[w] = "NONE" /\ answer'[w] = "NONE"
  BY <1>1, <1>2, <1>3 DEF WorkerTypeOK
<1>5. \A x : ~Answered(x) /\ ~Confirmed(x)
  BY <1>4, NothingAnswered
<1>6. \A x : ~Answered(x)' /\ ~Confirmed(x)'
  BY <1>4 DEF AtMostOneRun, Answered, Confirmed
<1>7. OverlapInv'
  BY OverlapStep DEF SerialInv, Next, WorkerNext
<1>8. ListingIsFresh'
  <2>1. \A v \in Runs : due'[v] = listDueOutboundSyncEvents
    BY <1>1, <1>3 DEF AtMostOneRun, WorkerTypeOK
  <2> QED BY <1>1, <1>2, <2>1, ListedType DEF ListingIsFresh, Live
<1>9. ConsumedIsKnown'
  BY <1>2, <1>5, <1>6 DEF SerialInv, ConsumedIsKnown
<1>10. SubmitsCounted'
  BY <1>2, <1>5, <1>6 DEF SerialInv, SubmitsCounted, AttemptsBounded, Live
<1>11. OutboxMatchesRequest' /\ RowsExist'
  BY <1>2 DEF SerialInv, OutboxMatchesRequest, Live, RowsExist
<1> QED BY <1>7, <1>8, <1>9, <1>10, <1>11 DEF SerialInv

LEMMA SerialHcm ==
  ASSUME AtMostOneRun, TrustedAnswers, SerialInv, NEW w \in Runs, HcmStep(w)
  PROVE  SerialInv'
<1> DEFINE r == Current(w)
<1>1. WorkerTypeOK /\ ApprovalAtomic
  BY DEF SerialInv, OverlapInv, WorkerInv
<1>2. /\ r \in DOMAIN due[w] /\ r \in DOMAIN events /\ r \in DOMAIN requests
      /\ r \in Requests
      /\ answer[w] = "NONE"
      /\ UNCHANGED <<requests, balances, ledger, events, due>>
      /\ submits' = [submits EXCEPT ![r] = @ + 1]
  BY <1>1, HcmEffect DEF reqVars
<1>3. PICK kind \in Answers \ {"NONE"} :
         /\ answer' = [answer EXCEPT ![w] = kind]
         /\ \/ kind # "OK" /\ applied' = applied
            \/ kind = "OK" /\ applied' = [applied EXCEPT ![r] = @ + 1]
  BY <1>1, HcmEffect DEF TrustedAnswers
<1>4. Current(w)' = r
  BY <1>2, CurrentStable
<1> HIDE DEF r
<1>5. \A x : ~Answered(x) /\ ~Confirmed(x)
  BY <1>2, NothingAnswered
<1>6. answer'[w] = kind
  BY <1>1, <1>3 DEF WorkerTypeOK
<1>7. \A x : (Answered(x)' <=> x = r) /\ (Confirmed(x)' <=> x = r /\ kind = "OK")
  BY <1>3, <1>4, <1>6 DEF AtMostOneRun, Answered, Confirmed
<1>8. Live(r) /\ requests[r].status = "APPROVED"
  BY <1>2 DEF SerialInv, ListingIsFresh, OutboxMatchesRequest
<1>9. OverlapInv'
  BY OverlapStep DEF SerialInv, Next, WorkerNext, HcmStep
<1>10. ConsumedIsKnown'
  <2> SUFFICES ASSUME NEW x \in Requests
               PROVE  applied'[x] = IF /\ x \in DOMAIN requests
                                       /\ \/ requests[x].status = "SYNCED"
                                          \/ x = r /\ kind = "OK"
                                      THEN 1 ELSE 0
    BY <1>2, <1>7 DEF ConsumedIsKnown
  <2>1. applied[x] = IF x \in DOMAIN requests /\ requests[x].status = "SYNCED"
                       THEN 1 ELSE 0
    BY <1>5 DEF SerialInv, ConsumedIsKnown
  <2>2. applied'[x] = IF x = r /\ kind = "OK" THEN applied[x] + 1 ELSE applied[x]
    BY <1>1, <1>3 DEF WorkerTypeOK
  <2> QED BY <1>2, <1>8, <2>1, <2>2
<1>11. SubmitsCounted'
  <2>1. /\ events[r].attemptCount < MaxAttempts
        /\ submits[r] = events[r].attemptCount
        /\ events[r].attemptCount \in Nat
    BY <1>1, <1>2, <1>5, <1>8 DEF SerialInv, SubmitsCounted, WorkerTypeOK, TypeOK, EventRow
  <2>2. submits'[r] = submits[r] + 1 /\ \A x \in Requests : x # r => submits'[x] = submits[x]
    BY <1>1, <1>2 DEF WorkerTypeOK
  <2>3. AttemptsBounded'
    BY <2>1, <2>2, MaxAttemptsAssumption DEF SerialInv, SubmitsCounted, AttemptsBounded
  <2>4. \A x \in Requests \ DOMAIN events' : submits'[x] = 0
    BY <1>2, <2>2 DEF SerialInv, SubmitsCounted
  <2>5. ASSUME NEW x \in DOMAIN events, Live(x)
        PROVE  /\ events[x].attemptCount < MaxAttempts
               /\ submits'[x] = events[x].attemptCount + (IF x = r THEN 1 ELSE 0)
    <3>1. x \in Requests
      BY <1>1 DEF WorkerTypeOK, TypeOK
    <3>2. /\ events[x].attemptCount < MaxAttempts
          /\ submits[x] = events[x].attemptCount + 0
      BY <1>5, <2>5 DEF SerialInv, SubmitsCounted
    <3>3. CASE x = r
      BY <2>1, <2>2, <3>3
    <3>4. CASE x # r
      BY <2>2, <3>1, <3>2, <3>4
    <3> QED BY <3>3, <3>4
  <2> QED BY <1>2, <1>7, <2>3, <2>4, <2>5 DEF SubmitsCounted, Live
<1>12. OutboxMatchesRequest' /\ ListingIsFresh' /\ RowsExist'
  BY <1>2 DEF SerialInv, OutboxMatchesRequest, ListingIsFresh, Live, RowsExist
<1> QED BY <1>9, <1>10, <1>11, <1>12 DEF SerialInv

LEMMA SerialResume ==
  ASSUME AtMostOneRun, SerialInv, NEW w \in Runs, Resume(w)
  PROVE  SerialInv'
<1> DEFINE r == Current(w)
           OkStep == /\ answer[w] = "OK"
                     /\ requests'[r].status = "SYNCED"
                     /\ events'[r].status = "PROCESSED"
                     /\ balances' = balances
           RetryStep == /\ answer[w] = "TRANSIENT" /\ due[w][r] + 1 < MaxAttempts
                        /\ events'[r].status = "RETRY_PENDING"
                        /\ events'[r].attemptCount = due[w][r] + 1
                        /\ requests' = requests /\ balances' = balances
           FailStep == /\ answer[w] \notin {"NONE", "OK"}
                       /\ requests'[r].status = "REVERSED"
                       /\ events'[r].status = "FAILED"
                       /\ balances' = DaysReturned(r)
<1>1. WorkerTypeOK /\ ApprovalAtomic
  BY DEF SerialInv, OverlapInv, WorkerInv
<1>2. /\ r \in DOMAIN due[w] /\ r \in DOMAIN events /\ r \in DOMAIN requests
      /\ DOMAIN events' = DOMAIN events
      /\ DOMAIN requests' = DOMAIN requests
      /\ \A x \in DOMAIN events : x # r => events'[x] = events[x]
      /\ \A x \in DOMAIN requests : x # r => requests'[x] = requests[x]
      /\ requests'[r].key = requests[r].key
      /\ requests'[r].days = requests[r].days
  BY <1>1, ResumeEffect
<1>3. OkStep \/ RetryStep \/ FailStep
  BY <1>1, ResumeEffect
<1>4. /\ DOMAIN due'[w] = DOMAIN due[w] \ {r}
      /\ \A x \in DOMAIN due'[w] : due'[w][x] = due[w][x]
      /\ answer' = [answer EXCEPT ![w] = "NONE"]
      /\ UNCHANGED <<hcm, applied, submits>>
  BY <1>1, ResumeAdvances
<1>5. \A x : ~Answered(x)' /\ ~Confirmed(x)'
  <2>1. answer'[w] = "NONE"
    BY <1>1, <1>4 DEF WorkerTypeOK
  <2> QED BY <2>1 DEF AtMostOneRun, Answered, Confirmed
<1>6. \A x : /\ Answered(x) <=> x = r
             /\ Confirmed(x) <=> x = r /\ answer[w] = "OK"
  BY <1>3 DEF AtMostOneRun, Answered, Confirmed
<1>7. /\ Live(r) /\ requests[r].status = "APPROVED"
      /\ due[w][r] = events[r].attemptCount
      /\ events[r].attemptCount \in Nat
      /\ submits[r] = events[r].attemptCount + 1
  <2>1. Live(r) /\ due[w][r] = events[r].attemptCount
    BY <1>2 DEF SerialInv, ListingIsFresh
  <2>2. requests[r].status = "APPROVED"
    BY <1>2, <2>1 DEF SerialInv, OutboxMatchesRequest
  <2>3. submits[r] = events[r].attemptCount + 1
    BY <1>2, <1>6, <2>1 DEF SerialInv, SubmitsCounted
  <2> QED BY <1>1, <1>2, <2>1, <2>2, <2>3 DEF WorkerTypeOK, TypeOK, EventRow
<1>8. DOMAIN events \subseteq DOMAIN requests /\ DOMAIN requests \subseteq Requests
  BY <1>1, EventsAreApproved DEF WorkerTypeOK, TypeOK
<1>9. OverlapInv'
  BY OverlapStep DEF SerialInv, Next, WorkerNext, Resume
<1> HIDE DEF r
<1>10. OutboxMatchesRequest'
  <2>1. ASSUME NEW x \in DOMAIN events, x # r
        PROVE  /\ events'[x].status \in {"QUEUED", "RETRY_PENDING"}
                    <=> requests'[x].status = "APPROVED"
               /\ events'[x].status = "PROCESSED" <=> requests'[x].status = "SYNCED"
               /\ events'[x].status = "FAILED" <=> requests'[x].status = "REVERSED"
    <3>1. events'[x] = events[x] /\ requests'[x] = requests[x]
      BY <1>2, <1>8, <2>1
    <3> QED BY <3>1 DEF SerialInv, OutboxMatchesRequest, Live
  <2>2. /\ events'[r].status \in {"QUEUED", "RETRY_PENDING"}
             <=> requests'[r].status = "APPROVED"
        /\ events'[r].status = "PROCESSED" <=> requests'[r].status = "SYNCED"
        /\ events'[r].status = "FAILED" <=> requests'[r].status = "REVERSED"
    BY <1>3, <1>7 DEF Live
  <2> QED BY <1>2, <2>1, <2>2 DEF OutboxMatchesRequest, Live
<1>11. ListingIsFresh'
  <2>1. ASSUME NEW x \in DOMAIN due'[w]
        PROVE  Live(x)' /\ due'[w][x] = events'[x].attemptCount
    <3>1. x \in DOMAIN due[w] /\ x # r /\ due'[w][x] = due[w][x]
      BY <1>4, <2>1
    <3>2. events'[x] = events[x]
      BY <1>1, <1>2, <3>1 DEF WorkerTypeOK
    <3> QED BY <3>1, <3>2 DEF SerialInv, ListingIsFresh, Live
  <2> QED BY <2>1 DEF ListingIsFresh, AtMostOneRun
<1>12. ConsumedIsKnown'
  <2> SUFFICES ASSUME NEW x \in Requests
               PROVE  applied[x] = IF x \in DOMAIN requests /\ requests'[x].status = "SYNCED"
                                     THEN 1 ELSE 0
    BY <1>2, <1>4, <1>5 DEF ConsumedIsKnown
  <2>1. applied[x] = IF /\ x \in DOMAIN requests
                        /\ \/ requests[x].status = "SYNCED"
                           \/ x = r /\ answer[w] = "OK"
                       THEN 1 ELSE 0
    BY <1>6 DEF SerialInv, ConsumedIsKnown
  <2>2. CASE x = r
    BY <1>2, <1>3, <1>7, <2>1, <2>2
  <2>3. CASE x # r
    BY <1>2, <2>1, <2>3
  <2> QED BY <2>2, <2>3
<1>13. SubmitsCounted'
  <2>1. /\ AttemptsBounded'
        /\ \A x \in Requests \ DOMAIN events' : submits'[x] = 0
    BY <1>2, <1>4 DEF SerialInv, SubmitsCounted, AttemptsBounded
  <2>2. ASSUME NEW x \in DOMAIN events, Live(x)'
        PROVE  /\ events'[x].attemptCount < MaxAttempts
               /\ submits[x] = events'[x].attemptCount + 0
    <3>1. CASE x = r
      <4>1. RetryStep
        BY <1>3, <2>2, <3>1 DEF Live
      <4> QED BY <1>7, <3>1, <4>1
    <3>2. CASE x # r
      <4>1. events'[x] = events[x] /\ Live(x)
        BY <1>2, <2>2, <3>2 DEF Live
      <4> QED BY <1>6, <3>2, <4>1 DEF SerialInv, SubmitsCounted
    <3> QED BY <3>1, <3>2
  <2> QED BY <1>2, <1>4, <1>5, <2>1, <2>2 DEF SubmitsCounted
<1>14. RowsExist'
  BY <1>1, RowsExistResume DEF SerialInv
<1> QED BY <1>9, <1>10, <1>11, <1>12, <1>13, <1>14 DEF SerialInv

LEMMA SerialBackoff ==
  ASSUME SerialInv, NEW r \in Requests, BackoffElapsed(r)
  PROVE  SerialInv'
<1>1. WorkerTypeOK
  BY DEF SerialInv, OverlapInv, WorkerInv
<1>2. /\ r \in DOMAIN events
      /\ events' = [events EXCEPT ![r].waiting = FALSE]
      /\ UNCHANGED <<requests, balances, ledger, hcm, due, answer, applied, submits>>
  BY DEF BackoffElapsed, workerVars
<1>3. /\ DOMAIN events' = DOMAIN events
      /\ \A x \in DOMAIN events : /\ events'[x].createdAt = events[x].createdAt
                                  /\ events'[x].status = events[x].status
                                  /\ events'[x].attemptCount = events[x].attemptCount
  <2>1. events[r] \in EventRow
    BY <1>1, <1>2 DEF WorkerTypeOK, TypeOK
  <2> QED BY <1>1, <1>2, <2>1 DEF WorkerTypeOK, TypeOK, EventRow
<1>4. \A w \in Runs : Current(w)' = Current(w)
  BY <1>1, <1>2, <1>3, CurrentStable DEF WorkerTypeOK
<1>5. \A x : (Answered(x)' <=> Answered(x)) /\ (Confirmed(x)' <=> Confirmed(x))
  BY <1>2, <1>4, AnswersStable
<1>6. OverlapInv'
  BY OverlapStep DEF SerialInv, Next, WorkerNext
<1>7. OutboxMatchesRequest'
  BY <1>2, <1>3 DEF SerialInv, OutboxMatchesRequest, Live
<1>8. ListingIsFresh'
  BY <1>1, <1>2, <1>3 DEF SerialInv, ListingIsFresh, Live, WorkerTypeOK
<1>9. ConsumedIsKnown'
  BY <1>2, <1>5 DEF SerialInv, ConsumedIsKnown
<1>10. SubmitsCounted'
  BY <1>2, <1>3, <1>5 DEF SerialInv, SubmitsCounted, AttemptsBounded, Live
<1>11. RowsExist'
  BY <1>2, <1>3 DEF SerialInv, RowsExist
<1> QED BY <1>6, <1>7, <1>8, <1>9, <1>10, <1>11 DEF SerialInv

LEMMA SerialStep ==
  ASSUME AtMostOneRun, TrustedAnswers, SerialInv, [Next]_vars
  PROVE  SerialInv'
<1>1. CASE (RequestNext /\ UNCHANGED workerVars) \/ UNCHANGED vars
  BY <1>1, SerialLifecycle DEF vars, reqVars, workerVars
<1>2. CASE \E w \in Runs : StartRun(w)
  BY <1>2, SerialStart
<1>3. CASE \E w \in Runs : HcmStep(w)
  BY <1>3, SerialHcm
<1>4. CASE \E w \in Runs : Resume(w)
  BY <1>4, SerialResume
<1>5. CASE \E r \in Requests : BackoffElapsed(r)
  BY <1>5, SerialBackoff
<1> QED
  BY <1>1, <1>2, <1>3, <1>4, <1>5 DEF Next, WorkerNext, HcmStep, Resume

LEMMA SerialInvariant ==
  ASSUME AtMostOneRun, TrustedAnswers
  PROVE  Spec => []SerialInv
<1>1. SerialInv /\ [Next]_vars => SerialInv'
  BY SerialStep
<1> QED BY <1>1, SerialInit, PTL DEF Spec

LEMMA SerialIsExact == SerialInv => ExactlyOnceAtHcm
<1> SUFFICES ASSUME SerialInv, NEW r \in DOMAIN requests
             PROVE  /\ applied[r] <= 1
                    /\ requests[r].status = "SYNCED" => applied[r] = 1
                    /\ requests[r].status \notin {"APPROVED", "SYNCED"} => applied[r] = 0
  BY DEF ExactlyOnceAtHcm
<1>1. r \in Requests /\ WorkerTypeOK
  BY DEF SerialInv, OverlapInv, WorkerInv, WorkerTypeOK, TypeOK
<1>2. applied[r] = IF requests[r].status = "SYNCED" \/ Confirmed(r) THEN 1 ELSE 0
  BY <1>1 DEF SerialInv, ConsumedIsKnown
<1>3. Confirmed(r) => requests[r].status = "APPROVED"
  BY <1>1, CurrentIsListed
  DEF Confirmed, SerialInv, ListingIsFresh, OutboxMatchesRequest, WorkerTypeOK
<1> QED BY <1>2, <1>3

\* With one run at a time and failures that can be trusted, HCM consumes the
\* days of every SYNCED request once, and never those of a reversed one.
THEOREM ConsumedExactlyOnce ==
  ASSUME AtMostOneRun, TrustedAnswers
  PROVE  Spec => []ExactlyOnceAtHcm
<1> QED BY SerialIsExact, SerialInvariant, PTL

\* Under the same assumptions the outbox always agrees with the requests.
THEOREM OutboxAgrees ==
  ASSUME AtMostOneRun, TrustedAnswers
  PROVE  Spec => []OutboxMatchesRequest
<1>1. SerialInv => OutboxMatchesRequest
  BY DEF SerialInv
<1> QED BY <1>1, SerialInvariant, PTL

\* Under the same assumptions no request is submitted more than
\* SYNC_MAX_ATTEMPTS times.
THEOREM SubmissionsBounded ==
  ASSUME AtMostOneRun, TrustedAnswers
  PROVE  Spec => []AttemptsBounded
<1>1. SerialInv => AttemptsBounded
  BY DEF SerialInv, SubmitsCounted
<1> QED BY <1>1, SerialInvariant, PTL

-----------------------------------------------------------------------------
(* The status policy *)

LEMMA LifecyclePolicy ==
  ASSUME TypeOK, RequestNext, NEW x \in DOMAIN requests,
         requests'[x].status # requests[x].status
  PROVE  CanTransition(requests[x].status, requests'[x].status)
<1>1. ASSUME NEW r \in Requests, NEW s \in {"APPROVED", "REJECTED", "CANCELLED"},
             r \in DOMAIN requests, CanTransition(requests[r].status, s), save(r, s)
      PROVE  CanTransition(requests[x].status, requests'[x].status)
  <2>1. /\ x # r => requests'[x] = requests[x]
        /\ requests'[r].status = s
    BY <1>1, SaveEffect DEF RequestStatus
  <2>2. x = r
    BY <2>1
  <2> QED BY <1>1, <2>1, <2>2
<1>2. ASSUME NEW r \in Requests, NEW k \in Keys, NEW d \in DayInputs, Create(r, k, d)
      PROVE  FALSE
  BY <1>2 DEF Create, Insert
<1>3. CASE \E r \in Requests : Approve(r) \/ Reject(r) \/ Cancel(r)
  BY <1>1, <1>3 DEF Approve, Reject, Cancel
<1>4. CASE \E k \in Keys : GetBalance(k)
  BY <1>4 DEF GetBalance
<1> QED BY <1>2, <1>3, <1>4 DEF RequestNext

\* Though markRequestSynced and markRequestFailedAndReversed never consult the
\* status policy, with one run at a time every status change follows it.
THEOREM WorkerFollowsPolicy ==
  ASSUME AtMostOneRun, TrustedAnswers
  PROVE  Spec => PolicyRespected
<1> DEFINE Follows == \A r \in DOMAIN requests :
                        requests'[r].status # requests[r].status
                          => CanTransition(requests[r].status, requests'[r].status)
<1>1. SerialInv /\ [Next]_vars => [Follows]_vars
  <2> SUFFICES ASSUME SerialInv, Next PROVE Follows
    BY DEF vars
  <2>1. CASE RequestNext
    BY <2>1, LifecyclePolicy DEF SerialInv, OverlapInv, WorkerInv, WorkerTypeOK
  <2>2. CASE \E w \in Runs : Resume(w)
    <3> PICK w \in Runs : Resume(w)
      BY <2>2
    <3> DEFINE r == Current(w)
    <3>1. WorkerTypeOK /\ ApprovalAtomic
      BY DEF SerialInv, OverlapInv, WorkerInv
    <3>2. /\ r \in DOMAIN due[w] /\ r \in DOMAIN events
          /\ \A x \in DOMAIN requests : x # r => requests'[x] = requests[x]
          /\ requests' = requests \/ requests'[r].status \in {"SYNCED", "REVERSED"}
      BY <3>1, ResumeEffect
    <3>3. requests[r].status = "APPROVED"
      BY <3>2 DEF SerialInv, ListingIsFresh, OutboxMatchesRequest
    <3>4. /\ CanTransition("APPROVED", "SYNCED")
          /\ CanTransition("APPROVED", "REVERSED")
      BY DEF CanTransition, allowedTransitions, RequestStatus
    <3> HIDE DEF r
    <3> QED BY <3>2, <3>3, <3>4
  <2>3. CASE requests' = requests
    BY <2>3
  <2>4. \/ RequestNext \/ requests' = requests
        \/ \E w \in Runs : Resume(w)
    BY DEF Next, WorkerNext, StartRun, HcmConsume, HcmInsufficient, HcmFault,
           Refuse, Accept, BackoffElapsed, Resume, reqVars
  <2> QED BY <2>1, <2>2, <2>3, <2>4
<1> QED BY <1>1, SerialInvariant, PTL DEF PolicyRespected, Spec

-----------------------------------------------------------------------------
(* The reservation contract *)

LEMMA ReservationInit == OutboundInit => R!RInit
<1> SUFFICES ASSUME OutboundInit PROVE R!RInit
  OBVIOUS
<1>1. DOMAIN events = {}
  BY DEF OutboundInit, Init
<1>2. availBar = Imported
  BY ImportedAssumption DEF OutboundInit, Init, availBar, NoBalance, upsertAbsolute
<1>3. heldBar = [r \in {} |-> "HELD"]
  BY <1>1 DEF heldBar
<1> QED BY <1>2, <1>3 DEF OutboundInit, R!RInit

\* Steps that neither approve nor reverse a request, and reach no balance.
LEMMA ReservationStutter ==
  ASSUME DOMAIN events' = DOMAIN events,
         \A x \in DOMAIN events :
           /\ requests'[x].key = requests[x].key
           /\ requests'[x].days = requests[x].days
           /\ applied'[x] = applied[x]
           /\ \/ applied[x] > 0
              \/ requests'[x].status = "REVERSED" <=> requests[x].status = "REVERSED",
         \A k \in Keys : balances'[k].availableDays = balances[k].availableDays,
         hcm' = hcm
  PROVE  UNCHANGED R!rvars
<1>1. availBar' = availBar
  BY DEF availBar
<1>2. \A x \in DOMAIN events : HoldOf(x)' = HoldOf(x)
  BY DEF HoldOf
<1>3. heldBar' = heldBar
  BY <1>2 DEF heldBar
<1> QED BY <1>1, <1>3 DEF R!rvars

LEMMA ApproveReserves ==
  ASSUME SerialInv, NEW r \in Requests, Approve(r), UNCHANGED workerVars
  PROVE  R!Reserve(r, requests[r].key, requests[r].days)
<1> DEFINE k == requests[r].key
           days == requests[r].days
           current == GetOrCreate(balances[k])
<1>1. TypeOK /\ WorkerTypeOK /\ ApprovalAtomic
  BY DEF SerialInv, OverlapInv, WorkerInv, WorkerTypeOK
<1>2. /\ r \in DOMAIN requests
      /\ CanTransition(requests[r].status, "APPROVED")
      /\ HasBalance(current.availableDays, days)
      /\ balances' = [balances EXCEPT ![k] = Consume(current, days)]
      /\ save(r, "APPROVED")
      /\ events' = Insert(events, r, NewEvent)
  BY DEF Approve
<1>3. k \in Keys /\ days \in Nat /\ days > 0 /\ balances[k] \in BalanceRow
  BY <1>1, <1>2 DEF TypeOK, RequestRow
<1>4. requests[r].status = "PENDING"
  <2>1. requests[r].status \in RequestStatus
    BY <1>1, <1>2 DEF TypeOK, RequestRow
  <2> QED BY <1>2, <2>1 DEF CanTransition, allowedTransitions, RequestStatus
<1>5. r \notin DOMAIN events
  BY <1>1, <1>2, <1>4 DEF ApprovalAtomic, Unrecorded, WasApproved
<1>6. /\ DOMAIN events' = DOMAIN events \union {r}
      /\ \A x \in DOMAIN requests : x # r => requests'[x] = requests[x]
      /\ requests'[r].status = "APPROVED"
      /\ requests'[r].key = k
      /\ requests'[r].days = days
  <2>1. DOMAIN events' = DOMAIN events \union {r}
    BY <1>2 DEF Insert
  <2> QED BY <1>1, <1>2, <2>1, SaveEffect DEF RequestStatus
<1>7. current \in BalanceRow /\ current.availableDays = balances[k].availableDays
  <2>1. ~HasRow(balances[k]) => balances[k].availableDays = 0
    BY <1>3 DEF SerialInv, RowsExist
  <2> HIDE DEF k
  <2>2. current \in BalanceRow
    BY <1>3, RowOps
  <2>3. current.availableDays = balances[k].availableDays
    BY <1>3, <2>1 DEF GetOrCreate, upsertAbsolute
  <2> QED BY <2>2, <2>3
<1>8. applied[r] = 0 /\ applied' = applied /\ hcm' = hcm
  <2>1. ~Confirmed(r)
    BY <1>1, <1>5, AnsweredIsListed, ConfirmedIsAnswered
  <2> QED BY <1>4, <2>1 DEF SerialInv, ConsumedIsKnown, workerVars
<1>9. availBar[k] >= days /\ availBar' = [availBar EXCEPT ![k] = @ - days]
  <2> HIDE DEF k, days, current
  <2>1. current.availableDays \in Nat /\ current.availableDays >= days
    BY <1>2, <1>3, <1>7 DEF HasBalance, BalanceRow
  <2>2. Consume(current, days).availableDays = balances[k].availableDays - days
    BY <1>7 DEF Consume
  <2>3. \A x \in Keys : balances'[x].availableDays =
           IF x = k THEN balances[k].availableDays - days ELSE balances[x].availableDays
    BY <1>1, <1>2, <1>3, <2>2 DEF TypeOK
  <2> QED BY <1>3, <1>7, <2>1, <2>3 DEF availBar
<1>10. heldBar' = [x \in DOMAIN heldBar \union {r} |->
                     IF x = r THEN [key |-> k, days |-> days, state |-> "HELD"]
                              ELSE heldBar[x]]
  <2>1. HoldOf(r)' = [key |-> k, days |-> days, state |-> "HELD"]
    BY <1>6, <1>8 DEF HoldOf
  <2>2. \A x \in DOMAIN events : HoldOf(x)' = HoldOf(x)
    <3>1. DOMAIN events \subseteq DOMAIN requests
      BY <1>1, EventsAreApproved
    <3> QED BY <1>5, <1>6, <1>8, <3>1 DEF HoldOf
  <2> HIDE DEF k, days
  <2> QED BY <1>5, <1>6, <2>1, <2>2 DEF heldBar
<1>11. r \notin DOMAIN heldBar
  BY <1>5 DEF heldBar
<1> QED BY <1>3, <1>8, <1>9, <1>10, <1>11 DEF R!Reserve

\* The lifecycle's other handlers are invisible to the contract.
LEMMA LifecycleReserves ==
  ASSUME SerialInv, [RequestNext]_reqVars, UNCHANGED workerVars
  PROVE  [R!RNext]_(R!rvars)
<1>1. TypeOK /\ WorkerTypeOK /\ ApprovalAtomic
  BY DEF SerialInv, OverlapInv, WorkerInv, WorkerTypeOK
<1>2. CASE \E r \in Requests : Approve(r)
  <2> PICK r \in Requests : Approve(r)
    BY <1>2
  <2>1. requests[r].key \in Keys /\ requests[r].days \in DayInputs
    BY <1>1 DEF Approve, SerialInv, RowsExist, TypeOK, RequestRow
  <2> QED BY <2>1, ApproveReserves DEF R!RNext
<1>3. ASSUME events' = events,
             \A k \in Keys : balances'[k].availableDays = balances[k].availableDays
      PROVE  UNCHANGED R!rvars
  <2>1. \A x \in DOMAIN events : requests'[x] = requests[x]
    BY <1>1, EventsAreApproved, LifecycleFrame
  <2> QED BY <1>3, <2>1, ReservationStutter DEF workerVars
<1>4. CASE \E k \in Keys : GetBalance(k)
  <2> PICK k \in Keys : GetBalance(k)
    BY <1>4
  <2>1. /\ events' = events
        /\ balances' = [balances EXCEPT ![k] = upsertAbsolute(balances[k], 0)]
        /\ balances[k].availableDays = 0
    BY DEF GetBalance, GetOrCreate, SerialInv, RowsExist
  <2>2. \A x \in Keys : balances'[x].availableDays = balances[x].availableDays
    BY <1>1, <2>1 DEF TypeOK, upsertAbsolute
  <2> QED BY <1>3, <2>1, <2>2
<1>5. CASE \/ \E r \in Requests, k \in Keys, d \in DayInputs : Create(r, k, d)
           \/ \E r \in Requests : Reject(r) \/ Cancel(r)
           \/ UNCHANGED reqVars
  <2>1. events' = events /\ balances' = balances
    BY <1>5 DEF Create, Reject, Cancel, reqVars
  <2> QED BY <1>3, <2>1
<1> QED BY <1>2, <1>4, <1>5 DEF RequestNext

\* HCM consuming the days of a submission is the contract's charge.
LEMMA HcmCharges ==
  ASSUME AtMostOneRun, TrustedAnswers, SerialInv, NEW w \in Runs, HcmStep(w)
  PROVE  [R!RNext]_(R!rvars)
<1> DEFINE r == Current(w)
<1>1. WorkerTypeOK /\ ApprovalAtomic
  BY DEF SerialInv, OverlapInv, WorkerInv
<1>2. /\ r \in DOMAIN due[w] /\ r \in DOMAIN events /\ r \in DOMAIN requests
      /\ r \in Requests
      /\ answer[w] = "NONE"
      /\ UNCHANGED <<requests, balances, events>>
  BY <1>1, HcmEffect DEF reqVars
<1>3. \/ UNCHANGED <<hcm, applied>>
      \/ /\ hcm' = [hcm EXCEPT ![requests[r].key] = @ - requests[r].days]
         /\ applied' = [applied EXCEPT ![r] = @ + 1]
  BY <1>1, HcmEffect
<1> HIDE DEF r
<1>4. CASE UNCHANGED <<hcm, applied>>
  BY <1>2, <1>4, ReservationStutter
<1>5. CASE /\ hcm' = [hcm EXCEPT ![requests[r].key] = @ - requests[r].days]
           /\ applied' = [applied EXCEPT ![r] = @ + 1]
  <2>1. requests[r].status = "APPROVED" /\ applied[r] = 0
    <3>1. ~Confirmed(r) /\ requests[r].status = "APPROVED"
      BY <1>2, NothingAnswered DEF SerialInv, ListingIsFresh, OutboxMatchesRequest
    <3> QED BY <1>2, <3>1 DEF SerialInv, ConsumedIsKnown
  <2>2. heldBar[r] = [key |-> requests[r].key, days |-> requests[r].days, state |-> "HELD"]
    BY <1>2, <2>1 DEF heldBar, HoldOf
  <2>3. /\ applied'[r] = 1
        /\ \A x \in Requests : x # r => applied'[x] = applied[x]
    BY <1>1, <1>2, <1>5, <2>1 DEF WorkerTypeOK
  <2>4. \A x \in DOMAIN events :
           heldBar'[x] = IF x = r THEN [key |-> requests[r].key, days |-> requests[r].days,
                                        state |-> "CHARGED"]
                                  ELSE heldBar[x]
    <3>1. DOMAIN events \subseteq Requests
      BY <1>1 DEF WorkerTypeOK, TypeOK
    <3> QED BY <1>2, <2>3, <3>1 DEF heldBar, HoldOf
  <2>5. DOMAIN heldBar' = DOMAIN events /\ DOMAIN heldBar = DOMAIN events
    BY <1>2 DEF heldBar
  <2>6. heldBar' = [heldBar EXCEPT ![r].state = "CHARGED"]
    <3>1. [heldBar[r] EXCEPT !.state = "CHARGED"] =
             [key |-> requests[r].key, days |-> requests[r].days, state |-> "CHARGED"]
      BY <2>2
    <3>2. heldBar' = [x \in DOMAIN events |-> heldBar'[x]]
      BY <1>2 DEF heldBar
    <3>3. heldBar = [x \in DOMAIN events |-> heldBar[x]]
      BY DEF heldBar
    <3> QED BY <1>2, <2>4, <3>1, <3>2, <3>3
  <2>7. availBar' = availBar
    BY <1>2 DEF availBar
  <2>8. R!Charge(r)
    BY <1>2, <1>5, <2>2, <2>5, <2>6, <2>7 DEF R!Charge
  <2> QED BY <1>2, <2>8 DEF R!RNext
<1> QED BY <1>3, <1>4, <1>5

\* The worker's compensation is the contract's return; its other outcomes are
\* invisible.
LEMMA ResumeReturns ==
  ASSUME AtMostOneRun, SerialInv, NEW w \in Runs, Resume(w)
  PROVE  [R!RNext]_(R!rvars)
<1> DEFINE r == Current(w)
           k == requests[r].key
           d == requests[r].days
<1>1. WorkerTypeOK /\ ApprovalAtomic
  BY DEF SerialInv, OverlapInv, WorkerInv
<1>2. /\ r \in DOMAIN due[w] /\ r \in DOMAIN events /\ r \in DOMAIN requests
      /\ DOMAIN events' = DOMAIN events
      /\ \A x \in DOMAIN requests : x # r => requests'[x] = requests[x]
      /\ requests'[r].key = k
      /\ requests'[r].days = d
  BY <1>1, ResumeEffect
<1>3. \/ /\ answer[w] = "OK" /\ balances' = balances
      \/ /\ requests' = requests /\ balances' = balances
      \/ /\ answer[w] \notin {"NONE", "OK"}
         /\ requests'[r].status = "REVERSED"
         /\ balances' = DaysReturned(r)
  BY <1>1, ResumeEffect
<1>4. UNCHANGED <<hcm, applied>>
  BY <1>1, ResumeAdvances
<1>5. \A x : Confirmed(x) <=> x = r /\ answer[w] = "OK"
  BY DEF AtMostOneRun, Confirmed
<1>6. requests[r].status = "APPROVED"
  BY <1>2 DEF SerialInv, ListingIsFresh, OutboxMatchesRequest
<1>7. r \in Requests /\ DOMAIN events \subseteq DOMAIN requests
  BY <1>1, <1>2, EventsAreApproved DEF WorkerTypeOK, TypeOK
<1>8. k \in Keys /\ d \in Nat /\ balances[k] \in BalanceRow /\ HasRow(balances[k])
  BY <1>1, <1>2 DEF WorkerTypeOK, TypeOK, RequestRow, SerialInv, RowsExist
<1> HIDE DEF r
<1>9. applied[r] = IF answer[w] = "OK" THEN 1 ELSE 0
  BY <1>2, <1>5, <1>6, <1>7 DEF SerialInv, ConsumedIsKnown
<1>10. CASE answer[w] = "OK" /\ balances' = balances
  <2>1. \A x \in DOMAIN events :
           /\ requests'[x].key = requests[x].key
           /\ requests'[x].days = requests[x].days
           /\ applied'[x] = applied[x]
           /\ \/ applied[x] > 0
              \/ requests'[x].status = "REVERSED" <=> requests[x].status = "REVERSED"
    BY <1>2, <1>4, <1>7, <1>9, <1>10
  <2> QED BY <1>2, <1>4, <1>10, <2>1, ReservationStutter
<1>11. CASE requests' = requests /\ balances' = balances
  BY <1>2, <1>4, <1>11, ReservationStutter
<1>12. CASE /\ answer[w] \notin {"NONE", "OK"}
            /\ requests'[r].status = "REVERSED"
            /\ balances' = DaysReturned(r)
  <2>1. applied[r] = 0 /\ applied'[r] = 0
    BY <1>4, <1>9, <1>12
  <2>2. heldBar[r] = [key |-> k, days |-> d, state |-> "HELD"]
    BY <1>2, <1>6, <2>1 DEF heldBar, HoldOf
  <2>3. balances' = [balances EXCEPT ![k] = Credit(balances[k], d)]
    BY <1>12 DEF DaysReturned
  <2> HIDE DEF k, d
  <2>4. heldBar' = [x \in DOMAIN events |-> heldBar'[x]]
        /\ heldBar = [x \in DOMAIN events |-> heldBar[x]]
    BY <1>2 DEF heldBar
  <2>5. \A x \in DOMAIN events :
           heldBar'[x] = IF x = r THEN [key |-> k, days |-> d, state |-> "RETURNED"]
                                  ELSE heldBar[x]
    BY <1>2, <1>4, <1>7, <1>12, <2>1 DEF heldBar, HoldOf
  <2>6. heldBar' = [heldBar EXCEPT ![r].state = "RETURNED"]
    <3>1. [heldBar[r] EXCEPT !.state = "RETURNED"] =
             [key |-> k, days |-> d, state |-> "RETURNED"]
      BY <2>2
    <3> QED BY <1>2, <2>4, <2>5, <3>1
  <2>7. availBar' = [availBar EXCEPT ![k] = @ + d]
    <3>1. Credit(balances[k], d).availableDays = balances[k].availableDays + d
      BY <1>8 DEF Credit
    <3>2. \A x \in Keys : balances'[x].availableDays =
             IF x = k THEN balances[k].availableDays + d ELSE balances[x].availableDays
      BY <1>1, <1>8, <2>3, <3>1 DEF WorkerTypeOK, TypeOK
    <3> QED BY <1>8, <3>2 DEF availBar
  <2>8. r \in DOMAIN heldBar
    BY <1>2 DEF heldBar
  <2>9. R!Return(r)
    BY <1>4, <2>2, <2>6, <2>7, <2>8 DEF R!Return
  <2> QED BY <1>7, <2>9 DEF R!RNext
<1> QED BY <1>3, <1>10, <1>11, <1>12

LEMMA ReservationStep ==
  ASSUME AtMostOneRun, TrustedAnswers, SerialInv, [Next]_vars
  PROVE  [R!RNext]_(R!rvars)
<1>1. CASE (RequestNext /\ UNCHANGED workerVars) \/ UNCHANGED vars
  BY <1>1, LifecycleReserves DEF vars, reqVars, workerVars
<1>2. CASE \E w \in Runs : StartRun(w)
  <2>1. UNCHANGED <<requests, balances, events, hcm, applied>>
    BY <1>2 DEF StartRun, reqVars
  <2> QED BY <2>1, ReservationStutter
<1>3. CASE \E w \in Runs : HcmStep(w)
  BY <1>3, HcmCharges
<1>4. CASE \E w \in Runs : Resume(w)
  BY <1>4, ResumeReturns
<1>5. CASE \E r \in Requests : BackoffElapsed(r)
  <2>1. UNCHANGED <<requests, balances, hcm, applied>> /\ DOMAIN events' = DOMAIN events
    BY <1>5 DEF BackoffElapsed, workerVars
  <2> QED BY <2>1, ReservationStutter
<1> QED
  BY <1>1, <1>2, <1>3, <1>4, <1>5 DEF Next, WorkerNext, HcmStep, Resume

\* Approval, outbox, worker and HCM together implement the reservation
\* contract, for any number of requests, attempts and batch sizes, as long as
\* runs do not overlap and failures can be trusted.
THEOREM SyncImplementsReservation ==
  ASSUME AtMostOneRun, TrustedAnswers
  PROVE  Spec => ImplementsReservation
<1>1. SerialInv /\ [Next]_vars => [R!RNext]_(R!rvars)
  BY ReservationStep
<1> QED
  BY <1>1, ReservationInit, SerialInvariant, PTL
  DEF Spec, ImplementsReservation, R!RSpec

-----------------------------------------------------------------------------
(* The two systems of record.  What HCM consumed is not a column of any    *)
(* table, but the sum of the days it stands for is what both sides differ  *)
(* by: days available and held add up on the service's side, days left and *)
(* consumed on HCM's, and held days are consumed or pending.               *)

ConsumedDays(k) ==
  MapThenSumSet(LAMBDA r : requests[r].days,
                {r \in DOMAIN requests : requests[r].key = k /\ applied[r] > 0})

ConsumedBy(k) == {r \in DOMAIN requests : requests[r].key = k /\ applied[r] > 0}

PendingBy(k) == {r \in DOMAIN requests : /\ requests[r].key = k
                                        /\ requests[r].status = "APPROVED"
                                        /\ applied[r] = 0}

\* What HCM has left and what it consumed.
Charged(k) == hcm[k] + ConsumedDays(k)

\* How far the service is ahead of HCM.
Gap(k) == balances[k].availableDays + PendingDays(k) - hcm[k]

LEMMA SumsAreTotals ==
  ASSUME NEW k
  PROVE  /\ ConsumedDays(k) = Total(requests, ConsumedBy(k))
         /\ ConsumedDays(k)' = Total(requests', ConsumedBy(k)')
         /\ PendingDays(k) = Total(requests, PendingBy(k))
         /\ PendingDays(k)' = Total(requests', PendingBy(k)')
<1>1. ConsumedDays(k) = Total(requests, ConsumedBy(k))
  BY DEF ConsumedDays, Total, ConsumedBy, MapThenSumSet, MapThenFoldSet
<1>2. ConsumedDays(k)' = Total(requests', ConsumedBy(k)')
  BY DEF ConsumedDays, Total, ConsumedBy, MapThenSumSet, MapThenFoldSet
<1>3. PendingDays(k) = Total(requests, PendingBy(k))
  BY DEF PendingDays, Total, PendingBy, MapThenSumSet, MapThenFoldSet
<1>4. PendingDays(k)' = Total(requests', PendingBy(k)')
  BY DEF PendingDays, Total, PendingBy, MapThenSumSet, MapThenFoldSet
<1> QED BY <1>1, <1>2, <1>3, <1>4

LEMMA RowsOfType ==
  ASSUME TypeOK, IsFiniteSet(DOMAIN requests), NEW S, S \subseteq DOMAIN requests
  PROVE  /\ IsFiniteSet(S) /\ \A r \in S : requests[r].days \in Nat
         /\ Total(requests, S) \in Nat
<1>1. IsFiniteSet(S) /\ \A r \in S : requests[r].days \in Nat
  BY FS_Subset DEF TypeOK, RequestRow
<1> QED BY <1>1, TotalType

\* What holds days is what HCM consumed and what it has yet to consume.
LEMMA HeldSplits ==
  ASSUME SerialInv, IsFiniteSet(DOMAIN requests), NEW k
  PROVE  /\ HeldDays(k) = ConsumedDays(k) + PendingDays(k)
         /\ ConsumedDays(k) \in Nat /\ PendingDays(k) \in Nat
<1>1. /\ TypeOK /\ WorkerTypeOK /\ ApprovalAtomic /\ ConsumedIsKnown
      /\ OutboxMatchesRequest /\ ListingIsFresh
  BY DEF SerialInv, OverlapInv, WorkerInv, WorkerTypeOK
<1>2. ASSUME NEW r \in DOMAIN requests
      PROVE  Holding(r) <=> (applied[r] > 0
                               \/ (requests[r].status = "APPROVED" /\ applied[r] = 0))
  <2>1. r \in Requests /\ applied[r] \in Nat
    BY <1>1 DEF TypeOK, WorkerTypeOK
  <2>2. ASSUME Confirmed(r) PROVE requests[r].status = "APPROVED"
    <3>1. PICK w \in Runs : answer[w] = "OK" /\ Current(w) = r
      BY <2>2 DEF Confirmed
    <3>2. r \in DOMAIN due[w] /\ r \in DOMAIN events
      BY <1>1, <3>1, CurrentIsListed DEF WorkerTypeOK
    <3> QED BY <1>1, <3>2 DEF ListingIsFresh, OutboxMatchesRequest
  <2> QED BY <1>1, <2>1, <2>2 DEF ConsumedIsKnown, Holding
<1>3. HeldBy(k) = ConsumedBy(k) \union PendingBy(k)
  BY <1>2 DEF HeldBy, ConsumedBy, PendingBy
<1>4. /\ ConsumedBy(k) \intersect PendingBy(k) = {}
      /\ ConsumedBy(k) \subseteq DOMAIN requests /\ PendingBy(k) \subseteq DOMAIN requests
  BY DEF ConsumedBy, PendingBy
<1>5. /\ IsFiniteSet(ConsumedBy(k)) /\ IsFiniteSet(PendingBy(k))
      /\ \A r \in ConsumedBy(k) \union PendingBy(k) : requests[r].days \in Nat
      /\ Total(requests, ConsumedBy(k)) \in Nat /\ Total(requests, PendingBy(k)) \in Nat
  BY <1>1, <1>4, RowsOfType
<1>6. Total(requests, HeldBy(k))
        = Total(requests, ConsumedBy(k)) + Total(requests, PendingBy(k))
  BY <1>3, <1>4, <1>5, TotalUnion
<1> QED BY <1>5, <1>6, SumsAreTotals, HeldIsTotal

\* Steps after which HCM has consumed what it had before.
LEMMA ConsumedKept ==
  ASSUME TypeOK, IsFiniteSet(DOMAIN requests), UNCHANGED applied,
         DOMAIN requests \subseteq DOMAIN requests',
         \A x \in DOMAIN requests : /\ requests'[x].key = requests[x].key
                                   /\ requests'[x].days = requests[x].days,
         \A x \in DOMAIN requests' \ DOMAIN requests : applied[x] = 0,
         NEW k
  PROVE  ConsumedDays(k)' = ConsumedDays(k)
<1>1. ConsumedBy(k)' = ConsumedBy(k)
  BY DEF ConsumedBy
<1>2. \A r \in ConsumedBy(k) : requests'[r].days = requests[r].days
  BY DEF ConsumedBy
<1>3. IsFiniteSet(ConsumedBy(k))
  BY RowsOfType DEF ConsumedBy
<1> QED BY <1>1, <1>2, <1>3, SumsAreTotals, TotalSame

\* The lifecycle leaves the keys and days of requests alone.
LEMMA LifecycleKeepsDays ==
  ASSUME TypeOK, [RequestNext]_reqVars
  PROVE  /\ DOMAIN requests \subseteq DOMAIN requests'
         /\ \A x \in DOMAIN requests : /\ requests'[x].key = requests[x].key
                                       /\ requests'[x].days = requests[x].days
<1>1. CASE \E r \in Requests, k \in Keys, d \in DayInputs : Create(r, k, d)
  BY <1>1 DEF Create, Insert
<1>2. CASE \E r \in Requests : Approve(r) \/ Reject(r) \/ Cancel(r)
  <2>1. PICK r \in Requests, s \in RequestStatus : r \in DOMAIN requests /\ save(r, s)
    BY <1>2 DEF Approve, Reject, Cancel, RequestStatus
  <2> QED BY <2>1, SaveEffect
<1>3. CASE (\E k \in Keys : GetBalance(k)) \/ UNCHANGED reqVars
  BY <1>3 DEF GetBalance, reqVars
<1> QED BY <1>1, <1>2, <1>3 DEF RequestNext

\* HCM consumes the days of a request it has not consumed yet, and of no other.
LEMMA HcmChargesOnce ==
  ASSUME AtMostOneRun, TrustedAnswers, SerialInv, IsFiniteSet(DOMAIN requests),
         NEW w \in Runs, HcmStep(w)
  PROVE  \A k \in Keys : Charged(k)' = Charged(k)
<1>1. /\ TypeOK /\ WorkerTypeOK /\ ApprovalAtomic /\ ConsumedIsKnown
      /\ OutboxMatchesRequest /\ ListingIsFresh
  BY DEF SerialInv, OverlapInv, WorkerInv, WorkerTypeOK
<1>a. PICK r : r = Current(w)
  OBVIOUS
<1>2. /\ r \in DOMAIN due[w] /\ r \in DOMAIN events /\ r \in DOMAIN requests
      /\ r \in Requests /\ answer[w] = "NONE" /\ requests' = requests
      /\ \/ UNCHANGED <<hcm, applied>>
         \/ /\ hcm' = [hcm EXCEPT ![requests[r].key] = @ - requests[r].days]
            /\ applied' = [applied EXCEPT ![r] = @ + 1]
  BY <1>1, <1>a, HcmEffect DEF reqVars
<1>3. CASE UNCHANGED <<hcm, applied>>
  <2>1. \A k \in Keys : ConsumedDays(k)' = ConsumedDays(k)
    BY <1>1, <1>2, <1>3, ConsumedKept
  <2> QED BY <1>3, <2>1 DEF Charged
<1>4. CASE /\ hcm' = [hcm EXCEPT ![requests[r].key] = @ - requests[r].days]
           /\ applied' = [applied EXCEPT ![r] = @ + 1]
  <2>1. applied[r] = 0
    <3>1. requests[r].status = "APPROVED"
      BY <1>1, <1>2 DEF ListingIsFresh, OutboxMatchesRequest
    <3>2. ~Confirmed(r)
      BY <1>2, NothingAnswered
    <3> QED BY <1>1, <1>2, <3>1, <3>2 DEF ConsumedIsKnown
  <2>2. /\ \A x \in Requests : x # r => applied'[x] = applied[x]
        /\ applied'[r] > 0
    BY <1>1, <1>2, <1>4, <2>1 DEF WorkerTypeOK
  <2>3. requests[r].key \in Keys /\ requests[r].days \in Nat
    BY <1>1, <1>2 DEF TypeOK, RequestRow
  <2>4. ASSUME NEW k \in Keys PROVE hcm'[k] + ConsumedDays(k)' = hcm[k] + ConsumedDays(k)
    <3>1. /\ ConsumedDays(k) = Total(requests, ConsumedBy(k))
          /\ ConsumedDays(k)' = Total(requests, ConsumedBy(k)')
      BY <1>2, SumsAreTotals
    <3>2. /\ IsFiniteSet(ConsumedBy(k)) /\ Total(requests, ConsumedBy(k)) \in Nat
          /\ \A x \in ConsumedBy(k) : requests[x].days \in Nat
      BY <1>1, RowsOfType DEF ConsumedBy
    <3>3. hcm[k] \in Int
      BY <1>1 DEF WorkerTypeOK
    <3>4. CASE requests[r].key # k
      <4>1. ConsumedBy(k)' = ConsumedBy(k)
        BY <1>1, <1>2, <2>2, <3>4 DEF ConsumedBy, TypeOK
      <4>2. hcm'[k] = hcm[k]
        BY <1>1, <1>4, <3>4 DEF WorkerTypeOK
      <4> QED BY <3>1, <3>3, <4>1, <4>2
    <3>5. CASE requests[r].key = k
      <4>1. ConsumedBy(k)' = ConsumedBy(k) \union {r} /\ r \notin ConsumedBy(k)
        BY <1>1, <1>2, <2>1, <2>2, <3>5 DEF ConsumedBy, TypeOK
      <4>2. \A x \in ConsumedBy(k) \union {r} : requests[x].days \in Nat
        BY <2>3, <3>2
      <4>3. Total(requests, ConsumedBy(k)')
              = requests[r].days + Total(requests, ConsumedBy(k))
        BY <3>2, <4>1, <4>2, TotalAdd
      <4>4. hcm'[k] = hcm[k] - requests[r].days
        BY <1>1, <1>4, <3>5 DEF WorkerTypeOK
      <4> QED BY <2>3, <3>1, <3>2, <3>3, <4>3, <4>4
    <3> QED BY <3>4, <3>5
  <2> QED BY <2>4 DEF Charged
<1> QED BY <1>2, <1>3, <1>4

LEMMA ChargedKept ==
  ASSUME AtMostOneRun, TrustedAnswers, SerialInv, IsFiniteSet(DOMAIN requests),
         [Next]_vars
  PROVE  \A k \in Keys : Charged(k)' = Charged(k)
<1>1. /\ TypeOK /\ WorkerTypeOK /\ ApprovalAtomic /\ ConsumedIsKnown
  BY DEF SerialInv, OverlapInv, WorkerInv, WorkerTypeOK
<1>2. SerialInv'
  BY SerialStep
<1>3. CASE UNCHANGED <<hcm, applied>>
           /\ DOMAIN requests \subseteq DOMAIN requests'
           /\ \A x \in DOMAIN requests : /\ requests'[x].key = requests[x].key
                                         /\ requests'[x].days = requests[x].days
  <2>1. DOMAIN requests' \subseteq Requests
    BY <1>2 DEF SerialInv, OverlapInv, WorkerInv, WorkerTypeOK, TypeOK
  <2>2. ASSUME NEW x \in DOMAIN requests' \ DOMAIN requests PROVE applied[x] = 0
    <3>1. ~Confirmed(x)
      BY <1>1, AnsweredIsListed, ConfirmedIsAnswered, EventsAreApproved
    <3> QED BY <1>1, <2>1, <3>1 DEF ConsumedIsKnown
  <2>3. \A k \in Keys : ConsumedDays(k)' = ConsumedDays(k)
    BY <1>1, <1>3, <2>2, ConsumedKept
  <2> QED BY <1>3, <2>3 DEF Charged
<1>4. CASE \E w \in Runs : HcmStep(w)
  BY <1>4, HcmChargesOnce
<1>5. CASE (RequestNext /\ UNCHANGED workerVars) \/ UNCHANGED vars
  BY <1>1, <1>3, <1>5, LifecycleKeepsDays DEF workerVars, vars, reqVars
<1>6. CASE \E w \in Runs : Resume(w)
  <2> PICK w \in Runs : Resume(w)
    BY <1>6
  <2>1. UNCHANGED <<hcm, applied>>
    BY <1>1, ResumeAdvances
  <2>2. /\ DOMAIN requests' = DOMAIN requests
        /\ \A x \in DOMAIN requests : /\ requests'[x].key = requests[x].key
                                      /\ requests'[x].days = requests[x].days
    BY <1>1, ResumeEffect
  <2> QED BY <1>3, <2>1, <2>2
<1>7. CASE (\E w \in Runs : StartRun(w)) \/ (\E r \in Requests : BackoffElapsed(r))
  <2>1. UNCHANGED <<requests, hcm, applied>>
    BY <1>7 DEF StartRun, BackoffElapsed, reqVars, workerVars
  <2> QED BY <1>3, <2>1
<1> QED
  BY <1>4, <1>5, <1>6, <1>7 DEF Next, WorkerNext, HcmStep, Resume

LEMMA GapIsDifference ==
  SerialInv /\ IsFiniteSet(DOMAIN requests)
    => \A k \in Keys :
         /\ Gap(k) = Accounted(k) - Charged(k)
         /\ Gap(k) \in Int /\ Accounted(k) \in Int /\ Charged(k) \in Int
         /\ Gap(k) = 0 <=> hcm[k] = balances[k].availableDays + PendingDays(k)
<1> SUFFICES ASSUME SerialInv, IsFiniteSet(DOMAIN requests), NEW k \in Keys
             PROVE  /\ Gap(k) = Accounted(k) - Charged(k)
                    /\ Gap(k) \in Int /\ Accounted(k) \in Int /\ Charged(k) \in Int
                    /\ Gap(k) = 0 <=> hcm[k] = balances[k].availableDays + PendingDays(k)
  OBVIOUS
<1>1. /\ HeldDays(k) = ConsumedDays(k) + PendingDays(k)
      /\ ConsumedDays(k) \in Nat /\ PendingDays(k) \in Nat
  BY HeldSplits
<1>2. hcm[k] \in Int /\ balances[k].availableDays \in Nat
  BY DEF SerialInv, OverlapInv, WorkerInv, WorkerTypeOK, TypeOK, BalanceRow
<1> QED BY <1>1, <1>2 DEF Gap, Accounted, Charged

LEMMA GapIsDifferenceNext ==
  SerialInv' /\ IsFiniteSet(DOMAIN requests')
    => \A k \in Keys :
         /\ Gap(k)' = Accounted(k)' - Charged(k)'
         /\ Gap(k)' = 0 <=> hcm'[k] = balances'[k].availableDays + PendingDays(k)'
<1>1. (SerialInv /\ IsFiniteSet(DOMAIN requests)
         => \A k \in Keys :
              /\ Gap(k) = Accounted(k) - Charged(k)
              /\ Gap(k) \in Int /\ Accounted(k) \in Int /\ Charged(k) \in Int
              /\ Gap(k) = 0 <=> hcm[k] = balances[k].availableDays + PendingDays(k))'
  BY GapIsDifference, PTL
<1> QED BY <1>1

\* No step of the lifecycle, the worker or HCM moves the service away from HCM.
LEMMA GapKept ==
  ASSUME AtMostOneRun, TrustedAnswers, SerialInv, IsFiniteSet(DOMAIN requests),
         [Next]_vars
  PROVE  /\ SerialInv' /\ IsFiniteSet(DOMAIN requests')
         /\ \A k \in Keys : Gap(k)' = Gap(k) /\ Gap(k) \in Int
<1>1. OneRunInv
  BY DEF SerialInv, OverlapInv, OneRunInv, AccountsInv, HeldUntilSettled,
         OutboxMatchesRequest, ListingIsFresh, Holding
<1>2. /\ IsFiniteSet(DOMAIN requests')
      /\ \A k \in Keys : Accounted(k)' = Accounted(k)
  BY <1>1, OneRunAccounts DEF OneRunInv, AccountsInv
<1>3. SerialInv' /\ \A k \in Keys : Charged(k)' = Charged(k)
  BY SerialStep, ChargedKept
<1>4. \A k \in Keys : Gap(k)' = Gap(k)
  BY <1>2, <1>3, GapIsDifference, GapIsDifferenceNext
<1> QED BY <1>2, <1>3, <1>4, GapIsDifference

LEMMA AgreementInit == OutboundInit => AgreementInv
<1> SUFFICES ASSUME OutboundInit PROVE AgreementInv
  OBVIOUS
<1>1. DOMAIN requests = {} /\ hcm = Imported /\ Init
  BY DEF OutboundInit, Init
<1>2. \A k \in Keys : PendingDays(k) = 0
  <2>1. \A k \in Keys : PendingBy(k) = {}
    BY <1>1 DEF PendingBy
  <2> QED BY <2>1, SumsAreTotals, TotalEmpty
<1>3. \A k \in Keys : balances[k].availableDays = Imported[k] /\ Imported[k] \in Nat
  BY <1>1, ImportedAssumption DEF Init, NoBalance, upsertAbsolute
<1> QED BY <1>1, <1>2, <1>3, SerialInit, FS_EmptySet DEF AgreementInv, HcmAgreement

\* The service's balances and HCM's differ by exactly the approvals HCM has
\* not heard of yet.
THEOREM RecordsAgree ==
  ASSUME AtMostOneRun, TrustedAnswers
  PROVE  Spec => []HcmAgreement
<1>1. AgreementInv /\ [Next]_vars => AgreementInv'
  BY GapKept, GapIsDifference, GapIsDifferenceNext DEF AgreementInv, HcmAgreement
<1>2. AgreementInv => HcmAgreement
  BY DEF AgreementInv
<1> QED BY <1>1, <1>2, AgreementInit, PTL DEF Spec
=============================================================================
