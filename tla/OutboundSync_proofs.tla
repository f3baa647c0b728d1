------------------------ MODULE OutboundSync_proofs ------------------------
(***************************************************************************)
(* Theorems about the outbound worker.  The first part holds for any       *)
(* number of overlapping runs and every kind of fault.                     *)
(***************************************************************************)
EXTENDS OutboundSync, TimeOffRequests_proofs

-----------------------------------------------------------------------------
(* The event a run is at *)

\* A run with listed events is at one of them, and none of them is older.
LEMMA CurrentIsListed ==
  ASSUME WorkerTypeOK, NEW w \in Runs, DOMAIN due[w] # {}
  PROVE  /\ Current(w) \in DOMAIN due[w]
         /\ Current(w) \in DOMAIN events
         /\ Current(w) \in Requests
<1> DEFINE T == {events[r].createdAt : r \in DOMAIN due[w]}
<1>1. DOMAIN due[w] \subseteq DOMAIN events
  BY DEF WorkerTypeOK
<1>2. \A r \in DOMAIN due[w] : events[r].createdAt \in Nat
  BY <1>1 DEF WorkerTypeOK, TypeOK, EventRow
<1>3. T \subseteq Nat /\ T # {}
  BY <1>2
<1>4. PICK m \in T : \A n \in T : m <= n
  <2> HIDE DEF T
  <2> QED BY <1>3, LeastNat
<1>5. PICK r \in DOMAIN due[w] : events[r].createdAt = m
  BY <1>4
<1>6. \A s \in DOMAIN due[w] : ~Older(s, r)
  BY <1>2, <1>4, <1>5 DEF Older
<1>7. r \in Oldest(w)
  BY <1>5, <1>6 DEF Oldest
<1>8. Current(w) \in Oldest(w)
  BY <1>7 DEF Current
<1> QED
  BY <1>1, <1>8 DEF Oldest, WorkerTypeOK, TypeOK

\* The event a run is at depends only on what it listed and when those events
\* were created.
LEMMA CurrentStable ==
  ASSUME NEW w, due'[w] = due[w],
         \A r \in DOMAIN due[w] : events'[r].createdAt = events[r].createdAt
  PROVE  Current(w)' = Current(w)
<1>1. Oldest(w)' = Oldest(w)
  BY DEF Oldest, Older
<1> QED BY <1>1 DEF Current

\* An event only exists for a request that was approved.
LEMMA EventsAreApproved ==
  ASSUME WorkerTypeOK, ApprovalAtomic
  PROVE  \A r \in DOMAIN events : r \in DOMAIN requests /\ WasApproved(r)
BY DEF WorkerTypeOK, TypeOK, ApprovalAtomic, Unrecorded

-----------------------------------------------------------------------------
(* The steps that resume a run: what they write *)

\* Resuming a run settles or postpones the event it is at; all other rows of
\* the tables stay as they are.
LEMMA ResumeEffect ==
  ASSUME WorkerTypeOK, ApprovalAtomic, NEW w \in Runs, Resume(w)
  PROVE  LET r == Current(w) IN
         /\ r \in DOMAIN due[w] /\ r \in DOMAIN events /\ r \in DOMAIN requests
         /\ TypeOK'
         /\ DOMAIN events' = DOMAIN events
         /\ DOMAIN requests' = DOMAIN requests
         /\ \A x \in DOMAIN events : x # r => events'[x] = events[x]
         /\ \A x \in DOMAIN requests : x # r => requests'[x] = requests[x]
         /\ events'[r].createdAt = events[r].createdAt
         /\ requests'[r].key = requests[r].key
         /\ requests'[r].days = requests[r].days
         /\ \/ /\ answer[w] = "OK"
               /\ requests'[r].status = "SYNCED" /\ events'[r].status = "PROCESSED"
               /\ balances' = balances
            \/ /\ answer[w] = "TRANSIENT" /\ due[w][r] + 1 < MaxAttempts
               /\ events'[r].status = "RETRY_PENDING"
               /\ events'[r].attemptCount = due[w][r] + 1
               /\ requests' = requests /\ balances' = balances
            \/ /\ answer[w] \notin {"NONE", "OK"}
               /\ answer[w] = "TRANSIENT" => due[w][r] + 1 >= MaxAttempts
               /\ requests'[r].status = "REVERSED" /\ events'[r].status = "FAILED"
               /\ balances' = DaysReturned(r)
<1> DEFINE r == Current(w)
<1>1. answer[w] # "NONE"
  BY DEF Resume, ResumeOk, ResumeRetry, ResumeFail, ShouldRetry
<1>2. r \in DOMAIN due[w] /\ r \in DOMAIN events /\ r \in DOMAIN requests /\ r \in Requests
  BY <1>1, CurrentIsListed, EventsAreApproved DEF WorkerTypeOK
<1>3. requests[r] \in RequestRow /\ events[r] \in EventRow
  BY <1>2 DEF WorkerTypeOK, TypeOK
<1>4. due[w][r] \in Nat
  BY <1>2 DEF WorkerTypeOK
<1>5. ledger' = ledger
  BY DEF Resume, ResumeOk, ResumeRetry, ResumeFail, Advance
<1> HIDE DEF r
<1>6. CASE ResumeOk(w)
  <2>1. requests' = [requests EXCEPT ![r].status = "SYNCED", ![r].syncState = "DONE"]
    BY <1>6 DEF ResumeOk, RequestSynced, r
  <2>2. events' = [events EXCEPT ![r].status = "PROCESSED", ![r].waiting = FALSE]
    BY <1>6 DEF ResumeOk, EventSynced, r
  <2>3. balances' = balances /\ answer[w] = "OK"
    BY <1>6 DEF ResumeOk
  <2>4. /\ DOMAIN requests' = DOMAIN requests
        /\ requests' \in [DOMAIN requests -> RequestRow]
        /\ \A x \in DOMAIN requests : x # r => requests'[x] = requests[x]
        /\ requests'[r].status = "SYNCED"
        /\ requests'[r].key = requests[r].key
        /\ requests'[r].days = requests[r].days
    BY <2>1, <1>2, <1>3 DEF WorkerTypeOK, TypeOK, RequestRow, RequestStatus, SyncState
  <2>5. /\ DOMAIN events' = DOMAIN events
        /\ events' \in [DOMAIN events -> EventRow]
        /\ \A x \in DOMAIN events : x # r => events'[x] = events[x]
        /\ events'[r].status = "PROCESSED"
        /\ events'[r].createdAt = events[r].createdAt
    BY <2>2, <1>2, <1>3 DEF WorkerTypeOK, TypeOK, EventRow, OutboundStatus
  <2>6. TypeOK'
    BY <2>3, <2>4, <2>5, <1>5 DEF WorkerTypeOK, TypeOK
  <2> QED BY <1>2, <2>3, <2>4, <2>5, <2>6 DEF r
<1>7. CASE ResumeRetry(w)
  <2>1. events' = [events EXCEPT ![r].status = "RETRY_PENDING",
                                 ![r].attemptCount = due[w][r] + 1,
                                 ![r].waiting = TRUE]
    BY <1>7 DEF ResumeRetry, EventRetry, r
  <2>2. /\ balances' = balances /\ requests' = requests
        /\ answer[w] = "TRANSIENT" /\ due[w][r] + 1 < MaxAttempts
    BY <1>7 DEF ResumeRetry, ShouldRetry, r
  <2> DEFINE n == due[w][r] + 1
             row == [events[r] EXCEPT !.status = "RETRY_PENDING",
                                      !.attemptCount = n, !.waiting = TRUE]
  <2>5. n \in Nat
    BY <1>4
  <2> HIDE DEF n
  <2>6. /\ row \in EventRow /\ row.status = "RETRY_PENDING"
        /\ row.attemptCount = n /\ row.createdAt = events[r].createdAt
    BY <1>3, <2>5 DEF EventRow, OutboundStatus
  <2>7. events' = [events EXCEPT ![r] = row]
    BY <2>1 DEF n
  <2> HIDE DEF row
  <2>3. /\ DOMAIN events' = DOMAIN events
        /\ events' \in [DOMAIN events -> EventRow]
        /\ \A x \in DOMAIN events : x # r => events'[x] = events[x]
        /\ events'[r].status = "RETRY_PENDING"
        /\ events'[r].attemptCount = n
        /\ events'[r].createdAt = events[r].createdAt
    BY <2>6, <2>7, <1>2 DEF WorkerTypeOK, TypeOK
  <2>4. TypeOK'
    BY <2>2, <2>3, <1>5 DEF WorkerTypeOK, TypeOK
  <2> QED BY <1>2, <2>2, <2>3, <2>4 DEF r, n
<1>8. CASE ResumeFail(w)
  <2>1. requests' = [requests EXCEPT ![r].status = "REVERSED", ![r].syncState = "FAILED"]
    BY <1>8 DEF ResumeFail, RequestReversed, r
  <2>2. events' = [events EXCEPT ![r].status = "FAILED"]
    BY <1>8 DEF ResumeFail, EventFailed, r
  <2>3. /\ balances' = [balances EXCEPT ![requests[r].key] =
                           Credit(balances[requests[r].key], requests[r].days)]
        /\ answer[w] \notin {"NONE", "OK"}
        /\ balances' = DaysReturned(r)
    BY <1>8 DEF ResumeFail, DaysReturned, r
  <2>4. /\ DOMAIN requests' = DOMAIN requests
        /\ requests' \in [DOMAIN requests -> RequestRow]
        /\ \A x \in DOMAIN requests : x # r => requests'[x] = requests[x]
        /\ requests'[r].status = "REVERSED"
        /\ requests'[r].key = requests[r].key
        /\ requests'[r].days = requests[r].days
    BY <2>1, <1>2, <1>3 DEF WorkerTypeOK, TypeOK, RequestRow, RequestStatus, SyncState
  <2>5. /\ DOMAIN events' = DOMAIN events
        /\ events' \in [DOMAIN events -> EventRow]
        /\ \A x \in DOMAIN events : x # r => events'[x] = events[x]
        /\ events'[r].status = "FAILED"
        /\ events'[r].createdAt = events[r].createdAt
    BY <2>2, <1>2, <1>3 DEF WorkerTypeOK, TypeOK, EventRow, OutboundStatus
  <2>6. balances' \in [Keys -> BalanceRow]
    <3>1. requests[r].key \in Keys /\ requests[r].days \in Nat
      BY <1>3 DEF RequestRow
    <3>2. Credit(balances[requests[r].key], requests[r].days) \in BalanceRow
      BY <3>1, RowOps DEF WorkerTypeOK, TypeOK
    <3> QED BY <2>3, <3>1, <3>2 DEF WorkerTypeOK, TypeOK
  <2>7. TypeOK'
    BY <2>4, <2>5, <2>6, <1>5 DEF WorkerTypeOK, TypeOK
  <2>8. answer[w] = "TRANSIENT" => due[w][r] + 1 >= MaxAttempts
    BY <1>4, <1>8, MaxAttemptsAssumption DEF ResumeFail, ShouldRetry, r
  <2> QED BY <1>2, <2>3, <2>4, <2>5, <2>7, <2>8 DEF r
<1> QED BY <1>6, <1>7, <1>8 DEF Resume

\* What resuming does to the run itself.
LEMMA ResumeAdvances ==
  ASSUME WorkerTypeOK, NEW w \in Runs, Resume(w)
  PROVE  /\ DOMAIN due' = Runs
         /\ \A v \in Runs : v # w => due'[v] = due[v]
         /\ DOMAIN due'[w] = DOMAIN due[w] \ {Current(w)}
         /\ \A x \in DOMAIN due'[w] : due'[w][x] = due[w][x]
         /\ due'[w] \in [DOMAIN due'[w] -> Nat]
         /\ answer' = [answer EXCEPT ![w] = "NONE"]
         /\ UNCHANGED <<ledger, hcm, applied, submits>>
<1>1. Advance(w)
  BY DEF Resume, ResumeOk, ResumeRetry, ResumeFail
<1>2. due' = [due EXCEPT ![w] = Rest(w)]
  BY <1>1 DEF Advance
<1>3. /\ DOMAIN Rest(w) = DOMAIN due[w] \ {Current(w)}
      /\ \A x \in DOMAIN Rest(w) : Rest(w)[x] = due[w][x]
      /\ Rest(w) \in [DOMAIN Rest(w) -> Nat]
  BY DEF Rest, Restrict, WorkerTypeOK
<1>4. due'[w] = Rest(w)
  BY <1>2 DEF WorkerTypeOK
<1>5. /\ DOMAIN due' = Runs
      /\ \A v \in Runs : v # w => due'[v] = due[v]
  BY <1>2 DEF WorkerTypeOK
<1> QED BY <1>1, <1>3, <1>4, <1>5 DEF Advance

-----------------------------------------------------------------------------
(* The steps of HCM *)

\* HCM answers the submission in flight and consumes its days or does not;
\* the service's own tables are not touched.
LEMMA HcmEffect ==
  ASSUME WorkerTypeOK, ApprovalAtomic, NEW w \in Runs, HcmStep(w)
  PROVE  LET r == Current(w) IN
         /\ r \in DOMAIN due[w] /\ r \in DOMAIN events /\ r \in DOMAIN requests
         /\ r \in Requests
         /\ answer[w] = "NONE"
         /\ UNCHANGED <<reqVars, due>>
         /\ submits' = [submits EXCEPT ![r] = @ + 1]
         /\ \E kind \in Answers \ {"NONE"} :
              /\ answer' = [answer EXCEPT ![w] = kind]
              /\ \/ /\ kind # "OK" /\ UNCHANGED <<hcm, applied>>
                 \/ /\ kind # "OK" => Faults \intersect Ambiguous # {}
                    /\ hcm' = [hcm EXCEPT ![requests[r].key] = @ - requests[r].days]
                    /\ applied' = [applied EXCEPT ![r] = @ + 1]
<1> DEFINE r == Current(w)
<1>1. DOMAIN due[w] # {} /\ answer[w] = "NONE"
  BY DEF HcmStep, HcmConsume, HcmInsufficient, HcmFault, InFlight
<1>2. r \in DOMAIN due[w] /\ r \in DOMAIN events /\ r \in DOMAIN requests /\ r \in Requests
  BY <1>1, CurrentIsListed, EventsAreApproved
<1>3. ASSUME NEW kind \in {"TRANSIENT", "FUNCTIONAL", "UNKNOWN"}, Refuse(w, kind)
      PROVE  /\ UNCHANGED <<reqVars, due, hcm, applied>>
             /\ submits' = [submits EXCEPT ![r] = @ + 1]
             /\ kind \in Answers \ {"NONE"} /\ kind # "OK"
             /\ answer' = [answer EXCEPT ![w] = kind]
  BY <1>3 DEF Refuse, Answers
<1>4. ASSUME NEW kind \in {"OK", "TRANSIENT", "UNKNOWN"}, Accept(w, kind)
      PROVE  /\ UNCHANGED <<reqVars, due>>
             /\ submits' = [submits EXCEPT ![r] = @ + 1]
             /\ kind \in Answers \ {"NONE"}
             /\ answer' = [answer EXCEPT ![w] = kind]
             /\ hcm' = [hcm EXCEPT ![requests[r].key] = @ - requests[r].days]
             /\ applied' = [applied EXCEPT ![r] = @ + 1]
  BY <1>4 DEF Accept, Answers
<1>5. \/ \E kind \in {"TRANSIENT", "FUNCTIONAL", "UNKNOWN"} : Refuse(w, kind)
      \/ \E kind \in {"OK", "TRANSIENT", "UNKNOWN"} :
           Accept(w, kind) /\ (kind # "OK" => Faults \intersect Ambiguous # {})
  BY DEF HcmStep, HcmConsume, HcmInsufficient, HcmFault, Ambiguous
<1> HIDE DEF r
<1>6. CASE \E kind \in {"TRANSIENT", "FUNCTIONAL", "UNKNOWN"} : Refuse(w, kind)
  BY <1>1, <1>2, <1>3, <1>6 DEF r
<1>7. CASE \E kind \in {"OK", "TRANSIENT", "UNKNOWN"} :
             Accept(w, kind) /\ (kind # "OK" => Faults \intersect Ambiguous # {})
  BY <1>1, <1>2, <1>4, <1>7 DEF r
<1> QED BY <1>5, <1>6, <1>7

-----------------------------------------------------------------------------
(* Listing the due events *)

LEMMA ListedType ==
  ASSUME WorkerTypeOK
  PROVE  /\ DOMAIN listDueOutboundSyncEvents \subseteq DOMAIN events
         /\ listDueOutboundSyncEvents \in [DOMAIN listDueOutboundSyncEvents -> Nat]
         /\ \A r \in DOMAIN listDueOutboundSyncEvents :
              /\ Live(r)
              /\ listDueOutboundSyncEvents[r] = events[r].attemptCount
<1>1. \A r \in DOMAIN events : events[r].attemptCount \in Nat
  BY DEF WorkerTypeOK, TypeOK, EventRow
<1> QED BY <1>1 DEF listDueOutboundSyncEvents, IsDue

-----------------------------------------------------------------------------
(* Any number of overlapping runs *)

LEMMA WorkerInit == OutboundInit => WorkerInv
<1> SUFFICES ASSUME OutboundInit PROVE WorkerInv
  OBVIOUS
<1>1. TypeOK /\ ApprovalAtomic
  BY RequestTypeInit, ApprovalAtomicInit DEF OutboundInit
<1>2. requests = [r \in {} |-> NoBalance] /\ events = [r \in {} |-> NoBalance]
  BY DEF OutboundInit, Init
<1>3. WorkerTypeOK
  BY <1>1, ImportedAssumption DEF OutboundInit, WorkerTypeOK, NothingDue, Answers
<1>4. SyncedMeansApplied
  BY <1>2 DEF SyncedMeansApplied
<1>5. OkMeansApplied /\ OnlyApprovedReachHcm
  BY DEF OutboundInit, OkMeansApplied, OnlyApprovedReachHcm
<1> QED BY <1>1, <1>3, <1>4, <1>5 DEF WorkerInv

\* The lifecycle's handlers, and time, while runs are awaiting HCM.
LEMMA WorkerLifecycle ==
  ASSUME WorkerInv, [RequestNext]_reqVars, UNCHANGED workerVars
  PROVE  WorkerInv'
<1>1. TypeOK /\ ApprovalAtomic
  BY DEF WorkerInv, WorkerTypeOK
<1>2. TypeOK' /\ ApprovalAtomic'
  BY <1>1, RequestTypeStep, ApprovalAtomicStep
<1>3. UNCHANGED <<hcm, due, answer, applied, submits>>
  BY DEF workerVars
<1>4. DOMAIN events \subseteq DOMAIN events' /\ \A x \in DOMAIN events : events'[x] = events[x]
  BY <1>1, LifecycleFrame
<1>5. WorkerTypeOK'
  BY <1>2, <1>3, <1>4 DEF WorkerInv, WorkerTypeOK
<1>7. SyncedMeansApplied'
  BY <1>1, <1>3, LifecycleFrame DEF WorkerInv, SyncedMeansApplied
<1>8. OkMeansApplied'
  <2>1. \A w \in Runs : Current(w)' = Current(w)
    BY <1>3, <1>4, CurrentStable DEF WorkerInv, WorkerTypeOK
  <2> QED BY <2>1, <1>3 DEF WorkerInv, OkMeansApplied
<1>9. OnlyApprovedReachHcm'
  BY <1>1, <1>3, LifecycleFrame DEF WorkerInv, OnlyApprovedReachHcm, WasApproved
<1> QED BY <1>2, <1>5, <1>7, <1>8, <1>9 DEF WorkerInv

LEMMA WorkerStart ==
  ASSUME WorkerInv, NEW w \in Runs, StartRun(w)
  PROVE  WorkerInv'
<1>1. UNCHANGED <<requests, balances, ledger, events, hcm, answer, applied, submits>>
  BY DEF StartRun, reqVars
<1>2. due' = [due EXCEPT ![w] = listDueOutboundSyncEvents] /\ DOMAIN due[w] = {}
      /\ DOMAIN listDueOutboundSyncEvents # {}
  BY DEF StartRun
<1>3. answer[w] = "NONE"
  BY <1>2 DEF WorkerInv, WorkerTypeOK
<1>4. WorkerTypeOK'
  <2> USE DEF WorkerTypeOK
  <2>1. TypeOK'
    BY <1>1 DEF WorkerInv, TypeOK
  <2>2. \A v \in Runs : IF v = w THEN due'[v] = listDueOutboundSyncEvents
                               ELSE due'[v] = due[v]
    BY <1>2 DEF WorkerInv
  <2>3. /\ DOMAIN listDueOutboundSyncEvents \subseteq DOMAIN events
        /\ listDueOutboundSyncEvents \in [DOMAIN listDueOutboundSyncEvents -> Nat]
    BY ListedType DEF WorkerInv
  <2> QED BY <1>1, <1>2, <2>1, <2>2, <2>3 DEF WorkerInv
<1>5. OkMeansApplied'
  <2>1. ASSUME NEW v \in Runs, answer[v] = "OK" PROVE Current(v)' = Current(v)
    <3>1. due'[v] = due[v]
      BY <1>2, <1>3, <2>1 DEF WorkerInv, WorkerTypeOK
    <3> QED BY <1>1, <3>1, CurrentStable
  <2> QED BY <1>1, <2>1 DEF WorkerInv, OkMeansApplied
<1>6. ApprovalAtomic'
  BY <1>1, TracesKept DEF WorkerInv, WasApproved
<1>7. SyncedMeansApplied' /\ OnlyApprovedReachHcm'
  BY <1>1 DEF WorkerInv, SyncedMeansApplied, OnlyApprovedReachHcm, WasApproved
<1> QED BY <1>4, <1>5, <1>6, <1>7 DEF WorkerInv

LEMMA WorkerHcm ==
  ASSUME WorkerInv, NEW w \in Runs, HcmStep(w)
  PROVE  WorkerInv'
<1> DEFINE r == Current(w)
<1>1. /\ r \in DOMAIN due[w] /\ r \in DOMAIN events /\ r \in DOMAIN requests
      /\ r \in Requests
      /\ answer[w] = "NONE"
      /\ UNCHANGED <<requests, balances, ledger, events, due>>
      /\ submits' = [submits EXCEPT ![r] = @ + 1]
  BY HcmEffect DEF WorkerInv, reqVars
<1>2. PICK kind \in Answers \ {"NONE"} :
        /\ answer' = [answer EXCEPT ![w] = kind]
        /\ \/ /\ kind # "OK" /\ UNCHANGED <<hcm, applied>>
           \/ /\ hcm' = [hcm EXCEPT ![requests[r].key] = @ - requests[r].days]
              /\ applied' = [applied EXCEPT ![r] = @ + 1]
  BY HcmEffect DEF WorkerInv
<1> HIDE DEF r
<1>3. requests[r].key \in Keys /\ requests[r].days \in Nat
  BY <1>1 DEF WorkerInv, WorkerTypeOK, TypeOK, RequestRow
<1>4. /\ applied' \in [Requests -> Nat]
      /\ \A x \in Requests : applied'[x] >= applied[x]
      /\ kind = "OK" => applied'[r] >= 1
  BY <1>1, <1>2 DEF WorkerInv, WorkerTypeOK
<1>5. hcm' \in [Keys -> Int]
  BY <1>2, <1>3 DEF WorkerInv, WorkerTypeOK
<1>6. WorkerTypeOK'
  <2>1. TypeOK'
    BY <1>1 DEF WorkerInv, WorkerTypeOK, TypeOK
  <2>2. /\ answer' \in [Runs -> Answers]
        /\ \A v \in Runs : answer'[v] # "NONE" => DOMAIN due'[v] # {}
    BY <1>1, <1>2 DEF WorkerInv, WorkerTypeOK, r
  <2>3. submits' \in [Requests -> Nat]
    BY <1>1 DEF WorkerInv, WorkerTypeOK
  <2> QED BY <1>1, <1>4, <1>5, <2>1, <2>2, <2>3 DEF WorkerInv, WorkerTypeOK
<1>7. OkMeansApplied'
  <2>1. \A v \in Runs : Current(v)' = Current(v)
    BY <1>1, CurrentStable
  <2>2. ASSUME NEW v \in Runs, answer'[v] = "OK" PROVE applied'[Current(v)] >= 1
    <3>1. CASE v = w
      BY <3>1, <2>2, <1>2, <1>4 DEF r, WorkerInv, WorkerTypeOK
    <3>2. CASE v # w
      <4>1. answer[v] = "OK"
        BY <3>2, <2>2, <1>2 DEF WorkerInv, WorkerTypeOK
      <4>2. applied[Current(v)] >= 1 /\ Current(v) \in Requests
        BY <4>1, CurrentIsListed DEF WorkerInv, OkMeansApplied, WorkerTypeOK
      <4> QED BY <4>2, <1>4 DEF WorkerInv, WorkerTypeOK
    <3> QED BY <3>1, <3>2
  <2> QED BY <2>1, <2>2 DEF OkMeansApplied
<1>8. ApprovalAtomic'
  BY <1>1, TracesKept DEF WorkerInv, WasApproved
<1>9. SyncedMeansApplied'
  <2>1. ASSUME NEW x \in DOMAIN requests, requests[x].status = "SYNCED"
        PROVE  applied'[x] >= 1
    <3>1. applied[x] >= 1 /\ x \in Requests
      BY <2>1 DEF WorkerInv, SyncedMeansApplied, WorkerTypeOK, TypeOK
    <3> QED BY <3>1, <1>4 DEF WorkerInv, WorkerTypeOK
  <2> QED BY <1>1, <2>1 DEF SyncedMeansApplied
<1>10. OnlyApprovedReachHcm'
  <2>1. r \in DOMAIN requests /\ WasApproved(r)
    BY <1>1, EventsAreApproved DEF WorkerInv
  <2>2. \A x \in Requests : x # r => submits'[x] = submits[x]
    BY <1>1 DEF WorkerInv, WorkerTypeOK
  <2> QED BY <1>1, <2>1, <2>2 DEF WorkerInv, OnlyApprovedReachHcm, WasApproved
<1> QED BY <1>6, <1>7, <1>8, <1>9, <1>10 DEF WorkerInv

LEMMA WorkerResume ==
  ASSUME WorkerInv, NEW w \in Runs, Resume(w)
  PROVE  WorkerInv'
<1> DEFINE r == Current(w)
<1>1. /\ r \in DOMAIN due[w] /\ r \in DOMAIN events /\ r \in DOMAIN requests
      /\ TypeOK'
      /\ DOMAIN events' = DOMAIN events
      /\ DOMAIN requests' = DOMAIN requests
      /\ \A x \in DOMAIN events : x # r => events'[x] = events[x]
      /\ \A x \in DOMAIN requests : x # r => requests'[x] = requests[x]
      /\ events'[r].createdAt = events[r].createdAt
      /\ requests'[r].key = requests[r].key
      /\ requests'[r].days = requests[r].days
  BY ResumeEffect DEF WorkerInv
<1>2. \/ /\ answer[w] = "OK"
         /\ requests'[r].status = "SYNCED" /\ events'[r].status = "PROCESSED"
      \/ /\ events'[r].status = "RETRY_PENDING" /\ requests' = requests
      \/ /\ answer[w] \notin {"NONE", "OK"}
         /\ requests'[r].status = "REVERSED" /\ events'[r].status = "FAILED"
  BY ResumeEffect DEF WorkerInv
<1>3. /\ DOMAIN due' = Runs
      /\ \A v \in Runs : v # w => due'[v] = due[v]
      /\ DOMAIN due'[w] = DOMAIN due[w] \ {r}
      /\ due'[w] \in [DOMAIN due'[w] -> Nat]
      /\ answer' = [answer EXCEPT ![w] = "NONE"]
      /\ UNCHANGED <<ledger, hcm, applied, submits>>
  BY ResumeAdvances DEF WorkerInv
<1>4. answer[w] = "OK" => applied[r] >= 1
  BY DEF WorkerInv, OkMeansApplied
<1> HIDE DEF r
<1>5. WorkerTypeOK'
  <2>1. \A v \in Runs : /\ DOMAIN due'[v] \subseteq DOMAIN events'
                        /\ due'[v] \in [DOMAIN due'[v] -> Nat]
    BY <1>1, <1>3 DEF WorkerInv, WorkerTypeOK
  <2>2. /\ answer' \in [Runs -> Answers]
        /\ \A v \in Runs : answer'[v] # "NONE" => DOMAIN due'[v] # {}
    BY <1>3 DEF WorkerInv, WorkerTypeOK, Answers
  <2> QED BY <1>1, <1>3, <2>1, <2>2 DEF WorkerInv, WorkerTypeOK
<1>6. \A x \in DOMAIN requests : WasApproved(x)' <=> WasApproved(x)
  <2>1. WasApproved(r)
    BY <1>1, EventsAreApproved DEF WorkerInv
  <2> QED BY <1>1, <1>2, <2>1 DEF WasApproved
<1>7. ApprovalAtomic'
  BY <1>1, <1>3, <1>6, TracesKept DEF WorkerInv
<1>9. SyncedMeansApplied'
  BY <1>1, <1>2, <1>3, <1>4 DEF WorkerInv, SyncedMeansApplied
<1>10. OkMeansApplied'
  <2>1. ASSUME NEW v \in Runs, answer'[v] = "OK"
        PROVE  Current(v)' = Current(v) /\ answer[v] = "OK"
    <3>1. v # w /\ answer[v] = "OK"
      BY <2>1, <1>3 DEF WorkerInv, WorkerTypeOK
    <3>2. due'[v] = due[v] /\ DOMAIN due[v] \subseteq DOMAIN events
      BY <3>1, <1>3 DEF WorkerInv, WorkerTypeOK
    <3>3. \A x \in DOMAIN due[v] : events'[x].createdAt = events[x].createdAt
      BY <3>2, <1>1
    <3> QED BY <3>1, <3>2, <3>3, CurrentStable
  <2> QED BY <2>1, <1>3 DEF WorkerInv, OkMeansApplied
<1>11. OnlyApprovedReachHcm'
  BY <1>1, <1>3, <1>6 DEF WorkerInv, OnlyApprovedReachHcm
<1> QED BY <1>5, <1>7, <1>9, <1>10, <1>11 DEF WorkerInv

LEMMA WorkerBackoff ==
  ASSUME WorkerInv, NEW r \in Requests, BackoffElapsed(r)
  PROVE  WorkerInv'
<1>1. /\ r \in DOMAIN events
      /\ events' = [events EXCEPT ![r].waiting = FALSE]
      /\ UNCHANGED <<requests, balances, ledger, hcm, due, answer, applied, submits>>
  BY DEF BackoffElapsed, workerVars
<1>2. /\ DOMAIN events' = DOMAIN events
      /\ events' \in [DOMAIN events -> EventRow]
      /\ \A x \in DOMAIN events : /\ events'[x].createdAt = events[x].createdAt
                                  /\ events'[x].status = events[x].status
  <2>1. events[r] \in EventRow
    BY <1>1 DEF WorkerInv, WorkerTypeOK, TypeOK
  <2> QED BY <1>1, <2>1 DEF WorkerInv, WorkerTypeOK, TypeOK, EventRow
<1>3. WorkerTypeOK'
  <2>1. TypeOK'
    BY <1>1, <1>2 DEF WorkerInv, WorkerTypeOK, TypeOK
  <2> QED BY <1>1, <1>2, <2>1 DEF WorkerInv, WorkerTypeOK
<1>4. ApprovalAtomic'
  BY <1>1, <1>2, TracesKept DEF WorkerInv, WasApproved
<1>5. OkMeansApplied'
  <2>1. \A v \in Runs : Current(v)' = Current(v)
    BY <1>1, <1>2, CurrentStable DEF WorkerInv, WorkerTypeOK
  <2> QED BY <1>1, <2>1 DEF WorkerInv, OkMeansApplied
<1>6. SyncedMeansApplied' /\ OnlyApprovedReachHcm'
  BY <1>1, <1>2 DEF WorkerInv, SyncedMeansApplied, OnlyApprovedReachHcm, WasApproved
<1> QED BY <1>3, <1>4, <1>5, <1>6 DEF WorkerInv

LEMMA WorkerStep == WorkerInv /\ [Next]_vars => WorkerInv'
<1> SUFFICES ASSUME WorkerInv, [Next]_vars PROVE WorkerInv'
  OBVIOUS
<1>1. CASE (RequestNext /\ UNCHANGED workerVars) \/ UNCHANGED vars
  BY <1>1, WorkerLifecycle DEF vars, reqVars, workerVars
<1>2. CASE \E w \in Runs : StartRun(w)
  BY <1>2, WorkerStart
<1>3. CASE \E w \in Runs : HcmStep(w)
  BY <1>3, WorkerHcm
<1>4. CASE \E w \in Runs : Resume(w)
  BY <1>4, WorkerResume
<1>5. CASE \E r \in Requests : BackoffElapsed(r)
  BY <1>5, WorkerBackoff
<1> QED
  BY <1>1, <1>2, <1>3, <1>4, <1>5 DEF Next, WorkerNext, HcmStep, Resume

\* How an event and its request stand after a step: as before, still to be
\* sent, or settled together.
SettledTogether(r) ==
  \/ /\ r \in DOMAIN events
     /\ events'[r].status = events[r].status
     /\ requests'[r].status = requests[r].status
  \/ events'[r].status \in {"QUEUED", "RETRY_PENDING"}
  \/ events'[r].status = "PROCESSED" /\ requests'[r].status = "SYNCED"
  \/ events'[r].status = "FAILED" /\ requests'[r].status = "REVERSED"

LEMMA EventsSettleTogether ==
  ASSUME WorkerInv, [Next]_vars
  PROVE  \A r \in DOMAIN events' : SettledTogether(r)
<1>1. \A x \in DOMAIN events : x \in DOMAIN requests /\ WasApproved(x)
  BY EventsAreApproved DEF WorkerInv
<1>2. CASE (RequestNext /\ UNCHANGED workerVars) \/ UNCHANGED vars
  BY <1>1, <1>2, LifecycleFrame
     DEF vars, reqVars, workerVars, WorkerInv, WorkerTypeOK, SettledTogether
<1>3. ASSUME NEW w \in Runs, StartRun(w) \/ HcmStep(w)
      PROVE  \A r \in DOMAIN events' : SettledTogether(r)
  <2>1. UNCHANGED <<requests, events>>
    BY <1>3, HcmEffect DEF StartRun, WorkerInv, reqVars
  <2> QED BY <2>1 DEF SettledTogether
<1>4. ASSUME NEW w \in Runs, Resume(w)
      PROVE  \A r \in DOMAIN events' : SettledTogether(r)
  <2> DEFINE c == Current(w)
  <2>1. /\ DOMAIN events' = DOMAIN events
        /\ \A x \in DOMAIN events : x # c => events'[x] = events[x]
        /\ \A x \in DOMAIN requests : x # c => requests'[x] = requests[x]
        /\ \/ requests'[c].status = "SYNCED" /\ events'[c].status = "PROCESSED"
           \/ events'[c].status = "RETRY_PENDING"
           \/ requests'[c].status = "REVERSED" /\ events'[c].status = "FAILED"
    BY <1>4, ResumeEffect DEF WorkerInv
  <2> HIDE DEF c
  <2> QED BY <1>1, <2>1 DEF SettledTogether
<1>5. ASSUME NEW x \in Requests, BackoffElapsed(x)
      PROVE  \A r \in DOMAIN events' : SettledTogether(r)
  <2>1. /\ x \in DOMAIN events /\ requests' = requests
        /\ events' = [events EXCEPT ![x].waiting = FALSE]
    BY <1>5 DEF BackoffElapsed
  <2>2. events \in [DOMAIN events -> EventRow]
    BY DEF WorkerInv, WorkerTypeOK, TypeOK
  <2>3. DOMAIN events' = DOMAIN events
        /\ \A r \in DOMAIN events : events'[r].status = events[r].status
    BY <2>1, <2>2 DEF EventRow
  <2> QED BY <2>1, <2>3 DEF SettledTogether
<1> QED
  BY <1>2, <1>3, <1>4, <1>5 DEF Next, WorkerNext, HcmStep, Resume

LEMMA OverlapInit == OutboundInit => OverlapInv
<1>1. OutboundInit => SettledMatchesRequest
  BY DEF OutboundInit, Init, SettledMatchesRequest
<1> QED BY <1>1, WorkerInit DEF OverlapInv

LEMMA OverlapStep == OverlapInv /\ [Next]_vars => OverlapInv'
<1> SUFFICES ASSUME OverlapInv, [Next]_vars PROVE OverlapInv'
  OBVIOUS
<1>1. WorkerInv'
  BY WorkerStep DEF OverlapInv
<1>2. SettledMatchesRequest'
  BY EventsSettleTogether DEF OverlapInv, SettledMatchesRequest, SettledTogether
<1> QED BY <1>1, <1>2 DEF OverlapInv

LEMMA OverlapInvariant == Spec => []OverlapInv
<1> QED BY OverlapInit, OverlapStep, PTL DEF Spec

\* Type correctness of the tables, the runs and HCM's answers, for any number
\* of overlapping runs.
THEOREM WorkerTypeCorrect == Spec => []WorkerTypeOK
<1>1. OverlapInv => WorkerTypeOK
  BY DEF OverlapInv, WorkerInv
<1> QED BY <1>1, OverlapInvariant, PTL

\* However many runs of the worker overlap, an approval stays atomic: its
\* ledger entry and outbox event are neither lost nor duplicated.
THEOREM ApprovalStaysAtomic == Spec => []ApprovalAtomic
<1>1. OverlapInv => ApprovalAtomic
  BY DEF OverlapInv, WorkerInv
<1> QED BY <1>1, OverlapInvariant, PTL

\* A settled event and its request agree, whatever overlaps.
THEOREM SettledAgree == Spec => []SettledMatchesRequest
<1>1. OverlapInv => SettledMatchesRequest
  BY DEF OverlapInv, WorkerInv
<1> QED BY <1>1, OverlapInvariant, PTL

\* The service never reports SYNCED for days HCM did not consume.
THEOREM SyncedIsApplied == Spec => []SyncedMeansApplied
<1>1. OverlapInv => SyncedMeansApplied
  BY DEF OverlapInv, WorkerInv
<1> QED BY <1>1, OverlapInvariant, PTL

\* HCM is never asked to consume the days of a request nobody approved.
THEOREM OnlyApprovedSubmitted == Spec => []OnlyApprovedReachHcm
<1>1. OverlapInv => OnlyApprovedReachHcm
  BY DEF OverlapInv, WorkerInv
<1> QED BY <1>1, OverlapInvariant, PTL

-----------------------------------------------------------------------------
(* Attempts, for any number of overlapping runs *)

AttemptInv == OverlapInv /\ AttemptsMade

\* Steps that submit nothing, count nothing and leave the listings alone.
LEMMA AttemptsKept ==
  ASSUME WorkerInv, AttemptsMade, UNCHANGED <<due, answer, submits>>,
         \A x \in DOMAIN events : events'[x].createdAt = events[x].createdAt,
         \A x \in DOMAIN events' : events'[x].attemptCount <= submits[x]
  PROVE  AttemptsMade'
<1>1. \A w \in Runs : Current(w)' = Current(w)
  BY CurrentStable DEF WorkerInv, WorkerTypeOK
<1> QED BY <1>1 DEF AttemptsMade

LEMMA AttemptsStart ==
  ASSUME WorkerInv, AttemptsMade, NEW w \in Runs, StartRun(w)
  PROVE  AttemptsMade'
<1>1. /\ UNCHANGED <<events, answer, submits>> /\ answer[w] = "NONE"
      /\ due' = [due EXCEPT ![w] = listDueOutboundSyncEvents] /\ DOMAIN due = Runs
  BY DEF StartRun, reqVars, WorkerInv, WorkerTypeOK
<1>2. \A r \in DOMAIN listDueOutboundSyncEvents : listDueOutboundSyncEvents[r] <= submits[r]
  BY ListedType DEF WorkerInv, AttemptsMade
<1>3. ASSUME NEW v \in Runs, answer[v] # "NONE"
      PROVE  Current(v)' = Current(v) /\ due'[v] = due[v]
  <2>1. due'[v] = due[v]
    BY <1>1, <1>3
  <2> QED BY <1>1, <2>1, CurrentStable
<1>4. \A v \in Runs : \A r \in DOMAIN due'[v] : due'[v][r] <= submits[r]
  BY <1>1, <1>2 DEF AttemptsMade
<1> QED BY <1>1, <1>3, <1>4 DEF AttemptsMade

\* A submission is made before it is counted.
LEMMA AttemptsHcm ==
  ASSUME WorkerInv, AttemptsMade, NEW w \in Runs, HcmStep(w)
  PROVE  AttemptsMade'
<1> DEFINE r == Current(w)
<1>1. /\ r \in DOMAIN due[w] /\ r \in Requests /\ UNCHANGED <<events, due>>
      /\ submits' = [submits EXCEPT ![r] = @ + 1]
      /\ \E kind \in Answers \ {"NONE"} : answer' = [answer EXCEPT ![w] = kind]
  BY HcmEffect DEF WorkerInv, reqVars
<1>2. \A v \in Runs : Current(v)' = Current(v)
  BY <1>1, CurrentStable
<1> HIDE DEF r
<1>3. /\ \A x \in Requests : /\ submits[x] \in Nat /\ submits'[x] \in Nat
                               /\ submits'[x] >= submits[x]
      /\ submits'[r] = submits[r] + 1
  BY <1>1 DEF WorkerInv, WorkerTypeOK
<1>4. /\ DOMAIN events \subseteq Requests
      /\ \A x \in DOMAIN events : events[x].attemptCount \in Nat
      /\ \A v \in Runs : /\ DOMAIN due[v] \subseteq Requests
                          /\ \A x \in DOMAIN due[v] : due[v][x] \in Nat
  BY DEF WorkerInv, WorkerTypeOK, TypeOK, EventRow
<1>5. \A x \in DOMAIN events : events[x].attemptCount <= submits'[x]
  <2> TAKE x \in DOMAIN events
  <2>1. events[x].attemptCount <= submits[x]
    BY DEF AttemptsMade
  <2> QED BY <1>3, <1>4, <2>1
<1>6. ASSUME NEW v \in Runs, NEW x \in DOMAIN due[v] PROVE due[v][x] <= submits'[x]
  <2>1. due[v][x] <= submits[x]
    BY DEF AttemptsMade
  <2> QED BY <1>3, <1>4, <2>1
<1>7. ASSUME NEW v \in Runs, answer'[v] # "NONE"
      PROVE  due[v][Current(v)] + 1 <= submits'[Current(v)]
  <2>1. CASE v = w
    <3>1. due[w][r] <= submits[r]
      BY <1>1 DEF AttemptsMade
    <3> QED BY <1>1, <1>3, <1>4, <2>1, <3>1 DEF r
  <2>2. CASE v # w
    <3>1. answer[v] # "NONE"
      BY <1>1, <1>7, <2>2 DEF WorkerInv, WorkerTypeOK
    <3>2. Current(v) \in DOMAIN due[v]
      BY <3>1, CurrentIsListed DEF WorkerInv, WorkerTypeOK
    <3>3. due[v][Current(v)] + 1 <= submits[Current(v)]
      BY <3>1 DEF AttemptsMade
    <3> QED BY <1>3, <1>4, <3>2, <3>3
  <2> QED BY <2>1, <2>2
<1> QED BY <1>1, <1>2, <1>5, <1>6, <1>7 DEF AttemptsMade

LEMMA AttemptsResume ==
  ASSUME WorkerInv, AttemptsMade, NEW w \in Runs, Resume(w)
  PROVE  AttemptsMade'
<1> DEFINE r == Current(w)
<1>1. /\ r \in DOMAIN events /\ DOMAIN events' = DOMAIN events
      /\ \A x \in DOMAIN events : x # r => events'[x] = events[x]
      /\ events'[r].createdAt = events[r].createdAt
  BY ResumeEffect DEF WorkerInv
<1>2. /\ DOMAIN due' = Runs
      /\ \A v \in Runs : v # w => due'[v] = due[v]
      /\ DOMAIN due'[w] = DOMAIN due[w] \ {r}
      /\ \A x \in DOMAIN due'[w] : due'[w][x] = due[w][x]
      /\ answer' = [answer EXCEPT ![w] = "NONE"] /\ UNCHANGED submits
  BY ResumeAdvances DEF WorkerInv
<1>3. answer[w] # "NONE"
  BY DEF Resume, ResumeOk, ResumeRetry, ResumeFail, ShouldRetry
<1>4. events'[r].attemptCount <= submits[r]
  <2>1. events[r] \in EventRow
    BY <1>1 DEF WorkerInv, WorkerTypeOK, TypeOK
  <2>2. CASE ResumeOk(w)
    <3>1. events' = [events EXCEPT ![r].status = "PROCESSED", ![r].waiting = FALSE]
      BY <2>2 DEF ResumeOk, EventSynced
    <3>2. events'[r].attemptCount = events[r].attemptCount
      <4> HIDE DEF r
      <4> QED BY <1>1, <2>1, <3>1 DEF EventRow
    <3> QED BY <1>1, <3>2 DEF AttemptsMade
  <2>3. CASE ResumeFail(w)
    <3>1. events' = [events EXCEPT ![r].status = "FAILED"]
      BY <2>3 DEF ResumeFail, EventFailed
    <3>2. events'[r].attemptCount = events[r].attemptCount
      <4> HIDE DEF r
      <4> QED BY <1>1, <2>1, <3>1 DEF EventRow
    <3> QED BY <1>1, <3>2 DEF AttemptsMade
  <2>4. CASE ResumeRetry(w)
    <3>1. events' = [events EXCEPT ![r].status = "RETRY_PENDING",
                                   ![r].attemptCount = due[w][r] + 1, ![r].waiting = TRUE]
      BY <2>4 DEF ResumeRetry, EventRetry
    <3>2. due[w][r] + 1 <= submits[r]
      BY <1>3 DEF AttemptsMade
    <3> DEFINE n == due[w][r] + 1
    <3>3. events'[r].attemptCount = n
      <4>1. events' = [events EXCEPT ![r].status = "RETRY_PENDING",
                                     ![r].attemptCount = n, ![r].waiting = TRUE]
        BY <3>1
      <4> HIDE DEF r, n
      <4> QED BY <1>1, <2>1, <4>1 DEF EventRow
    <3> QED BY <3>2, <3>3
  <2> QED BY <2>2, <2>3, <2>4 DEF Resume
<1> HIDE DEF r
<1>5. \A x \in DOMAIN events' : events'[x].attemptCount <= submits'[x]
  BY <1>1, <1>2, <1>4 DEF AttemptsMade
<1>6. \A v \in Runs : \A x \in DOMAIN due'[v] : due'[v][x] <= submits'[x]
  BY <1>2 DEF AttemptsMade
<1>7. ASSUME NEW v \in Runs, answer'[v] # "NONE"
      PROVE  due'[v] = due[v] /\ answer[v] # "NONE" /\ Current(v)' = Current(v)
  <2>1. v # w /\ answer[v] # "NONE"
    BY <1>2, <1>7 DEF WorkerInv, WorkerTypeOK
  <2>2. due'[v] = due[v] /\ DOMAIN due[v] \subseteq DOMAIN events
    BY <1>2, <2>1 DEF WorkerInv, WorkerTypeOK
  <2>3. \A x \in DOMAIN due[v] : events'[x].createdAt = events[x].createdAt
    BY <1>1, <2>2
  <2> QED BY <2>1, <2>2, <2>3, CurrentStable
<1> QED BY <1>2, <1>5, <1>6, <1>7 DEF AttemptsMade

LEMMA AttemptsStep ==
  ASSUME WorkerInv, AttemptsMade, [Next]_vars
  PROVE  AttemptsMade'
<1>1. CASE (RequestNext /\ UNCHANGED workerVars) \/ UNCHANGED vars
  <2>1. /\ [RequestNext]_reqVars /\ UNCHANGED <<due, answer, submits>>
        /\ TypeOK /\ ApprovalAtomic
    BY <1>1 DEF vars, reqVars, workerVars, WorkerInv, WorkerTypeOK
  <2>2. /\ \A x \in DOMAIN events : events'[x] = events[x]
        /\ \A x \in DOMAIN events' \ DOMAIN events :
             events'[x].attemptCount = 0 /\ x \in DOMAIN requests
    BY <2>1, LifecycleFrame
  <2>3. \A x \in DOMAIN requests : submits[x] \in Nat
    BY <2>1 DEF WorkerInv, WorkerTypeOK, TypeOK
  <2> QED BY <2>1, <2>2, <2>3, AttemptsKept DEF AttemptsMade
<1>2. CASE \E r \in Requests : BackoffElapsed(r)
  <2> PICK r \in Requests : BackoffElapsed(r)
    BY <1>2
  <2>1. /\ r \in DOMAIN events /\ events' = [events EXCEPT ![r].waiting = FALSE]
        /\ UNCHANGED <<due, answer, submits>>
    BY DEF BackoffElapsed, workerVars
  <2>2. events[r] \in EventRow
    BY <2>1 DEF WorkerInv, WorkerTypeOK, TypeOK
  <2>3. /\ DOMAIN events' = DOMAIN events
        /\ \A x \in DOMAIN events : /\ events'[x].createdAt = events[x].createdAt
                                    /\ events'[x].attemptCount = events[x].attemptCount
    BY <2>1, <2>2 DEF EventRow
  <2> QED BY <2>1, <2>3, AttemptsKept DEF AttemptsMade
<1> QED BY <1>1, <1>2, AttemptsStart, AttemptsHcm, AttemptsResume
        DEF Next, WorkerNext, HcmStep, Resume

\* What a step to REVERSED rests on.
LEMMA ReversedAfterAttempts ==
  ASSUME WorkerInv, AttemptsMade, [Next]_vars, NEW r \in DOMAIN requests,
         requests[r].status # "REVERSED", requests'[r].status = "REVERSED"
  PROVE  FinalFailure(r)
<1>1. ASSUME (RequestNext /\ UNCHANGED workerVars) \/ UNCHANGED vars PROVE FALSE
  <2>1. [RequestNext]_reqVars /\ TypeOK /\ ApprovalAtomic
    BY <1>1 DEF vars, reqVars, WorkerInv, WorkerTypeOK
  <2>2. /\ WasApproved(r) => requests'[r] = requests[r]
        /\ r \in DOMAIN requests' /\ (~WasApproved(r) => requests'[r].status # "REVERSED")
    BY <2>1, LifecycleFrame
  <2> QED BY <2>2
<1>2. ASSUME NEW w \in Runs, StartRun(w) \/ HcmStep(w) PROVE FALSE
  <2>1. UNCHANGED requests
    BY <1>2, HcmEffect DEF StartRun, WorkerInv, reqVars
  <2> QED BY <2>1
<1>3. ASSUME NEW x \in Requests, BackoffElapsed(x) PROVE FALSE
  BY <1>3 DEF BackoffElapsed
<1>4. ASSUME NEW w \in Runs, Resume(w)
      PROVE  /\ answer[w] \notin {"NONE", "OK"} /\ Current(w) = r
             /\ answer[w] = "TRANSIENT" => submits[r] >= MaxAttempts
  <2> DEFINE c == Current(w)
  <2>1. /\ c \in DOMAIN due[w] /\ c \in DOMAIN events
        /\ \A x \in DOMAIN requests : x # c => requests'[x] = requests[x]
        /\ \/ requests'[c].status = "SYNCED"
           \/ requests' = requests
           \/ /\ answer[w] \notin {"NONE", "OK"}
              /\ answer[w] = "TRANSIENT" => due[w][c] + 1 >= MaxAttempts
    BY <1>4, ResumeEffect DEF WorkerInv
  <2>2. due[w][c] \in Nat /\ submits[c] \in Nat
    BY <2>1 DEF WorkerInv, WorkerTypeOK, TypeOK
  <2>3. answer[w] # "NONE" => due[w][c] + 1 <= submits[c]
    BY DEF AttemptsMade
  <2> HIDE DEF c
  <2>4. c = r /\ answer[w] \notin {"NONE", "OK"}
        /\ (answer[w] = "TRANSIENT" => submits[r] >= MaxAttempts)
    BY <2>1, <2>2, <2>3, MaxAttemptsAssumption
  <2> QED BY <2>4 DEF c
<1> QED BY <1>1, <1>2, <1>3, <1>4 DEF Next, WorkerNext, HcmStep, Resume, FinalFailure

\* Whatever overlaps and however stale a listed count is, no approval is given
\* up because of transient failures before HCM was asked MaxAttempts times.
THEOREM NoEarlyReversal == Spec => RetriesExhausted
<1>1. OutboundInit => AttemptInv
  <2>1. OutboundInit => AttemptsMade
    BY DEF OutboundInit, Init, NothingDue, AttemptsMade
  <2> QED BY <2>1, OverlapInit DEF AttemptInv
<1>2. AttemptInv /\ [Next]_vars => AttemptInv'
  BY OverlapStep, AttemptsStep DEF AttemptInv, OverlapInv
<1>3. AttemptInv /\ [Next]_vars =>
        [\A r \in DOMAIN requests :
           requests[r].status # "REVERSED" /\ requests'[r].status = "REVERSED"
             => FinalFailure(r)]_vars
  BY ReversedAfterAttempts DEF AttemptInv, OverlapInv
<1> QED BY <1>1, <1>2, <1>3, PTL DEF Spec, RetriesExhausted

-----------------------------------------------------------------------------
(* The accounts, for any number of overlapping runs *)

\* The lifecycle's handlers keep the rows the worker relies on.
LEMMA RowsExistLifecycle ==
  ASSUME TypeOK, ApprovalAtomic, RowsExist, [RequestNext]_reqVars,
         DOMAIN events \subseteq DOMAIN requests
  PROVE  RowsExist'
<1> DEFINE Old == /\ \A k \in Keys : ~HasRow(balances[k]) => balances[k].availableDays = 0
                  /\ \A r \in DOMAIN events : HasRow(balances[requests[r].key])
                  /\ \A r \in DOMAIN requests : requests[r].days \in DayInputs
<1>0. Old
  BY DEF RowsExist
<1>1. CASE \E r \in Requests, k \in Keys, d \in DayInputs : Create(r, k, d)
  <2> PICK r \in Requests, k \in Keys, d \in DayInputs : Create(r, k, d)
    BY <1>1
  <2>1. /\ DOMAIN requests' = DOMAIN requests \union {r}
        /\ r \notin DOMAIN requests
        /\ \A x \in DOMAIN requests : requests'[x] = requests[x]
        /\ requests'[r].days = d
        /\ events' = events /\ balances' = balances
    BY DEF Create, Insert
  <2> QED BY <1>0, <2>1 DEF RowsExist
<1>2. CASE \E r \in Requests : Approve(r)
  <2> PICK r \in Requests : Approve(r)
    BY <1>2
  <2> DEFINE k == requests[r].key
             days == requests[r].days
             current == GetOrCreate(balances[k])
  <2>1. k \in Keys /\ days \in Nat /\ balances[k] \in BalanceRow /\ r \in DOMAIN requests
    BY DEF Approve, TypeOK, RequestRow
  <2>2. current \in BalanceRow
    BY <2>1, RowOps
  <2>3. balances' = [balances EXCEPT ![k] = Consume(current, days)]
    BY DEF Approve
  <2>4. HasRow(Consume(current, days))
    <3> HIDE DEF current
    <3> QED BY <2>2 DEF Consume, HasRow, BalanceRow
  <2>5. \A x \in Keys : x # k => balances'[x] = balances[x]
    BY <2>3 DEF TypeOK
  <2>6. HasRow(balances'[k])
    BY <2>1, <2>3, <2>4 DEF TypeOK
  <2>7. DOMAIN events' = DOMAIN events \union {r}
    <3>1. events' = Insert(events, r, NewEvent)
      BY DEF Approve
    <3> QED BY <3>1 DEF Insert
  <2>8. /\ DOMAIN requests' = DOMAIN requests
        /\ \A x \in DOMAIN requests : /\ requests'[x].key = requests[x].key
                                      /\ requests'[x].days = requests[x].days
    BY <2>1, SaveEffect DEF Approve, RequestStatus
  <2>9. \A x \in DOMAIN requests : requests[x].key \in Keys
    BY DEF TypeOK, RequestRow
  <2> HIDE DEF k
  <2>10. ASSUME NEW x \in DOMAIN events' PROVE HasRow(balances'[requests'[x].key])
    <3>1. x \in DOMAIN requests /\ requests'[x].key = requests[x].key
      BY <2>1, <2>7, <2>8
    <3>2. CASE requests[x].key = k
      BY <3>1, <3>2, <2>6
    <3>3. CASE requests[x].key # k
      <4>1. x \in DOMAIN events
        BY <2>7, <3>3 DEF k
      <4>2. balances'[requests[x].key] = balances[requests[x].key]
        BY <2>5, <2>9, <3>1, <3>3
      <4> QED BY <1>0, <4>1, <4>2, <3>1
    <3> QED BY <3>2, <3>3
  <2> QED BY <1>0, <2>5, <2>6, <2>8, <2>10 DEF RowsExist, HasRow
<1>3. CASE \E r \in Requests : Reject(r) \/ Cancel(r)
  <2> PICK r \in Requests : Reject(r) \/ Cancel(r)
    BY <1>3
  <2>1. /\ DOMAIN requests' = DOMAIN requests
        /\ \A x \in DOMAIN requests : /\ requests'[x].key = requests[x].key
                                      /\ requests'[x].days = requests[x].days
    BY SaveEffect DEF Reject, Cancel, RequestStatus
  <2>2. events' = events /\ balances' = balances
    BY DEF Reject, Cancel
  <2> QED BY <1>0, <2>1, <2>2 DEF RowsExist
<1>4. CASE \E k \in Keys : GetBalance(k)
  <2> PICK k \in Keys : GetBalance(k)
    BY <1>4
  <2>1. /\ requests' = requests /\ events' = events
        /\ balances' = [balances EXCEPT ![k] = GetOrCreate(balances[k])]
    BY DEF GetBalance
  <2>2. HasRow(GetOrCreate(balances[k]))
    BY RowOps DEF TypeOK
  <2>3. \A x \in Keys : IF x = k THEN HasRow(balances'[x]) ELSE balances'[x] = balances[x]
    BY <2>1, <2>2 DEF TypeOK
  <2>4. \A x \in DOMAIN requests : requests[x].key \in Keys
    BY DEF TypeOK, RequestRow
  <2> QED BY <1>0, <2>1, <2>3, <2>4 DEF RowsExist
<1>5. CASE UNCHANGED reqVars
  BY <1>0, <1>5 DEF RowsExist, reqVars
<1> QED BY <1>1, <1>2, <1>3, <1>4, <1>5 DEF RequestNext

\* Resuming a run gives days back to a row that exists, or writes none.
LEMMA RowsExistResume ==
  ASSUME WorkerTypeOK, ApprovalAtomic, RowsExist, NEW w \in Runs, Resume(w)
  PROVE  RowsExist'
<1> DEFINE r == Current(w)
<1>1. /\ r \in DOMAIN events /\ r \in DOMAIN requests
      /\ DOMAIN events' = DOMAIN events /\ DOMAIN requests' = DOMAIN requests
      /\ \A x \in DOMAIN requests : x # r => requests'[x] = requests[x]
      /\ requests'[r].key = requests[r].key /\ requests'[r].days = requests[r].days
      /\ balances' = balances \/ balances' = DaysReturned(r)
  BY ResumeEffect
<1> HIDE DEF r
<1>2. \A x \in DOMAIN requests : /\ requests'[x].key = requests[x].key
                                 /\ requests'[x].days = requests[x].days
                                 /\ requests[x].key \in Keys
  BY <1>1 DEF WorkerTypeOK, TypeOK, RequestRow
<1>3. \A x \in DOMAIN events : x \in DOMAIN requests
  BY EventsAreApproved
<1>4. \A k \in Keys : /\ HasRow(balances'[k]) <=> HasRow(balances[k])
                      /\ ~HasRow(balances[k]) => balances'[k] = balances[k]
  <2>1. CASE balances' = balances
    BY <2>1
  <2>2. CASE balances' = DaysReturned(r)
    <3> DEFINE b == requests[r].key
               d == requests[r].days
    <3>1. balances' = [balances EXCEPT ![b] = Credit(balances[b], d)]
      BY <2>2 DEF DaysReturned
    <3>2. b \in Keys /\ balances[b] \in BalanceRow
      BY <1>1, <1>2 DEF WorkerTypeOK, TypeOK
    <3>3. /\ HasRow(Credit(balances[b], d)) <=> HasRow(balances[b])
          /\ ~HasRow(balances[b]) => Credit(balances[b], d) = balances[b]
      <4> HIDE DEF b, d
      <4> QED BY <3>2 DEF Credit, HasRow, BalanceRow
    <3> HIDE DEF b, d
    <3> QED BY <3>1, <3>2, <3>3 DEF WorkerTypeOK, TypeOK
  <2> QED BY <1>1, <2>1, <2>2
<1>5. /\ \A k \in Keys : ~HasRow(balances[k]) => balances[k].availableDays = 0
      /\ \A x \in DOMAIN events : HasRow(balances[requests[x].key])
      /\ \A x \in DOMAIN requests : requests[x].days \in DayInputs
  BY DEF RowsExist
<1> QED BY <1>1, <1>2, <1>3, <1>4, <1>5 DEF RowsExist

\* Settling an event never loses days, and if its request held its days it
\* loses and adds none: they stay held, or go back to the balance.
LEMMA ResumeAccounts ==
  ASSUME AccountsInv, NEW w \in Runs, Resume(w)
  PROVE  \A k \in Keys : /\ Accounted(k)' >= Accounted(k)
                         /\ Holding(Current(w)) => Accounted(k)' = Accounted(k)
<1>a. PICK r : r = Current(w)
  OBVIOUS
<1>b. PICK b, d : b = requests[r].key /\ d = requests[r].days
  OBVIOUS
<1>1. WorkerTypeOK /\ TypeOK /\ ApprovalAtomic /\ RowsExist /\ IsFiniteSet(DOMAIN requests)
  BY DEF AccountsInv, WorkerInv, WorkerTypeOK
<1>2. /\ r \in DOMAIN events /\ r \in DOMAIN requests
      /\ DOMAIN requests' = DOMAIN requests
      /\ \A x \in DOMAIN requests : x # r => requests'[x] = requests[x]
      /\ requests'[r].key = b /\ requests'[r].days = d
      /\ \/ requests'[r].status = "SYNCED" /\ balances' = balances
         \/ requests' = requests /\ balances' = balances
         \/ requests'[r].status = "REVERSED" /\ balances' = DaysReturned(r)
  BY <1>1, <1>a, <1>b, ResumeEffect
<1>3. b \in Keys /\ d \in Nat /\ balances[b] \in BalanceRow /\ HasRow(balances[b])
  BY <1>1, <1>2, <1>b DEF TypeOK, RequestRow, RowsExist
<1>4. \A k \in Keys : HeldDays(k) \in Nat /\ balances[k].availableDays \in Nat
  BY <1>1, HeldType DEF TypeOK, BalanceRow
<1>5. CASE Holding(r)' <=> Holding(r)
  <2>1. \A x \in DOMAIN requests : /\ requests'[x].key = requests[x].key
                                   /\ requests'[x].days = requests[x].days
                                   /\ Holding(x)' <=> Holding(x)
    BY <1>2, <1>5, <1>b DEF Holding
  <2>2. \A k \in Keys : HeldDays(k)' = HeldDays(k)
    BY <1>1, <1>2, <2>1, HeldKept
  <2>3. balances' = balances \/ (balances' = DaysReturned(r) /\ ~Holding(r))
    BY <1>2, <1>5 DEF Holding
  <2>4. \A k \in Keys : /\ balances'[k].availableDays >= balances[k].availableDays
                        /\ Holding(r) => balances'[k] = balances[k]
    <3>1. CASE balances' = balances
      BY <3>1, <1>4
    <3>2. CASE balances' = DaysReturned(r) /\ ~Holding(r)
      BY <3>2, <1>1, <1>3, <1>4, <1>b DEF DaysReturned, Credit, TypeOK, BalanceRow
    <3> QED BY <2>3, <3>1, <3>2
  <2>5. \A k \in Keys : balances'[k].availableDays \in Int
    <3>1. CASE balances' = balances
      BY <3>1, <1>4
    <3>2. CASE balances' = DaysReturned(r)
      BY <3>2, <1>1, <1>3, <1>4, <1>b DEF DaysReturned, Credit, TypeOK, BalanceRow
    <3> QED BY <2>3, <3>1, <3>2
  <2> QED BY <1>a, <1>4, <2>2, <2>4, <2>5 DEF Accounted
<1>6. CASE Holding(r)' <=> ~Holding(r)
  <2>1. \A k \in Keys : HeldDays(k)' =
          IF b # k THEN HeldDays(k)
          ELSE IF Holding(r) THEN HeldDays(k) - d ELSE HeldDays(k) + d
    BY <1>1, <1>2, <1>6, <1>b, HeldMoves
  <2>2. CASE Holding(r)
    <3>1. balances' = DaysReturned(r)
      BY <1>2, <1>6, <2>2 DEF Holding
    <3>2. balances' = [balances EXCEPT ![b] = Credit(balances[b], d)]
      BY <3>1, <1>b DEF DaysReturned
    <3>3. \A k \in Keys : balances'[k].availableDays =
            IF k = b THEN balances[b].availableDays + d ELSE balances[k].availableDays
      BY <3>2, <1>1, <1>3 DEF Credit, TypeOK
    <3> QED BY <1>3, <1>4, <2>1, <2>2, <3>3 DEF Accounted
  <2>3. CASE ~Holding(r)
    <3>1. balances' = balances
      BY <1>2, <1>6, <2>3 DEF Holding
    <3> QED BY <1>a, <1>3, <1>4, <2>1, <2>3, <3>1 DEF Accounted
  <2> QED BY <2>2, <2>3
<1> QED BY <1>5, <1>6

\* HCM, the clock and the start of a run touch neither requests nor balances.
LEMMA AccountsFrame ==
  ASSUME WorkerTypeOK, ApprovalAtomic,
         \/ \E w \in Runs : StartRun(w) \/ HcmStep(w)
         \/ \E r \in Requests : BackoffElapsed(r)
  PROVE  requests' = requests /\ balances' = balances /\ DOMAIN events' = DOMAIN events
         /\ \A r \in DOMAIN events : events'[r].status = events[r].status
<1>1. ASSUME NEW w \in Runs, StartRun(w) \/ HcmStep(w)
      PROVE  UNCHANGED <<requests, balances, events>>
  BY <1>1, HcmEffect DEF StartRun, reqVars
<1>2. ASSUME NEW r \in Requests, BackoffElapsed(r)
      PROVE  /\ UNCHANGED <<requests, balances>> /\ DOMAIN events' = DOMAIN events
             /\ \A x \in DOMAIN events : events'[x].status = events[x].status
  BY <1>2 DEF BackoffElapsed, WorkerTypeOK, TypeOK, EventRow
<1> QED BY <1>1, <1>2

LEMMA AccountsStep ==
  ASSUME AccountsInv, [Next]_vars
  PROVE  /\ AccountsInv'
         /\ \A k \in Keys : Accounted(k)' >= Accounted(k)
         /\ (\A w \in Runs : Resume(w) => Holding(Current(w)))
              => \A k \in Keys : Accounted(k)' = Accounted(k)
<1>1. WorkerTypeOK /\ TypeOK /\ ApprovalAtomic /\ RowsExist /\ IsFiniteSet(DOMAIN requests)
  BY DEF AccountsInv, WorkerInv, WorkerTypeOK
<1>2. WorkerInv'
  BY WorkerStep DEF AccountsInv
<1>3. MissingRowsEmpty
  BY <1>1 DEF RowsExist, MissingRowsEmpty
<1>4. \A x \in DOMAIN events : x \in DOMAIN requests
  BY <1>1, EventsAreApproved
<1>5. \A k \in Keys : Accounted(k) \in Nat
  BY <1>1, AccountedType
<1>6. CASE [RequestNext]_reqVars
  <2>1. RowsExist'
    BY <1>1, <1>4, <1>6, RowsExistLifecycle
  <2>2. IsFiniteSet(DOMAIN requests') /\ \A k \in Keys : Accounted(k)' = Accounted(k)
    BY <1>1, <1>3, <1>6, LifecycleAccounts
  <2> QED BY <1>2, <1>5, <2>1, <2>2 DEF AccountsInv
<1>7. CASE \E w \in Runs : Resume(w)
  <2> PICK w \in Runs : Resume(w)
    BY <1>7
  <2>1. RowsExist' /\ DOMAIN requests' = DOMAIN requests
    BY <1>1, RowsExistResume, ResumeEffect
  <2> QED BY <1>1, <1>2, <2>1, ResumeAccounts DEF AccountsInv
<1>8. CASE \/ \E w \in Runs : StartRun(w) \/ HcmStep(w)
           \/ \E r \in Requests : BackoffElapsed(r)
  <2>1. /\ requests' = requests /\ balances' = balances
        /\ DOMAIN events' = DOMAIN events
    BY <1>1, <1>8, AccountsFrame
  <2>2. RowsExist'
    BY <1>1, <2>1 DEF RowsExist
  <2>3. \A k \in Keys : HeldDays(k)' = HeldDays(k)
    BY <1>1, <2>1, HeldKept DEF Holding
  <2> QED BY <1>1, <1>2, <1>5, <2>1, <2>2, <2>3 DEF AccountsInv, Accounted
<1> QED
  BY <1>6, <1>7, <1>8 DEF Next, WorkerNext, HcmStep, Resume, vars, reqVars

LEMMA AccountsInit == OutboundInit => AccountsInv /\ Conservation
<1> SUFFICES ASSUME OutboundInit PROVE AccountsInv /\ Conservation
  OBVIOUS
<1>1. Init
  BY DEF OutboundInit
<1>2. RowsExist
  BY <1>1, ImportedAssumption
  DEF RowsExist, Init, NoBalance, HasRow, upsertAbsolute
<1> QED BY <1>1, <1>2, WorkerInit, AccountedInit DEF AccountsInv, Conservation, Accounted

\* However many runs overlap, and whatever HCM answers, nobody loses days:
\* giving days back twice can only leave too many.
THEOREM NobodyLosesDays == Spec => []NeverUnderCredited
<1>1. OutboundInit => CreditInv
  <2> SUFFICES ASSUME OutboundInit PROVE CreditInv
    OBVIOUS
  <2>1. \A k \in Keys : Imported[k] \in Nat
    BY ImportedAssumption
  <2> QED BY <2>1, AccountsInit DEF CreditInv, NeverUnderCredited, Conservation
<1>2. CreditInv /\ [Next]_vars => CreditInv'
  <2> SUFFICES ASSUME CreditInv, [Next]_vars PROVE CreditInv'
    OBVIOUS
  <2>1. AccountsInv /\ AccountsInv' /\ \A k \in Keys : Accounted(k)' >= Accounted(k)
    BY AccountsStep DEF CreditInv
  <2>2. \A k \in Keys : /\ Accounted(k) \in Nat /\ Accounted(k)' \in Nat
                        /\ Imported[k] \in Nat
    BY <2>1, AccountedType, AccountedTypeNext, ImportedAssumption
    DEF AccountsInv, WorkerInv, WorkerTypeOK
  <2>3. \A k \in Keys : Accounted(k) >= Imported[k]
    BY DEF CreditInv, NeverUnderCredited, Accounted
  <2>4. \A k \in Keys : Accounted(k)' >= Imported[k]
    BY <2>1, <2>2, <2>3
  <2> QED BY <2>1, <2>4 DEF CreditInv, NeverUnderCredited, Accounted
<1>3. CreditInv => NeverUnderCredited
  BY DEF CreditInv
<1> QED BY <1>1, <1>2, <1>3, PTL DEF Spec

-----------------------------------------------------------------------------
(* The accounts with one run at a time *)

\* An event that is still to be sent was not settled behind the run's back.
LEMMA HeldUntilSettledStep ==
  ASSUME AtMostOneRun, AccountsInv, HeldUntilSettled, [Next]_vars
  PROVE  HeldUntilSettled'
<1>1. WorkerTypeOK /\ TypeOK /\ ApprovalAtomic
  BY DEF AccountsInv, WorkerInv, WorkerTypeOK
<1>2. \A x \in DOMAIN events : x \in DOMAIN requests /\ WasApproved(x)
  BY <1>1, EventsAreApproved
<1>3. \A w \in Runs : DOMAIN due[w] \subseteq DOMAIN events
  BY <1>1 DEF WorkerTypeOK
<1>4. CASE (RequestNext /\ UNCHANGED workerVars) \/ UNCHANGED vars
  <2>1. due' = due /\ [RequestNext]_reqVars
    BY <1>4 DEF workerVars, vars, reqVars
  <2>2. /\ \A x \in DOMAIN events : /\ x \in DOMAIN events'
                                    /\ events'[x] = events[x]
                                    /\ requests'[x] = requests[x]
        /\ \A x \in DOMAIN events' \ DOMAIN events : requests'[x].status = "APPROVED"
    BY <1>1, <1>2, <2>1, LifecycleFrame
  <2> QED BY <1>3, <2>1, <2>2 DEF HeldUntilSettled, Live, Holding
<1>5. ASSUME NEW w \in Runs, StartRun(w) PROVE HeldUntilSettled'
  <2>1. /\ due' = [due EXCEPT ![w] = listDueOutboundSyncEvents]
        /\ requests' = requests /\ events' = events
    BY <1>5 DEF StartRun, reqVars
  <2>2. \A v \in Runs : due'[v] = listDueOutboundSyncEvents
    BY <1>1, <1>5, <2>1 DEF AtMostOneRun, WorkerTypeOK
  <2> QED BY <1>1, <2>1, <2>2, ListedType DEF HeldUntilSettled, Live, Holding
<1>6. ASSUME NEW w \in Runs, HcmStep(w) PROVE HeldUntilSettled'
  BY <1>1, <1>6, HcmEffect DEF reqVars, HeldUntilSettled, Live, Holding
<1>7. ASSUME NEW w \in Runs, Resume(w) PROVE HeldUntilSettled'
  <2>a. PICK r : r = Current(w)
    OBVIOUS
  <2>1. /\ r \in DOMAIN due[w] /\ r \in DOMAIN events
        /\ DOMAIN events' = DOMAIN events
        /\ \A x \in DOMAIN events : x # r => events'[x] = events[x]
        /\ \A x \in DOMAIN requests : x # r => requests'[x] = requests[x]
        /\ \/ events'[r].status = "PROCESSED"
           \/ events'[r].status = "RETRY_PENDING" /\ requests' = requests
           \/ events'[r].status = "FAILED"
    BY <1>1, <1>7, <2>a, ResumeEffect
  <2>2. \A v \in Runs : v = w /\ DOMAIN due'[v] = DOMAIN due[w] \ {r}
    BY <1>1, <1>7, <2>a, ResumeAdvances DEF AtMostOneRun
  <2>3. \A x \in DOMAIN events : Live(x)' => Holding(x)'
    <3> TAKE x \in DOMAIN events
    <3>1. CASE x = r
      BY <3>1, <2>1 DEF HeldUntilSettled, Live, Holding
    <3>2. CASE x # r
      BY <3>2, <1>2, <2>1 DEF HeldUntilSettled, Live, Holding
    <3> QED BY <3>1, <3>2
  <2>4. \A v \in Runs : \A x \in DOMAIN due'[v] : Live(x)'
    BY <1>3, <2>1, <2>2 DEF HeldUntilSettled, Live
  <2> QED BY <2>1, <2>3, <2>4 DEF HeldUntilSettled
<1>8. ASSUME NEW r \in Requests, BackoffElapsed(r) PROVE HeldUntilSettled'
  <2>1. /\ requests' = requests /\ DOMAIN events' = DOMAIN events /\ due' = due
        /\ \A x \in DOMAIN events : events'[x].status = events[x].status
    BY <1>1, <1>8, AccountsFrame DEF BackoffElapsed, workerVars
  <2> QED BY <1>3, <2>1 DEF HeldUntilSettled, Live, Holding
<1> QED
  BY <1>4, <1>5, <1>6, <1>7, <1>8 DEF Next, WorkerNext, HcmStep, Resume

\* So every step accounts for every day.
LEMMA OneRunAccounts ==
  ASSUME AtMostOneRun, OneRunInv, [Next]_vars
  PROVE  OneRunInv' /\ \A k \in Keys : Accounted(k)' = Accounted(k)
<1>1. AccountsInv /\ HeldUntilSettled /\ WorkerTypeOK /\ ApprovalAtomic
  BY DEF OneRunInv, AccountsInv, WorkerInv
<1>2. ASSUME NEW w \in Runs, Resume(w) PROVE Holding(Current(w))
  <2>1. Current(w) \in DOMAIN due[w] /\ Current(w) \in DOMAIN events
    BY <1>1, <1>2, ResumeEffect
  <2> QED BY <1>1, <2>1 DEF HeldUntilSettled
<1> QED BY <1>1, <1>2, AccountsStep, HeldUntilSettledStep DEF OneRunInv

LEMMA OneRunInit == OutboundInit => OneRunInv /\ Conservation
<1>1. OutboundInit => HeldUntilSettled
  BY DEF OutboundInit, Init, HeldUntilSettled, NothingDue
<1> QED BY <1>1, AccountsInit DEF OneRunInv

\* With one run at a time no day is spent twice or lost, even when HCM's
\* answers are late, wrong or lost.
THEOREM OneRunConserves ==
  ASSUME AtMostOneRun
  PROVE  Spec => []Conservation
<1>1. OneRunInv /\ Conservation /\ [Next]_vars => (OneRunInv /\ Conservation)'
  BY OneRunAccounts DEF Conservation, Accounted
<1> QED BY <1>1, OneRunInit, PTL DEF Spec

-----------------------------------------------------------------------------
(* Versions *)

LEMMA ServiceMovesForward ==
  ASSUME WorkerTypeOK, [Next]_vars
  PROVE  RowsMoveForward
<1>1. TypeOK /\ balances \in [Keys -> BalanceRow]
  BY DEF WorkerTypeOK, TypeOK
<1>2. CASE RequestNext
  BY <1>1, <1>2, LifecycleMovesForward
<1>3. ASSUME NEW r, balances' = DaysReturned(r) PROVE RowsMoveForward
  <2> DEFINE k == requests[r].key
             row == Credit(balances[k], requests[r].days)
  <2>1. balances' = [balances EXCEPT ![k] = row]
    BY <1>3 DEF DaysReturned
  <2>2. CASE k \in Keys
    <3>1. balances[k].version \in Nat
      BY <1>1, <2>2 DEF BalanceRow
    <3>2. row = balances[k] \/ row.version = balances[k].version + 1
      BY DEF Credit
    <3> HIDE DEF row, k
    <3>3. row = balances[k] \/ row.version > balances[k].version
      BY <3>1, <3>2
    <3> QED BY <1>1, <2>1, <3>3, RowWritten
  <2>3. CASE k \notin Keys
    BY <1>1, <2>1, <2>3 DEF RowsMoveForward
  <2> QED BY <2>2, <2>3
<1>4. ASSUME UNCHANGED balances PROVE RowsMoveForward
  BY <1>4 DEF RowsMoveForward
<1>5. ASSUME NEW w \in Runs,
             StartRun(w) \/ HcmConsume(w) \/ HcmInsufficient(w) \/ HcmFault(w)
      PROVE  RowsMoveForward
  <2>1. balances' = balances
    BY <1>5 DEF StartRun, HcmConsume, HcmInsufficient, HcmFault, Refuse, Accept, reqVars
  <2> QED BY <2>1, <1>4
<1>6. ASSUME NEW w \in Runs, ResumeOk(w) \/ ResumeRetry(w) \/ ResumeFail(w)
      PROVE  RowsMoveForward
  <2>1. balances' = balances \/ balances' = DaysReturned(Current(w))
    BY <1>6 DEF ResumeOk, ResumeRetry, ResumeFail
  <2> QED BY <2>1, <1>3, <1>4
<1>7. ASSUME NEW r \in Requests, BackoffElapsed(r) PROVE RowsMoveForward
  BY <1>4, <1>7 DEF BackoffElapsed
<1>8. CASE UNCHANGED vars
  BY <1>4, <1>8 DEF vars, reqVars
<1> QED BY <1>2, <1>5, <1>6, <1>7, <1>8 DEF Next, WorkerNext

\* The worker's compensations too move the version of the row they write
\* forward, however many runs overlap: an approval that read the row before a
\* compensation can tell.
THEOREM VersionsAdvanceUnderSync == Spec => VersionFence
<1>1. WorkerInv /\ [Next]_vars => [RowsMoveForward]_reqVars
  BY ServiceMovesForward DEF WorkerInv
<1>2. [RowsMoveForward]_reqVars =>
        [\A k \in Keys : balances'[k] # balances[k]
                            => balances'[k].version > balances[k].version]_reqVars
  BY DEF RowsMoveForward
<1> QED BY <1>1, <1>2, WorkerInit, WorkerStep, PTL DEF Spec, VersionFence
=============================================================================
