------------------------ MODULE OutboundCrash_proofs ------------------------
(***************************************************************************)
(* Theorems about the outbound worker when the process may die between two *)
(* statements, any number of times, with any number of overlapping runs    *)
(* and every kind of fault.                                                *)
(***************************************************************************)
EXTENDS OutboundCrash, OutboundSync_proofs

CrashInv == WorkerInv /\ ProcessedMeansSynced

-----------------------------------------------------------------------------
(* The statements that a crash can separate *)

LEMMA StatementEffects ==
  ASSUME TypeOK, NEW r \in DOMAIN requests, r \in DOMAIN events
  PROVE  /\ \A t \in {RequestSynced(r), RequestReversed(r)} :
              /\ DOMAIN t = DOMAIN requests
              /\ t \in [DOMAIN requests -> RequestRow]
              /\ \A x \in DOMAIN requests : x # r => t[x] = requests[x]
              /\ t[r].key = requests[r].key /\ t[r].days = requests[r].days
         /\ RequestSynced(r)[r].status = "SYNCED"
         /\ RequestReversed(r)[r].status = "REVERSED"
         /\ DOMAIN EventFailed(r) = DOMAIN events
         /\ EventFailed(r) \in [DOMAIN events -> EventRow]
         /\ \A x \in DOMAIN events : x # r => EventFailed(r)[x] = events[x]
         /\ EventFailed(r)[r].status = "FAILED"
<1>1. requests[r] \in RequestRow /\ events[r] \in EventRow
  BY DEF TypeOK
<1>2. /\ DOMAIN RequestSynced(r) = DOMAIN requests
      /\ RequestSynced(r) \in [DOMAIN requests -> RequestRow]
      /\ \A x \in DOMAIN requests : x # r => RequestSynced(r)[x] = requests[x]
      /\ RequestSynced(r)[r].key = requests[r].key
      /\ RequestSynced(r)[r].days = requests[r].days
      /\ RequestSynced(r)[r].status = "SYNCED"
  BY <1>1 DEF RequestSynced, TypeOK, RequestRow, RequestStatus, SyncState
<1>3. /\ DOMAIN RequestReversed(r) = DOMAIN requests
      /\ RequestReversed(r) \in [DOMAIN requests -> RequestRow]
      /\ \A x \in DOMAIN requests : x # r => RequestReversed(r)[x] = requests[x]
      /\ RequestReversed(r)[r].key = requests[r].key
      /\ RequestReversed(r)[r].days = requests[r].days
      /\ RequestReversed(r)[r].status = "REVERSED"
  BY <1>1 DEF RequestReversed, TypeOK, RequestRow, RequestStatus, SyncState
<1>4. /\ DOMAIN EventFailed(r) = DOMAIN events
      /\ EventFailed(r) \in [DOMAIN events -> EventRow]
      /\ \A x \in DOMAIN events : x # r => EventFailed(r)[x] = events[x]
      /\ EventFailed(r)[r].status = "FAILED"
  BY <1>1 DEF EventFailed, TypeOK, EventRow, OutboundStatus
<1> QED BY <1>2, <1>3, <1>4

\* A run whose answer arrived is at an event of an approved request.
LEMMA AnsweredRun ==
  ASSUME WorkerInv, NEW w \in Runs, answer[w] # "NONE"
  PROVE  /\ Current(w) \in DOMAIN events /\ Current(w) \in DOMAIN requests
         /\ WasApproved(Current(w))
BY CurrentIsListed, EventsAreApproved DEF WorkerInv, WorkerTypeOK

\* What the three cut handlers leave in the tables.
LEMMA CutEffect ==
  ASSUME WorkerInv, WorkerCrash
  PROVE  /\ DOMAIN requests' = DOMAIN requests
         /\ DOMAIN events' = DOMAIN events
         /\ requests' \in [DOMAIN requests -> RequestRow]
         /\ events' \in [DOMAIN events -> EventRow]
         /\ UNCHANGED <<balances, ledger, hcm, applied, submits>>
         /\ due' = [w \in Runs |-> NothingDue] /\ answer' = [w \in Runs |-> "NONE"]
         /\ \A x \in DOMAIN requests :
              /\ requests'[x].key = requests[x].key
              /\ requests'[x].days = requests[x].days
              /\ \/ requests'[x].status = requests[x].status
                 \/ /\ x \in DOMAIN events /\ WasApproved(x)
                    /\ \E w \in Runs : x = Current(w) /\ answer[w] # "NONE"
                    /\ \/ /\ requests'[x].status = "SYNCED" /\ applied[x] >= 1
                       \/ /\ requests'[x].status = "REVERSED"
                          /\ events'[x].status = "FAILED"
         /\ \A x \in DOMAIN events :
              events'[x].status \in {events[x].status, "FAILED"}
<1>1. TypeOK
  BY DEF WorkerInv, WorkerTypeOK
<1>2. Restart /\ UNCHANGED balances
  BY DEF WorkerCrash, Crash, CrashAfterRequestSynced, CrashAfterEventFailed,
         CrashAfterRequestReversed
<1>3. /\ UNCHANGED <<ledger, hcm, applied, submits>>
      /\ due' = [w \in Runs |-> NothingDue] /\ answer' = [w \in Runs |-> "NONE"]
  BY <1>2 DEF Restart, RunsDie
<1>4. CASE Crash
  BY <1>1, <1>2, <1>3, <1>4 DEF Crash, TypeOK
<1>5. ASSUME NEW w \in Runs, CrashAfterRequestSynced(w)
      PROVE  /\ requests' = RequestSynced(Current(w)) /\ events' = events
             /\ applied[Current(w)] >= 1 /\ answer[w] # "NONE"
  BY <1>5 DEF CrashAfterRequestSynced, WorkerInv, OkMeansApplied
<1>6. ASSUME NEW w \in Runs, CrashAfterEventFailed(w) \/ CrashAfterRequestReversed(w)
      PROVE  /\ requests' = requests \/ requests' = RequestReversed(Current(w))
             /\ events' = EventFailed(Current(w))
             /\ answer[w] # "NONE"
  BY <1>6 DEF CrashAfterEventFailed, CrashAfterRequestReversed
<1>7. CASE \E w \in Runs : CrashAfterRequestSynced(w)
  <2>1. PICK w \in Runs : CrashAfterRequestSynced(w)
    BY <1>7
  <2>2. PICK r : r = Current(w)
    OBVIOUS
  <2>3. r \in DOMAIN events /\ r \in DOMAIN requests /\ WasApproved(r)
    BY <1>5, <2>1, <2>2, AnsweredRun
  <2>4. requests' = RequestSynced(r) /\ events' = events /\ applied[r] >= 1
        /\ \E v \in Runs : r = Current(v) /\ answer[v] # "NONE"
    BY <1>5, <2>1, <2>2
  <2> QED BY <1>1, <1>2, <1>3, <2>3, <2>4, StatementEffects DEF TypeOK
<1>8. CASE \E w \in Runs : CrashAfterEventFailed(w) \/ CrashAfterRequestReversed(w)
  <2>1. PICK w \in Runs : CrashAfterEventFailed(w) \/ CrashAfterRequestReversed(w)
    BY <1>8
  <2>2. PICK r : r = Current(w)
    OBVIOUS
  <2>3. r \in DOMAIN events /\ r \in DOMAIN requests /\ WasApproved(r)
    BY <1>6, <2>1, <2>2, AnsweredRun
  <2>4. /\ requests' = requests \/ requests' = RequestReversed(r)
        /\ events' = EventFailed(r)
        /\ \E v \in Runs : r = Current(v) /\ answer[v] # "NONE"
    BY <1>6, <2>1, <2>2
  <2> QED BY <1>1, <1>2, <1>3, <2>3, <2>4, StatementEffects DEF TypeOK
<1> QED BY <1>4, <1>7, <1>8 DEF WorkerCrash

-----------------------------------------------------------------------------
LEMMA CrashKeepsWorkerInv ==
  ASSUME WorkerInv, WorkerCrash
  PROVE  WorkerInv'
<1>1. TypeOK'
  BY CutEffect DEF WorkerInv, WorkerTypeOK, TypeOK
<1>2. WorkerTypeOK'
  <2>1. DOMAIN NothingDue = {} /\ NothingDue \in [{} -> Nat]
    BY DEF NothingDue
  <2>2. /\ DOMAIN due' = Runs
        /\ \A w \in Runs : due'[w] = NothingDue /\ answer'[w] = "NONE"
        /\ answer' \in [Runs -> Answers]
    BY CutEffect DEF Answers
  <2>3. \A w \in Runs : /\ DOMAIN due'[w] \subseteq DOMAIN events'
                        /\ due'[w] \in [DOMAIN due'[w] -> Nat]
    BY <2>1, <2>2
  <2>4. UNCHANGED <<hcm, applied, submits>>
    BY CutEffect
  <2> QED BY <1>1, <2>2, <2>3, <2>4 DEF WorkerInv, WorkerTypeOK
<1>3. \A x \in DOMAIN requests : WasApproved(x)' <=> WasApproved(x)
  BY CutEffect DEF WasApproved
<1>4. ApprovalAtomic'
  BY <1>3, CutEffect, TracesKept DEF WorkerInv
<1>5. SyncedMeansApplied'
  BY CutEffect DEF WorkerInv, SyncedMeansApplied
<1>6. OkMeansApplied'
  BY CutEffect DEF OkMeansApplied
<1>7. OnlyApprovedReachHcm'
  BY <1>3, CutEffect DEF WorkerInv, OnlyApprovedReachHcm
<1> QED BY <1>2, <1>4, <1>5, <1>6, <1>7 DEF WorkerInv

LEMMA CrashInvInit == CrashInit => CrashInv
<1>1. OutboundInit => ProcessedMeansSynced
  BY DEF OutboundInit, Init, ProcessedMeansSynced
<1> QED BY <1>1, WorkerInit DEF CrashInit, CrashInv

LEMMA CrashInvStep == CrashInv /\ [CrashNext]_crashVars => CrashInv'
<1> SUFFICES ASSUME CrashInv, [CrashNext]_crashVars PROVE CrashInv'
  OBVIOUS
<1>1. CASE [Next]_vars
  <2>1. WorkerInv'
    BY <1>1, WorkerStep DEF CrashInv
  <2>2. ProcessedMeansSynced'
    BY <1>1, EventsSettleTogether DEF CrashInv, ProcessedMeansSynced, SettledTogether
  <2> QED BY <2>1, <2>2 DEF CrashInv
<1>2. CASE WorkerCrash
  <2>1. WorkerInv'
    BY <1>2, CrashKeepsWorkerInv DEF CrashInv
  <2>2. \A x \in DOMAIN events : x \in DOMAIN requests
    BY EventsAreApproved DEF CrashInv, WorkerInv
  <2>3. ProcessedMeansSynced'
    BY <1>2, <2>2, CutEffect DEF CrashInv, ProcessedMeansSynced
  <2> QED BY <2>1, <2>3 DEF CrashInv
<1> QED BY <1>1, <1>2 DEF CrashNext, crashVars

LEMMA CrashInvariant == CrashSpec => []CrashInv
<1> QED BY CrashInvInit, CrashInvStep, PTL DEF CrashSpec

\* No crash leaves an event closed as sent whose request was not marked
\* SYNCED.
THEOREM ProcessedStaysSynced == CrashSpec => []ProcessedMeansSynced
<1>1. CrashInv => ProcessedMeansSynced
  BY DEF CrashInv
<1> QED BY <1>1, CrashInvariant, PTL

\* Through crashes, overlapping runs and lost answers, the service reports
\* SYNCED only for days HCM did consume.
THEOREM SyncedSurvivesCrashes == CrashSpec => []SyncedMeansApplied
<1>1. CrashInv => SyncedMeansApplied
  BY DEF CrashInv, WorkerInv
<1> QED BY <1>1, CrashInvariant, PTL

\* Neither does a crash tear an approval apart: its ledger entry and outbox
\* event exist exactly if the request was approved.
THEOREM ApprovalSurvivesCrashes == CrashSpec => []ApprovalAtomic
<1>1. CrashInv => ApprovalAtomic
  BY DEF CrashInv, WorkerInv
<1> QED BY <1>1, CrashInvariant, PTL

-----------------------------------------------------------------------------
(* The accounts, with one run at a time *)

\* A crash can lose track of days that were being given back; it never makes
\* any.
LEMMA CrashAccounts ==
  ASSUME OneRunInv, WorkerCrash
  PROVE  OneRunInv' /\ \A k \in Keys : Accounted(k)' <= Accounted(k)
<1>1. /\ WorkerInv /\ WorkerTypeOK /\ TypeOK /\ ApprovalAtomic /\ RowsExist
      /\ HeldUntilSettled /\ IsFiniteSet(DOMAIN requests)
  BY DEF OneRunInv, AccountsInv, WorkerInv, WorkerTypeOK
<1>2. \A x \in DOMAIN events : x \in DOMAIN requests
  BY <1>1, EventsAreApproved
<1>3. \A w \in Runs : answer[w] # "NONE" => Live(Current(w)) /\ Holding(Current(w))
  BY <1>1, CurrentIsListed DEF WorkerTypeOK, HeldUntilSettled
<1>4. \A x \in DOMAIN requests :
        /\ requests'[x].key = requests[x].key /\ requests'[x].days = requests[x].days
        /\ \/ requests'[x].status = requests[x].status
           \/ Holding(x) /\ requests'[x].status = "SYNCED"
           \/ /\ Holding(x) /\ requests'[x].status = "REVERSED"
              /\ events'[x].status = "FAILED"
  BY <1>1, <1>3, CutEffect
<1>5. /\ DOMAIN requests' = DOMAIN requests /\ DOMAIN events' = DOMAIN events
      /\ balances' = balances /\ due' = [w \in Runs |-> NothingDue]
      /\ \A x \in DOMAIN events : events'[x].status \in {events[x].status, "FAILED"}
  BY <1>1, CutEffect
<1>6. WorkerInv'
  BY <1>1, CrashKeepsWorkerInv
<1>7. RowsExist'
  BY <1>1, <1>2, <1>4, <1>5 DEF RowsExist
<1>8. HeldUntilSettled'
  <2>1. \A x \in DOMAIN events : Live(x)' => Holding(x)'
    BY <1>1, <1>2, <1>4, <1>5 DEF HeldUntilSettled, Live, Holding
  <2> QED BY <1>5, <2>1 DEF HeldUntilSettled, NothingDue
<1>9. \A k \in Keys : HeldDays(k)' \in Nat /\ HeldDays(k)' <= HeldDays(k)
  BY <1>1, <1>4, <1>5, HeldShrinks DEF Holding
<1>10. \A k \in Keys : HeldDays(k) \in Nat /\ balances[k].availableDays \in Nat
  BY <1>1, HeldType DEF TypeOK, BalanceRow
<1> QED
  BY <1>1, <1>5, <1>6, <1>7, <1>8, <1>9, <1>10 DEF OneRunInv, AccountsInv, Accounted

\* With one run at a time, no crash, no retry and no lost answer ever gives an
\* employee days that were not imported.
THEOREM NobodyGainsDays ==
  ASSUME AtMostOneRun
  PROVE  CrashSpec => []NeverOverCredited
<1> DEFINE Inv == OneRunInv /\ NeverOverCredited
<1>1. CrashInit => Inv
  <2>1. \A k \in Keys : Imported[k] \in Nat
    BY ImportedAssumption
  <2> QED BY <2>1, OneRunInit DEF CrashInit, NeverOverCredited, Conservation
<1>2. Inv /\ [CrashNext]_crashVars => Inv'
  <2> SUFFICES ASSUME Inv, [CrashNext]_crashVars PROVE Inv'
    OBVIOUS
  <2>1. OneRunInv' /\ \A k \in Keys : Accounted(k)' <= Accounted(k)
    <3>1. CASE [Next]_vars
      <4>1. OneRunInv' /\ \A k \in Keys : Accounted(k)' = Accounted(k)
        BY <3>1, OneRunAccounts
      <4>2. \A k \in Keys : Accounted(k) \in Nat
        BY AccountedType DEF OneRunInv, AccountsInv, WorkerInv, WorkerTypeOK
      <4> QED BY <4>1, <4>2
    <3>2. CASE WorkerCrash
      BY <3>2, CrashAccounts
    <3> QED BY <3>1, <3>2 DEF CrashNext, crashVars
  <2>2. \A k \in Keys : Accounted(k) \in Nat /\ Accounted(k)' \in Nat /\ Imported[k] \in Nat
    BY <2>1, AccountedType, AccountedTypeNext, ImportedAssumption
    DEF OneRunInv, AccountsInv, WorkerInv, WorkerTypeOK
  <2>3. \A k \in Keys : Accounted(k) <= Imported[k]
    BY DEF NeverOverCredited, Accounted
  <2>4. \A k \in Keys : Accounted(k)' <= Imported[k]
    BY <2>1, <2>2, <2>3
  <2> QED BY <2>1, <2>4 DEF NeverOverCredited, Accounted
<1> QED BY <1>1, <1>2, PTL DEF CrashSpec
=============================================================================
