--------------------------- MODULE Reconciliation ---------------------------
(***************************************************************************)
(* BatchSyncService.reconcileOne next to the lifecycle and the outbound    *)
(* worker: an operator asks the service to take over HCM's days for a key. *)
(*                                                                         *)
(*   StartReconcile    read the local row, send GET /balances to HCM       *)
(*   HcmReports        HCM answers with the days it has at that moment     *)
(*   FinishAgreed      the answer arrives and equals what was read         *)
(*   FinishDrift       it differs: overwrite, flag requests, report drift  *)
(*                                                                         *)
(* Between the read, HCM's answer and the write, approvals, worker runs    *)
(* and other reconciliations go on.  The three statements of FinishDrift   *)
(* commit one by one.  HCM's days may also change without the service      *)
(* (HcmAdjusts), which is what reconciliation is for.                      *)
(***************************************************************************)
EXTENDS OutboundCrash

CONSTANTS
  Reconcilers,     \* concurrent POST /sync/hcm/reconcile
  AdjustedDays,    \* what HCM's staff sets a balance to
  MaxAdjustments   \* bound on the number of such changes

ASSUME AdjustedDaysAssumption == AdjustedDays \subseteq Nat
ASSUME MaxAdjustmentsAssumption == MaxAdjustments \in Nat

VARIABLES
  reconciling,  \* per reconciler: its local variables
  flagged,      \* requests with drift_flag = 1
  driftEvents,  \* drift_events, without multiplicity
  adjustments,  \* how often HCM's staff changed a balance
  disturbed     \* history: keys whose HCM days changed behind a comparison

recVars == <<reconciling, flagged, driftEvents, adjustments, disturbed>>
allVars == <<crashVars, recVars>>

NotReconciling == [pc |-> "idle"]

\* known: the local row existed; localDays is 0 when it did not.
DriftEvent == [key : Keys, known : BOOLEAN, localDays : Nat, hcmDays : Int]

----------------------------------------------------------------------------
ReconcileInit ==
  /\ CrashInit
  /\ reconciling = [c \in Reconcilers |-> NotReconciling]
  /\ flagged = {}
  /\ driftEvents = {}
  /\ adjustments = 0
  /\ disturbed = {}

\* POST /sync/hcm/reconcile/:employeeId/:locationId up to the await.
StartReconcile(c, k) ==
  /\ reconciling[c].pc = "idle"
  /\ reconciling' = [reconciling EXCEPT ![c] =
                       [pc |-> "awaiting", key |-> k, known |-> HasRow(balances[k]),
                        localDays |-> balances[k].availableDays]]
  /\ UNCHANGED <<crashVars, flagged, driftEvents, adjustments, disturbed>>

\* getBalance: 200 with HCM's days.
HcmReports(c) ==
  LET x == reconciling[c] IN
  /\ x.pc = "awaiting"
  /\ reconciling' = [reconciling EXCEPT ![c] =
                       [pc |-> "answered", key |-> x.key, known |-> x.known,
                        localDays |-> x.localDays, hcmDays |-> hcm[x.key]]]
  /\ UNCHANGED <<crashVars, flagged, driftEvents, adjustments, disturbed>>

\* getBalance returns null or undefined, or throws: so does reconcileOne.
ReconcileFails(c) ==
  /\ reconciling[c].pc = "awaiting"
  /\ reconciling' = [reconciling EXCEPT ![c] = NotReconciling]
  /\ UNCHANGED <<crashVars, flagged, driftEvents, adjustments, disturbed>>

\* A slip: only a missing row is filled in.
OnlyMissing(x) == ~x.known

\* !local || local.availableDays !== hcmDays, with the row read at the start.
Drifted(x) == ~x.known \/ x.localDays # x.hcmDays

\* The drift is written unless CHECK (available_days >= 0) refuses it, in
\* which case reconcileOne throws before it has written anything.
Overwrites(c) ==
  /\ reconciling[c].pc = "answered"
  /\ Drifted(reconciling[c])
  /\ CheckOK(reconciling[c].hcmDays)

BalanceOf(x) == [balances EXCEPT ![x.key] = upsertAbsolute(@, x.hcmDays)]

\* A slip: requests that were approved already are forgotten.
FlagsPending(k) ==
  flagged \union {r \in DOMAIN requests : /\ requests[r].key = k
                                          /\ requests[r].status = "PENDING"}

\* UPDATE ... SET drift_flag = 1 WHERE key AND status IN (PENDING, APPROVED)
flagRequestsForDrift(k) ==
  flagged \union {r \in DOMAIN requests :
                    /\ requests[r].key = k
                    /\ requests[r].status \in {"PENDING", "APPROVED"}}

DriftReport(x) == [key |-> x.key, known |-> x.known, localDays |-> x.localDays,
                   hcmDays |-> x.hcmDays]

\* The answer arrives and nothing is written.
FinishAgreed(c) ==
  /\ reconciling[c].pc = "answered"
  /\ ~Overwrites(c)
  /\ reconciling' = [reconciling EXCEPT ![c] = NotReconciling]
  /\ UNCHANGED <<crashVars, flagged, driftEvents, adjustments, disturbed>>

\* HCM wins; neither the balance's version nor the requests are looked at
\* again, and the ledger gets no entry.
FinishDrift(c) ==
  LET x == reconciling[c] IN
  /\ Overwrites(c)
  /\ balances' = BalanceOf(x)
  /\ flagged' = flagRequestsForDrift(x.key)
  /\ driftEvents' = driftEvents \union {DriftReport(x)}
  /\ reconciling' = [reconciling EXCEPT ![c] = NotReconciling]
  /\ UNCHANGED <<requests, ledger, events, workerVars, crashes, adjustments,
                 disturbed>>

----------------------------------------------------------------------------
ReconcilersDie ==
  /\ reconciling' = [c \in Reconcilers |-> NotReconciling]
  /\ UNCHANGED <<adjustments, disturbed>>

\* The process dies after upsertAbsolute, before anything is flagged.
CrashAfterOverwrite(c) ==
  /\ Overwrites(c)
  /\ balances' = BalanceOf(reconciling[c])
  /\ Restart
  /\ ReconcilersDie
  /\ UNCHANGED <<requests, events, flagged, driftEvents>>

\* After flagRequestsForDrift, before the drift event.
CrashAfterFlagging(c) ==
  /\ Overwrites(c)
  /\ balances' = BalanceOf(reconciling[c])
  /\ flagged' = flagRequestsForDrift(reconciling[c].key)
  /\ Restart
  /\ ReconcilersDie
  /\ UNCHANGED <<requests, events, driftEvents>>

\* HCM's staff sets a balance.
HcmAdjusts(k, d) ==
  /\ adjustments < MaxAdjustments
  /\ d # hcm[k]
  /\ hcm' = [hcm EXCEPT ![k] = d]
  /\ adjustments' = adjustments + 1
  /\ disturbed' = disturbed \union {k}
  /\ UNCHANGED <<reqVars, due, answer, applied, submits, crashes, reconciling,
                 flagged, driftEvents>>

\* A report on its way to the service is overtaken when HCM consumes days.
Overtaken ==
  {k \in Keys : /\ hcm'[k] # hcm[k]
                /\ \E c \in Reconcilers : /\ reconciling[c].pc = "answered"
                                          /\ reconciling[c].key = k}

\* A step of the lifecycle or of the worker, or a crash of theirs.
ServiceStep ==
  /\ Next
  /\ disturbed' = disturbed \union Overtaken
  /\ UNCHANGED <<crashes, reconciling, flagged, driftEvents, adjustments>>

ServiceCrash ==
  /\ WorkerCrash
  /\ ReconcilersDie
  /\ UNCHANGED <<flagged, driftEvents>>

ReconcileStep ==
  \/ \E c \in Reconcilers : \/ \E k \in Keys : StartReconcile(c, k)
                            \/ HcmReports(c) \/ ReconcileFails(c)
                            \/ FinishAgreed(c) \/ FinishDrift(c)
                            \/ CrashAfterOverwrite(c) \/ CrashAfterFlagging(c)
  \/ \E k \in Keys, d \in AdjustedDays : HcmAdjusts(k, d)

ReconcileNext == ServiceStep \/ ServiceCrash \/ ReconcileStep

ReconcileSpec == ReconcileInit /\ [][ReconcileNext]_allVars

\* As for the worker, somebody has to post: every key is reconciled again and
\* again, and HCM does not fail every time.
Finish(c) == FinishAgreed(c) \/ FinishDrift(c)

ReconcileFairness ==
  \A c \in Reconcilers :
    /\ \A k \in Keys : SF_allVars(StartReconcile(c, k))
    /\ SF_allVars(HcmReports(c))
    /\ WF_allVars(Finish(c))

----------------------------------------------------------------------------
(* Properties *)

\* Types; a reconciliation under way knows its key, and only requests that
\* exist are flagged.
ReconcileTypeOK ==
  /\ WorkerTypeOK
  /\ \A c \in Reconcilers :
       LET x == reconciling[c] IN
       /\ x.pc \in {"idle", "awaiting", "answered"}
       /\ x.pc # "idle" => /\ x.key \in Keys
                           /\ x.known \in BOOLEAN
                           /\ x.localDays \in Nat
       /\ x.pc = "answered" => x.hcmDays \in Int
  /\ flagged \subseteq DOMAIN requests
  /\ driftEvents \subseteq DriftEvent
  /\ adjustments \in 0 .. MaxAdjustments
  /\ disturbed \subseteq Keys

FlaggedDays(k) ==
  MapThenSumSet(LAMBDA r : requests[r].days,
                {r \in flagged : requests[r].key = k})

\* How far the service and HCM are apart, approvals on their way aside, is
\* explained by the requests that are flagged for review.
Explained(k) ==
  /\ hcm[k] <= balances[k].availableDays + PendingDays(k)
  /\ balances[k].availableDays + PendingDays(k) <= hcm[k] + FlaggedDays(k)

\* Reconciling in the middle of approvals and worker runs overstates a balance
\* by no more than the days of the requests it flagged, and never understates
\* it; as long as no crash cut a handler and HCM's days did not change behind
\* the comparison.
DriftExplained ==
  crashes = 0 => \A k \in Keys : k \in disturbed \/ Explained(k)

\* HCM's report is still what HCM has, unless its days changed meanwhile.
ReportsFresh ==
  \A c \in Reconcilers :
    reconciling[c].pc = "answered"
      => \/ reconciling[c].key \in disturbed
         \/ reconciling[c].hcmDays = hcm[reconciling[c].key]

\* Inductive: what a worker that runs alone keeps exact stays exact although
\* balances are overwritten around it, and reports are still true.
ExplainedInv ==
  /\ SerialInv
  /\ IsFiniteSet(DOMAIN requests)
  /\ ReportsFresh
  /\ \A k \in Keys \ disturbed : Explained(k)

UncutExplained == crashes = 0 => ExplainedInv

\* docs/adr/0003: "HCM absolute balance overrides local projection.  Related
\* local requests are marked for reconciliation handling".  The same without
\* excuses, for a service where nothing but its own handlers interleave.
DriftAlwaysFlagged == \A k \in Keys : Explained(k)
=============================================================================
