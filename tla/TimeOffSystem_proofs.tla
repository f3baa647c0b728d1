------------------------ MODULE TimeOffSystem_proofs ------------------------
(***************************************************************************)
(* Theorems about the whole service: every handler on one database, with   *)
(* any number of requests, runs, reconcilers, updates, snapshots, changes  *)
(* at HCM and crashes.  What the components guarantee alone they still     *)
(* guarantee together, although reconciliation, updates and snapshots      *)
(* overwrite the balances the lifecycle reserves days on.                  *)
(***************************************************************************)
EXTENDS TimeOffSystem, OutboundCrash_proofs, SerialSync_proofs

\* The local variables of a reconciliation.
AwaitingRec == [pc : {"awaiting"}, key : Keys, known : BOOLEAN, localDays : Nat]
AnsweredRec == [pc : {"answered"}, key : Keys, known : BOOLEAN, localDays : Nat,
                hcmDays : Int]

DriftInv ==
  /\ reconciling \in [Reconcilers -> {NotReconciling} \union AwaitingRec \union AnsweredRec]
  /\ flagged \subseteq DOMAIN requests
  /\ driftEvents \subseteq DriftEvent
  /\ adjustments \in 0 .. MaxAdjustments
  /\ disturbed \subseteq Keys

\* An update that changed a balance is recorded.
UpdateInv ==
  /\ recorded \subseteq Updates
  /\ written \in [Updates -> Nat]
  /\ \A u \in Updates : written[u] = 0 \/ (u \in recorded /\ written[u] = 1)

\* The ingestion's own theorems, about this service's variables.
Ingestion == INSTANCE BatchSync_proofs WITH Payloads <- Snapshots

IngestInv == Ingestion!AccountInv

CrashesBounded == crashes \in 0 .. MaxCrashes

SystemInv == CrashInv /\ DriftInv /\ UpdateInv /\ IngestInv /\ CrashesBounded

-----------------------------------------------------------------------------
(* What the worker's invariant needs to know of the other components *)

LEMMA Tables ==
  ASSUME CrashInv
  PROVE  TypeOK /\ WorkerTypeOK /\ balances \in [Keys -> BalanceRow]
         /\ hcm \in [Keys -> Int]
BY DEF CrashInv, WorkerInv, WorkerTypeOK, TypeOK

\* Balances on both sides are free to change: no guarantee of the worker
\* speaks of them.
LEMMA BalanceWrite ==
  ASSUME CrashInv, UNCHANGED <<requests, ledger, events, due, answer, applied, submits>>,
         balances' \in [Keys -> BalanceRow], hcm' \in [Keys -> Int]
  PROVE  CrashInv'
<1>1. WorkerTypeOK'
  BY DEF CrashInv, WorkerInv, WorkerTypeOK, TypeOK
<1>2. ApprovalAtomic'
  BY TracesKept DEF CrashInv, WorkerInv, WasApproved
<1>3. SyncedMeansApplied' /\ OnlyApprovedReachHcm' /\ ProcessedMeansSynced'
  BY DEF CrashInv, WorkerInv, SyncedMeansApplied, OnlyApprovedReachHcm, WasApproved,
         ProcessedMeansSynced
<1>4. OkMeansApplied'
  <2>1. \A w \in Runs : Current(w)' = Current(w)
    BY CurrentStable
  <2> QED BY <2>1 DEF CrashInv, WorkerInv, OkMeansApplied
<1> QED BY <1>1, <1>2, <1>3, <1>4 DEF CrashInv, WorkerInv

\* A crash in a handler that writes balances only.
LEMMA BalanceWriteCut ==
  ASSUME CrashInv, RunsDie, UNCHANGED <<requests, ledger, events>>,
         balances' \in [Keys -> BalanceRow]
  PROVE  CrashInv'
<1>1. /\ due' = [w \in Runs |-> NothingDue] /\ answer' = [w \in Runs |-> "NONE"]
      /\ UNCHANGED <<hcm, applied, submits>>
  BY DEF RunsDie
<1>2. WorkerTypeOK'
  <2>1. DOMAIN NothingDue = {} /\ NothingDue \in [{} -> Nat]
    BY DEF NothingDue
  <2>2. /\ DOMAIN due' = Runs
        /\ \A w \in Runs : due'[w] = NothingDue /\ answer'[w] = "NONE"
        /\ answer' \in [Runs -> Answers]
    BY <1>1 DEF Answers
  <2>3. TypeOK'
    BY DEF CrashInv, WorkerInv, WorkerTypeOK, TypeOK
  <2> QED BY <1>1, <2>1, <2>2, <2>3 DEF CrashInv, WorkerInv, WorkerTypeOK
<1>3. ApprovalAtomic'
  BY TracesKept DEF CrashInv, WorkerInv, WasApproved
<1>4. SyncedMeansApplied' /\ OnlyApprovedReachHcm' /\ ProcessedMeansSynced'
  BY <1>1 DEF CrashInv, WorkerInv, SyncedMeansApplied, OnlyApprovedReachHcm, WasApproved,
              ProcessedMeansSynced
<1>5. OkMeansApplied'
  BY <1>1 DEF OkMeansApplied
<1> QED BY <1>2, <1>3, <1>4, <1>5 DEF CrashInv, WorkerInv

\* The entry an update leaves in the ledger is no request's.
LEMMA UpdateWrite ==
  ASSUME CrashInv, NEW entry \in LedgerEntry, entry.requestId = "NULL",
         ledger' = Append(ledger, entry), UNCHANGED <<requests, events, workerVars>>,
         balances' \in [Keys -> BalanceRow]
  PROVE  CrashInv'
<1>1. TypeOK /\ TypeOK'
  BY DEF CrashInv, WorkerInv, WorkerTypeOK, TypeOK
<1>2. UNCHANGED <<hcm, due, answer, applied, submits>>
  BY DEF workerVars
<1>3. WorkerTypeOK'
  BY <1>1, <1>2 DEF CrashInv, WorkerInv, WorkerTypeOK
<1>4. ApprovalAtomic'
  <2> SUFFICES ASSUME NEW r \in Requests
               PROVE  IF r \in DOMAIN requests' /\ WasApproved(r)'
                        THEN Recorded(r)' ELSE Unrecorded(r)'
    BY DEF ApprovalAtomic
  <2>1. /\ ledger \in Seq(LedgerEntry) /\ Len(ledger) \in Nat
        /\ DOMAIN ledger = 1 .. Len(ledger) /\ DOMAIN ledger' = 1 .. Len(ledger) + 1
        /\ \A i \in DOMAIN ledger : ledger'[i] = ledger[i]
        /\ ledger'[Len(ledger) + 1] = entry
    BY <1>1 DEF TypeOK
  <2>2. entry.requestId # r
    BY NullAssumption
  <2>3. EntriesOf(r)' = EntriesOf(r)
    BY <2>1, <2>2 DEF EntriesOf
  <2>4. ReservationEntry(r)' = ReservationEntry(r) /\ (WasApproved(r)' <=> WasApproved(r))
    BY DEF ReservationEntry, WasApproved
  <2>5. EntriesOf(r) \subseteq DOMAIN ledger
    BY DEF EntriesOf
  <2>6. Recorded(r) => Recorded(r)'
    <3> SUFFICES ASSUME Recorded(r) PROVE Recorded(r)'
      OBVIOUS
    <3>1. PICK i \in DOMAIN ledger : EntriesOf(r) = {i} /\ ledger[i] = ReservationEntry(r)
      BY DEF Recorded
    <3>2. i \in DOMAIN ledger' /\ ledger'[i] = ReservationEntry(r)'
      BY <2>1, <2>4, <3>1
    <3> QED BY <2>3, <3>1, <3>2 DEF Recorded
  <2>7. Unrecorded(r) => Unrecorded(r)'
    BY <2>3 DEF Unrecorded
  <2> QED BY <2>4, <2>6, <2>7 DEF CrashInv, WorkerInv, ApprovalAtomic
<1>5. SyncedMeansApplied' /\ OnlyApprovedReachHcm' /\ ProcessedMeansSynced'
  BY <1>2 DEF CrashInv, WorkerInv, SyncedMeansApplied, OnlyApprovedReachHcm, WasApproved,
              ProcessedMeansSynced
<1>6. OkMeansApplied'
  <2>1. \A w \in Runs : Current(w)' = Current(w)
    BY <1>2, CurrentStable
  <2> QED BY <1>2, <2>1 DEF CrashInv, WorkerInv, OkMeansApplied
<1> QED BY <1>3, <1>4, <1>5, <1>6 DEF CrashInv, WorkerInv
-----------------------------------------------------------------------------
(* Steps of the lifecycle, of the worker and of reconciliation *)

\* No handler deletes a request.
LEMMA RequestsStay ==
  ASSUME CrashInv, Next \/ WorkerCrash
  PROVE  DOMAIN requests \subseteq DOMAIN requests'
<1>1. WorkerTypeOK /\ ApprovalAtomic /\ TypeOK /\ WorkerInv
  BY DEF CrashInv, WorkerInv, WorkerTypeOK
<1>2. CASE WorkerCrash
  BY <1>1, <1>2, CutEffect
<1>3. CASE RequestNext
  BY <1>1, <1>3, LifecycleFrame
<1>4. CASE \E w \in Runs : Resume(w)
  BY <1>1, <1>4, ResumeEffect
<1>5. CASE \E w \in Runs : StartRun(w) \/ HcmStep(w)
  BY <1>1, <1>5, HcmEffect DEF StartRun, reqVars
<1>6. CASE \E r \in Requests : BackoffElapsed(r)
  BY <1>6 DEF BackoffElapsed
<1> QED BY <1>2, <1>3, <1>4, <1>5, <1>6 DEF Next, WorkerNext, HcmStep, Resume

LEMMA ServiceKeeps ==
  ASSUME CrashInv, DriftInv, CrashesBounded, ServiceStep \/ ServiceCrash
  PROVE  CrashInv' /\ DriftInv' /\ CrashesBounded'
<1>1. CrashInv'
  BY CrashInvStep DEF ServiceStep, ServiceCrash, CrashNext
<1>2. DOMAIN requests \subseteq DOMAIN requests'
  BY RequestsStay DEF ServiceStep, ServiceCrash
<1>3. CASE ServiceStep
  <2>1. UNCHANGED <<crashes, reconciling, flagged, driftEvents, adjustments>>
        /\ disturbed' \subseteq Keys
    BY <1>3 DEF ServiceStep, Overtaken, DriftInv
  <2> QED BY <1>1, <1>2, <2>1 DEF DriftInv, CrashesBounded
<1>4. CASE ServiceCrash
  <2>1. /\ reconciling' = [c \in Reconcilers |-> NotReconciling]
        /\ UNCHANGED <<adjustments, disturbed, flagged, driftEvents>>
    BY <1>4 DEF ServiceCrash, ReconcilersDie
  <2>2. CrashesBounded'
    BY <1>4, MaxCrashesAssumption
    DEF ServiceCrash, WorkerCrash, Crash, CrashAfterRequestSynced, CrashAfterEventFailed,
        CrashAfterRequestReversed, Restart, CrashesBounded
  <2> QED BY <1>1, <1>2, <2>1, <2>2 DEF DriftInv
<1> QED BY <1>3, <1>4

\* What a reconciler writes when HCM's days differ: a row, and a report.
LEMMA OverwriteTypes ==
  ASSUME CrashInv, DriftInv, NEW c \in Reconcilers, Overwrites(c)
  PROVE  /\ BalanceOf(reconciling[c]) \in [Keys -> BalanceRow]
         /\ DriftReport(reconciling[c]) \in DriftEvent
         /\ flagRequestsForDrift(reconciling[c].key) \subseteq DOMAIN requests
<1> DEFINE x == reconciling[c]
<1>1. x \in AnsweredRec /\ x.hcmDays >= 0
  BY DEF Overwrites, DriftInv, NotReconciling, AwaitingRec, CheckOK
<1>2. x.key \in Keys /\ x.hcmDays \in Nat /\ balances \in [Keys -> BalanceRow]
  BY <1>1, Tables DEF AnsweredRec
<1>3. upsertAbsolute(balances[x.key], x.hcmDays) \in BalanceRow
  BY <1>2, RowOps
<1>4. BalanceOf(x) \in [Keys -> BalanceRow]
  BY <1>2, <1>3 DEF BalanceOf
<1>5. DriftReport(x) \in DriftEvent
  BY <1>1 DEF DriftReport, DriftEvent, AnsweredRec
<1>6. flagRequestsForDrift(x.key) \subseteq DOMAIN requests
  BY DEF flagRequestsForDrift, DriftInv
<1> QED BY <1>4, <1>5, <1>6

LEMMA ReconcileKeeps ==
  ASSUME CrashInv, DriftInv, CrashesBounded, ReconcileStep
  PROVE  CrashInv' /\ DriftInv' /\ CrashesBounded'
<1>1. TypeOK /\ balances \in [Keys -> BalanceRow] /\ hcm \in [Keys -> Int]
  BY Tables
<1>2. ASSUME UNCHANGED crashVars PROVE CrashInv' /\ CrashesBounded'
  <2>1. [CrashNext]_crashVars
    BY <1>2
  <2> QED BY <1>2, <2>1, CrashInvStep DEF CrashesBounded, crashVars
<1>3. ASSUME UNCHANGED crashVars PROVE requests' = requests
  BY <1>3 DEF crashVars, vars
<1>4. ASSUME NEW c \in Reconcilers, NEW k \in Keys, StartReconcile(c, k)
      PROVE  CrashInv' /\ DriftInv' /\ CrashesBounded'
  <2>1. [pc |-> "awaiting", key |-> k, known |-> HasRow(balances[k]),
         localDays |-> balances[k].availableDays] \in AwaitingRec
    BY <1>1 DEF AwaitingRec, HasRow, BalanceRow
  <2> QED BY <1>2, <1>3, <1>4, <2>1 DEF StartReconcile, DriftInv
<1>5. ASSUME NEW c \in Reconcilers, HcmReports(c)
      PROVE  CrashInv' /\ DriftInv' /\ CrashesBounded'
  <2>1. reconciling[c] \in AwaitingRec
    BY <1>5 DEF HcmReports, DriftInv, NotReconciling, AnsweredRec
  <2>2. [pc |-> "answered", key |-> reconciling[c].key, known |-> reconciling[c].known,
         localDays |-> reconciling[c].localDays, hcmDays |-> hcm[reconciling[c].key]]
          \in AnsweredRec
    BY <1>1, <2>1 DEF AwaitingRec, AnsweredRec
  <2> QED BY <1>2, <1>3, <1>5, <2>2 DEF HcmReports, DriftInv
<1>6. ASSUME NEW c \in Reconcilers, ReconcileFails(c) \/ FinishAgreed(c)
      PROVE  CrashInv' /\ DriftInv' /\ CrashesBounded'
  BY <1>2, <1>3, <1>6 DEF ReconcileFails, FinishAgreed, DriftInv
<1>7. ASSUME NEW c \in Reconcilers, FinishDrift(c)
      PROVE  CrashInv' /\ DriftInv' /\ CrashesBounded'
  <2>1. CrashInv'
    BY <1>1, <1>7, OverwriteTypes, BalanceWrite DEF FinishDrift, workerVars
  <2> QED BY <1>7, <2>1, OverwriteTypes DEF FinishDrift, DriftInv, CrashesBounded
<1>8. ASSUME NEW c \in Reconcilers, CrashAfterOverwrite(c) \/ CrashAfterFlagging(c)
      PROVE  CrashInv' /\ DriftInv' /\ CrashesBounded'
  <2>1. /\ balances' = BalanceOf(reconciling[c]) /\ Overwrites(c) /\ Restart
        /\ ReconcilersDie /\ UNCHANGED <<requests, events, driftEvents>>
        /\ flagged' = flagged \/ flagged' = flagRequestsForDrift(reconciling[c].key)
    BY <1>8 DEF CrashAfterOverwrite, CrashAfterFlagging
  <2>2. CrashInv'
    BY <2>1, OverwriteTypes, BalanceWriteCut DEF Restart
  <2>3. DriftInv'
    BY <2>1, OverwriteTypes DEF ReconcilersDie, DriftInv
  <2> QED BY <2>1, <2>2, <2>3, MaxCrashesAssumption DEF Restart, CrashesBounded
<1>9. ASSUME NEW k \in Keys, NEW d \in AdjustedDays, HcmAdjusts(k, d)
      PROVE  CrashInv' /\ DriftInv' /\ CrashesBounded'
  <2>1. hcm' \in [Keys -> Int]
    BY <1>1, <1>9, AdjustedDaysAssumption DEF HcmAdjusts
  <2>2. CrashInv'
    BY <1>1, <1>9, <2>1, BalanceWrite DEF HcmAdjusts, reqVars
  <2> QED BY <1>9, <2>2, MaxAdjustmentsAssumption
          DEF HcmAdjusts, reqVars, DriftInv, CrashesBounded
<1> QED BY <1>4, <1>5, <1>6, <1>7, <1>8, <1>9 DEF ReconcileStep

-----------------------------------------------------------------------------
(* Realtime updates *)

\* The instance's statements on a balance row are the lifecycle's.
LEMMA SameStatements ==
  ASSUME NEW row, NEW days
  PROVE  /\ Realtime!upsertAbsolute(row, days) = upsertAbsolute(row, days)
         /\ Realtime!GetOrCreate(row) = GetOrCreate(row)
         /\ Realtime!applyDelta(row, days)
              = upsertAbsolute(GetOrCreate(row), GetOrCreate(row).availableDays + days)
         /\ Realtime!CheckOK(days) <=> CheckOK(days)
BY DEF Realtime!upsertAbsolute, upsertAbsolute, Realtime!GetOrCreate, GetOrCreate,
       Realtime!HasRow, HasRow, Realtime!applyDelta, Realtime!CheckOK, CheckOK

\* SQLite's CHECK keeps every row an update writes a row of the schema.
LEMMA UpdatedRow ==
  ASSUME CrashInv, NEW u \in Updates
  PROVE  /\ GetOrCreate(balances[Payload[u].key]) \in BalanceRow
         /\ ~Realtime!Poison(u) => Realtime!Updated(u) \in BalanceRow
<1> DEFINE row == balances[Payload[u].key]
           made == GetOrCreate(row)
<1>1. row \in BalanceRow /\ Payload[u].days \in Int
  BY UpdatesAssumption, Tables
<1>2. made \in BalanceRow
  BY <1>1, RowOps
<1>3. ASSUME NEW b \in BalanceRow, NEW d \in Int, CheckOK(d)
      PROVE  upsertAbsolute(b, d) \in BalanceRow
  BY <1>3 DEF CheckOK, upsertAbsolute, BalanceRow
<1>4. \A b, d : upsertAbsolute(b, d).availableDays = d
  BY DEF upsertAbsolute
<1>5. made.availableDays + Payload[u].days \in Int
  BY <1>1, <1>2 DEF BalanceRow
<1>6. \/ Realtime!Updated(u) = upsertAbsolute(row, Payload[u].days)
      \/ Realtime!Updated(u) = upsertAbsolute(made, made.availableDays + Payload[u].days)
  BY SameStatements DEF Realtime!Updated
<1> HIDE DEF row, made
<1>7. ~Realtime!Poison(u) => Realtime!Updated(u) \in BalanceRow
  BY <1>1, <1>2, <1>3, <1>4, <1>5, <1>6, SameStatements DEF Realtime!Poison
<1> QED BY <1>2, <1>7 DEF row, made

\* What a delivery writes, cut short or not.
UpdateWrites(u) ==
  /\ u \notin recorded
  /\ recorded' = recorded \union {u}
  /\ balances' \in [Keys -> BalanceRow]
  /\ UNCHANGED <<requests, events>>
  /\ \/ written' = written
     \/ written' = [written EXCEPT ![u] = written[u] + 1]
  /\ \/ ledger' = ledger
     \/ ledger' = Append(ledger, Realtime!UpdateEntry(u))

LEMMA DeliveryWrites ==
  ASSUME CrashInv, NEW u \in Updates,
         \/ Realtime!Deliver(u) \/ Realtime!DeliverPoison(u)
         \/ Realtime!CrashAfterRecord(u) \/ Realtime!CrashAfterWrite(u)
  PROVE  /\ UpdateWrites(u)
         /\ Realtime!CrashAfterRecord(u) \/ Realtime!CrashAfterWrite(u)
              => ledger' = ledger
<1>1. balances \in [Keys -> BalanceRow] /\ Payload[u].key \in Keys
  BY UpdatesAssumption, Tables
<1>2. CASE Realtime!Deliver(u) \/ Realtime!CrashAfterWrite(u)
  <2>1. Realtime!Updated(u) \in BalanceRow
    BY <1>2, UpdatedRow DEF Realtime!Deliver, Realtime!CrashAfterWrite
  <2>2. balances' \in [Keys -> BalanceRow]
    BY <1>1, <1>2, <2>1 DEF Realtime!Deliver, Realtime!CrashAfterWrite, Realtime!Write
  <2> QED BY <1>2, <2>2
          DEF Realtime!Deliver, Realtime!CrashAfterWrite, Realtime!CrashAfterRecord,
              Realtime!Write, Realtime!FirstDelivery, UpdateWrites
<1>3. CASE Realtime!DeliverPoison(u) \/ Realtime!CrashAfterRecord(u)
  <2>1. balances' \in [Keys -> BalanceRow]
    BY <1>1, <1>3, UpdatedRow, SameStatements
    DEF Realtime!DeliverPoison, Realtime!CrashAfterRecord
  <2> QED BY <1>3, <2>1
          DEF Realtime!DeliverPoison, Realtime!CrashAfterRecord, Realtime!FirstDelivery,
              UpdateWrites
<1> QED BY <1>2, <1>3

LEMMA UpdateKeepsUpdateInv ==
  ASSUME UpdateInv, NEW u \in Updates, UpdateWrites(u)
  PROVE  UpdateInv'
<1>1. u \notin recorded /\ written[u] = 0 /\ recorded' = recorded \union {u}
  BY DEF UpdateWrites, UpdateInv
<1>2. /\ written' \in [Updates -> Nat] /\ written'[u] \in {0, 1}
      /\ \A x \in Updates : x # u => written'[x] = written[x]
  BY <1>1 DEF UpdateWrites, UpdateInv
<1> QED BY <1>1, <1>2 DEF UpdateInv

LEMMA UpdateKeeps ==
  ASSUME CrashInv, DriftInv, UpdateInv, CrashesBounded, UpdateStep \/ UpdateCut
  PROVE  CrashInv' /\ DriftInv' /\ UpdateInv' /\ CrashesBounded'
<1>1. PICK u \in Updates :
        \/ UpdateStep /\ (Realtime!Deliver(u) \/ Realtime!DeliverPoison(u))
        \/ UpdateCut /\ (Realtime!CrashAfterRecord(u) \/ Realtime!CrashAfterWrite(u))
  BY DEF UpdateStep, UpdateCut, Realtime!Delivery, Realtime!DeliveryCut
<1>2. UpdateWrites(u)
  BY <1>1, DeliveryWrites
<1>3. UpdateInv'
  BY <1>2, UpdateKeepsUpdateInv
<1>4. UNCHANGED <<requests, events>> /\ balances' \in [Keys -> BalanceRow]
  BY <1>2 DEF UpdateWrites
<1>5. CASE UpdateStep /\ (Realtime!Deliver(u) \/ Realtime!DeliverPoison(u))
  <2>1. /\ UNCHANGED <<crashes, reconciling, flagged, driftEvents, adjustments>>
        /\ UNCHANGED workerVars /\ disturbed' \subseteq Keys
    BY <1>5 DEF UpdateStep, Overwritten, DriftInv, Realtime!Deliver, Realtime!DeliverPoison
  <2>2. CrashInv'
    <3>1. CASE ledger' = ledger
      BY <1>4, <2>1, <3>1, Tables, BalanceWrite DEF workerVars
    <3>2. CASE ledger' = Append(ledger, Realtime!UpdateEntry(u))
      <4>1. /\ Realtime!UpdateEntry(u) \in LedgerEntry
            /\ Realtime!UpdateEntry(u).requestId = "NULL"
        BY UpdatesAssumption DEF Realtime!UpdateEntry, LedgerEntry, LedgerType
      <4> QED BY <1>4, <2>1, <3>2, <4>1, UpdateWrite
    <3> QED BY <1>2, <3>1, <3>2 DEF UpdateWrites
  <2> QED BY <1>3, <1>4, <2>1, <2>2 DEF DriftInv, CrashesBounded
<1>6. CASE UpdateCut /\ (Realtime!CrashAfterRecord(u) \/ Realtime!CrashAfterWrite(u))
  <2>1. /\ RunsDie /\ ReconcilersDie /\ UNCHANGED <<flagged, driftEvents>>
        /\ crashes < MaxCrashes /\ crashes' = crashes + 1
    BY <1>6 DEF UpdateCut, Realtime!CrashAfterRecord, Realtime!CrashAfterWrite
  <2>2. CrashInv'
    BY <1>4, <1>6, <2>1, DeliveryWrites, BalanceWriteCut
  <2>3. DriftInv' /\ CrashesBounded'
    BY <1>4, <2>1, MaxCrashesAssumption DEF DriftInv, CrashesBounded, ReconcilersDie
  <2> QED BY <1>3, <2>2, <2>3
<1> QED BY <1>1, <1>5, <1>6

-----------------------------------------------------------------------------
(* Snapshots *)

\* A snapshot's step is one of the ingestion alone.
LEMMA SnapshotIsBatch ==
  ASSUME SnapshotStep \/ SnapshotCut
  PROVE  Ingestion!BatchNext
<1>1. CASE \E p \in Snapshots : Batch!Begin(p)
  BY <1>1 DEF Ingestion!BatchNext, Batch!Begin, Ingestion!Begin, Batch!Deduped,
     Ingestion!Deduped, Batch!ProcessedSoFar, Ingestion!ProcessedSoFar, Batch!Idle,
     Ingestion!Idle
<1>2. CASE Batch!RejectRow
  <2>1. Ingestion!RejectRow
    BY <1>2 DEF Batch!RejectRow, Ingestion!RejectRow, Batch!InChunk, Ingestion!InChunk,
       Batch!ChunkEnd, Ingestion!ChunkEnd, Batch!NextRow, Ingestion!NextRow, Batch!Row,
       Ingestion!Row, Batch!Valid, Ingestion!Valid
  <2> QED BY <2>1 DEF Ingestion!BatchNext, Ingestion!Statement
<1>3. CASE Batch!ApplyRow
  <2>1. Ingestion!ApplyRow
    BY <1>3 DEF Batch!ApplyRow, Ingestion!ApplyRow, Batch!InChunk, Ingestion!InChunk,
       Batch!ChunkEnd, Ingestion!ChunkEnd, Batch!NextRow, Ingestion!NextRow, Batch!Row,
       Ingestion!Row, Batch!Valid, Ingestion!Valid, Batch!HasRow, Ingestion!HasRow,
       Batch!upsertAbsolute, Ingestion!upsertAbsolute
  <2> QED BY <2>1 DEF Ingestion!BatchNext, Ingestion!Statement
<1>4. CASE Batch!SaveProgress
  <2>1. Batch!ChunkEnd(ingest.i, ingest.payload) = Ingestion!ChunkEnd(ingest.i, ingest.payload)
    BY DEF Batch!ChunkEnd, Ingestion!ChunkEnd
  <2>2. Ingestion!SaveProgress
    BY <1>4, <2>1, Zenon DEF Batch!SaveProgress, Ingestion!SaveProgress
  <2> QED BY <2>2 DEF Ingestion!BatchNext, Ingestion!Statement
<1>5. CASE Batch!Checkpoint
  <2>1. Ingestion!Checkpoint
    BY <1>5 DEF Batch!Checkpoint, Ingestion!Checkpoint, Batch!ChunkEnd,
       Ingestion!ChunkEnd, Batch!CheckpointRow, Ingestion!CheckpointRow
  <2> QED BY <2>1 DEF Ingestion!BatchNext, Ingestion!Statement
<1>6. CASE Batch!Complete
  <2>1. Ingestion!Complete
    BY <1>6 DEF Batch!Complete, Ingestion!Complete, Batch!Idle, Ingestion!Idle
  <2> QED BY <2>1 DEF Ingestion!BatchNext, Ingestion!Statement
<1>7. CASE Batch!Crash
  <2>1. Ingestion!Crash
    BY <1>7 DEF Batch!Crash, Ingestion!Crash, Batch!Idle, Ingestion!Idle
  <2> QED BY <2>1 DEF Ingestion!BatchNext
<1> QED BY <1>1, <1>2, <1>3, <1>4, <1>5, <1>6, <1>7
        DEF SnapshotStep, SnapshotCut, Batch!Statement

LEMMA IngestKeeps ==
  ASSUME IngestInv, SnapshotStep \/ SnapshotCut
  PROVE  IngestInv' /\ balances' \in [Keys -> BalanceRow]
<1> USE SnapshotsAssumption, MaxCrashesAssumption DEF Ingestion!BatchRow, Batch!BatchRow
<1>1. [Ingestion!BatchNext]_Ingestion!bvars
  BY SnapshotIsBatch
<1>2. Ingestion!BatchInv'
  BY <1>1, Ingestion!BatchInvStep DEF IngestInv, Ingestion!AccountInv, Ingestion!HandledInv
<1>3. Ingestion!HandledInv'
  BY <1>1, <1>2, Ingestion!HandledStep DEF IngestInv, Ingestion!AccountInv
<1>4. Ingestion!AccountInv'
  BY <1>1, <1>3, Ingestion!AccountStep DEF IngestInv
<1> QED BY <1>2, <1>4 DEF IngestInv, Ingestion!BatchInv, Ingestion!RowsTyped,
                          Ingestion!BalanceRow, BalanceRow

\* Steps of the other components: a running ingestion forbids them, so the
\* days it wrote are still there.
LEMMA IngestRests ==
  ASSUME IngestInv, UNCHANGED <<jobs, deadLetters, checkpoints, ingest, handled>>,
         balances' \in [Keys -> BalanceRow], crashes' \in 0 .. MaxCrashes,
         ingest = Batch!Idle \/ UNCHANGED balances
  PROVE  IngestInv'
<1>1. Ingestion!BatchInv'
  BY DEF IngestInv, Ingestion!AccountInv, Ingestion!HandledInv, Ingestion!BatchInv,
     Ingestion!RowsTyped, Ingestion!WorkInStep, Ingestion!CheckpointsBehind,
     Ingestion!CheckpointsAdvance, Ingestion!Progress, Ingestion!BalanceRow, BalanceRow
<1>2. Ingestion!HandledInv'
  BY <1>1 DEF IngestInv, Ingestion!AccountInv, Ingestion!HandledInv,
     Ingestion!ProgressNotAhead, Ingestion!WorkHandled, Ingestion!ChunkThrough,
     Ingestion!HandledAt
<1>3. Ingestion!AttemptDone'
  BY DEF IngestInv, Ingestion!AccountInv, Ingestion!AttemptDone, Ingestion!RowsDone,
     Ingestion!DaysDone, Ingestion!LettersDone, Ingestion!HandledAt,
     Ingestion!DeadLettered, Ingestion!Idle, Batch!Idle
<1> QED BY <1>2, <1>3 DEF IngestInv, Ingestion!AccountInv, Ingestion!LettersTyped

LEMMA SnapshotKeeps ==
  ASSUME SystemInv, SnapshotStep \/ SnapshotCut
  PROVE  SystemInv'
<1>1. /\ CrashInv /\ DriftInv /\ UpdateInv /\ IngestInv /\ CrashesBounded
      /\ balances \in [Keys -> BalanceRow] /\ hcm \in [Keys -> Int]
  BY Tables DEF SystemInv
<1>2. /\ UNCHANGED <<requests, ledger, events, flagged, driftEvents, adjustments,
                     recorded, written>>
      /\ UpdateInv' /\ disturbed' \subseteq Keys
  <2>1. UNCHANGED <<requests, ledger, events, flagged, driftEvents, adjustments,
                    recorded, written>>
    BY DEF SnapshotStep, SnapshotCut, ReconcilersDie
  <2>2. UpdateInv'
    BY <1>1, <2>1 DEF UpdateInv
  <2>3. disturbed' \subseteq Keys
    BY <1>1 DEF SnapshotStep, SnapshotCut, ReconcilersDie, Overwritten, DriftInv
  <2> QED BY <2>1, <2>2, <2>3
<1>3. CASE SnapshotStep
  <2>1. IngestInv' /\ balances' \in [Keys -> BalanceRow] /\ UNCHANGED crashes
    <3>1. UNCHANGED crashes
      BY <1>3 DEF SnapshotStep, Batch!Begin, Batch!Statement, Batch!RejectRow,
         Batch!ApplyRow, Batch!SaveProgress, Batch!Checkpoint, Batch!Complete
    <3> QED BY <1>1, <1>3, <3>1, IngestKeeps
  <2>2. UNCHANGED workerVars /\ UNCHANGED reconciling
    BY <1>3 DEF SnapshotStep
  <2>3. CrashInv'
    BY <1>1, <1>2, <2>1, <2>2, BalanceWrite DEF workerVars
  <2>4. DriftInv' /\ CrashesBounded'
    BY <1>1, <1>2, <2>1, <2>2 DEF DriftInv, CrashesBounded
  <2> QED BY <1>2, <2>1, <2>3, <2>4 DEF SystemInv
<1>4. CASE SnapshotCut
  <2>1. IngestInv' /\ UNCHANGED balances
    BY <1>1, <1>4, IngestKeeps DEF SnapshotCut, Batch!Crash
  <2>2. /\ crashes < MaxCrashes /\ crashes' = crashes + 1 /\ RunsDie
        /\ reconciling' = [c \in Reconcilers |-> NotReconciling]
    BY <1>4 DEF SnapshotCut, Batch!Crash, ReconcilersDie
  <2>3. CrashInv'
    BY <1>1, <1>2, <2>1, <2>2, BalanceWriteCut
  <2>4. DriftInv' /\ CrashesBounded'
    BY <1>1, <1>2, <2>2, MaxCrashesAssumption DEF DriftInv, CrashesBounded
  <2> QED BY <1>2, <2>1, <2>3, <2>4 DEF SystemInv
<1> QED BY <1>3, <1>4

-----------------------------------------------------------------------------
LEMMA SystemInvInit == SystemInit => SystemInv
<1> SUFFICES ASSUME SystemInit PROVE SystemInv
  OBVIOUS
<1>1. CrashInv
  BY CrashInvInit DEF SystemInit, ReconcileInit
<1>2. DriftInv
  BY MaxAdjustmentsAssumption DEF SystemInit, ReconcileInit, DriftInv
<1>3. UpdateInv
  BY DEF SystemInit, UpdateInv
<1>4. IngestInv
  <2>1. /\ jobs = [j \in {} |-> Batch!Idle] /\ deadLetters = << >>
        /\ checkpoints = << >> /\ ingest = Ingestion!Idle /\ handled = {} /\ crashes = 0
    BY DEF SystemInit, ReconcileInit, CrashInit, Ingestion!Idle, Batch!Idle
  <2>2. balances \in [Keys -> BalanceRow]
    BY <1>1, Tables
  <2>3. Ingestion!BatchInv
    BY <2>1, <2>2, MaxCrashesAssumption
       DEF Ingestion!BatchInv, Ingestion!RowsTyped, Ingestion!WorkInStep,
           Ingestion!CheckpointsBehind, Ingestion!CheckpointsAdvance,
           Ingestion!BalanceRow, BalanceRow
  <2> QED BY <2>1, <2>3 DEF IngestInv, Ingestion!AccountInv, Ingestion!HandledInv,
             Ingestion!ProgressNotAhead, Ingestion!WorkHandled,
             Ingestion!ChunkThrough, Ingestion!LettersTyped, Ingestion!AttemptDone
<1>5. CrashesBounded
  BY MaxCrashesAssumption DEF SystemInit, ReconcileInit, CrashInit, CrashesBounded
<1> QED BY <1>1, <1>2, <1>3, <1>4, <1>5 DEF SystemInv

LEMMA SystemInvStep == SystemInv /\ [SystemNext]_sysVars => SystemInv'
<1> SUFFICES ASSUME SystemInv, [SystemNext]_sysVars PROVE SystemInv'
  OBVIOUS
<1>1. /\ CrashInv /\ DriftInv /\ UpdateInv /\ IngestInv /\ CrashesBounded
      /\ balances \in [Keys -> BalanceRow]
  BY Tables DEF SystemInv
<1>2. CASE SnapshotStep \/ SnapshotCut
  BY <1>2, SnapshotKeeps
<1>3. CASE HandlerStep \/ UpdateStep \/ UpdateCut \/ UNCHANGED sysVars
  <2>1. CrashInv' /\ DriftInv' /\ UpdateInv' /\ CrashesBounded'
    <3>1. CASE HandlerStep
      <4>1. CrashInv' /\ DriftInv' /\ CrashesBounded'
        BY <1>1, <3>1, ServiceKeeps, ReconcileKeeps DEF HandlerStep, ReconcileNext
      <4> QED BY <1>1, <3>1, <4>1 DEF HandlerStep, inboundVars, UpdateInv
    <3>2. CASE UpdateStep \/ UpdateCut
      BY <1>1, <3>2, UpdateKeeps
    <3>3. CASE UNCHANGED sysVars
      <4>1. UNCHANGED <<crashVars, recVars, inboundVars>>
        BY <3>3 DEF sysVars, allVars
      <4>2. CrashInv'
        BY <1>1, <4>1, CrashInvStep
      <4> QED BY <1>1, <4>1, <4>2
              DEF crashVars, vars, recVars, inboundVars, DriftInv, CrashesBounded, UpdateInv
    <3> QED BY <1>3, <3>1, <3>2, <3>3
  <2>2. balances' \in [Keys -> BalanceRow] /\ crashes' \in 0 .. MaxCrashes
    BY <2>1 DEF CrashInv, WorkerInv, WorkerTypeOK, TypeOK, CrashesBounded
  <2>3. UNCHANGED <<jobs, deadLetters, checkpoints, ingest, handled>>
    BY <1>3 DEF HandlerStep, UpdateStep, UpdateCut, sysVars, inboundVars
  <2>4. ingest = Batch!Idle \/ UNCHANGED balances
    BY <1>3 DEF HandlerStep, UpdateStep, UpdateCut, sysVars, allVars, crashVars, vars
  <2> QED BY <1>1, <2>1, <2>2, <2>3, <2>4, IngestRests DEF SystemInv
<1> QED BY <1>2, <1>3 DEF SystemNext

LEMMA SystemInvariant == SystemSpec => []SystemInv
<1> QED BY SystemInvInit, SystemInvStep, PTL DEF SystemSpec

\* No handler of the service ever leaves a row its schema does not admit, a
\* negative balance in particular, whatever the other handlers, HCM and
\* crashes do in the meantime.
THEOREM SystemTypeCorrect == SystemSpec => []SystemTypeOK
<1>1. SystemInv => SystemTypeOK
  <2> SUFFICES ASSUME SystemInv PROVE SystemTypeOK
    OBVIOUS
  <2>1. /\ CrashInv /\ DriftInv /\ UpdateInv /\ IngestInv /\ CrashesBounded
        /\ WorkerTypeOK /\ balances \in [Keys -> BalanceRow]
    BY Tables DEF SystemInv
  <2>2. ReconcileTypeOK
    BY <2>1 DEF ReconcileTypeOK, DriftInv, NotReconciling, AwaitingRec, AnsweredRec
  <2>3. Batch!BatchTypeOK
    BY <2>1 DEF Batch!BatchTypeOK, Batch!BalanceRow, BalanceRow, IngestInv,
       Ingestion!AccountInv, Ingestion!HandledInv, Ingestion!BatchInv,
       Ingestion!RowsTyped, Ingestion!JobRow, Ingestion!Work, Ingestion!JobStatus,
       Batch!JobStatus, Ingestion!Idle, Batch!Idle, CrashesBounded
  <2> QED BY <2>1, <2>2, <2>3 DEF SystemTypeOK, UpdateInv
<1> QED BY <1>1, SystemInvariant, PTL

\* The service claims SYNCED only of days HCM consumed, although HCM's own
\* balance and the service's are overwritten by reconciliation, updates,
\* snapshots and HCM's staff.
THEOREM SystemSyncedIsApplied == SystemSpec => []SyncedMeansApplied
<1>1. SystemInv => SyncedMeansApplied
  BY DEF SystemInv, CrashInv, WorkerInv
<1> QED BY <1>1, SystemInvariant, PTL

\* An event closed as sent has a SYNCED request, in the whole service.
THEOREM SystemProcessedIsSynced == SystemSpec => []ProcessedMeansSynced
<1>1. SystemInv => ProcessedMeansSynced
  BY DEF SystemInv, CrashInv
<1> QED BY <1>1, SystemInvariant, PTL

\* No inbound write tears the traces of an approval apart: an update's ledger
\* entry is never taken for a reservation.
THEOREM SystemApprovalIsAtomic == SystemSpec => []ApprovalAtomic
<1>1. SystemInv => ApprovalAtomic
  BY DEF SystemInv, CrashInv, WorkerInv
<1> QED BY <1>1, SystemInvariant, PTL

\* Realtime updates apply at most once, and an ingestion counts no row that
\* was not handled, in the whole service.
THEOREM SystemInboundIsSafe ==
  SystemSpec => [](Realtime!AppliedAtMostOnce /\ Batch!ProgressNotAhead)
<1>1. SystemInv => Realtime!AppliedAtMostOnce /\ Batch!ProgressNotAhead
  BY DEF SystemInv, UpdateInv, IngestInv, Realtime!AppliedAtMostOnce,
     Ingestion!AccountInv, Ingestion!HandledInv, Ingestion!ProgressNotAhead,
     Batch!ProgressNotAhead, Ingestion!HandledAt, Batch!HandledAt
<1> QED BY <1>1, SystemInvariant, PTL

\* A snapshot completed inside the whole service has accounted for its rows:
\* no approval, worker, reconciliation or update comes between its statements.
THEOREM SystemNoRowIsLost == SystemSpec => Batch!RowsAccounted
<1>1. SystemInv => [Batch!Complete =>
                      Batch!JobAccounted(ingest.payload, ingest.start)]_Batch!bvars
  <2> SUFFICES ASSUME SystemInv, Batch!Complete
               PROVE  Batch!JobAccounted(ingest.payload, ingest.start)
    OBVIOUS
  <2>1. Ingestion!Complete
    BY DEF Batch!Complete, Ingestion!Complete, Batch!Idle, Ingestion!Idle
  <2>2. Ingestion!JobAccounted(ingest.payload, ingest.start)
    BY <2>1, Ingestion!CompletedAccounted, SnapshotsAssumption, MaxCrashesAssumption
       DEF SystemInv, IngestInv, Ingestion!BatchRow, Batch!BatchRow
  <2> QED BY <2>2 DEF Batch!JobAccounted, Ingestion!JobAccounted, Batch!HandledAt,
             Ingestion!HandledAt, Batch!RowsFor, Ingestion!RowsFor, Batch!IsLast,
             Ingestion!IsLast, Batch!Valid, Ingestion!Valid, Batch!DeadLettered,
             Ingestion!DeadLettered
<1> QED BY <1>1, SystemInvariant, PTL DEF Batch!RowsAccounted

-----------------------------------------------------------------------------
(* Drift *)

FlaggedBy(k) == {r \in flagged : requests[r].key = k}

LEMMA FlaggedIsTotal ==
  ASSUME NEW k
  PROVE  /\ FlaggedDays(k) = Total(requests, FlaggedBy(k))
         /\ FlaggedDays(k)' = Total(requests', FlaggedBy(k)')
<1>1. FlaggedDays(k) = Total(requests, FlaggedBy(k))
  BY DEF FlaggedDays, Total, FlaggedBy, MapThenSumSet, MapThenFoldSet
<1>2. FlaggedDays(k)' = Total(requests', FlaggedBy(k)')
  BY DEF FlaggedDays, Total, FlaggedBy, MapThenSumSet, MapThenFoldSet
<1> QED BY <1>1, <1>2

\* A balance is explained when the service is ahead of HCM by no more than the
\* days of the flagged requests.
LEMMA ExplainedIsGap ==
  SerialInv /\ IsFiniteSet(DOMAIN requests) /\ flagged \subseteq DOMAIN requests
    => \A k \in Keys :
         /\ FlaggedDays(k) \in Nat /\ Gap(k) \in Int
         /\ Explained(k) <=> (0 <= Gap(k) /\ Gap(k) <= FlaggedDays(k))
<1> SUFFICES ASSUME SerialInv, IsFiniteSet(DOMAIN requests),
                    flagged \subseteq DOMAIN requests, NEW k \in Keys
             PROVE  /\ FlaggedDays(k) \in Nat /\ Gap(k) \in Int
                    /\ Explained(k) <=> (0 <= Gap(k) /\ Gap(k) <= FlaggedDays(k))
  OBVIOUS
<1>1. TypeOK /\ hcm[k] \in Int /\ balances[k].availableDays \in Nat
  BY DEF SerialInv, OverlapInv, WorkerInv, WorkerTypeOK, TypeOK, BalanceRow
<1>2. PendingDays(k) \in Nat
  BY HeldSplits
<1>3. FlaggedBy(k) \subseteq DOMAIN requests
  BY DEF FlaggedBy
<1>4. FlaggedDays(k) \in Nat
  BY <1>1, <1>3, RowsOfType, FlaggedIsTotal
<1> QED BY <1>1, <1>2, <1>4 DEF Gap, Explained

LEMMA ExplainedIsGapNext ==
  SerialInv' /\ IsFiniteSet(DOMAIN requests') /\ flagged' \subseteq DOMAIN requests'
    => \A k \in Keys :
         /\ FlaggedDays(k)' \in Nat /\ Gap(k)' \in Int
         /\ Explained(k)' <=> (0 <= Gap(k)' /\ Gap(k)' <= FlaggedDays(k)')
<1>1. (SerialInv /\ IsFiniteSet(DOMAIN requests) /\ flagged \subseteq DOMAIN requests
         => \A k \in Keys :
              /\ FlaggedDays(k) \in Nat /\ Gap(k) \in Int
              /\ Explained(k) <=> (0 <= Gap(k) /\ Gap(k) <= FlaggedDays(k)))'
  BY ExplainedIsGap, PTL
<1> QED BY <1>1

\* Flags are never taken back.
LEMMA FlaggedGrows ==
  ASSUME TypeOK, IsFiniteSet(DOMAIN requests'), flagged \subseteq DOMAIN requests,
         flagged \subseteq flagged', flagged' \subseteq DOMAIN requests', TypeOK',
         \A x \in DOMAIN requests : /\ requests'[x].key = requests[x].key
                                   /\ requests'[x].days = requests[x].days,
         NEW k
  PROVE  FlaggedDays(k) <= FlaggedDays(k)'
<1>1. FlaggedBy(k) \in SUBSET (FlaggedBy(k)')
  BY DEF FlaggedBy
<1>2. /\ IsFiniteSet(FlaggedBy(k)')
      /\ \A r \in FlaggedBy(k)' : requests'[r].days \in Nat
  <2>1. FlaggedBy(k)' \subseteq DOMAIN requests'
    BY DEF FlaggedBy
  <2> QED BY <2>1, FS_Subset DEF TypeOK, RequestRow
<1>3. Total(requests', FlaggedBy(k)) <= Total(requests', FlaggedBy(k)')
  BY <1>1, <1>2, TotalMonotone
<1>4. Total(requests', FlaggedBy(k)) = Total(requests, FlaggedBy(k))
  <2>1. IsFiniteSet(FlaggedBy(k))
    BY <1>1, <1>2, FS_Subset
  <2>2. \A r \in FlaggedBy(k) : requests'[r].days = requests[r].days
    BY DEF FlaggedBy
  <2> QED BY <2>1, <2>2, TotalSame
<1> QED BY <1>3, <1>4, FlaggedIsTotal

\* The service moved neither towards HCM nor away from it, and forgot no flag.
LEMMA StillExplained ==
  ASSUME SerialInv, SerialInv', IsFiniteSet(DOMAIN requests),
         IsFiniteSet(DOMAIN requests'), flagged \subseteq DOMAIN requests,
         flagged \subseteq flagged', flagged' \subseteq DOMAIN requests',
         \A x \in DOMAIN requests : /\ requests'[x].key = requests[x].key
                                   /\ requests'[x].days = requests[x].days,
         NEW k \in Keys, Gap(k)' = Gap(k), Explained(k)
  PROVE  Explained(k)'
<1>1. TypeOK /\ TypeOK'
  BY DEF SerialInv, OverlapInv, WorkerInv, WorkerTypeOK
<1>2. FlaggedDays(k) <= FlaggedDays(k)'
  BY <1>1, FlaggedGrows
<1>3. /\ FlaggedDays(k) \in Nat /\ Gap(k) \in Int
      /\ 0 <= Gap(k) /\ Gap(k) <= FlaggedDays(k)
  BY ExplainedIsGap
<1>4. /\ FlaggedDays(k)' \in Nat
      /\ Explained(k)' <=> (0 <= Gap(k)' /\ Gap(k)' <= FlaggedDays(k)')
  BY ExplainedIsGapNext
<1> QED BY <1>2, <1>3, <1>4

\* What the worker keeps exact does not depend on balances, except that the
\* rows of approved requests exist.
LEMMA SerialRests ==
  ASSUME SerialInv, WorkerInv', UNCHANGED <<requests, events, due, answer, applied, submits>>,
         \A k \in Keys : balances'[k] = balances[k] \/ HasRow(balances'[k])
  PROVE  SerialInv'
<1>1. TypeOK /\ WorkerTypeOK /\ ApprovalAtomic
  BY DEF SerialInv, OverlapInv, WorkerInv, WorkerTypeOK
<1>2. \A w \in Runs : Current(w)' = Current(w)
  BY CurrentStable
<1>3. \A r : (Answered(r)' <=> Answered(r)) /\ (Confirmed(r)' <=> Confirmed(r))
  BY <1>2, AnswersStable
<1>4. SettledMatchesRequest' /\ OutboxMatchesRequest' /\ ListingIsFresh'
  BY DEF SerialInv, OverlapInv, SettledMatchesRequest, OutboxMatchesRequest,
         ListingIsFresh, Live
<1>5. ConsumedIsKnown'
  BY <1>3 DEF SerialInv, ConsumedIsKnown
<1>6. SubmitsCounted'
  BY <1>3 DEF SerialInv, SubmitsCounted, AttemptsBounded, Live
<1>7. RowsExist'
  <2>1. \A r \in DOMAIN events : r \in DOMAIN requests /\ requests[r].key \in Keys
    BY <1>1, EventsAreApproved DEF TypeOK, RequestRow
  <2> QED BY <2>1 DEF SerialInv, RowsExist
<1> QED BY <1>4, <1>5, <1>6, <1>7 DEF SerialInv, OverlapInv

LEMMA PendingRests ==
  ASSUME UNCHANGED <<requests, applied>>, NEW k
  PROVE  PendingDays(k)' = PendingDays(k)
<1>1. PendingBy(k)' = PendingBy(k)
  BY DEF PendingBy
<1> QED BY <1>1, SumsAreTotals

\* Writes of balances behind which every key that differs counts as disturbed.
LEMMA WriteExplained ==
  ASSUME SystemInv, SystemInv', ExplainedInv,
         UNCHANGED <<requests, events, due, answer, applied, submits, reconciling, flagged>>,
         disturbed \subseteq disturbed',
         \A k \in Keys : balances'[k] = balances[k] \/ HasRow(balances'[k]),
         \A k \in Keys \ disturbed' : balances'[k] = balances[k] /\ hcm'[k] = hcm[k]
  PROVE  ExplainedInv'
<1>1. /\ WorkerInv' /\ flagged \subseteq DOMAIN requests
      /\ SerialInv /\ IsFiniteSet(DOMAIN requests) /\ IsFiniteSet(DOMAIN requests')
  BY DEF SystemInv, CrashInv, DriftInv, ExplainedInv
<1>2. SerialInv'
  BY <1>1, SerialRests
<1>3. ReportsFresh'
  <2>1. \A c \in Reconcilers : reconciling[c].pc = "answered" => reconciling[c].key \in Keys
    BY DEF SystemInv, DriftInv, NotReconciling, AwaitingRec, AnsweredRec
  <2> QED BY <2>1 DEF ExplainedInv, ReportsFresh
<1>4. ASSUME NEW k \in Keys \ disturbed' PROVE Explained(k)'
  <2>1. Gap(k)' = Gap(k)
    BY PendingRests DEF Gap
  <2>2. Explained(k)
    BY DEF ExplainedInv
  <2> QED BY <1>1, <1>2, <2>1, <2>2, StillExplained
<1> QED BY <1>1, <1>2, <1>3, <1>4 DEF ExplainedInv

\* No handler changes the key or the days of a request.
LEMMA DaysStay ==
  ASSUME CrashInv, Next
  PROVE  \A x \in DOMAIN requests : /\ requests'[x].key = requests[x].key
                                   /\ requests'[x].days = requests[x].days
<1>1. WorkerTypeOK /\ ApprovalAtomic /\ TypeOK
  BY DEF CrashInv, WorkerInv, WorkerTypeOK
<1>2. CASE RequestNext
  BY <1>1, <1>2, LifecycleKeepsDays
<1>3. CASE \E w \in Runs : Resume(w)
  BY <1>1, <1>3, ResumeEffect
<1>4. CASE \/ \E w \in Runs : StartRun(w) \/ HcmStep(w)
           \/ \E r \in Requests : BackoffElapsed(r)
  BY <1>1, <1>4, AccountsFrame
<1> QED BY <1>2, <1>3, <1>4 DEF Next, WorkerNext, HcmStep, Resume

LEMMA ServiceExplained ==
  ASSUME AtMostOneRun, TrustedAnswers, SystemInv, SystemInv', ExplainedInv, ServiceStep
  PROVE  ExplainedInv'
<1>1. /\ Next /\ flagged' = flagged /\ reconciling' = reconciling
      /\ disturbed' = disturbed \union Overtaken
  BY DEF ServiceStep
<1>2. /\ SerialInv /\ IsFiniteSet(DOMAIN requests) /\ SerialInv'
      /\ IsFiniteSet(DOMAIN requests') /\ \A k \in Keys : Gap(k)' = Gap(k)
  BY <1>1, GapKept DEF ExplainedInv
<1>3. CrashInv /\ flagged \subseteq DOMAIN requests /\ flagged' \subseteq DOMAIN requests'
  BY DEF SystemInv, DriftInv
<1>4. ASSUME NEW k \in Keys \ disturbed' PROVE Explained(k)'
  <2>1. Explained(k)
    BY <1>1 DEF ExplainedInv
  <2> QED BY <1>1, <1>2, <1>3, <2>1, DaysStay, StillExplained
<1>5. ReportsFresh'
  <2>1. \A c \in Reconcilers : reconciling[c].pc = "answered" => reconciling[c].key \in Keys
    BY DEF SystemInv, DriftInv, NotReconciling, AwaitingRec, AnsweredRec
  <2> QED BY <1>1, <2>1 DEF ExplainedInv, ReportsFresh, Overtaken
<1> QED BY <1>2, <1>4, <1>5 DEF ExplainedInv

\* The service takes over HCM's days: what it is ahead of HCM from then on are
\* the approvals on their way, and their requests are flagged.
LEMMA OverwriteExplained ==
  ASSUME SystemInv, SystemInv', ExplainedInv, NEW c \in Reconcilers, FinishDrift(c)
  PROVE  ExplainedInv'
<1>x. PICK x : x = reconciling[c]
  OBVIOUS
<1>1. /\ balances' = BalanceOf(x) /\ flagged' = flagRequestsForDrift(x.key)
      /\ reconciling' = [reconciling EXCEPT ![c] = NotReconciling]
      /\ UNCHANGED <<requests, events, hcm, due, answer, applied, submits, disturbed>>
      /\ x.pc = "answered" /\ x \in AnsweredRec
  BY <1>x DEF FinishDrift, Overwrites, workerVars, SystemInv, DriftInv, NotReconciling,
              AwaitingRec
<1>2. /\ WorkerInv' /\ flagged \subseteq DOMAIN requests /\ CrashInv
      /\ flagged' \subseteq DOMAIN requests' /\ DriftInv
      /\ SerialInv /\ IsFiniteSet(DOMAIN requests) /\ IsFiniteSet(DOMAIN requests')
  BY <1>1 DEF SystemInv, CrashInv, DriftInv, ExplainedInv
<1>3. x.key \in Keys /\ x.hcmDays \in Int /\ balances[x.key] \in BalanceRow
  BY <1>1, <1>2, Tables DEF AnsweredRec
<1>4. /\ balances'[x.key].availableDays = x.hcmDays /\ HasRow(balances'[x.key])
      /\ \A k \in Keys : k # x.key => balances'[k] = balances[k]
  BY <1>1, <1>2, <1>3, Tables DEF BalanceOf, upsertAbsolute, HasRow, BalanceRow
<1>5. SerialInv'
  BY <1>1, <1>2, <1>4, SerialRests
<1>6. flagged \subseteq flagged'
  BY <1>1 DEF flagRequestsForDrift
<1>7. ASSUME NEW k \in Keys \ disturbed', k # x.key PROVE Explained(k)'
  <2>1. Gap(k)' = Gap(k)
    BY <1>1, <1>4, <1>7, PendingRests DEF Gap
  <2>2. Explained(k)
    BY <1>1, <1>7 DEF ExplainedInv
  <2> QED BY <1>1, <1>2, <1>5, <1>6, <2>1, <2>2, StillExplained
<1>8. ASSUME x.key \notin disturbed' PROVE Explained(x.key)'
  <2>1. x.hcmDays = hcm[x.key]
    BY <1>x, <1>1, <1>8 DEF ExplainedInv, ReportsFresh
  <2>2. PendingDays(x.key) \in Nat /\ PendingDays(x.key)' = PendingDays(x.key)
    BY <1>1, <1>2, PendingRests, HeldSplits
  <2>3. Gap(x.key)' = PendingDays(x.key)
    BY <1>1, <1>3, <1>4, <2>1, <2>2 DEF Gap
  <2>4. PendingDays(x.key) <= FlaggedDays(x.key)'
    <3>1. PendingBy(x.key) \in SUBSET (FlaggedBy(x.key)')
      BY <1>1 DEF PendingBy, FlaggedBy, flagRequestsForDrift
    <3>2. FlaggedBy(x.key)' \subseteq DOMAIN requests
      BY <1>1, <1>2 DEF FlaggedBy
    <3>3. /\ IsFiniteSet(FlaggedBy(x.key)')
          /\ \A r \in FlaggedBy(x.key)' : requests[r].days \in Nat
      BY <1>2, <3>2, Tables, RowsOfType
    <3>4. Total(requests, PendingBy(x.key)) <= Total(requests, FlaggedBy(x.key)')
      BY <3>1, <3>3, TotalMonotone
    <3> QED BY <1>1, <3>4, SumsAreTotals, FlaggedIsTotal
  <2> QED BY <1>2, <1>3, <1>5, <2>2, <2>3, <2>4, ExplainedIsGapNext
<1>9. ReportsFresh'
  BY <1>1 DEF ExplainedInv, ReportsFresh, NotReconciling, SystemInv, DriftInv
<1>10. \A k \in Keys \ disturbed' : Explained(k)'
  BY <1>7, <1>8
<1> QED BY <1>2, <1>5, <1>9, <1>10 DEF ExplainedInv

\* A reconciler reads a balance, asks HCM, gets its answer or gives up.
LEMMA ComparisonExplained ==
  ASSUME SystemInv, SystemInv', ExplainedInv, NEW c \in Reconcilers,
         \/ \E k \in Keys : StartReconcile(c, k)
         \/ HcmReports(c) \/ ReconcileFails(c) \/ FinishAgreed(c)
  PROVE  ExplainedInv'
<1>1. /\ UNCHANGED <<requests, balances, events, hcm, due, answer, applied, submits,
                     flagged, disturbed>>
      /\ \E x : /\ reconciling' = [reconciling EXCEPT ![c] = x]
                /\ x.pc = "answered" => x.hcmDays = hcm[x.key]
  <2>1. UNCHANGED <<requests, balances, events, hcm, due, answer, applied, submits, flagged,
                    disturbed>>
    BY DEF StartReconcile, HcmReports, ReconcileFails, FinishAgreed, crashVars, vars
  <2>2. SUFFICES \E x : /\ reconciling' = [reconciling EXCEPT ![c] = x]
                        /\ x.pc = "answered" => x.hcmDays = hcm[x.key]
    BY <2>1
  <2>3. ASSUME NEW k \in Keys, StartReconcile(c, k)
        PROVE  \E x : /\ reconciling' = [reconciling EXCEPT ![c] = x]
                      /\ x.pc = "answered" => x.hcmDays = hcm[x.key]
    <3>1. [pc |-> "awaiting", key |-> k, known |-> HasRow(balances[k]),
           localDays |-> balances[k].availableDays].pc # "answered"
      OBVIOUS
    <3> QED BY <2>3, <3>1 DEF StartReconcile
  <2>4. CASE HcmReports(c)
    <3> DEFINE y == [pc |-> "answered", key |-> reconciling[c].key,
                     known |-> reconciling[c].known,
                     localDays |-> reconciling[c].localDays,
                     hcmDays |-> hcm[reconciling[c].key]]
    <3>1. y.hcmDays = hcm[y.key]
      OBVIOUS
    <3>2. reconciling' = [reconciling EXCEPT ![c] = y]
      BY <2>4 DEF HcmReports
    <3> HIDE DEF y
    <3> QED BY <3>1, <3>2
  <2>5. CASE ReconcileFails(c) \/ FinishAgreed(c)
    <3>1. NotReconciling.pc # "answered"
      BY DEF NotReconciling
    <3> QED BY <2>5, <3>1 DEF ReconcileFails, FinishAgreed
  <2> QED BY <2>3, <2>4, <2>5
<1>2. /\ WorkerInv' /\ flagged \subseteq DOMAIN requests
      /\ SerialInv /\ IsFiniteSet(DOMAIN requests) /\ IsFiniteSet(DOMAIN requests')
  BY <1>1 DEF SystemInv, CrashInv, DriftInv, ExplainedInv
<1>3. SerialInv'
  BY <1>1, <1>2, SerialRests
<1>4. ReportsFresh'
  <2>1. PICK x : /\ reconciling' = [reconciling EXCEPT ![c] = x]
                 /\ x.pc = "answered" => x.hcmDays = hcm[x.key]
    BY <1>1
  <2>2. /\ reconciling'[c] = x
        /\ \A v \in Reconcilers : v # c => reconciling'[v] = reconciling[v]
    BY <2>1 DEF SystemInv, DriftInv
  <2>3. hcm' = hcm /\ disturbed' = disturbed
    BY <1>1
  <2> QED BY <2>1, <2>2, <2>3 DEF ExplainedInv, ReportsFresh
<1>5. ASSUME NEW k \in Keys \ disturbed' PROVE Explained(k)'
  <2>1. Gap(k)' = Gap(k)
    BY <1>1, PendingRests DEF Gap
  <2>2. Explained(k)
    BY <1>1 DEF ExplainedInv
  <2> QED BY <1>1, <1>2, <1>3, <2>1, <2>2, StillExplained
<1> QED BY <1>1, <1>2, <1>3, <1>4, <1>5 DEF ExplainedInv

\* HCM's staff changes one key, which counts as disturbed.
LEMMA AdjustmentExplained ==
  ASSUME SystemInv, SystemInv', ExplainedInv, NEW k \in Keys, NEW d \in AdjustedDays,
         HcmAdjusts(k, d)
  PROVE  ExplainedInv'
<1>1. /\ UNCHANGED <<requests, events, due, answer, applied, submits, reconciling, flagged,
                     balances>>
      /\ hcm' = [hcm EXCEPT ![k] = d] /\ disturbed' = disturbed \union {k}
  BY DEF HcmAdjusts, reqVars
<1>2. hcm \in [Keys -> Int]
  BY Tables DEF SystemInv
<1>3. \A b \in Keys \ disturbed' : balances'[b] = balances[b] /\ hcm'[b] = hcm[b]
  BY <1>1, <1>2
<1> QED BY <1>1, <1>3, WriteExplained

\* The rows an update or a snapshot writes exist from then on.
LEMMA InboundRows ==
  ASSUME SystemInv, UpdateStep \/ SnapshotStep
  PROVE  /\ \A k \in Keys : balances'[k] = balances[k] \/ HasRow(balances'[k])
         /\ disturbed' = disturbed \union Overwritten
         /\ UNCHANGED <<requests, events, hcm, due, answer, applied, submits, reconciling,
                        flagged, crashes>>
<1>1. balances \in [Keys -> BalanceRow] /\ CrashInv
  BY Tables DEF SystemInv
<1>2. ASSUME NEW row \in BalanceRow, NEW n PROVE HasRow(upsertAbsolute(row, n))
  BY <1>2 DEF HasRow, upsertAbsolute, BalanceRow
<1>3. ASSUME NEW row \in BalanceRow
      PROVE  HasRow(GetOrCreate(row)) /\ GetOrCreate(row) \in BalanceRow
  BY <1>3, RowOps
<1>4. CASE UpdateStep
  <2>1. PICK u \in Updates : Realtime!Deliver(u) \/ Realtime!DeliverPoison(u)
    BY <1>4 DEF UpdateStep, Realtime!Delivery
  <2>2. PICK b \in Keys : b = Payload[u].key
    BY UpdatesAssumption
  <2>3. HasRow(Realtime!Updated(u)) /\ HasRow(Realtime!GetOrCreate(balances[b]))
    BY <1>1, <1>2, <1>3, <2>2, SameStatements DEF Realtime!Updated
  <2>4. \E row : HasRow(row) /\ (balances' = balances
                                   \/ balances' = [balances EXCEPT ![b] = row])
    BY <2>1, <2>2, <2>3 DEF Realtime!Deliver, Realtime!DeliverPoison, Realtime!Write
  <2>5. \A k \in Keys : balances'[k] = balances[k] \/ HasRow(balances'[k])
    BY <1>1, <2>4
  <2> QED BY <1>4, <2>1, <2>5
          DEF UpdateStep, workerVars, Realtime!Deliver, Realtime!DeliverPoison
<1>5. CASE SnapshotStep
  <2>1. balances' = balances \/ Batch!ApplyRow
    BY <1>5 DEF SnapshotStep, Batch!Begin, Batch!Statement, Batch!RejectRow,
                Batch!SaveProgress, Batch!Checkpoint, Batch!Complete
  <2>2. \A k \in Keys : balances'[k] = balances[k] \/ HasRow(balances'[k])
    <3>1. ASSUME NEW row \in BalanceRow, NEW n PROVE HasRow(Batch!upsertAbsolute(row, n))
      BY <3>1 DEF HasRow, Batch!upsertAbsolute, BalanceRow
    <3> QED BY <1>1, <2>1, <3>1 DEF Batch!ApplyRow
  <2>3. crashes' = crashes
    BY <1>5 DEF SnapshotStep, Batch!Begin, Batch!Statement, Batch!RejectRow, Batch!ApplyRow,
                Batch!NextRow, Batch!SaveProgress, Batch!Checkpoint, Batch!Complete
  <2> QED BY <1>5, <2>2, <2>3 DEF SnapshotStep, workerVars
<1> QED BY <1>4, <1>5

LEMMA UncutStep ==
  ASSUME AtMostOneRun, TrustedAnswers, SystemInv, SystemInv', UncutExplained,
         [SystemNext]_sysVars
  PROVE  UncutExplained'
<1>1. crashes \in Nat
  BY MaxCrashesAssumption DEF SystemInv, CrashesBounded
<1>2. CASE \/ UpdateCut \/ SnapshotCut \/ ServiceCrash
           \/ \E c \in Reconcilers : CrashAfterOverwrite(c) \/ CrashAfterFlagging(c)
  <2>1. crashes' = crashes + 1
    BY <1>2
    DEF UpdateCut, Realtime!DeliveryCut, Realtime!CrashAfterRecord,
        Realtime!CrashAfterWrite, SnapshotCut, Batch!Crash, ServiceCrash, WorkerCrash,
        Crash, CrashAfterRequestSynced, CrashAfterEventFailed, CrashAfterRequestReversed,
        CrashAfterOverwrite, CrashAfterFlagging, Restart
  <2> QED BY <1>1, <2>1 DEF UncutExplained
<1>3. CASE HandlerStep /\ ServiceStep
  BY <1>3, ServiceExplained DEF UncutExplained, ServiceStep
<1>4. ASSUME NEW c \in Reconcilers, FinishDrift(c) PROVE UncutExplained'
  BY <1>4, OverwriteExplained DEF UncutExplained, FinishDrift
<1>5. ASSUME NEW c \in Reconcilers,
             \/ \E k \in Keys : StartReconcile(c, k)
             \/ HcmReports(c) \/ ReconcileFails(c) \/ FinishAgreed(c)
      PROVE UncutExplained'
  <2>1. crashes' = crashes
    BY <1>5 DEF StartReconcile, HcmReports, ReconcileFails, FinishAgreed, crashVars
  <2> QED BY <1>5, <2>1, ComparisonExplained DEF UncutExplained
<1>6. ASSUME NEW k \in Keys, NEW d \in AdjustedDays, HcmAdjusts(k, d)
      PROVE  UncutExplained'
  BY <1>6, AdjustmentExplained DEF UncutExplained, HcmAdjusts
<1>7. CASE UpdateStep \/ SnapshotStep
  <2>1. /\ \A k \in Keys : balances'[k] = balances[k] \/ HasRow(balances'[k])
        /\ disturbed' = disturbed \union Overwritten
        /\ UNCHANGED <<requests, events, hcm, due, answer, applied, submits, reconciling,
                       flagged, crashes>>
    BY <1>7, InboundRows
  <2>2. \A k \in Keys \ disturbed' : balances'[k] = balances[k] /\ hcm'[k] = hcm[k]
    BY <2>1 DEF Overwritten
  <2> QED BY <2>1, <2>2, WriteExplained DEF UncutExplained
<1>8. CASE UNCHANGED sysVars
  <2>1. /\ UNCHANGED <<requests, events, due, answer, applied, submits, reconciling, flagged>>
        /\ UNCHANGED <<balances, hcm, disturbed, crashes>>
    BY <1>8 DEF sysVars, allVars, crashVars, vars, recVars
  <2> QED BY <2>1, WriteExplained DEF UncutExplained
<1> QED BY <1>2, <1>3, <1>4, <1>5, <1>6, <1>7, <1>8
        DEF SystemNext, HandlerStep, ReconcileNext, ReconcileStep

LEMMA UncutInit == SystemInit => UncutExplained
<1> SUFFICES ASSUME SystemInit PROVE ExplainedInv
  BY DEF UncutExplained
<1>1. AgreementInv
  BY AgreementInit DEF SystemInit, ReconcileInit, CrashInit
<1>2. /\ SerialInv /\ IsFiniteSet(DOMAIN requests) /\ flagged = {}
      /\ \A k \in Keys : hcm[k] = balances[k].availableDays + PendingDays(k)
  BY <1>1 DEF AgreementInv, HcmAgreement, SystemInit, ReconcileInit
<1>3. \A k \in Keys : Gap(k) = 0
  BY <1>2, GapIsDifference
<1>4. \A k \in Keys : Explained(k)
  BY <1>2, <1>3, ExplainedIsGap
<1>5. ReportsFresh
  BY DEF SystemInit, ReconcileInit, ReportsFresh, NotReconciling
<1> QED BY <1>2, <1>4, <1>5 DEF ExplainedInv

LEMMA UncutInvariant ==
  ASSUME AtMostOneRun, TrustedAnswers
  PROVE  SystemSpec => []UncutExplained
<1>1. SystemInv /\ SystemInv' /\ UncutExplained /\ [SystemNext]_sysVars => UncutExplained'
  BY UncutStep
<1> QED BY <1>1, UncutInit, SystemInvariant, PTL DEF SystemSpec

\* Whatever is approved, submitted, reconciled and delivered meanwhile, until
\* the first crash: a balance is ahead of an undisturbed HCM by no more than the
\* approvals on their way and the days of requests flagged for review, and
\* never behind.
THEOREM DriftIsExplained ==
  ASSUME AtMostOneRun, TrustedAnswers
  PROVE  SystemSpec => []DriftExplained
<1>1. UncutExplained => DriftExplained
  BY DEF UncutExplained, ExplainedInv, DriftExplained
<1> QED BY <1>1, UncutInvariant, PTL

\* Overwriting balances does not disturb what the worker and its outbox owe
\* HCM: until the first crash every request is consumed exactly once, after a
\* bounded number of submissions.
THEOREM SystemStaysExact ==
  ASSUME AtMostOneRun, TrustedAnswers
  PROVE  SystemSpec => [](crashes = 0 => /\ ExactlyOnceAtHcm
                                         /\ OutboxMatchesRequest
                                         /\ AttemptsBounded)
<1>1. UncutExplained => (crashes = 0 => /\ ExactlyOnceAtHcm
                                        /\ OutboxMatchesRequest
                                        /\ AttemptsBounded)
  BY SerialIsExact DEF UncutExplained, ExplainedInv, SerialInv, SubmitsCounted
<1> QED BY <1>1, UncutInvariant, PTL

-----------------------------------------------------------------------------
(* Versions *)

LEMMA AbsoluteWrite ==
  ASSUME CrashInv, NEW k, NEW n, balances' = [balances EXCEPT ![k] = upsertAbsolute(@, n)]
  PROVE  RowsMoveForward
<1>1. balances \in [Keys -> BalanceRow]
  BY Tables
<1>2. CASE k \in Keys
  <2>1. balances[k].version \in Nat
    BY <1>1, <1>2 DEF BalanceRow
  <2>2. PICK row : row = upsertAbsolute(balances[k], n)
    OBVIOUS
  <2>3. row.version > balances[k].version
    BY <2>1, <2>2 DEF upsertAbsolute
  <2> QED BY <1>1, <2>2, <2>3, RowWritten
<1>3. CASE k \notin Keys
  BY <1>1, <1>3 DEF RowsMoveForward
<1> QED BY <1>2, <1>3

\* An update writes its row once, or twice when applyDelta creates it first.
LEMMA UpdateMovesForward ==
  ASSUME CrashInv, NEW u \in Updates,
         \/ Realtime!Deliver(u) \/ Realtime!DeliverPoison(u)
         \/ Realtime!CrashAfterRecord(u) \/ Realtime!CrashAfterWrite(u)
  PROVE  RowsMoveForward
<1> DEFINE k == Payload[u].key
           made == GetOrCreate(balances[k])
<1>1. balances \in [Keys -> BalanceRow] /\ k \in Keys /\ balances[k].version \in Nat
  BY UpdatesAssumption, Tables DEF BalanceRow
<1>2. made = balances[k] \/ made.version = balances[k].version + 1
  BY DEF GetOrCreate, upsertAbsolute
<1>3. \/ Realtime!Updated(u).version = balances[k].version + 1
      \/ Realtime!Updated(u).version = made.version + 1
  BY SameStatements DEF Realtime!Updated, upsertAbsolute
<1>4. \/ balances' = balances
      \/ balances' = [balances EXCEPT ![k] = made]
      \/ balances' = [balances EXCEPT ![k] = Realtime!Updated(u)]
  BY <1>1, SameStatements
     DEF Realtime!Deliver, Realtime!DeliverPoison, Realtime!CrashAfterRecord,
         Realtime!CrashAfterWrite, Realtime!Write
<1>5. CASE balances' = balances
  BY <1>5 DEF RowsMoveForward
<1>6. PICK row : row = Realtime!Updated(u)
  OBVIOUS
<1> HIDE DEF made, k
<1>7. row.version > balances[k].version
  BY <1>1, <1>2, <1>3, <1>6
<1>8. made = balances[k] \/ made.version > balances[k].version
  BY <1>1, <1>2
<1> QED BY <1>1, <1>4, <1>5, <1>6, <1>7, <1>8, RowWritten

LEMMA SnapshotMovesForward ==
  ASSUME CrashInv, SnapshotStep \/ SnapshotCut
  PROVE  RowsMoveForward
<1>1. balances \in [Keys -> BalanceRow]
  BY Tables
<1>2. \/ balances' = balances
      \/ \E k, n : balances' = [balances EXCEPT ![k] = upsertAbsolute(@, n)]
  BY DEF SnapshotStep, SnapshotCut, Batch!Begin, Batch!Statement, Batch!RejectRow,
         Batch!SaveProgress, Batch!Checkpoint, Batch!Complete, Batch!Crash, Batch!ApplyRow,
         Batch!upsertAbsolute, upsertAbsolute
<1> QED BY <1>2, AbsoluteWrite DEF RowsMoveForward

LEMMA ReconcileMovesForward ==
  ASSUME CrashInv, ReconcileStep \/ ServiceCrash
  PROVE  RowsMoveForward
<1>1. balances' = balances \/ \E c \in Reconcilers : balances' = BalanceOf(reconciling[c])
  <2>1. ASSUME NEW c \in Reconcilers,
               \/ \E k \in Keys : StartReconcile(c, k)
               \/ HcmReports(c) \/ ReconcileFails(c) \/ FinishAgreed(c)
        PROVE  balances' = balances
    BY <2>1 DEF StartReconcile, HcmReports, ReconcileFails, FinishAgreed, crashVars, vars
  <2>2. ASSUME NEW c \in Reconcilers,
               FinishDrift(c) \/ CrashAfterOverwrite(c) \/ CrashAfterFlagging(c)
        PROVE  balances' = BalanceOf(reconciling[c])
    BY <2>2 DEF FinishDrift, CrashAfterOverwrite, CrashAfterFlagging
  <2>3. ASSUME NEW k \in Keys, NEW d \in AdjustedDays, HcmAdjusts(k, d)
        PROVE  balances' = balances
    BY <2>3 DEF HcmAdjusts, reqVars
  <2>4. CASE ServiceCrash
    BY <2>4 DEF ServiceCrash, WorkerCrash, Crash, CrashAfterRequestSynced,
                CrashAfterEventFailed, CrashAfterRequestReversed
  <2> QED BY <2>1, <2>2, <2>3, <2>4 DEF ReconcileStep
<1> QED BY <1>1, AbsoluteWrite DEF BalanceOf, RowsMoveForward

\* No writer of a balance, not even one that is cut by a crash, leaves the
\* version where it was or moves it back: a row read with some version is the
\* same row as long as the version is the same, which is all the optimistic
\* check of consumeWithVersion has to go by.
THEOREM EveryWriterMovesForward == SystemSpec => VersionFence
<1>1. SystemInv /\ [SystemNext]_sysVars => [RowsMoveForward]_reqVars
  <2> SUFFICES ASSUME SystemInv, [SystemNext]_sysVars PROVE RowsMoveForward
    OBVIOUS
  <2>1. CrashInv /\ WorkerTypeOK
    BY Tables DEF SystemInv
  <2>2. CASE HandlerStep
    BY <2>1, <2>2, ServiceMovesForward, ReconcileMovesForward
    DEF HandlerStep, ReconcileNext, ServiceStep
  <2>3. CASE UpdateStep \/ UpdateCut
    BY <2>1, <2>3, UpdateMovesForward
    DEF UpdateStep, UpdateCut, Realtime!Delivery, Realtime!DeliveryCut
  <2>4. CASE SnapshotStep \/ SnapshotCut
    BY <2>1, <2>4, SnapshotMovesForward
  <2>5. CASE UNCHANGED sysVars
    BY <2>5 DEF sysVars, allVars, crashVars, vars, reqVars, RowsMoveForward
  <2> QED BY <2>2, <2>3, <2>4, <2>5 DEF SystemNext
<1>2. [RowsMoveForward]_reqVars =>
        [\A k \in Keys : balances'[k] # balances[k]
                            => balances'[k].version > balances[k].version]_reqVars
  BY DEF RowsMoveForward
<1> QED BY <1>1, <1>2, SystemInvInit, SystemInvStep, PTL DEF SystemSpec, VersionFence
=============================================================================
