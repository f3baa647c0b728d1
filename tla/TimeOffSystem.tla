--------------------------- MODULE TimeOffSystem ---------------------------
(***************************************************************************)
(* Everything that writes a balance, in one process on one database: the   *)
(* lifecycle, the outbound worker and reconciliation (Reconciliation),     *)
(* HCM's realtime updates (RealtimeSync) and its snapshots (BatchSync),    *)
(* with HCM's own balance on the other side.                               *)
(*                                                                         *)
(* Updates and snapshots carry no sequence number and may be delivered     *)
(* long after HCM sent them, so their days are simply given by Payload and *)
(* Snapshots.  ingestBatch awaits nothing: while it runs, statement by     *)
(* statement, the other handlers wait (HCM's steps, which touch nothing    *)
(* ingestBatch reads, can be put before or after it).  A crash ends every  *)
(* handler of the process.                                                 *)
(***************************************************************************)
EXTENDS Reconciliation

CONSTANTS
  Updates, Payload,  \* realtime updates, see RealtimeSync
  Jobs, Snapshots    \* jobs and the payloads posted for them, see BatchSync

VARIABLES
  recorded, written,                       \* RealtimeSync
  jobs, deadLetters, checkpoints, ingest, handled   \* BatchSync

inboundVars ==
  <<recorded, written, jobs, deadLetters, checkpoints, ingest, handled>>
sysVars == <<allVars, inboundVars>>

Realtime == INSTANCE RealtimeSync WITH applied <- written
Batch == INSTANCE BatchSync WITH Payloads <- Snapshots

ASSUME UpdatesAssumption ==
  Payload \in [Updates -> [key : Keys, updateType : {"ABSOLUTE", "DELTA"},
                           days : Int]]
ASSUME SnapshotsAssumption ==
  \A p \in Snapshots : /\ p.jobId \in Jobs
                       /\ p.rows \in Seq(Batch!BatchRow)
                       /\ p.chunkSize \in Nat \ {0}
\* A ledger entry without a request names none.
ASSUME NullAssumption == "NULL" \notin Requests

----------------------------------------------------------------------------
SystemInit ==
  /\ ReconcileInit
  /\ recorded = {}
  /\ written = [u \in Updates |-> 0]
  /\ jobs = [j \in {} |-> Batch!Idle]
  /\ deadLetters = << >>
  /\ checkpoints = << >>
  /\ ingest = Batch!Idle
  /\ handled = {}

\* A handler other than ingestBatch.
HandlerStep ==
  /\ ingest = Batch!Idle
  /\ ReconcileNext
  /\ UNCHANGED inboundVars

\* An update or a snapshot wrote these keys.
Overwritten == {k \in Keys : balances'[k] # balances[k]}

UpdateStep ==
  /\ ingest = Batch!Idle
  /\ Realtime!Delivery
  /\ disturbed' = disturbed \union Overwritten
  /\ UNCHANGED <<workerVars, reconciling, flagged, driftEvents, adjustments,
                 jobs, deadLetters, checkpoints, ingest, handled>>

UpdateCut ==
  /\ ingest = Batch!Idle
  /\ Realtime!DeliveryCut
  /\ RunsDie
  /\ ReconcilersDie
  /\ UNCHANGED <<flagged, driftEvents, jobs, deadLetters, checkpoints,
                 ingest, handled>>

SnapshotStep ==
  /\ (\E p \in Snapshots : Batch!Begin(p)) \/ Batch!Statement
  /\ disturbed' = disturbed \union Overwritten
  /\ UNCHANGED <<requests, ledger, events, workerVars, reconciling, flagged,
                 driftEvents, adjustments, recorded, written>>

SnapshotCut ==
  /\ Batch!Crash
  /\ RunsDie
  /\ ReconcilersDie
  /\ UNCHANGED <<requests, ledger, events, flagged, driftEvents, recorded,
                 written>>

SystemNext ==
  HandlerStep \/ UpdateStep \/ UpdateCut \/ SnapshotStep \/ SnapshotCut

\* A handler that was started runs on; posts and HCM as assumed before.
SystemSpec ==
  /\ SystemInit
  /\ [][SystemNext]_sysVars
  /\ EventLoopFairness
  /\ TriggerFairness
  /\ ReconcileFairness
  /\ WF_sysVars(SnapshotStep /\ ingest # Batch!Idle)

----------------------------------------------------------------------------
(* Properties *)

\* Types of all components together; an ingestion belongs to a posted job.
SystemTypeOK ==
  /\ ReconcileTypeOK
  /\ recorded \subseteq Updates
  /\ written \in [Updates -> Nat]
  /\ Batch!BatchTypeOK

\* docs/trd/04: "HCM wins on absolute balance truth".  Whatever happened, approvals in
\* flight, crashes, updates and snapshots that arrive late, changes at HCM:
\* if keys keep being reconciled, the service ends up with HCM's days.
Healed == \A k \in Keys : <>[](balances[k].availableDays = hcm[k])
============================================================================
