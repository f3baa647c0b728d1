--------------------------- MODULE OutboundCrash ---------------------------
(***************************************************************************)
(* The outbound worker when the process may die and be restarted on the    *)
(* same database file (DB_PATH).  The runs in progress are gone, whatever  *)
(* HCM consumed stays consumed, and the tables keep every statement that   *)
(* was executed: outside approve each statement commits by itself, so the  *)
(* two or three statements that settle an event can be cut in the middle.  *)
(***************************************************************************)
EXTENDS OutboundSync

CONSTANT MaxCrashes   \* bound on the number of crashes explored

ASSUME MaxCrashesAssumption == MaxCrashes \in Nat

VARIABLE crashes

crashVars == <<vars, crashes>>

CrashInit == OutboundInit /\ crashes = 0

\* All runs die; the submission in flight is not taken back.
RunsDie ==
  /\ due' = [w \in Runs |-> NothingDue]
  /\ answer' = [w \in Runs |-> "NONE"]
  /\ UNCHANGED <<hcm, applied, submits>>

Restart ==
  /\ crashes < MaxCrashes
  /\ crashes' = crashes + 1
  /\ RunsDie
  /\ UNCHANGED ledger

\* Between two handlers, or while HCM is being awaited.
Crash ==
  /\ \E w \in Runs : DOMAIN due[w] # {}
  /\ Restart
  /\ UNCHANGED <<requests, balances, events>>

\* Slips: the event is closed first; the request is marked before the call.
CrashAfterEventSynced(w) ==
  /\ answer[w] = "OK"
  /\ events' = EventSynced(Current(w))
  /\ Restart
  /\ UNCHANGED <<requests, balances>>
MarkedBeforeSubmit(w) ==
  /\ InFlight(w)
  /\ requests' = RequestSynced(Current(w))
  /\ Restart
  /\ UNCHANGED <<balances, events>>

\* After markRequestSynced, before markSyncEventSynced.
CrashAfterRequestSynced(w) ==
  /\ answer[w] = "OK"
  /\ requests' = RequestSynced(Current(w))
  /\ Restart
  /\ UNCHANGED <<balances, events>>

\* After markSyncEventFailed, before anything is given back.
CrashAfterEventFailed(w) ==
  /\ answer[w] \notin {"NONE", "OK"}
  /\ ~ShouldRetry(w)
  /\ events' = EventFailed(Current(w))
  /\ Restart
  /\ UNCHANGED <<requests, balances>>

\* A slip: the two UPDATEs in the other order.
CreditBeforeReversal(w) ==
  /\ answer[w] \notin {"NONE", "OK"}
  /\ ~ShouldRetry(w)
  /\ events' = EventFailed(Current(w))
  /\ balances' = DaysReturned(Current(w))
  /\ Restart
  /\ UNCHANGED requests

\* Between the two UPDATEs of markRequestFailedAndReversed.
CrashAfterRequestReversed(w) ==
  /\ answer[w] \notin {"NONE", "OK"}
  /\ ~ShouldRetry(w)
  /\ events' = EventFailed(Current(w))
  /\ requests' = RequestReversed(Current(w))
  /\ Restart
  /\ UNCHANGED balances

WorkerCrash ==
  \/ Crash
  \/ \E w \in Runs : \/ CrashAfterRequestSynced(w)
                     \/ CrashAfterEventFailed(w)
                     \/ CrashAfterRequestReversed(w)

CrashNext == (Next /\ UNCHANGED crashes) \/ WorkerCrash

CrashSpec == CrashInit /\ [][CrashNext]_crashVars

\* After a restart the trigger is posted again, see OutboundSync.
CrashFairSpec == CrashSpec /\ EventLoopFairness /\ TriggerFairness

----------------------------------------------------------------------------
(* Properties *)

\* The success path writes the request before the event, so even a crash in
\* between never leaves an event closed whose request was not marked SYNCED.
ProcessedMeansSynced ==
  \A r \in DOMAIN events :
    events[r].status = "PROCESSED" => requests[r].status = "SYNCED"

\* Restarting loses no work: every event still to be sent is sent eventually.
OutboxDrains ==
  \A r \in Requests :
    (r \in DOMAIN events /\ Live(r)) ~> (r \in DOMAIN events /\ ~Live(r))

\* docs/trd/01: "HCM rejection or conflict triggers compensating transition".
\* An event that failed for good has been compensated.
FailureCompensated ==
  \A r \in DOMAIN events :
    events[r].status = "FAILED" => requests[r].status = "REVERSED"
============================================================================
