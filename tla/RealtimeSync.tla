---------------------------- MODULE RealtimeSync ----------------------------
(***************************************************************************)
(* RealtimeSyncService.processBalanceUpdate next to the request lifecycle. *)
(* HCM delivers each update at least once and in any order.  An update is  *)
(* what recordInboundSyncEvent tells apart: an externalEventId with the    *)
(* JSON text of its payload.  The same event with its members in another   *)
(* order is another update here, and is applied again.  The handler        *)
(* awaits nothing, so it is one step of the event loop, but its statements *)
(* commit one by one: it can stop in the middle, either because SQLite     *)
(* refuses a negative balance (the update is poison) or because the        *)
(* process dies.  A redelivery finds the update recorded and is dropped.   *)
(***************************************************************************)
EXTENDS TimeOffRequests, SequencesExt

CONSTANTS
  Updates,     \* external ids with payload texts that HCM sends
  Payload,     \* update -> [key, updateType, days]
  MaxCrashes   \* bound on the number of crashes explored

ASSUME PayloadAssumption ==
  Payload \in [Updates -> [key : Keys, updateType : {"ABSOLUTE", "DELTA"},
                           days : Int]]
ASSUME RealtimeCrashesAssumption == MaxCrashes \in Nat

VARIABLES
  recorded,  \* inbound sync_events
  applied,   \* history: how often an update changed a balance
  crashes    \* crashes so far

rtVars == <<requests, balances, ledger, events, recorded, applied, crashes>>

----------------------------------------------------------------------------
\* recordInboundSyncEvent inserts a row: INSERT OR IGNORE on the event's id,
\* payloadHash, which is JSON.stringify of the payload, and direction.
FirstDelivery(u) == u \notin recorded

\* The row that upsertAbsolute or applyDelta writes.
Updated(u) ==
  LET p == Payload[u]
  IN IF p.updateType = "ABSOLUTE" THEN upsertAbsolute(balances[p.key], p.days)
                                  ELSE applyDelta(balances[p.key], p.days)

\* CHECK (available_days >= 0) rejects that write.
Poison(u) == ~CheckOK(Updated(u).availableDays)

\* A slip: every entry is written as a delta.
DeltaEntry(u) ==
  [type |-> "HCM_REALTIME_DELTA", key |-> Payload[u].key,
   days |-> Payload[u].days, requestId |-> "NULL"]

\* The ledger entry of an update.
UpdateEntry(u) ==
  [type |-> IF Payload[u].updateType = "ABSOLUTE" THEN "HCM_REALTIME_ABSOLUTE"
                                                  ELSE "HCM_REALTIME_DELTA",
   key |-> Payload[u].key, days |-> Payload[u].days, requestId |-> "NULL"]

\* The balance write on its own.
Write(u) ==
  /\ balances' = [balances EXCEPT ![Payload[u].key] = Updated(u)]
  /\ applied' = [applied EXCEPT ![u] = @ + 1]

----------------------------------------------------------------------------
RealtimeInit ==
  /\ Init
  /\ recorded = {}
  /\ applied = [u \in Updates |-> 0]
  /\ crashes = 0

\* POST /sync/hcm/realtime/balance-updates
Deliver(u) ==
  /\ FirstDelivery(u)
  /\ ~Poison(u)
  /\ recorded' = recorded \union {u}
  /\ Write(u)
  /\ ledger' = Append(ledger, UpdateEntry(u))
  /\ UNCHANGED <<requests, events, crashes>>

\* The balance write throws; the record stays.  applyDelta has already
\* created the missing row.
DeliverPoison(u) ==
  LET k == Payload[u].key IN
  /\ FirstDelivery(u)
  /\ Poison(u)
  /\ recorded' = recorded \union {u}
  /\ balances' = IF Payload[u].updateType = "DELTA"
                   THEN [balances EXCEPT ![k] = GetOrCreate(@)]
                   ELSE balances
  /\ UNCHANGED <<requests, ledger, events, applied, crashes>>

\* The process dies after recordInboundSyncEvent, or after applyDelta created
\* the missing row.
CrashAfterRecord(u) ==
  LET k == Payload[u].key IN
  /\ crashes < MaxCrashes
  /\ FirstDelivery(u)
  /\ recorded' = recorded \union {u}
  /\ crashes' = crashes + 1
  /\ \/ UNCHANGED balances
     \/ /\ Payload[u].updateType = "DELTA"
        /\ balances' = [balances EXCEPT ![k] = GetOrCreate(@)]
  /\ UNCHANGED <<requests, ledger, events, applied>>

\* A slip: the balance is written before the update is recorded.
WriteBeforeRecord(u) ==
  /\ crashes < MaxCrashes
  /\ FirstDelivery(u)
  /\ ~Poison(u)
  /\ Write(u)
  /\ crashes' = crashes + 1
  /\ UNCHANGED <<requests, ledger, events, recorded>>

\* The process dies after the balance write, before the ledger entry.
CrashAfterWrite(u) ==
  /\ crashes < MaxCrashes
  /\ FirstDelivery(u)
  /\ ~Poison(u)
  /\ recorded' = recorded \union {u}
  /\ Write(u)
  /\ crashes' = crashes + 1
  /\ UNCHANGED <<requests, ledger, events>>

Delivery == \E u \in Updates : Deliver(u) \/ DeliverPoison(u)
DeliveryCut == \E u \in Updates : CrashAfterRecord(u) \/ CrashAfterWrite(u)

RealtimeNext ==
  \/ RequestNext /\ UNCHANGED <<recorded, applied, crashes>>
  \/ Delivery
  \/ DeliveryCut

RealtimeSpec == RealtimeInit /\ [][RealtimeNext]_rtVars

----------------------------------------------------------------------------
(* Properties *)

\* Types; no update leaves a negative balance behind.
RealtimeTypeOK ==
  /\ TypeOK
  /\ recorded \subseteq Updates
  /\ applied \in [Updates -> Nat]

\* However often HCM redelivers an update, and wherever the process dies, it
\* changes the balance at most once.
AppliedAtMostOnce == \A u \in Updates : applied[u] <= 1

\* What one ledger entry does to the days of k.
Replay(k, days, entry) ==
  IF entry.key # k THEN days
  ELSE CASE entry.type = "RESERVATION"           -> days - entry.days
         [] entry.type = "HCM_REALTIME_ABSOLUTE" -> entry.days
         [] entry.type = "HCM_REALTIME_DELTA"    -> days + entry.days

\* The days of k after these entries.
Replayed(k, entries) ==
  FoldLeft(LAMBDA days, entry : Replay(k, days, entry), Imported[k], entries)

\* The ledger is a faithful journal as long as no crash cut a handler:
\* replaying it from the imported days gives every balance, whatever the
\* order of approvals and updates and whichever of them SQLite refused.
LedgerReplaysBalance ==
  crashes = 0 => \A k \in Keys : Replayed(k, ledger) = balances[k].availableDays

\* The same and what it rests on: a row that is missing counts as no days.
JournalInv ==
  /\ RealtimeTypeOK
  /\ crashes \in Nat
  /\ \A k \in Keys : ~HasRow(balances[k]) => balances[k].availableDays = 0
  /\ LedgerReplaysBalance

\* docs/trd/04: "Apply update transactionally and append ledger record": an
\* update that is recorded as processed did change the balance.
RecordedMeansApplied == \A u \in recorded : applied[u] = 1
=============================================================================
