--------------------------- MODULE TimeOffDomain ---------------------------
(***************************************************************************)
(* The pure part of the time-off service: the status policy of a request,  *)
(* the day-count policies and the SQL statements that touch one row of     *)
(* the "balances" table.  Nothing here has state; the components' modules  *)
(* use these operators on the tables they keep as variables.               *)
(*                                                                         *)
(* A balance row is [availableDays, version].  SQL inserts a row with      *)
(* version 1 and only ever increments it, so version 0 stands for "there   *)
(* is no row for this (employee, location)".                               *)
(***************************************************************************)
EXTENDS Integers

RequestStatus == {"PENDING", "APPROVED", "SYNCED", "REJECTED", "CANCELLED",
                  "FAILED_SYNC", "REVERSED"}

\* time_off_requests.sync_state; "NULL" is SQL's NULL.
SyncState == {"NULL", "PENDING_SYNC", "DONE", "FAILED"}

\* sync_events.status of an outbound event.
OutboundStatus == {"QUEUED", "RETRY_PENDING", "PROCESSED", "FAILED"}

\* A plausible slip in the policy table: an approved request may be cancelled.
CancellableAfterApproval ==
  [s \in RequestStatus |->
     CASE s = "PENDING"     -> {"APPROVED", "REJECTED", "CANCELLED"}
       [] s = "APPROVED"    -> {"CANCELLED", "SYNCED", "FAILED_SYNC", "REVERSED"}
       [] s = "FAILED_SYNC" -> {"REVERSED"}
       [] OTHER             -> {}]

allowedTransitions ==
  [s \in RequestStatus |->
     CASE s = "PENDING"     -> {"APPROVED", "REJECTED", "CANCELLED"}
       [] s = "APPROVED"    -> {"SYNCED", "FAILED_SYNC", "REVERSED"}
       [] s = "FAILED_SYNC" -> {"REVERSED"}
       [] OTHER             -> {}]

\* assertTransition does not throw.
CanTransition(current, next) == next \in allowedTransitions[current]

\* assertPositiveDays does not throw.
PositiveDays(days) == days > 0

\* assertHasBalance does not throw.
HasBalance(availableDays, days) == availableDays - days >= 0

----------------------------------------------------------------------------
(* Rows of the "balances" table. *)

BalanceRow == [availableDays : Nat, version : Nat]

NoBalance == [availableDays |-> 0, version |-> 0]

HasRow(row) == row.version > 0

\* A slip: the column has no CHECK.
Unchecked(days) == TRUE

\* CHECK (available_days >= 0): SQLite refuses the statement otherwise.
CheckOK(days) == days >= 0

\* INSERT ... VALUES (..., 1, ...) ON CONFLICT DO UPDATE SET version + 1
upsertAbsolute(row, days) ==
  [availableDays |-> days, version |-> row.version + 1]

\* balancesRepository.get(...) ?? balancesRepository.upsertAbsolute(..., 0)
GetOrCreate(row) == IF HasRow(row) THEN row ELSE upsertAbsolute(row, 0)

\* applyDelta: the created row, if any, is a write of its own.
applyDelta(row, delta) ==
  upsertAbsolute(GetOrCreate(row), GetOrCreate(row).availableDays + delta)

\* UPDATE ... WHERE version = ? AND available_days - ? >= 0 finds the row.
CanConsume(row, days, expectedVersion) ==
  /\ HasRow(row)
  /\ row.version = expectedVersion
  /\ row.availableDays - days >= 0

\* A slip: the version is not incremented.
ConsumeKeepsVersion(row, days) ==
  [availableDays |-> row.availableDays - days, version |-> row.version]

\* What that UPDATE writes.
Consume(row, days) ==
  [availableDays |-> row.availableDays - days, version |-> row.version + 1]

\* UPDATE balances SET available_days + ?, version + 1 WHERE key: no row, no effect.
Credit(row, days) ==
  IF HasRow(row)
    THEN [availableDays |-> row.availableDays + days,
          version |-> row.version + 1]
    ELSE row
============================================================================
