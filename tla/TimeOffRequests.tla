-------------------------- MODULE TimeOffRequests --------------------------
(***************************************************************************)
(* The request lifecycle of TimeOffRequestsService over the SQLite tables  *)
(* it uses: time_off_requests, balances, balance_ledger and the outbound   *)
(* rows of sync_events (the outbox).                                       *)
(*                                                                         *)
(* Node runs one handler at a time and better-sqlite3 is synchronous, so a *)
(* handler without an await is one atomic step.  Only approve writes more  *)
(* than one row, and it does so inside a transaction, so a crash cannot    *)
(* split it either.  A handler that throws leaves no trace (approve rolls  *)
(* its transaction back), hence its guard is simply false.                 *)
(*                                                                         *)
(* Tables are functions on the set of ids present.  An outbound event is   *)
(* identified by the request whose approval created it.                    *)
(***************************************************************************)
EXTENDS TimeOffDomain, Sequences, FiniteSets, FiniteSetsExt, Functions

CONSTANTS
  Keys,       \* (employeeId, locationId) pairs
  Requests,   \* the UUIDs randomUUID can hand out
  DayInputs,  \* the values of "days" clients send, invalid ones included
  Imported    \* days HCM imported per key before the run; 0: no row yet

ASSUME DayInputsAssumption == DayInputs \subseteq Int
ASSUME ImportedAssumption == Imported \in [Keys -> Nat]

VARIABLES
  requests,   \* time_off_requests: id -> row
  balances,   \* balances: key -> row (NoBalance when absent)
  ledger,     \* balance_ledger, in insertion order
  events      \* outbound sync_events: request id -> row

reqVars == <<requests, balances, ledger, events>>

RequestRow ==
  [key : Keys, days : Nat \ {0}, status : RequestStatus, syncState : SyncState]

LedgerType == {"RESERVATION", "HCM_REALTIME_ABSOLUTE", "HCM_REALTIME_DELTA"}

\* request_id is NULL for entries that no request caused.
LedgerEntry == [type : LedgerType, key : Keys, days : Int,
                requestId : Requests \union {"NULL"}]

\* createdAt orders approvals; waiting: next_attempt_at lies in the future.
EventRow == [status : OutboundStatus, attemptCount : Nat, createdAt : Nat,
             waiting : BOOLEAN]

----------------------------------------------------------------------------
\* INSERT INTO t (id, ...) VALUES (id, row)
Insert(t, id, row) ==
  [x \in DOMAIN t \union {id} |-> IF x = id THEN row ELSE t[x]]

\* requestsRepository.save: sync_state, days and key are left alone.
save(r, status) == requests' = [requests EXCEPT ![r].status = status]

\* The outbox row createSyncEvent inserts: due at once, never attempted.
NewEvent == [status |-> "QUEUED", attemptCount |-> 0,
             createdAt |-> Len(ledger) + 1, waiting |-> FALSE]

ReservationEntry(r) == [type |-> "RESERVATION", key |-> requests[r].key,
                        days |-> requests[r].days, requestId |-> r]

----------------------------------------------------------------------------
Init ==
  /\ requests = [r \in {} |-> NoBalance]
  /\ events = [r \in {} |-> NoBalance]
  /\ balances = [k \in Keys |-> IF Imported[k] > 0
                                  THEN upsertAbsolute(NoBalance, Imported[k])
                                  ELSE NoBalance]
  /\ ledger = << >>

\* POST /timeoff-requests.  A body without employeeId or locationId throws
\* before any statement, as one without positive days does.
Create(r, k, d) ==
  /\ r \notin DOMAIN requests
  /\ PositiveDays(d)
  /\ requests' = Insert(requests, r, [key |-> k, days |-> d,
                                      status |-> "PENDING",
                                      syncState |-> "NULL"])
  /\ UNCHANGED <<balances, ledger, events>>

\* POST /timeoff-requests/:id/approve.  The version check cannot fail: the
\* version was read in the same transaction.
Approve(r) ==
  /\ r \in DOMAIN requests
  /\ CanTransition(requests[r].status, "APPROVED")
  /\ LET k == requests[r].key
         days == requests[r].days
         current == GetOrCreate(balances[k])
     IN /\ HasBalance(current.availableDays, days)
        /\ CanConsume(current, days, current.version)
        /\ balances' = [balances EXCEPT ![k] = Consume(current, days)]
  /\ save(r, "APPROVED")
  /\ ledger' = Append(ledger, ReservationEntry(r))
  /\ events' = Insert(events, r, NewEvent)

\* POST /timeoff-requests/:id/reject
Reject(r) ==
  /\ r \in DOMAIN requests
  /\ CanTransition(requests[r].status, "REJECTED")
  /\ save(r, "REJECTED")
  /\ UNCHANGED <<balances, ledger, events>>

\* POST /timeoff-requests/:id/cancel
Cancel(r) ==
  /\ r \in DOMAIN requests
  /\ CanTransition(requests[r].status, "CANCELLED")
  /\ save(r, "CANCELLED")
  /\ UNCHANGED <<balances, ledger, events>>

\* GET /balances/:employeeId/:locationId creates the row it cannot find.
GetBalance(k) ==
  /\ ~HasRow(balances[k])
  /\ balances' = [balances EXCEPT ![k] = GetOrCreate(balances[k])]
  /\ UNCHANGED <<requests, ledger, events>>

RequestNext ==
  \/ \E r \in Requests, k \in Keys, d \in DayInputs : Create(r, k, d)
  \/ \E r \in Requests : Approve(r) \/ Reject(r) \/ Cancel(r)
  \/ \E k \in Keys : GetBalance(k)

RequestSpec == Init /\ [][RequestNext]_reqVars

----------------------------------------------------------------------------
(* Properties *)

\* Every table holds rows its schema admits: positive days on a request
\* (CHECK days > 0) and no negative balance (CHECK available_days >= 0).
TypeOK ==
  /\ DOMAIN requests \subseteq Requests
  /\ requests \in [DOMAIN requests -> RequestRow]
  /\ DOMAIN events \subseteq Requests
  /\ events \in [DOMAIN events -> EventRow]
  /\ balances \in [Keys -> BalanceRow]
  /\ ledger \in Seq(LedgerEntry)

\* A request that was approved and not given back still holds its days.
Holding(r) == requests[r].status \in {"APPROVED", "SYNCED"}

WasApproved(r) ==
  requests[r].status \in {"APPROVED", "SYNCED", "FAILED_SYNC", "REVERSED"}

EntriesOf(r) == {i \in DOMAIN ledger : ledger[i].requestId = r}

HeldDays(k) ==
  MapThenSumSet(LAMBDA r : requests[r].days,
                {r \in DOMAIN requests : requests[r].key = k /\ Holding(r)})

\* No day is spent twice or lost: what is left on a balance and what approved
\* requests hold always add up to what HCM imported.
Conservation ==
  \A k \in Keys : balances[k].availableDays + HeldDays(k) = Imported[k]

\* Conservation and what it rests on: a row that is missing counts as no days.
ConservationInv ==
  /\ TypeOK
  /\ IsFiniteSet(DOMAIN requests)
  /\ \A k \in Keys : ~HasRow(balances[k]) => balances[k].availableDays = 0
  /\ Conservation

\* What the approve transaction leaves behind, and a request without it.
Recorded(r) ==
  /\ r \in DOMAIN events
  /\ \E i \in DOMAIN ledger : /\ EntriesOf(r) = {i}
                              /\ ledger[i] = ReservationEntry(r)

Unrecorded(r) == r \notin DOMAIN events /\ EntriesOf(r) = {}

\* The approve transaction is all or nothing: a request has exactly one
\* RESERVATION entry, for its own key and days, and one outbox event if and
\* only if it was approved at some point.
ApprovalAtomic ==
  \A r \in Requests :
    IF r \in DOMAIN requests /\ WasApproved(r) THEN Recorded(r) ELSE Unrecorded(r)

\* Every write to a balance row moves its version forward, which is what
\* consumeWithVersion's optimistic check relies on.
VersionFence ==
  [][\A k \in Keys : balances'[k] # balances[k]
                        => balances'[k].version > balances[k].version]_reqVars

============================================================================
