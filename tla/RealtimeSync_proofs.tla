------------------------ MODULE RealtimeSync_proofs ------------------------
(***************************************************************************)
(* Theorems about the realtime updates, for any set of updates, delivered  *)
(* any number of times in any order, next to the request lifecycle and     *)
(* with any number of crashes inside a handler.                            *)
(***************************************************************************)
EXTENDS RealtimeSync, TimeOffRequests_proofs

\* Inductive: an update that changed a balance is recorded, so that its next
\* delivery is dropped.
AppliedRecorded == \A u \in Updates : applied[u] = 0 \/ (u \in recorded /\ applied[u] = 1)

RealtimeInv == RealtimeTypeOK /\ AppliedRecorded

-----------------------------------------------------------------------------
LEMMA PayloadFields ==
  ASSUME NEW u \in Updates
  PROVE  Payload[u].key \in Keys /\ Payload[u].days \in Int
BY PayloadAssumption

\* SQLite's CHECK keeps every row an update writes a row of the schema.
LEMMA UpdatedRow ==
  ASSUME TypeOK, NEW u \in Updates
  PROVE  /\ GetOrCreate(balances[Payload[u].key]) \in BalanceRow
         /\ ~Poison(u) => Updated(u) \in BalanceRow
<1> DEFINE k == Payload[u].key
<1>1. balances[k] \in BalanceRow /\ Payload[u].days \in Int
  BY PayloadFields DEF TypeOK
<1>2. GetOrCreate(balances[k]) \in BalanceRow
  BY <1>1, RowOps
<1>3. /\ balances[k].version \in Nat
      /\ GetOrCreate(balances[k]).version \in Nat
      /\ GetOrCreate(balances[k]).availableDays \in Nat
  BY <1>1, <1>2 DEF BalanceRow
<1>4. ASSUME ~Poison(u) PROVE Updated(u) \in BalanceRow
  <2>1. CASE Payload[u].updateType = "ABSOLUTE"
    BY <1>1, <1>3, <1>4, <2>1 DEF Poison, CheckOK, Updated, upsertAbsolute, BalanceRow
  <2>2. CASE Payload[u].updateType # "ABSOLUTE"
    <3> DEFINE row == GetOrCreate(balances[k])
    <3>1. Updated(u) = upsertAbsolute(row, row.availableDays + Payload[u].days)
      BY <2>2 DEF Updated, applyDelta
    <3> HIDE DEF row
    <3> QED BY <1>1, <1>3, <1>4, <3>1 DEF row, Poison, CheckOK, upsertAbsolute, BalanceRow
  <2> QED BY <2>1, <2>2
<1> QED BY <1>2, <1>4

LEMMA RealtimeInvInit == RealtimeInit => RealtimeInv
BY RequestTypeInit DEF RealtimeInit, RealtimeInv, RealtimeTypeOK, AppliedRecorded

\* Only a first delivery counts an application, and it records the update.
LEMMA WriteCounts ==
  ASSUME RealtimeInv, NEW u \in Updates, FirstDelivery(u), ~Poison(u), Write(u),
         recorded' = recorded \union {u}
  PROVE  /\ balances' \in [Keys -> BalanceRow]
         /\ recorded' \subseteq Updates
         /\ applied' \in [Updates -> Nat]
         /\ AppliedRecorded'
<1> USE DEF RealtimeInv, RealtimeTypeOK
<1>1. balances' \in [Keys -> BalanceRow]
  BY UpdatedRow DEF Write, TypeOK
<1>2. applied' = [applied EXCEPT ![u] = applied[u] + 1] /\ applied[u] = 0
  BY DEF Write, FirstDelivery, AppliedRecorded
<1>3. applied' \in [Updates -> Nat] /\ applied'[u] = 1
  BY <1>2
<1>4. \A x \in Updates : x # u => applied'[x] = applied[x]
  BY <1>2
<1> QED BY <1>1, <1>3, <1>4 DEF AppliedRecorded

LEMMA RealtimeInvStep == RealtimeInv /\ [RealtimeNext]_rtVars => RealtimeInv'
<1> SUFFICES ASSUME RealtimeInv, [RealtimeNext]_rtVars PROVE RealtimeInv'
  OBVIOUS
<1> USE DEF RealtimeInv, RealtimeTypeOK
<1>1. CASE RequestNext /\ UNCHANGED <<recorded, applied, crashes>>
  BY <1>1, RequestTypeStep DEF AppliedRecorded
<1>2. ASSUME NEW u \in Updates, Deliver(u) PROVE RealtimeInv'
  <2>1. UpdateEntry(u) \in LedgerEntry
    BY PayloadFields DEF UpdateEntry, LedgerEntry, LedgerType
  <2>2. ledger' \in Seq(LedgerEntry)
    BY <1>2, <2>1 DEF Deliver, TypeOK
  <2> QED BY <1>2, <2>2, WriteCounts DEF Deliver, TypeOK
<1>3. ASSUME NEW u \in Updates, CrashAfterWrite(u) PROVE RealtimeInv'
  BY <1>3, WriteCounts DEF CrashAfterWrite, TypeOK
<1>4. ASSUME NEW u \in Updates, DeliverPoison(u) \/ CrashAfterRecord(u) PROVE RealtimeInv'
  <2>1. /\ recorded' = recorded \union {u} /\ UNCHANGED <<requests, ledger, events, applied>>
        /\ \/ UNCHANGED balances
           \/ balances' = [balances EXCEPT ![Payload[u].key]
                             = GetOrCreate(balances[Payload[u].key])]
    BY <1>4 DEF DeliverPoison, CrashAfterRecord
  <2>2. balances' \in [Keys -> BalanceRow]
    BY <2>1, UpdatedRow DEF TypeOK
  <2> QED BY <2>1, <2>2 DEF TypeOK, AppliedRecorded
<1>5. CASE UNCHANGED rtVars
  BY <1>5 DEF rtVars, TypeOK, AppliedRecorded
<1> QED BY <1>1, <1>2, <1>3, <1>4, <1>5 DEF RealtimeNext, Delivery, DeliveryCut

LEMMA RealtimeInvariant == RealtimeSpec => []RealtimeInv
<1> QED BY RealtimeInvInit, RealtimeInvStep, PTL DEF RealtimeSpec

\* Whatever HCM sends and in whatever order, no balance becomes negative and
\* every table keeps to its schema.
THEOREM RealtimeTypeCorrect == RealtimeSpec => []RealtimeTypeOK
<1>1. RealtimeInv => RealtimeTypeOK
  BY DEF RealtimeInv
<1> QED BY <1>1, RealtimeInvariant, PTL

\* At-least-once delivery changes a balance at most once per update, wherever
\* the process dies.
THEOREM UpdatesApplyAtMostOnce == RealtimeSpec => []AppliedAtMostOnce
<1>1. RealtimeInv => AppliedAtMostOnce
  BY DEF RealtimeInv, RealtimeTypeOK, AppliedRecorded, AppliedAtMostOnce
<1> QED BY <1>1, RealtimeInvariant, PTL
-----------------------------------------------------------------------------
(* Replaying the ledger.  FoldLeft goes through the sets of positions, the   *)
(* highest first; what is needed of it is that the last entry comes last.   *)

\* The recursive function over sets of positions that replays entries q; D is
\* the part of those sets it is defined on.
Replays(g, k, q, D) ==
  g = [s \in D |-> IF s = {} THEN Imported[k]
                   ELSE Replay(k, g[s \ {Max(s)}], q[Max(s)])]

ReplaysOf(k, q) == CHOOSE g : Replays(g, k, q, SUBSET DOMAIN q)

LEMMA ReplayedIsFold ==
  ASSUME NEW k, NEW q
  PROVE  Replayed(k, q) = ReplaysOf(k, q)[DOMAIN q]
BY DEF Replayed, FoldLeft, MapThenFoldSet, ReplaysOf, Replays

LEMMA MaxPosition ==
  ASSUME NEW n \in Nat, NEW s \in SUBSET (1 .. n), s # {}
  PROVE  Max(s) \in s
<1> DEFINE T == {n - x : x \in s}
<1>1. T \subseteq Nat /\ T # {}
  <2>1. \A x \in s : n - x \in Nat
    OBVIOUS
  <2> QED BY <2>1
<1>2. PICK m \in T : \A y \in T : m <= y
  BY <1>1, LeastNat
<1>3. PICK x \in s : m = n - x
  BY <1>2
<1>4. \A y \in s : n - x <= n - y
  BY <1>2, <1>3
<1>5. \A y \in s : x >= y
  BY <1>4
<1> QED BY <1>5 DEF Max

LEMMA MaxOfPrefix ==
  ASSUME NEW n \in Nat
  PROVE  Max(1 .. n + 1) = n + 1 /\ (1 .. n + 1) \ {n + 1} = 1 .. n
<1>1. n + 1 \in 1 .. n + 1 /\ \A y \in 1 .. n + 1 : n + 1 >= y
  OBVIOUS
<1>2. \A x \in 1 .. n + 1 : (\A y \in 1 .. n + 1 : x >= y) => x = n + 1
  BY <1>1
<1>3. Max(1 .. n + 1) = n + 1
  BY <1>1, <1>2 DEF Max
<1> QED BY <1>3

\* The recursion has a solution over the sets of positions of a sequence.
LEMMA ReplaysExist ==
  ASSUME NEW k, NEW q, NEW n \in Nat, DOMAIN q = 1 .. n
  PROVE  Replays(ReplaysOf(k, q), k, q, SUBSET (1 .. n))
<1> DEFINE S == 1 .. n
           Upto(m) == {s \in SUBSET S : Cardinality(s) <= m}
           I == {m \in Nat : \E g : Replays(g, k, q, Upto(m))}
<1>1. IsFiniteSet(S)
  BY FS_Interval
<1>2. \A s \in SUBSET S : s # {} => Max(s) \in s
  BY MaxPosition
<1> HIDE DEF S
<1>3. 0 \in I
  <2> DEFINE g == [s \in Upto(0) |-> Imported[k]]
  <2>1. \A s \in Upto(0) : s = {}
    BY <1>1, PickOne
  <2>2. Replays(g, k, q, Upto(0))
    BY <2>1 DEF Replays
  <2> QED BY <2>2
<1>4. ASSUME NEW m \in Nat, m \in I PROVE m + 1 \in I
  <2> PICK g : Replays(g, k, q, Upto(m))
    BY <1>4
  <2> DEFINE h == [s \in Upto(m + 1) |-> IF s = {} THEN Imported[k]
                     ELSE Replay(k, g[s \ {Max(s)}], q[Max(s)])]
  <2>1. ASSUME NEW s \in Upto(m + 1), s # {}
        PROVE  s \ {Max(s)} \in Upto(m)
    BY <2>1, <1>1, <1>2, PickOne
  <2>2. \A s \in Upto(m) : s \in Upto(m + 1)
    BY <1>1, PickOne
  <2>3. \A s \in Upto(m) : h[s] = g[s]
    <3> TAKE s \in Upto(m)
    <3>1. g[s] = IF s = {} THEN Imported[k] ELSE Replay(k, g[s \ {Max(s)}], q[Max(s)])
      <4> HIDE DEF Upto
      <4> QED BY DEF Replays
    <3> QED BY <2>2, <3>1
  <2>4. Replays(h, k, q, Upto(m + 1))
    <3>1. h = [s \in Upto(m + 1) |-> IF s = {} THEN Imported[k]
                 ELSE Replay(k, h[s \ {Max(s)}], q[Max(s)])]
      <4>1. \A s \in Upto(m + 1) : s # {} => h[s \ {Max(s)}] = g[s \ {Max(s)}]
        BY <2>1, <2>3
      <4> HIDE DEF Upto
      <4> QED BY <4>1
    <3> HIDE DEF h, Upto
    <3> QED BY <3>1 DEF Replays
  <2> HIDE DEF h, Upto
  <2> QED BY <2>4
<1>5. \A m \in Nat : m \in I
  <2> HIDE DEF I
  <2> QED BY <1>3, <1>4, NatSetInduction
<1>6. Cardinality(S) \in Nat
  BY <1>1, FS_CardinalityType
<1>7. PICK g : Replays(g, k, q, Upto(Cardinality(S)))
  BY <1>5, <1>6
<1>8. Upto(Cardinality(S)) = SUBSET S
  BY <1>1, PickOne
<1> HIDE DEF Upto
<1>9. \E f : Replays(f, k, q, SUBSET DOMAIN q)
  BY <1>7, <1>8 DEF S
<1> QED BY <1>9 DEF ReplaysOf

LEMMA ReplayedNothing == ASSUME NEW k PROVE Replayed(k, << >>) = Imported[k]
<1>1. DOMAIN << >> = 1 .. 0 /\ 1 .. 0 = {}
  OBVIOUS
<1>2. Replays(ReplaysOf(k, << >>), k, << >>, SUBSET (1 .. 0))
  BY <1>1, ReplaysExist
<1>3. ReplaysOf(k, << >>)[{}] = Imported[k]
  BY <1>1, <1>2 DEF Replays
<1> QED BY <1>1, <1>3, ReplayedIsFold

\* The entry appended last is replayed last, on what the others gave.
LEMMA ReplayedAppend ==
  ASSUME NEW k, NEW T, NEW q \in Seq(T), NEW e \in T
  PROVE  Replayed(k, Append(q, e)) = Replay(k, Replayed(k, q), e)
<1> DEFINE n == Len(q)
           r == Append(q, e)
           f == ReplaysOf(k, r)
           g == ReplaysOf(k, q)
           I == {m \in Nat : m <= n => f[1 .. m] = g[1 .. m]}
<1>1. /\ n \in Nat /\ DOMAIN q = 1 .. n /\ DOMAIN r = 1 .. n + 1
      /\ r[n + 1] = e /\ \A i \in 1 .. n : r[i] = q[i]
  OBVIOUS
<1>2. Replays(f, k, r, SUBSET (1 .. n + 1)) /\ Replays(g, k, q, SUBSET (1 .. n))
  <2> HIDE DEF n, r
  <2>1. Replays(f, k, r, SUBSET (1 .. n + 1))
    BY <1>1, ReplaysExist
  <2>2. Replays(g, k, q, SUBSET (1 .. n))
    BY <1>1, ReplaysExist
  <2> QED BY <2>1, <2>2
<1>3. f[DOMAIN r] = Replayed(k, r) /\ g[DOMAIN q] = Replayed(k, q)
  BY ReplayedIsFold
<1> HIDE DEF f, g, r, n
<1>4. ASSUME NEW s \in SUBSET (1 .. n + 1)
      PROVE  f[s] = IF s = {} THEN Imported[k]
                    ELSE Replay(k, f[s \ {Max(s)}], r[Max(s)])
  BY <1>2 DEF Replays
<1>5. ASSUME NEW s \in SUBSET (1 .. n)
      PROVE  g[s] = IF s = {} THEN Imported[k]
                    ELSE Replay(k, g[s \ {Max(s)}], q[Max(s)])
  BY <1>2 DEF Replays
<1>6. 0 \in I
  <2>1. 1 .. 0 = {}
    OBVIOUS
  <2> QED BY <2>1, <1>4, <1>5
<1>7. ASSUME NEW m \in Nat, m \in I PROVE m + 1 \in I
  <2> SUFFICES ASSUME m + 1 <= n PROVE f[1 .. m + 1] = g[1 .. m + 1]
    OBVIOUS
  <2>0. m + 1 \in 1 .. m + 1
    OBVIOUS
  <2>1. /\ Max(1 .. m + 1) = m + 1 /\ (1 .. m + 1) \ {m + 1} = 1 .. m
        /\ 1 .. m + 1 # {}
    BY <2>0, MaxOfPrefix
  <2>2. 1 .. m + 1 \in SUBSET (1 .. n) /\ 1 .. m + 1 \in SUBSET (1 .. n + 1)
    BY <1>1
  <2>3. f[1 .. m + 1] = Replay(k, f[1 .. m], r[m + 1])
    BY <2>1, <2>2, <1>4
  <2>4. g[1 .. m + 1] = Replay(k, g[1 .. m], q[m + 1])
    BY <2>1, <2>2, <1>5
  <2>5. r[m + 1] = q[m + 1] /\ f[1 .. m] = g[1 .. m]
    BY <1>1, <1>7
  <2> QED BY <2>3, <2>4, <2>5
<1>8. f[1 .. n] = g[1 .. n]
  <2>1. \A m \in Nat : m \in I
    <3> HIDE DEF I
    <3> QED BY <1>6, <1>7, NatSetInduction
  <2> QED BY <2>1, <1>1
<1>9. f[1 .. n + 1] = Replay(k, f[1 .. n], r[n + 1])
  <2>1. /\ Max(1 .. n + 1) = n + 1 /\ (1 .. n + 1) \ {n + 1} = 1 .. n
        /\ n + 1 \in 1 .. n + 1
    BY <1>1, MaxOfPrefix
  <2> QED BY <2>1, <1>4
<1> QED BY <1>1, <1>3, <1>8, <1>9 DEF r

\* JournalInv without its types.
Journaled == \A k \in Keys : Replayed(k, ledger) = balances[k].availableDays

\* A handler writes the balance that replaying its entry gives.
LEMMA EntryJournaled ==
  ASSUME TypeOK, Journaled, NEW e \in LedgerEntry, ledger' = Append(ledger, e),
         \A k \in Keys : balances'[k].availableDays
                           = Replay(k, balances[k].availableDays, e)
  PROVE  Journaled'
<1>1. ledger \in Seq(LedgerEntry)
  BY DEF TypeOK
<1>2. \A k \in Keys : Replayed(k, Append(ledger, e)) = Replay(k, Replayed(k, ledger), e)
  BY <1>1, ReplayedAppend
<1>3. \A k \in Keys : Replayed(k, ledger)' = Replayed(k, ledger')
  BY DEF Replayed, FoldLeft, MapThenFoldSet
<1> QED BY <1>2, <1>3 DEF Journaled

\* A handler that writes no entry leaves the days alone.
LEMMA NothingJournaled ==
  ASSUME Journaled, ledger' = ledger,
         \A k \in Keys : balances'[k].availableDays = balances[k].availableDays
  PROVE  Journaled'
BY DEF Journaled

\* Creating a row that is missing writes no days.
LEMMA RowCreated ==
  ASSUME TypeOK, MissingRowsEmpty, NEW b \in Keys,
         balances' = [balances EXCEPT ![b] = GetOrCreate(balances[b])]
  PROVE  /\ MissingRowsEmpty'
         /\ \A k \in Keys : balances'[k].availableDays = balances[k].availableDays
<1>1. /\ balances'[b] = GetOrCreate(balances[b])
      /\ \A k \in Keys : k # b => balances'[k] = balances[k]
  BY DEF TypeOK
<1> QED BY <1>1, GetOrCreateKeepsDays DEF MissingRowsEmpty

\* A row that is missing has no days, after any handler of the lifecycle.
LEMMA LifecycleRows ==
  ASSUME TypeOK, MissingRowsEmpty, RequestNext
  PROVE  MissingRowsEmpty'
<1>1. ASSUME NEW r \in Requests, Approve(r) PROVE MissingRowsEmpty'
  <2> DEFINE b == requests[r].key
             days == requests[r].days
             current == GetOrCreate(balances[b])
  <2>1. /\ b \in Keys /\ days \in Nat
        /\ balances' = [balances EXCEPT ![b] = Consume(current, days)]
    BY <1>1 DEF Approve, TypeOK, RequestRow
  <2>2. current \in BalanceRow
    BY <2>1, GetOrCreateKeepsDays
  <2> HIDE DEF b, days, current
  <2>3. HasRow(Consume(current, days))
    BY <2>2 DEF Consume, HasRow, BalanceRow
  <2> QED BY <2>1, <2>3 DEF TypeOK, MissingRowsEmpty
<1>2. ASSUME NEW b \in Keys, GetBalance(b) PROVE MissingRowsEmpty'
  BY <1>2, RowCreated DEF GetBalance
<1>3. ASSUME UNCHANGED balances PROVE MissingRowsEmpty'
  BY <1>3 DEF MissingRowsEmpty
<1> QED BY <1>1, <1>2, <1>3 DEF RequestNext, Create, Reject, Cancel

LEMMA LifecycleJournaled ==
  ASSUME TypeOK, MissingRowsEmpty, Journaled, RequestNext
  PROVE  Journaled'
<1>1. ASSUME NEW r \in Requests, Approve(r) PROVE Journaled'
  <2> DEFINE b == requests[r].key
             days == requests[r].days
             current == GetOrCreate(balances[b])
             e == ReservationEntry(r)
  <2>1. /\ r \in DOMAIN requests
        /\ balances' = [balances EXCEPT ![b] = Consume(current, days)]
        /\ ledger' = Append(ledger, e)
    BY <1>1 DEF Approve
  <2>2. b \in Keys /\ days \in Nat
    BY <2>1 DEF TypeOK, RequestRow
  <2>3. /\ e \in LedgerEntry /\ e.type = "RESERVATION" /\ e.key = b /\ e.days = days
    BY <2>2 DEF ReservationEntry, LedgerEntry, LedgerType
  <2>4. current.availableDays = balances[b].availableDays
    BY <2>2, GetOrCreateKeepsDays
  <2> HIDE DEF b, days, current, e
  <2>5. /\ balances'[b].availableDays = balances[b].availableDays - days
        /\ \A k \in Keys : k # b => balances'[k] = balances[k]
    BY <2>1, <2>2, <2>4 DEF TypeOK, Consume
  <2>6. \A k \in Keys : balances'[k].availableDays
                          = Replay(k, balances[k].availableDays, e)
    BY <2>3, <2>5 DEF Replay
  <2> QED BY <2>1, <2>3, <2>6, EntryJournaled
<1>2. ASSUME NEW b \in Keys, GetBalance(b) PROVE Journaled'
  BY <1>2, RowCreated, NothingJournaled DEF GetBalance
<1>3. ASSUME UNCHANGED <<balances, ledger>> PROVE Journaled'
  BY <1>3 DEF Journaled
<1> QED BY <1>1, <1>2, <1>3 DEF RequestNext, Create, Reject, Cancel

\* What an update's write does to the days of each key.
LEMMA UpdateWrites ==
  ASSUME TypeOK, MissingRowsEmpty, NEW u \in Updates, Write(u)
  PROVE  /\ MissingRowsEmpty'
         /\ \A k \in Keys : balances'[k].availableDays
                              = Replay(k, balances[k].availableDays, UpdateEntry(u))
<1> DEFINE b == Payload[u].key
           row == GetOrCreate(balances[b])
           e == UpdateEntry(u)
<1>1. /\ b \in Keys /\ Payload[u].days \in Int
      /\ Payload[u].updateType \in {"ABSOLUTE", "DELTA"}
  BY PayloadAssumption
<1>2. row \in BalanceRow /\ row.availableDays = balances[b].availableDays
  BY <1>1, GetOrCreateKeepsDays
<1>3. /\ balances' = [balances EXCEPT ![b] = Updated(u)]
  BY DEF Write
<1>4. /\ balances'[b] = Updated(u)
      /\ \A k \in Keys : k # b => balances'[k] = balances[k]
  BY <1>1, <1>3 DEF TypeOK
<1>5. e.key = b /\ e.days = Payload[u].days
  BY DEF UpdateEntry
<1>6. balances[b] \in BalanceRow
  BY <1>1 DEF TypeOK
<1>7. CASE Payload[u].updateType = "ABSOLUTE"
  <2>1. Updated(u).availableDays = Payload[u].days /\ HasRow(Updated(u))
    BY <1>6, <1>7 DEF Updated, upsertAbsolute, HasRow, BalanceRow
  <2>2. e.type = "HCM_REALTIME_ABSOLUTE"
    BY <1>7 DEF UpdateEntry
  <2> HIDE DEF b, e, row
  <2> QED BY <1>4, <1>5, <2>1, <2>2 DEF Replay, MissingRowsEmpty, e
<1>8. CASE Payload[u].updateType = "DELTA"
  <2>1. Updated(u) = upsertAbsolute(row, row.availableDays + Payload[u].days)
    BY <1>8 DEF Updated, applyDelta
  <2>2. e.type = "HCM_REALTIME_DELTA"
    BY <1>8 DEF UpdateEntry
  <2> HIDE DEF b, e, row
  <2>3. /\ Updated(u).availableDays = balances[b].availableDays + Payload[u].days
        /\ HasRow(Updated(u))
    BY <1>2, <2>1 DEF upsertAbsolute, HasRow, BalanceRow
  <2> QED BY <1>4, <1>5, <2>2, <2>3 DEF Replay, MissingRowsEmpty, e
<1> QED BY <1>1, <1>7, <1>8

LEMMA JournalInit == RealtimeInit => JournalInv
<1> SUFFICES ASSUME RealtimeInit PROVE JournalInv
  OBVIOUS
<1>1. RealtimeTypeOK /\ crashes \in Nat
  BY RealtimeInvInit DEF RealtimeInv, RealtimeInit
<1>2. MissingRowsEmpty
  BY AccountedInit DEF RealtimeInit
<1>3. \A k \in Keys : Replayed(k, ledger) = balances[k].availableDays
  BY ReplayedNothing, ImportedAssumption
  DEF RealtimeInit, Init, NoBalance, upsertAbsolute
<1> QED BY <1>1, <1>2, <1>3 DEF JournalInv, MissingRowsEmpty, LedgerReplaysBalance

LEMMA JournalStep ==
  ASSUME JournalInv, RealtimeTypeOK', [RealtimeNext]_rtVars
  PROVE  JournalInv'
<1>1. TypeOK /\ MissingRowsEmpty /\ crashes \in Nat
  BY DEF JournalInv, RealtimeTypeOK, MissingRowsEmpty
<1>2. crashes = 0 => Journaled
  BY DEF JournalInv, LedgerReplaysBalance, Journaled
<1> DEFINE Goal == /\ crashes' \in Nat /\ MissingRowsEmpty'
                   /\ crashes' = 0 => Journaled'
<1> SUFFICES Goal
  BY DEF JournalInv, MissingRowsEmpty, LedgerReplaysBalance, Journaled
<1>3. CASE RequestNext /\ UNCHANGED <<recorded, applied, crashes>>
  <2>1. MissingRowsEmpty'
    BY <1>1, <1>3, LifecycleRows
  <2> QED BY <1>1, <1>2, <1>3, <2>1, LifecycleJournaled
<1>4. ASSUME NEW u \in Updates, Deliver(u) PROVE Goal
  <2>1. /\ Write(u) /\ crashes' = crashes /\ ledger' = Append(ledger, UpdateEntry(u))
    BY <1>4 DEF Deliver
  <2>2. UpdateEntry(u) \in LedgerEntry
    BY PayloadFields DEF UpdateEntry, LedgerEntry, LedgerType
  <2> QED BY <1>1, <1>2, <2>1, <2>2, UpdateWrites, EntryJournaled
<1>5. ASSUME NEW u \in Updates, CrashAfterWrite(u) PROVE Goal
  <2>1. Write(u) /\ crashes' = crashes + 1
    BY <1>5 DEF CrashAfterWrite
  <2> QED BY <1>1, <2>1, UpdateWrites
<1>6. ASSUME NEW u \in Updates, DeliverPoison(u) \/ CrashAfterRecord(u) PROVE Goal
  <2> DEFINE b == Payload[u].key
  <2>1. /\ b \in Keys /\ ledger' = ledger
        /\ crashes' = crashes \/ crashes' = crashes + 1
        /\ \/ balances' = balances
           \/ balances' = [balances EXCEPT ![b] = GetOrCreate(balances[b])]
    BY <1>6, PayloadFields DEF DeliverPoison, CrashAfterRecord
  <2> HIDE DEF b
  <2>2. /\ MissingRowsEmpty'
        /\ \A k \in Keys : balances'[k].availableDays = balances[k].availableDays
    <3>1. CASE balances' = balances
      BY <1>1, <3>1 DEF MissingRowsEmpty
    <3> QED BY <1>1, <2>1, <3>1, RowCreated
  <2> QED BY <1>1, <1>2, <2>1, <2>2, NothingJournaled
<1>7. CASE UNCHANGED rtVars
  BY <1>1, <1>2, <1>7 DEF rtVars, MissingRowsEmpty, Journaled
<1> QED BY <1>3, <1>4, <1>5, <1>6, <1>7 DEF RealtimeNext, Delivery, DeliveryCut

\* As long as no crash cut a handler, replaying the ledger from the imported
\* days gives every balance, for any updates in any order.
THEOREM LedgerIsAJournal == RealtimeSpec => []LedgerReplaysBalance
<1>1. RealtimeInv => RealtimeTypeOK
  BY DEF RealtimeInv
<1>2. JournalInv /\ RealtimeTypeOK' /\ [RealtimeNext]_rtVars => JournalInv'
  BY JournalStep
<1>3. JournalInv => LedgerReplaysBalance
  BY DEF JournalInv
<1> QED BY <1>1, <1>2, <1>3, JournalInit, RealtimeInvariant, PTL DEF RealtimeSpec
=============================================================================
