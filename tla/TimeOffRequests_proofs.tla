----------------------- MODULE TimeOffRequests_proofs -----------------------
(***************************************************************************)
(* Theorems about the request lifecycle, for any number of requests, keys  *)
(* and days.  Every lemma about a step is stated for RequestNext alone, so *)
(* that the modules that extend the lifecycle can use it for their own     *)
(* next-state relation.                                                    *)
(***************************************************************************)
EXTENDS TimeOffRequests, FiniteSetTheorems, WellFoundedInduction, TLAPS

-----------------------------------------------------------------------------
(* Totals of the "days" column over a set of rows.  The library's theorems  *)
(* on induction and on folds take operators as parameters, so what is      *)
(* needed of them is proved here about sets of numbers and about tables.   *)

\* Every non-empty set of natural numbers has a least element.
LEMMA LeastNat ==
  ASSUME NEW T, T \subseteq Nat, T # {}
  PROVE  \E m \in T : \A n \in T : m <= n
<1>1. PICK m \in T : \A n \in T : ~(<<n, m>> \in OpToRel(<, Nat))
  BY NatLessThanWellFounded, WFMin, Zenon
<1>2. \A n \in T : ~(n < m)
  BY <1>1 DEF OpToRel
<1> QED BY <1>2


\* A set of numbers with 0 and the successor of each of its members has them all.
LEMMA NatSetInduction ==
  ASSUME NEW I, 0 \in I, \A n \in Nat : n \in I => n + 1 \in I
  PROVE  \A n \in Nat : n \in I
<1> SUFFICES ASSUME Nat \ I # {} PROVE FALSE
  OBVIOUS
<1>1. PICK m \in Nat \ I : \A n \in Nat \ I : m <= n
  BY LeastNat
<1>2. m # 0 /\ m - 1 \in Nat
  BY <1>1
<1>3. m - 1 \in I
  BY <1>1, <1>2
<1>4. (m - 1) + 1 \in I
  BY <1>2, <1>3
<1> QED BY <1>1, <1>4

Total(t, S) == MapThenSumSet(LAMBDA r : t[r].days, S)

Pick(s) == CHOOSE x \in s : TRUE

\* The recursive function over the subsets of S that computes totals; D is the
\* part of them it is defined on.
Sums(g, t, D) ==
  g = [s \in D |-> IF s = {} THEN 0 ELSE t[Pick(s)].days + g[s \ {Pick(s)}]]

SumsOf(t, S) == CHOOSE g : Sums(g, t, SUBSET S)

LEMMA TotalIsSum ==
  ASSUME NEW t, NEW S
  PROVE  Total(t, S) = SumsOf(t, S)[S]
BY DEF Total, MapThenSumSet, MapThenFoldSet, SumsOf, Sums, Pick

\* Taking one element out of a finite set.
LEMMA PickOne ==
  ASSUME NEW S, IsFiniteSet(S), NEW s \in SUBSET S
  PROVE  /\ IsFiniteSet(s) /\ Cardinality(s) \in Nat
         /\ Cardinality(s) <= Cardinality(S)
         /\ Cardinality(s) = 0 <=> s = {}
         /\ \A x \in s : Cardinality(s \ {x}) = Cardinality(s) - 1
         /\ s # {} => Pick(s) \in s
<1>1. IsFiniteSet(s) /\ Cardinality(s) <= Cardinality(S)
  BY FS_Subset
<1>2. Cardinality(s) \in Nat /\ (Cardinality(s) = 0 <=> s = {})
  BY <1>1, FS_CardinalityType, FS_EmptySet
<1>3. \A x \in s : Cardinality(s \ {x}) = Cardinality(s) - 1
  BY <1>1, FS_RemoveElement
<1> QED BY <1>1, <1>2, <1>3 DEF Pick

\* The recursion has a solution over the subsets of a finite set.
LEMMA SumsExist ==
  ASSUME NEW t, NEW S, IsFiniteSet(S)
  PROVE  Sums(SumsOf(t, S), t, SUBSET S)
<1> DEFINE Upto(n) == {s \in SUBSET S : Cardinality(s) <= n}
           I == {n \in Nat : \E g : Sums(g, t, Upto(n))}
<1>1. 0 \in I
  <2> DEFINE g == [s \in Upto(0) |-> 0]
  <2>1. \A s \in Upto(0) : s = {}
    BY PickOne
  <2>2. Sums(g, t, Upto(0))
    BY <2>1 DEF Sums
  <2> QED BY <2>2
<1>2. ASSUME NEW n \in Nat, n \in I PROVE n + 1 \in I
  <2> PICK g : Sums(g, t, Upto(n))
    BY <1>2
  <2> DEFINE D == Upto(n)
             h == [s \in Upto(n + 1) |->
                     IF s = {} THEN 0 ELSE t[Pick(s)].days + g[s \ {Pick(s)}]]
  <2>1. ASSUME NEW s \in Upto(n + 1), s # {}
        PROVE  s \ {Pick(s)} \in Upto(n)
    BY <2>1, PickOne
  <2>2. \A s \in Upto(n) : s \in Upto(n + 1)
    BY PickOne
  <2>3. \A s \in Upto(n) : h[s] = g[s]
    <3> TAKE s \in Upto(n)
    <3>1. g[s] = IF s = {} THEN 0 ELSE t[Pick(s)].days + g[s \ {Pick(s)}]
      <4> HIDE DEF Upto
      <4> QED BY DEF Sums
    <3> QED BY <2>2, <3>1
  <2>4. Sums(h, t, Upto(n + 1))
    <3>1. h = [s \in Upto(n + 1) |->
                 IF s = {} THEN 0 ELSE t[Pick(s)].days + h[s \ {Pick(s)}]]
      <4>1. \A s \in Upto(n + 1) : s # {} => h[s \ {Pick(s)}] = g[s \ {Pick(s)}]
        BY <2>1, <2>3
      <4> HIDE DEF Upto
      <4> QED BY <4>1
    <3> HIDE DEF h, Upto
    <3> QED BY <3>1 DEF Sums
  <2> HIDE DEF h, Upto
  <2> QED BY <2>4
<1>3. \A n \in Nat : n \in I
  <2> HIDE DEF I
  <2> QED BY <1>1, <1>2, NatSetInduction
<1>4. Cardinality(S) \in Nat
  BY FS_CardinalityType
<1>5. PICK g : Sums(g, t, Upto(Cardinality(S)))
  BY <1>3, <1>4
<1>6. Upto(Cardinality(S)) = SUBSET S
  BY PickOne
<1> HIDE DEF Upto
<1>7. \E f : Sums(f, t, SUBSET S)
  BY <1>5, <1>6
<1> QED BY <1>7 DEF SumsOf

LEMMA TotalOfSubset ==
  ASSUME NEW t, NEW S, IsFiniteSet(S), NEW T \in SUBSET S
  PROVE  Total(t, T) = SumsOf(t, S)[T]
<1> DEFINE f == SumsOf(t, T)
           g == SumsOf(t, S)
           I == {n \in Nat : \A s \in SUBSET T : Cardinality(s) = n => f[s] = g[s]}
<1>1. IsFiniteSet(T)
  BY PickOne
<1>2. /\ Sums(f, t, SUBSET T) /\ Sums(g, t, SUBSET S)
  BY <1>1, SumsExist
<1> HIDE DEF f, g
<1>3. ASSUME NEW s \in SUBSET T
      PROVE  /\ f[s] = IF s = {} THEN 0 ELSE t[Pick(s)].days + f[s \ {Pick(s)}]
             /\ g[s] = IF s = {} THEN 0 ELSE t[Pick(s)].days + g[s \ {Pick(s)}]
  <2>1. s \in SUBSET S
    OBVIOUS
  <2>2. f[s] = IF s = {} THEN 0 ELSE t[Pick(s)].days + f[s \ {Pick(s)}]
    BY <1>2 DEF Sums
  <2>3. g[s] = IF s = {} THEN 0 ELSE t[Pick(s)].days + g[s \ {Pick(s)}]
    BY <1>2, <2>1 DEF Sums
  <2> QED BY <2>2, <2>3
<1>4. 0 \in I
  BY <1>1, <1>3, PickOne
<1>5. ASSUME NEW n \in Nat, n \in I PROVE n + 1 \in I
  <2> SUFFICES ASSUME NEW s \in SUBSET T, Cardinality(s) = n + 1
               PROVE  f[s] = g[s]
    OBVIOUS
  <2>1. s # {} /\ Pick(s) \in s /\ Cardinality(s \ {Pick(s)}) = n
    BY <1>1, PickOne
  <2>2. f[s \ {Pick(s)}] = g[s \ {Pick(s)}]
    BY <1>5, <2>1
  <2> QED BY <1>3, <2>1, <2>2
<1>6. \A n \in Nat : n \in I
  <2> HIDE DEF I
  <2> QED BY <1>4, <1>5, NatSetInduction
<1>7. f[T] = g[T]
  BY <1>1, <1>6, FS_CardinalityType
<1> QED BY <1>7, TotalIsSum DEF f, g

\* The total of no rows, and one row taken out of some.
LEMMA TotalDef ==
  ASSUME NEW t, NEW S, IsFiniteSet(S)
  PROVE  Total(t, S) = IF S = {} THEN 0
                       ELSE t[Pick(S)].days + Total(t, S \ {Pick(S)})
<1> DEFINE g == SumsOf(t, S)
<1>1. Sums(g, t, SUBSET S)
  BY SumsExist
<1>2. Total(t, S) = g[S] /\ Total(t, S \ {Pick(S)}) = g[S \ {Pick(S)}]
  BY TotalOfSubset
<1>3. g[S] = IF S = {} THEN 0 ELSE t[Pick(S)].days + g[S \ {Pick(S)}]
  <2> HIDE DEF g
  <2> QED BY <1>1 DEF Sums
<1> QED BY <1>2, <1>3

LEMMA TotalEmpty == ASSUME NEW t PROVE Total(t, {}) = 0
BY FS_EmptySet, TotalDef

LEMMA TotalType ==
  ASSUME NEW t, NEW S, IsFiniteSet(S), \A r \in S : t[r].days \in Nat
  PROVE  Total(t, S) \in Nat
<1> DEFINE I == {n \in Nat : \A s \in SUBSET S :
                               Cardinality(s) = n => Total(t, s) \in Nat}
<1>1. 0 \in I
  <2>1. \A s \in SUBSET S : Cardinality(s) = 0 => s = {}
    BY PickOne
  <2> QED BY <2>1, TotalEmpty
<1>2. ASSUME NEW n \in Nat, n \in I PROVE n + 1 \in I
  <2> SUFFICES ASSUME NEW s \in SUBSET S, Cardinality(s) = n + 1
               PROVE  Total(t, s) \in Nat
    OBVIOUS
  <2>1. s # {} /\ Pick(s) \in s /\ Cardinality(s \ {Pick(s)}) = n /\ IsFiniteSet(s)
    BY PickOne
  <2>2. Total(t, s \ {Pick(s)}) \in Nat /\ t[Pick(s)].days \in Nat
    BY <1>2, <2>1
  <2> QED BY <2>1, <2>2, TotalDef
<1>3. \A n \in Nat : n \in I
  <2> HIDE DEF I
  <2> QED BY <1>1, <1>2, NatSetInduction
<1> QED BY <1>3, FS_CardinalityType

\* The order in which rows are added up makes no difference.
LEMMA TotalRemove ==
  ASSUME NEW t, NEW S, IsFiniteSet(S), \A r \in S : t[r].days \in Nat, NEW x \in S
  PROVE  Total(t, S) = t[x].days + Total(t, S \ {x})
<1> DEFINE I == {n \in Nat : \A s \in SUBSET S : Cardinality(s) = n =>
                   \A y \in s : Total(t, s) = t[y].days + Total(t, s \ {y})}
<1>1. 0 \in I
  BY PickOne
<1>2. ASSUME NEW n \in Nat, n \in I PROVE n + 1 \in I
  <2> SUFFICES ASSUME NEW s \in SUBSET S, Cardinality(s) = n + 1, NEW y \in s
               PROVE  Total(t, s) = t[y].days + Total(t, s \ {y})
    OBVIOUS
  <2> DEFINE p == Pick(s)
             rest == s \ {p}
             both == rest \ {y}
  <2>1. s # {} /\ p \in s /\ IsFiniteSet(s)
    BY PickOne
  <2>2. Total(t, s) = t[p].days + Total(t, rest)
    BY <2>1, TotalDef
  <2>3. CASE y = p
    BY <2>2, <2>3
  <2>4. CASE y # p
    <3>1. /\ rest \in SUBSET S /\ Cardinality(rest) = n /\ y \in rest
          /\ s \ {y} \in SUBSET S /\ Cardinality(s \ {y}) = n /\ p \in s \ {y}
          /\ (s \ {y}) \ {p} = both
      BY <2>1, <2>4, PickOne
    <3>2. Total(t, rest) = t[y].days + Total(t, both)
      BY <1>2, <3>1
    <3>3. Total(t, s \ {y}) = t[p].days + Total(t, both)
      BY <1>2, <3>1
    <3>4. Total(t, both) \in Nat /\ t[p].days \in Nat /\ t[y].days \in Nat
      <4>1. IsFiniteSet(both) /\ both \in SUBSET S
        BY <2>1, PickOne
      <4> QED BY <2>1, <4>1, TotalType
    <3> HIDE DEF p, rest, both
    <3> QED BY <2>2, <3>2, <3>3, <3>4
  <2> QED BY <2>3, <2>4
<1>3. \A n \in Nat : n \in I
  <2> HIDE DEF I
  <2> QED BY <1>1, <1>2, NatSetInduction
<1> QED BY <1>3, FS_CardinalityType

LEMMA TotalAdd ==
  ASSUME NEW t, NEW S, IsFiniteSet(S), NEW x, x \notin S,
         \A r \in S \union {x} : t[r].days \in Nat
  PROVE  Total(t, S \union {x}) = t[x].days + Total(t, S)
<1>1. IsFiniteSet(S \union {x})
  BY FS_AddElement
<1>2. (S \union {x}) \ {x} = S
  OBVIOUS
<1> QED BY <1>1, <1>2, TotalRemove

\* A total depends only on the days of the rows it adds up.
LEMMA TotalSame ==
  ASSUME NEW t, NEW u, NEW S, IsFiniteSet(S), \A r \in S : t[r].days = u[r].days
  PROVE  Total(t, S) = Total(u, S)
<1> DEFINE I == {n \in Nat : \A s \in SUBSET S :
                               Cardinality(s) = n => Total(t, s) = Total(u, s)}
<1>1. 0 \in I
  <2>1. \A s \in SUBSET S : Cardinality(s) = 0 => s = {}
    BY PickOne
  <2> QED BY <2>1, TotalEmpty
<1>2. ASSUME NEW n \in Nat, n \in I PROVE n + 1 \in I
  <2> SUFFICES ASSUME NEW s \in SUBSET S, Cardinality(s) = n + 1
               PROVE  Total(t, s) = Total(u, s)
    OBVIOUS
  <2>1. s # {} /\ Pick(s) \in s /\ Cardinality(s \ {Pick(s)}) = n /\ IsFiniteSet(s)
    BY PickOne
  <2>2. Total(t, s \ {Pick(s)}) = Total(u, s \ {Pick(s)})
    BY <1>2, <2>1
  <2> QED BY <2>1, <2>2, TotalDef
<1>3. \A n \in Nat : n \in I
  <2> HIDE DEF I
  <2> QED BY <1>1, <1>2, NatSetInduction
<1> QED BY <1>3, FS_CardinalityType

\* Rows in two parts.
LEMMA TotalUnion ==
  ASSUME NEW t, NEW S, IsFiniteSet(S), NEW T, IsFiniteSet(T), S \intersect T = {},
         \A r \in S \union T : t[r].days \in Nat
  PROVE  Total(t, S \union T) = Total(t, S) + Total(t, T)
<1> DEFINE I == {n \in Nat : \A s \in SUBSET S :
                   Cardinality(s) = n => Total(t, s \union T) = Total(t, s) + Total(t, T)}
<1>1. ASSUME NEW s \in SUBSET S
      PROVE  /\ IsFiniteSet(s) /\ IsFiniteSet(s \union T)
             /\ Total(t, s) \in Nat
  <2>1. IsFiniteSet(s) /\ IsFiniteSet(s \union T)
    BY FS_Subset, FS_Union
  <2> QED BY <2>1, TotalType
<1>2. Total(t, T) \in Nat
  BY TotalType
<1>3. 0 \in I
  <2>1. \A s \in SUBSET S : Cardinality(s) = 0 => s = {} /\ s \union T = T
    BY PickOne
  <2>2. \A s \in SUBSET S : Cardinality(s) = 0
          => Total(t, s) = 0 /\ Total(t, s \union T) = Total(t, T)
    BY <2>1, TotalEmpty
  <2> QED BY <1>2, <2>2
<1>4. ASSUME NEW n \in Nat, n \in I PROVE n + 1 \in I
  <2> SUFFICES ASSUME NEW s \in SUBSET S, Cardinality(s) = n + 1
               PROVE  Total(t, s \union T) = Total(t, s) + Total(t, T)
    OBVIOUS
  <2>0. Pick(s) \in s /\ Cardinality(s \ {Pick(s)}) = n
    BY PickOne
  <2>1. PICK p \in s : Cardinality(s \ {p}) = n
    BY <2>0
  <2>2. PICK rest \in SUBSET S : rest = s \ {p}
    OBVIOUS
  <2>3. Total(t, rest \union T) = Total(t, rest) + Total(t, T)
    BY <1>4, <2>1, <2>2
  <2>4. (s \union T) \ {p} = rest \union T
    BY <2>2
  <2>5. t[p].days \in Nat /\ Total(t, rest) \in Nat
    BY <1>1
  <2> HIDE DEF I
  <2>6. /\ \A r \in s : t[r].days \in Nat
        /\ \A r \in s \union T : t[r].days \in Nat
    OBVIOUS
  <2>7. Total(t, s) = t[p].days + Total(t, rest)
    <3>1. p \in s /\ IsFiniteSet(s)
      BY <1>1
    <3> QED BY <2>2, <2>6, <3>1, TotalRemove
  <2>8. Total(t, s \union T) = t[p].days + Total(t, rest \union T)
    <3>1. p \in s \union T /\ IsFiniteSet(s \union T)
      BY <1>1
    <3> QED BY <2>4, <2>6, <3>1, TotalRemove
  <2> QED BY <1>2, <2>3, <2>5, <2>7, <2>8
<1>5. \A n \in Nat : n \in I
  <2> HIDE DEF I
  <2> QED BY <1>3, <1>4, NatSetInduction
<1> QED BY <1>5, FS_CardinalityType

\* Fewer rows, a smaller total.
LEMMA TotalMonotone ==
  ASSUME NEW t, NEW S, IsFiniteSet(S), \A r \in S : t[r].days \in Nat,
         NEW T \in SUBSET S
  PROVE  Total(t, T) <= Total(t, S)
<1>1. IsFiniteSet(T) /\ IsFiniteSet(S \ T)
  BY FS_Subset
<1>2. T \union (S \ T) = S /\ T \intersect (S \ T) = {}
  OBVIOUS
<1>3. Total(t, S) = Total(t, T) + Total(t, S \ T)
  BY <1>1, <1>2, TotalUnion
<1>4. Total(t, T) \in Nat /\ Total(t, S \ T) \in Nat
  BY <1>1, TotalType
<1> QED BY <1>3, <1>4

-----------------------------------------------------------------------------
(* Balance rows *)

\* The statements on a balance row keep it a row, as long as the guard in
\* front of the statement holds, and move its version forward.
LEMMA RowOps ==
  ASSUME NEW row \in BalanceRow, NEW days \in Nat
  PROVE  /\ upsertAbsolute(row, days) \in BalanceRow
         /\ GetOrCreate(row) \in BalanceRow
         /\ GetOrCreate(row).version >= row.version
         /\ GetOrCreate(row).availableDays <= row.availableDays
         /\ HasRow(GetOrCreate(row))
         /\ Credit(row, days) \in BalanceRow
         /\ row.availableDays - days >= 0 => Consume(row, days) \in BalanceRow
         /\ Consume(row, days).version > row.version
BY DEF upsertAbsolute, GetOrCreate, HasRow, Credit, Consume, BalanceRow

-----------------------------------------------------------------------------
(* Type correctness *)

\* requestsRepository.save changes the status of one row and nothing else.
LEMMA SaveEffect ==
  ASSUME TypeOK, NEW r \in DOMAIN requests, NEW s \in RequestStatus, save(r, s)
  PROVE  /\ DOMAIN requests' = DOMAIN requests
         /\ requests' \in [DOMAIN requests -> RequestRow]
         /\ \A x \in DOMAIN requests : x # r => requests'[x] = requests[x]
         /\ requests'[r].status = s
         /\ requests'[r].key = requests[r].key
         /\ requests'[r].days = requests[r].days
<1>1. requests[r] \in RequestRow
  BY DEF TypeOK
<1>2. [requests[r] EXCEPT !.status = s] \in RequestRow
  BY <1>1 DEF RequestRow
<1>3. requests' = [requests EXCEPT ![r] = [requests[r] EXCEPT !.status = s]]
  BY <1>1 DEF save, TypeOK
<1> QED
  BY <1>1, <1>2, <1>3 DEF TypeOK, RequestRow

LEMMA RequestTypeInit == Init => TypeOK
<1> SUFFICES ASSUME Init PROVE TypeOK
  OBVIOUS
<1>1. balances \in [Keys -> BalanceRow]
  BY ImportedAssumption DEF Init, BalanceRow, NoBalance, upsertAbsolute
<1>2. ledger \in Seq(LedgerEntry)
  BY DEF Init
<1> QED
  BY <1>1, <1>2 DEF Init, TypeOK

LEMMA RequestTypeStep == TypeOK /\ [RequestNext]_reqVars => TypeOK'
<1> SUFFICES ASSUME TypeOK, [RequestNext]_reqVars PROVE TypeOK'
  OBVIOUS
<1>1. ASSUME NEW r \in Requests, NEW k \in Keys, NEW d \in DayInputs, Create(r, k, d)
      PROVE  TypeOK'
  <2> DEFINE row == [key |-> k, days |-> d, status |-> "PENDING", syncState |-> "NULL"]
  <2>1. row \in RequestRow
    BY <1>1, DayInputsAssumption
    DEF Create, PositiveDays, RequestRow, RequestStatus, SyncState
  <2>2. requests' = Insert(requests, r, row)
    BY <1>1 DEF Create
  <2>3. /\ DOMAIN requests' \subseteq Requests
        /\ requests' \in [DOMAIN requests' -> RequestRow]
    <3> HIDE DEF row
    <3> QED BY <2>1, <2>2 DEF TypeOK, Insert
  <2> QED BY <1>1, <2>3 DEF Create, TypeOK
<1>2. ASSUME NEW r \in Requests, Approve(r) PROVE TypeOK'
  <2> DEFINE k == requests[r].key
             days == requests[r].days
             current == GetOrCreate(balances[k])
  <2>1. requests[r] \in RequestRow /\ k \in Keys /\ days \in Nat \ {0}
    BY <1>2 DEF Approve, TypeOK, RequestRow
  <2>2. requests' \in [DOMAIN requests' -> RequestRow] /\ DOMAIN requests' = DOMAIN requests
    BY <1>2, SaveEffect DEF Approve, RequestStatus
  <2>3. balances' \in [Keys -> BalanceRow]
    <3>1. balances[k] \in BalanceRow
      BY <2>1 DEF TypeOK
    <3>2. current \in BalanceRow /\ current.availableDays - days >= 0
      BY <1>2, <2>1, <3>1, RowOps DEF Approve, HasBalance
    <3>3. Consume(current, days) \in BalanceRow
      <4> HIDE DEF current, days
      <4> QED BY <2>1, <3>2, RowOps
    <3> QED BY <1>2, <2>1, <3>3 DEF Approve, TypeOK
  <2>4. ledger' \in Seq(LedgerEntry)
    <3>1. ReservationEntry(r) \in LedgerEntry
      BY <2>1 DEF ReservationEntry, LedgerEntry, LedgerType
    <3> QED BY <1>2, <3>1 DEF Approve, TypeOK
  <2>5. DOMAIN events' \subseteq Requests /\ events' \in [DOMAIN events' -> EventRow]
    <3>1. NewEvent \in EventRow
      BY DEF NewEvent, EventRow, OutboundStatus, TypeOK
    <3>2. events' = Insert(events, r, NewEvent)
      BY <1>2 DEF Approve
    <3> HIDE DEF NewEvent
    <3> QED BY <3>1, <3>2 DEF Insert, TypeOK
  <2> QED BY <2>2, <2>3, <2>4, <2>5 DEF TypeOK
<1>3. ASSUME NEW r \in Requests, Reject(r) \/ Cancel(r) PROVE TypeOK'
  <2>1. requests' \in [DOMAIN requests' -> RequestRow] /\ DOMAIN requests' = DOMAIN requests
    BY <1>3, SaveEffect DEF Reject, Cancel, RequestStatus
  <2> QED BY <1>3, <2>1 DEF Reject, Cancel, TypeOK
<1>4. ASSUME NEW k \in Keys, GetBalance(k) PROVE TypeOK'
  <2>1. GetOrCreate(balances[k]) \in BalanceRow
    BY RowOps DEF TypeOK
  <2> QED BY <1>4, <2>1 DEF GetBalance, TypeOK
<1>5. CASE UNCHANGED reqVars
  BY <1>5 DEF reqVars, TypeOK
<1> QED
  BY <1>1, <1>2, <1>3, <1>4, <1>5 DEF RequestNext

\* Every reachable table holds only rows its schema admits; in particular no
\* sequence of approvals makes a balance negative.
THEOREM RequestTypeCorrect == RequestSpec => []TypeOK
<1> QED BY RequestTypeInit, RequestTypeStep, PTL DEF RequestSpec

-----------------------------------------------------------------------------
(* Atomicity of an approval *)

\* Steps that leave the ledger and the ids of the outbox alone, and neither approve nor
\* un-approve a request, keep the traces of all approvals.
LEMMA TracesKept ==
  ASSUME ApprovalAtomic, UNCHANGED ledger, DOMAIN events' = DOMAIN events,
         DOMAIN requests \subseteq DOMAIN requests',
         \A x \in DOMAIN requests :
           /\ requests'[x].key = requests[x].key
           /\ requests'[x].days = requests[x].days
           /\ WasApproved(x)' <=> WasApproved(x),
         \A x \in DOMAIN requests' \ DOMAIN requests : ~WasApproved(x)'
  PROVE  ApprovalAtomic'
<1> SUFFICES ASSUME NEW x \in Requests
             PROVE  IF x \in DOMAIN requests' /\ WasApproved(x)'
                      THEN Recorded(x)' ELSE Unrecorded(x)'
  BY DEF ApprovalAtomic
<1>1. EntriesOf(x)' = EntriesOf(x)
  BY DEF EntriesOf
<1>2. CASE x \in DOMAIN requests /\ WasApproved(x)
  <2>1. Recorded(x) /\ x \in DOMAIN requests' /\ WasApproved(x)'
    BY <1>2 DEF ApprovalAtomic
  <2>2. ReservationEntry(x)' = ReservationEntry(x)
    BY <1>2 DEF ReservationEntry
  <2> QED BY <1>1, <2>1, <2>2 DEF Recorded
<1>3. CASE ~(x \in DOMAIN requests /\ WasApproved(x))
  <2>1. Unrecorded(x) /\ ~(x \in DOMAIN requests' /\ WasApproved(x)')
    BY <1>3 DEF ApprovalAtomic
  <2> QED BY <1>1, <2>1 DEF Unrecorded
<1> QED BY <1>2, <1>3

LEMMA ApprovalAtomicInit == Init => ApprovalAtomic
BY DEF Init, ApprovalAtomic, Unrecorded, EntriesOf

LEMMA ApprovalAtomicStep ==
  TypeOK /\ ApprovalAtomic /\ [RequestNext]_reqVars => ApprovalAtomic'
<1> SUFFICES ASSUME TypeOK, ApprovalAtomic, [RequestNext]_reqVars
             PROVE  ApprovalAtomic'
  OBVIOUS
<1>1. ASSUME NEW r \in Requests, NEW k \in Keys, NEW d \in DayInputs, Create(r, k, d)
      PROVE  ApprovalAtomic'
  <2>1. DOMAIN requests' = DOMAIN requests \union {r} /\ r \notin DOMAIN requests
    BY <1>1 DEF Create, Insert
  <2>2. /\ \A x \in DOMAIN requests : requests'[x] = requests[x]
        /\ requests'[r].status = "PENDING"
    BY <1>1 DEF Create, Insert
  <2>3. /\ \A x \in DOMAIN requests : WasApproved(x)' <=> WasApproved(x)
        /\ ~WasApproved(r)'
    BY <2>2 DEF WasApproved
  <2>4. UNCHANGED <<ledger, events>>
    BY <1>1 DEF Create
  <2> QED BY <2>1, <2>2, <2>3, <2>4, TracesKept
<1>2. ASSUME NEW r \in Requests, Approve(r) PROVE ApprovalAtomic'
  <2>1. /\ r \in DOMAIN requests
        /\ save(r, "APPROVED")
        /\ ledger' = Append(ledger, ReservationEntry(r))
        /\ events' = Insert(events, r, NewEvent)
        /\ CanTransition(requests[r].status, "APPROVED")
    BY <1>2 DEF Approve
  <2>2. requests[r].status \in RequestStatus
    BY <2>1 DEF TypeOK, RequestRow
  <2>3. ~WasApproved(r)
    BY <2>1, <2>2 DEF CanTransition, allowedTransitions, RequestStatus, WasApproved
  <2>4. /\ DOMAIN requests' = DOMAIN requests
        /\ \A x \in DOMAIN requests : x # r => requests'[x] = requests[x]
        /\ requests'[r].status = "APPROVED"
        /\ requests'[r].key = requests[r].key
        /\ requests'[r].days = requests[r].days
    BY <2>1, SaveEffect DEF RequestStatus
  <2>5. /\ Len(ledger') = Len(ledger) + 1
        /\ DOMAIN ledger' = DOMAIN ledger \union {Len(ledger) + 1}
        /\ Len(ledger) + 1 \notin DOMAIN ledger
        /\ \A i \in DOMAIN ledger : ledger'[i] = ledger[i]
        /\ ledger'[Len(ledger) + 1] = ReservationEntry(r)
    BY <2>1 DEF TypeOK
  <2>6. DOMAIN events' = DOMAIN events \union {r}
    BY <2>1 DEF Insert
  <2>7. ReservationEntry(r).requestId = r
    BY DEF ReservationEntry
  <2>8. ASSUME NEW x \in Requests
        PROVE  IF x \in DOMAIN requests' /\ WasApproved(x)'
                 THEN Recorded(x)' ELSE Unrecorded(x)'
    <3>1. CASE x = r
      <4>1. EntriesOf(r) = {}
        BY <2>1, <2>3 DEF ApprovalAtomic, Unrecorded
      <4>2. EntriesOf(r)' = {Len(ledger) + 1}
        BY <4>1, <2>5, <2>7 DEF EntriesOf
      <4>3. ReservationEntry(r)' = ReservationEntry(r)
        BY <2>4 DEF ReservationEntry
      <4>4. Recorded(r)'
        BY <4>2, <4>3, <2>5, <2>6 DEF Recorded
      <4>5. r \in DOMAIN requests' /\ WasApproved(r)'
        BY <2>1, <2>4 DEF WasApproved
      <4> QED BY <3>1, <4>4, <4>5
    <3>2. CASE x # r
      <4>1. EntriesOf(x)' = EntriesOf(x)
        BY <3>2, <2>5, <2>7 DEF EntriesOf
      <4>2. CASE x \in DOMAIN requests /\ WasApproved(x)
        <5>1. Recorded(x) /\ x \in DOMAIN requests' /\ WasApproved(x)'
          BY <4>2, <3>2, <2>4 DEF ApprovalAtomic, WasApproved
        <5>2. ReservationEntry(x)' = ReservationEntry(x)
          BY <4>2, <3>2, <2>4 DEF ReservationEntry
        <5> QED BY <4>1, <5>1, <5>2, <2>5, <2>6 DEF Recorded
      <4>3. CASE ~(x \in DOMAIN requests /\ WasApproved(x))
        <5>1. Unrecorded(x) /\ ~(x \in DOMAIN requests' /\ WasApproved(x)')
          BY <4>3, <3>2, <2>4 DEF ApprovalAtomic, WasApproved
        <5> QED BY <4>1, <5>1, <3>2, <2>6 DEF Unrecorded
      <4> QED BY <4>2, <4>3
    <3> QED BY <3>1, <3>2
  <2> QED BY <2>8 DEF ApprovalAtomic
<1>3. ASSUME NEW r \in Requests, NEW s \in {"REJECTED", "CANCELLED"},
             r \in DOMAIN requests, CanTransition(requests[r].status, s),
             save(r, s), UNCHANGED <<balances, ledger, events>>
      PROVE  ApprovalAtomic'
  <2>1. requests[r].status \in RequestStatus
    BY <1>3 DEF TypeOK, RequestRow
  <2>2. ~WasApproved(r)
    BY <1>3, <2>1 DEF CanTransition, allowedTransitions, RequestStatus, WasApproved
  <2>3. /\ DOMAIN requests' = DOMAIN requests
        /\ \A x \in DOMAIN requests : x # r => requests'[x] = requests[x]
        /\ requests'[r].status = s
        /\ requests'[r].key = requests[r].key
        /\ requests'[r].days = requests[r].days
    BY <1>3, SaveEffect DEF RequestStatus
  <2>4. \A x \in DOMAIN requests : WasApproved(x)' <=> WasApproved(x)
    BY <2>2, <2>3, <1>3 DEF WasApproved
  <2> QED BY <1>3, <2>3, <2>4, TracesKept
<1>4. ASSUME UNCHANGED <<requests, ledger, events>> PROVE ApprovalAtomic'
  BY <1>4, TracesKept DEF WasApproved
<1> QED
  BY <1>1, <1>2, <1>3, <1>4 DEF RequestNext, Reject, Cancel, GetBalance, reqVars

\* The ledger entry, the outbox event and the status of an approval come
\* together or not at all, and only once per request.
THEOREM ApprovalIsAtomic == RequestSpec => []ApprovalAtomic
<1> QED
  BY RequestTypeInit, RequestTypeStep, ApprovalAtomicInit, ApprovalAtomicStep, PTL
  DEF RequestSpec

-----------------------------------------------------------------------------
(* What a lifecycle step leaves alone *)

\* Once approved, a request and its event are out of reach of the lifecycle's
\* handlers, and no handler marks a request SYNCED.
LEMMA LifecycleFrame ==
  ASSUME TypeOK, ApprovalAtomic, [RequestNext]_reqVars
  PROVE  /\ DOMAIN requests \subseteq DOMAIN requests'
         /\ DOMAIN events \subseteq DOMAIN events'
         /\ \A x \in DOMAIN events : events'[x] = events[x]
         /\ \A x \in DOMAIN events' \ DOMAIN events :
              /\ events'[x].status = "QUEUED"
              /\ events'[x].attemptCount = 0
              /\ x \in DOMAIN requests
              /\ requests'[x].status = "APPROVED"
         /\ \A x \in DOMAIN requests : WasApproved(x) => requests'[x] = requests[x]
         /\ \A x \in DOMAIN requests' : x \notin DOMAIN requests \/ ~WasApproved(x)
              => requests'[x].status \notin {"SYNCED", "REVERSED"}
<1>1. ASSUME NEW r \in Requests, NEW k \in Keys, NEW d \in DayInputs, Create(r, k, d)
      PROVE  /\ DOMAIN requests' = DOMAIN requests \union {r}
             /\ r \notin DOMAIN requests
             /\ \A x \in DOMAIN requests : requests'[x] = requests[x]
             /\ requests'[r].status = "PENDING"
             /\ events' = events
  BY <1>1 DEF Create, Insert
<1>2. ASSUME NEW r \in Requests, NEW s \in {"APPROVED", "REJECTED", "CANCELLED"},
             r \in DOMAIN requests, CanTransition(requests[r].status, s), save(r, s)
      PROVE  /\ DOMAIN requests' = DOMAIN requests
             /\ ~WasApproved(r)
             /\ r \notin DOMAIN events
             /\ \A x \in DOMAIN requests : x # r => requests'[x] = requests[x]
             /\ requests'[r].status = s
  <2>1. requests[r].status \in RequestStatus
    BY <1>2 DEF TypeOK, RequestRow
  <2>2. ~WasApproved(r)
    BY <1>2, <2>1 DEF CanTransition, allowedTransitions, RequestStatus, WasApproved
  <2>3. r \notin DOMAIN events
    BY <2>2 DEF ApprovalAtomic, Unrecorded
  <2> QED BY <1>2, <2>2, <2>3, SaveEffect DEF RequestStatus
<1>3. ASSUME NEW x \in DOMAIN requests
      PROVE  ~WasApproved(x) => requests[x].status \notin {"SYNCED", "REVERSED"}
  BY DEF WasApproved
<1>4. CASE \E r \in Requests, k \in Keys, d \in DayInputs : Create(r, k, d)
  BY <1>1, <1>3, <1>4
<1>5. CASE \E r \in Requests : Approve(r)
  <2> PICK r \in Requests : Approve(r)
    BY <1>5
  <2>1. events' = Insert(events, r, NewEvent)
    BY DEF Approve
  <2>2. /\ DOMAIN events' = DOMAIN events \union {r}
        /\ \A x \in DOMAIN events : x # r => events'[x] = events[x]
        /\ events'[r] = NewEvent
    BY <2>1 DEF Insert
  <2>3. NewEvent.status = "QUEUED" /\ NewEvent.attemptCount = 0
    BY DEF NewEvent
  <2>4. /\ DOMAIN requests' = DOMAIN requests
        /\ ~WasApproved(r)
        /\ r \notin DOMAIN events
        /\ r \in DOMAIN requests
        /\ \A x \in DOMAIN requests : x # r => requests'[x] = requests[x]
        /\ requests'[r].status = "APPROVED"
    BY <1>2 DEF Approve
  <2> QED BY <2>2, <2>3, <2>4, <1>3
<1>6. CASE \E r \in Requests : Reject(r) \/ Cancel(r)
  <2> PICK r \in Requests : Reject(r) \/ Cancel(r)
    BY <1>6
  <2>1. /\ DOMAIN requests' = DOMAIN requests
        /\ ~WasApproved(r)
        /\ \A x \in DOMAIN requests : x # r => requests'[x] = requests[x]
        /\ requests'[r].status \in {"REJECTED", "CANCELLED"}
    BY <1>2 DEF Reject, Cancel
  <2>2. events' = events
    BY DEF Reject, Cancel
  <2> QED BY <2>1, <2>2, <1>3
<1>7. CASE (\E k \in Keys : GetBalance(k)) \/ UNCHANGED reqVars
  <2>1. requests' = requests /\ events' = events
    BY <1>7 DEF GetBalance, reqVars
  <2> QED BY <2>1, <1>3
<1> QED BY <1>4, <1>5, <1>6, <1>7 DEF RequestNext

-----------------------------------------------------------------------------
(* Versions *)

\* The step that VersionFence asks for.
RowsMoveForward ==
  \A k \in Keys : balances'[k] # balances[k] => balances'[k].version > balances[k].version

\* A row of a greater version was written.
LEMMA RowWritten ==
  ASSUME NEW k, NEW row, balances \in [Keys -> BalanceRow],
         balances' = [balances EXCEPT ![k] = row],
         row = balances[k] \/ row.version > balances[k].version
  PROVE  RowsMoveForward
<1>1. ASSUME NEW j \in Keys, balances'[j] # balances[j]
      PROVE  balances'[j].version > balances[j].version
  <2>1. j = k /\ balances'[j] = row
    BY <1>1
  <2> QED BY <1>1, <2>1
<1> QED BY <1>1 DEF RowsMoveForward

LEMMA LifecycleMovesForward ==
  ASSUME TypeOK, [RequestNext]_reqVars
  PROVE  RowsMoveForward
<1>1. balances \in [Keys -> BalanceRow]
  BY DEF TypeOK
<1>2. ASSUME NEW r \in Requests, Approve(r) PROVE RowsMoveForward
  <2> DEFINE k == requests[r].key
             days == requests[r].days
             current == GetOrCreate(balances[k])
  <2>1. k \in Keys /\ days \in Nat /\ balances[k] \in BalanceRow
    BY <1>2 DEF Approve, TypeOK, RequestRow
  <2>2. current \in BalanceRow /\ current.version >= balances[k].version
    BY <2>1, RowOps
  <2>3. Consume(current, days).version > current.version
    <3> HIDE DEF current, days
    <3> QED BY <2>1, <2>2, RowOps
  <2>4. balances' = [balances EXCEPT ![k] = Consume(current, days)]
    BY <1>2 DEF Approve
  <2>5. Consume(current, days).version > balances[k].version
    BY <2>1, <2>2, <2>3 DEF BalanceRow, Consume
  <2> HIDE DEF current, days, k
  <2> QED BY <1>1, <2>4, <2>5, RowWritten
<1>3. ASSUME NEW k \in Keys, GetBalance(k) PROVE RowsMoveForward
  BY <1>1, <1>3 DEF GetBalance, GetOrCreate, upsertAbsolute, HasRow, BalanceRow,
                    RowsMoveForward
<1>4. ASSUME UNCHANGED balances PROVE RowsMoveForward
  BY <1>4 DEF RowsMoveForward
<1> QED BY <1>2, <1>3, <1>4 DEF RequestNext, Create, Reject, Cancel, reqVars

\* Every change of a balance row by the lifecycle moves its version forward.
THEOREM VersionsAdvance == RequestSpec => VersionFence
<1>1. TypeOK /\ [RequestNext]_reqVars => [RowsMoveForward]_reqVars
  BY LifecycleMovesForward
<1>2. [RowsMoveForward]_reqVars =>
        [\A k \in Keys : balances'[k] # balances[k]
                            => balances'[k].version > balances[k].version]_reqVars
  BY DEF RowsMoveForward
<1> QED
  BY <1>1, <1>2, RequestTypeInit, RequestTypeStep, PTL DEF RequestSpec, VersionFence

-----------------------------------------------------------------------------
(* Days held by approved requests *)

HeldBy(k) == {r \in DOMAIN requests : requests[r].key = k /\ Holding(r)}

\* What a key has available and what its approved requests hold.
Accounted(k) == balances[k].availableDays + HeldDays(k)

LEMMA HeldIsTotal ==
  ASSUME NEW k
  PROVE  /\ HeldDays(k) = Total(requests, HeldBy(k))
         /\ HeldDays(k)' = Total(requests', HeldBy(k)')
<1>1. HeldDays(k) = Total(requests, HeldBy(k))
  BY DEF HeldDays, Total, HeldBy, MapThenSumSet, MapThenFoldSet
<1>2. HeldDays(k)' = Total(requests', HeldBy(k)')
  BY DEF HeldDays, Total, HeldBy, MapThenSumSet, MapThenFoldSet
<1> QED BY <1>1, <1>2

LEMMA HeldType ==
  ASSUME TypeOK, IsFiniteSet(DOMAIN requests), NEW k
  PROVE  /\ IsFiniteSet(HeldBy(k))
         /\ \A r \in HeldBy(k) : requests[r].days \in Nat
         /\ HeldDays(k) \in Nat
<1>1. IsFiniteSet(HeldBy(k))
  BY FS_Subset DEF HeldBy
<1>2. \A r \in HeldBy(k) : requests[r].days \in Nat
  BY DEF HeldBy, TypeOK, RequestRow
<1> QED BY <1>1, <1>2, HeldIsTotal, TotalType

\* Nothing that holds days changes: no request starts or stops holding any.
LEMMA HeldKept ==
  ASSUME TypeOK, IsFiniteSet(DOMAIN requests),
         DOMAIN requests \subseteq DOMAIN requests',
         \A x \in DOMAIN requests :
           /\ requests'[x].key = requests[x].key
           /\ requests'[x].days = requests[x].days
           /\ Holding(x)' <=> Holding(x),
         \A x \in DOMAIN requests' \ DOMAIN requests : ~Holding(x)',
         NEW k
  PROVE  HeldDays(k)' = HeldDays(k)
<1>1. HeldBy(k)' = HeldBy(k)
  BY DEF HeldBy
<1>2. \A r \in HeldBy(k) : requests'[r].days = requests[r].days
  BY DEF HeldBy
<1> QED BY <1>1, <1>2, HeldType, HeldIsTotal, TotalSame

\* One request starts or stops holding its days.
LEMMA HeldMoves ==
  ASSUME TypeOK, IsFiniteSet(DOMAIN requests), DOMAIN requests' = DOMAIN requests,
         NEW r \in DOMAIN requests, Holding(r)' <=> ~Holding(r),
         requests'[r].key = requests[r].key, requests'[r].days = requests[r].days,
         \A x \in DOMAIN requests : x # r => requests'[x] = requests[x],
         NEW k
  PROVE  HeldDays(k)' =
           IF requests[r].key # k THEN HeldDays(k)
           ELSE IF Holding(r) THEN HeldDays(k) - requests[r].days
           ELSE HeldDays(k) + requests[r].days
<1>1. \A x \in DOMAIN requests : requests'[x].days = requests[x].days
  OBVIOUS
<1>2. Total(requests', HeldBy(k)) = Total(requests, HeldBy(k))
  <2>1. \A x \in HeldBy(k) : requests'[x].days = requests[x].days
    BY <1>1 DEF HeldBy
  <2> QED BY <2>1, HeldType, TotalSame
<1>3. requests[r].days \in Nat
  BY DEF TypeOK, RequestRow
<1>4. CASE requests[r].key # k
  <2>1. HeldBy(k)' = HeldBy(k)
    BY <1>4 DEF HeldBy, Holding
  <2> QED BY <2>1, <1>2, <1>4, HeldIsTotal
<1>5. CASE requests[r].key = k /\ Holding(r)
  <2>1. HeldBy(k)' = HeldBy(k) \ {r} /\ r \in HeldBy(k)
    BY <1>5 DEF HeldBy, Holding
  <2>2. \A x \in HeldBy(k) : requests'[x].days \in Nat
    BY <1>1, HeldType DEF HeldBy
  <2>3. Total(requests', HeldBy(k)) = requests'[r].days + Total(requests', HeldBy(k)')
    BY <2>1, <2>2, HeldType, TotalRemove
  <2>4. Total(requests', HeldBy(k)') \in Nat
    <3>1. IsFiniteSet(HeldBy(k)') /\ \A x \in HeldBy(k)' : requests'[x].days \in Nat
      BY <2>1, <2>2, HeldType, FS_RemoveElement
    <3> QED BY <3>1, TotalType
  <2> QED BY <2>3, <2>4, <1>2, <1>3, <1>5, HeldIsTotal, HeldType
<1>6. CASE requests[r].key = k /\ ~Holding(r)
  <2>1. HeldBy(k)' = HeldBy(k) \union {r} /\ r \notin HeldBy(k)
    BY <1>6 DEF HeldBy, Holding
  <2>2. \A x \in HeldBy(k) \union {r} : requests'[x].days \in Nat
    BY <1>1, <1>3, HeldType DEF HeldBy
  <2>3. Total(requests', HeldBy(k)') = requests'[r].days + Total(requests', HeldBy(k))
    BY <2>1, <2>2, HeldType, TotalAdd
  <2> QED BY <2>3, <1>2, <1>3, <1>6, HeldIsTotal, HeldType
<1> QED BY <1>4, <1>5, <1>6

\* No request starts holding days.
LEMMA HeldShrinks ==
  ASSUME TypeOK, IsFiniteSet(DOMAIN requests), DOMAIN requests' = DOMAIN requests,
         \A x \in DOMAIN requests :
           /\ requests'[x].key = requests[x].key
           /\ requests'[x].days = requests[x].days
           /\ Holding(x)' => Holding(x),
         NEW k
  PROVE  HeldDays(k)' \in Nat /\ HeldDays(k)' <= HeldDays(k)
<1>1. HeldBy(k)' \in SUBSET HeldBy(k)
  BY DEF HeldBy
<1>2. \A r \in HeldBy(k) : requests'[r].days = requests[r].days
  BY DEF HeldBy
<1>3. IsFiniteSet(HeldBy(k)') /\ \A r \in HeldBy(k)' : requests'[r].days \in Nat
  BY <1>1, <1>2, HeldType, FS_Subset
<1>4. Total(requests', HeldBy(k)) = Total(requests, HeldBy(k))
  BY <1>2, HeldType, TotalSame
<1>5. Total(requests', HeldBy(k)') <= Total(requests', HeldBy(k))
  BY <1>1, <1>2, HeldType, TotalMonotone
<1> QED BY <1>3, <1>4, <1>5, HeldIsTotal, TotalType

-----------------------------------------------------------------------------
(* Conservation *)

LEMMA AccountedType ==
  TypeOK /\ IsFiniteSet(DOMAIN requests) => \A k \in Keys : Accounted(k) \in Nat
BY HeldType DEF Accounted, TypeOK, BalanceRow

LEMMA AccountedTypeNext ==
  TypeOK' /\ IsFiniteSet(DOMAIN requests') => \A k \in Keys : Accounted(k)' \in Nat
<1>1. (TypeOK /\ IsFiniteSet(DOMAIN requests)
         => \A k \in Keys : Accounted(k) \in Nat)'
  BY AccountedType, PTL
<1> QED BY <1>1

MissingRowsEmpty ==
  \A k \in Keys : ~HasRow(balances[k]) => balances[k].availableDays = 0

\* Creating the row changes nothing about the days available.
LEMMA GetOrCreateKeepsDays ==
  ASSUME TypeOK, MissingRowsEmpty, NEW k \in Keys
  PROVE  /\ GetOrCreate(balances[k]) \in BalanceRow
         /\ HasRow(GetOrCreate(balances[k]))
         /\ GetOrCreate(balances[k]).availableDays = balances[k].availableDays
<1>1. balances[k] \in BalanceRow
  BY DEF TypeOK
<1>2. GetOrCreate(balances[k]).availableDays = balances[k].availableDays
  BY <1>1 DEF MissingRowsEmpty, GetOrCreate, upsertAbsolute
<1> QED BY <1>1, <1>2, RowOps

\* An approval moves days from the balance to what requests hold; no other
\* handler of the lifecycle touches either.
LEMMA LifecycleAccounts ==
  ASSUME TypeOK, IsFiniteSet(DOMAIN requests), MissingRowsEmpty,
         [RequestNext]_reqVars
  PROVE  /\ IsFiniteSet(DOMAIN requests')
         /\ MissingRowsEmpty'
         /\ \A k \in Keys : Accounted(k)' = Accounted(k)
<1> DEFINE Goal == /\ IsFiniteSet(DOMAIN requests')
                   /\ MissingRowsEmpty'
                   /\ \A k \in Keys : Accounted(k)' = Accounted(k)
<1>1. ASSUME NEW r \in Requests, NEW k \in Keys, NEW d \in DayInputs, Create(r, k, d)
      PROVE  Goal
  <2>1. /\ DOMAIN requests' = DOMAIN requests \union {r}
        /\ \A x \in DOMAIN requests : requests'[x] = requests[x]
        /\ requests'[r].status = "PENDING" /\ r \notin DOMAIN requests
        /\ balances' = balances
    BY <1>1 DEF Create, Insert
  <2>2. IsFiniteSet(DOMAIN requests')
    BY <2>1, FS_AddElement
  <2>3. \A b \in Keys : HeldDays(b)' = HeldDays(b)
    BY <2>1, HeldKept DEF Holding
  <2> QED BY <2>1, <2>2, <2>3 DEF MissingRowsEmpty, Accounted
<1>2. ASSUME NEW r \in Requests, Approve(r) PROVE Goal
  <2> DEFINE k == requests[r].key
             days == requests[r].days
             current == GetOrCreate(balances[k])
  <2>1. /\ r \in DOMAIN requests /\ save(r, "APPROVED")
        /\ CanTransition(requests[r].status, "APPROVED")
        /\ balances' = [balances EXCEPT ![k] = Consume(current, days)]
    BY <1>2 DEF Approve
  <2>2. k \in Keys /\ days \in Nat /\ requests[r].status \in RequestStatus
    BY <2>1 DEF TypeOK, RequestRow
  <2>3. /\ DOMAIN requests' = DOMAIN requests
        /\ \A x \in DOMAIN requests : x # r => requests'[x] = requests[x]
        /\ requests'[r].status = "APPROVED"
        /\ requests'[r].key = k /\ requests'[r].days = days
    BY <2>1, SaveEffect DEF RequestStatus
  <2>4. ~Holding(r) /\ Holding(r)'
    BY <2>1, <2>2, <2>3
    DEF CanTransition, allowedTransitions, RequestStatus, Holding
  <2>5. current \in BalanceRow /\ current.availableDays = balances[k].availableDays
    BY <2>2, GetOrCreateKeepsDays
  <2> HIDE DEF current, days, k
  <2>6. /\ balances'[k].availableDays = balances[k].availableDays - days
        /\ HasRow(balances'[k])
        /\ \A b \in Keys : b # k => balances'[b] = balances[b]
        /\ balances[k].availableDays \in Nat
    BY <2>1, <2>2, <2>5 DEF Consume, HasRow, TypeOK, BalanceRow
  <2>7. \A b \in Keys : HeldDays(b)' = IF b # k THEN HeldDays(b) ELSE HeldDays(b) + days
    BY <2>1, <2>3, <2>4, HeldMoves DEF k, days
  <2>8. \A b \in Keys : HeldDays(b) \in Nat
    BY HeldType
  <2>9. \A b \in Keys : Accounted(b)' = Accounted(b)
    BY <2>2, <2>6, <2>7, <2>8 DEF Accounted
  <2> QED BY <2>3, <2>6, <2>9 DEF MissingRowsEmpty
<1>3. ASSUME NEW r \in Requests, Reject(r) \/ Cancel(r) PROVE Goal
  <2>1. /\ r \in DOMAIN requests /\ balances' = balances
        /\ \E s \in {"REJECTED", "CANCELLED"} :
             CanTransition(requests[r].status, s) /\ save(r, s)
    BY <1>3 DEF Reject, Cancel
  <2>2. requests[r].status \in RequestStatus
    BY <2>1 DEF TypeOK, RequestRow
  <2>3. /\ DOMAIN requests' = DOMAIN requests
        /\ \A x \in DOMAIN requests : x # r => requests'[x] = requests[x]
        /\ requests'[r].status \in {"REJECTED", "CANCELLED"}
        /\ requests'[r].key = requests[r].key /\ requests'[r].days = requests[r].days
    BY <2>1, SaveEffect DEF RequestStatus
  <2>4. ~Holding(r) /\ ~Holding(r)'
    BY <2>1, <2>2, <2>3
    DEF CanTransition, allowedTransitions, RequestStatus, Holding
  <2>5. \A x \in DOMAIN requests : /\ requests'[x].key = requests[x].key
                                   /\ requests'[x].days = requests[x].days
                                   /\ Holding(x)' <=> Holding(x)
    BY <2>3, <2>4 DEF Holding
  <2>6. \A b \in Keys : HeldDays(b)' = HeldDays(b)
    BY <2>3, <2>5, HeldKept
  <2> QED BY <2>1, <2>3, <2>6 DEF MissingRowsEmpty, Accounted
<1>4. ASSUME NEW k \in Keys, GetBalance(k) PROVE Goal
  <2>1. /\ requests' = requests
        /\ balances' = [balances EXCEPT ![k] = GetOrCreate(balances[k])]
    BY <1>4 DEF GetBalance
  <2>2. \A b \in Keys : balances'[b].availableDays = balances[b].availableDays
    BY <2>1, GetOrCreateKeepsDays DEF TypeOK
  <2>3. MissingRowsEmpty'
    BY <2>1, <2>2, GetOrCreateKeepsDays DEF MissingRowsEmpty, TypeOK
  <2>4. \A b \in Keys : HeldDays(b)' = HeldDays(b)
    BY <2>1, HeldKept DEF Holding
  <2> QED BY <2>1, <2>2, <2>3, <2>4 DEF Accounted
<1>5. CASE UNCHANGED reqVars
  <2>1. requests' = requests /\ balances' = balances
    BY <1>5 DEF reqVars
  <2>2. \A b \in Keys : HeldDays(b)' = HeldDays(b)
    BY <2>1, HeldKept DEF Holding
  <2> QED BY <2>1, <2>2 DEF MissingRowsEmpty, Accounted
<1> QED BY <1>1, <1>2, <1>3, <1>4, <1>5 DEF RequestNext

LEMMA AccountedInit ==
  ASSUME Init
  PROVE  /\ IsFiniteSet(DOMAIN requests)
         /\ MissingRowsEmpty
         /\ \A k \in Keys : Accounted(k) = Imported[k]
<1>1. DOMAIN requests = {} /\ IsFiniteSet(DOMAIN requests)
  BY FS_EmptySet DEF Init
<1>2. \A k \in Keys : HeldDays(k) = 0
  <2>1. \A k \in Keys : HeldBy(k) = {}
    BY <1>1 DEF HeldBy
  <2> QED BY <2>1, HeldIsTotal, TotalEmpty
<1>3. \A k \in Keys : balances[k].availableDays = Imported[k]
  BY ImportedAssumption DEF Init, NoBalance, upsertAbsolute
<1>4. MissingRowsEmpty
  BY ImportedAssumption DEF Init, MissingRowsEmpty, NoBalance, HasRow, upsertAbsolute
<1>5. \A k \in Keys : Imported[k] \in Nat
  BY ImportedAssumption
<1> QED BY <1>1, <1>2, <1>3, <1>4, <1>5 DEF Accounted

\* Whatever is created, approved, rejected or cancelled, no day is spent twice
\* or lost: what a balance has left and what approved requests hold add up to
\* what HCM imported.
THEOREM DaysConserved == RequestSpec => []Conservation
<1>1. Init => ConservationInv
  <2> SUFFICES ASSUME Init PROVE ConservationInv
    OBVIOUS
  <2>1. Conservation
    BY AccountedInit DEF Conservation, Accounted
  <2> QED BY <2>1, RequestTypeInit, AccountedInit DEF ConservationInv, MissingRowsEmpty
<1>2. ConservationInv /\ [RequestNext]_reqVars => ConservationInv'
  <2> SUFFICES ASSUME ConservationInv, [RequestNext]_reqVars PROVE ConservationInv'
    OBVIOUS
  <2>1. TypeOK /\ IsFiniteSet(DOMAIN requests) /\ MissingRowsEmpty
    BY DEF ConservationInv, MissingRowsEmpty
  <2>2. Conservation'
    BY <2>1, LifecycleAccounts DEF ConservationInv, Conservation, Accounted
  <2> QED BY <2>1, <2>2, RequestTypeStep, LifecycleAccounts
          DEF ConservationInv, MissingRowsEmpty
<1>3. ConservationInv => Conservation
  BY DEF ConservationInv
<1> QED BY <1>1, <1>2, <1>3, PTL DEF RequestSpec
=============================================================================
