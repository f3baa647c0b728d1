------------------------- MODULE BatchSync_proofs -------------------------
(***************************************************************************)
(* Theorems about the batch ingestion, for snapshots of any length cut     *)
(* into chunks of any size, any number of jobs and a crash between any two *)
(* statements.                                                             *)
(***************************************************************************)
EXTENDS BatchSync, TLAPS

JobRow == [checksum : {p.checksum : p \in Payloads}, status : JobStatus,
           processedRows : Nat]

\* The local state of a running handler.
Work == [pc : {"loop", "checkpoint"}, payload : Payloads, start : Nat, i : Nat,
         next : Nat]

CheckpointRows == [jobId : Jobs, from : Nat, chunkSize : Nat, processedRows : Nat]

RowsTyped ==
  /\ balances \in [Keys -> BalanceRow]
  /\ DOMAIN jobs \subseteq Jobs
  /\ jobs \in [DOMAIN jobs -> JobRow]
  /\ checkpoints \in Seq(CheckpointRows)
  /\ ingest = Idle \/ (ingest \in Work /\ ingest.payload.jobId \in DOMAIN jobs)
  /\ crashes \in 0 .. MaxCrashes

Progress == jobs[ingest.payload.jobId].processedRows

\* Where the running handler stands against its job's row.
WorkInStep ==
  ingest # Idle =>
    /\ Progress <= ingest.next - 1
    /\ ingest.pc = "loop" => Progress <= ingest.i
    /\ ingest.pc = "checkpoint" =>
         Progress = ChunkEnd(ingest.i, ingest.payload) /\ ingest.i < Progress

\* No checkpoint is ahead of its job, and between the two statements that
\* follow a chunk the checkpoints end where it starts or before.
CheckpointsBehind ==
  \A n \in DOMAIN checkpoints :
    /\ checkpoints[n].jobId \in DOMAIN jobs
    /\ checkpoints[n].processedRows <= jobs[checkpoints[n].jobId].processedRows
    /\ (/\ ingest # Idle
        /\ ingest.pc = "checkpoint"
        /\ checkpoints[n].jobId = ingest.payload.jobId)
         => checkpoints[n].processedRows <= ingest.i

BatchInv == RowsTyped /\ WorkInStep /\ CheckpointsBehind /\ CheckpointsAdvance

-----------------------------------------------------------------------------
LEMMA IdleIsNoWork == Idle \notin Work
BY DEF Idle, Work

LEMMA PayloadFields ==
  ASSUME NEW p \in Payloads
  PROVE  /\ p.jobId \in Jobs
         /\ Len(p.rows) \in Nat
         /\ p.chunkSize \in Nat \ {0}
         /\ \A n \in 1 .. Len(p.rows) : p.rows[n].key \in Keys /\ p.rows[n].days \in Int
<1>1. p.rows \in Seq(BatchRow) /\ p.jobId \in Jobs /\ p.chunkSize \in Nat \ {0}
  BY PayloadsAssumption
<1>2. \A n \in 1 .. Len(p.rows) : p.rows[n] \in BatchRow
  BY <1>1
<1> QED BY <1>1, <1>2 DEF BatchRow

\* A chunk that has rows ends behind its start and within the snapshot.
LEMMA ChunkEndBounds ==
  ASSUME NEW p \in Payloads, NEW i \in Nat
  PROVE  /\ ChunkEnd(i, p) \in Nat
         /\ ChunkEnd(i, p) <= i + p.chunkSize
         /\ ChunkEnd(i, p) <= Len(p.rows)
         /\ i < Len(p.rows) => i < ChunkEnd(i, p)
BY PayloadFields DEF ChunkEnd

LEMMA BatchInvInit == BatchInit => BatchInv
<1> SUFFICES ASSUME BatchInit PROVE BatchInv
  OBVIOUS
<1>1. RowsTyped
  BY BatchCrashesAssumption DEF BatchInit, RowsTyped, NoBalance, BalanceRow
<1> QED BY <1>1 DEF BatchInit, BatchInv, WorkInStep, CheckpointsBehind, CheckpointsAdvance

\* What a statement of the running handler may rely on.
LEMMA Running ==
  ASSUME BatchInv, NEW s \in {"loop", "checkpoint"}, ingest.pc = s
  PROVE  /\ ingest \in Work /\ ingest # Idle
         /\ ingest.payload \in Payloads /\ ingest.payload.jobId \in DOMAIN jobs
         /\ ingest.i \in Nat /\ ingest.next \in Nat /\ Progress \in Nat
<1>1. ingest # Idle
  BY DEF Idle
<1> QED BY <1>1 DEF BatchInv, RowsTyped, Work, Progress, JobRow

-----------------------------------------------------------------------------
LEMMA BeginStep ==
  ASSUME BatchInv, NEW p \in Payloads, Begin(p)
  PROVE  BatchInv'
<1> DEFINE j == p.jobId
           start == ProcessedSoFar(j)
           row == [checksum |-> p.checksum, status |-> "RUNNING", processedRows |-> start]
           work == [pc |-> "loop", payload |-> p, start |-> start, i |-> start,
                    next |-> start + 1]
<1>1. start \in Nat /\ j \in Jobs
  BY PayloadFields DEF ProcessedSoFar, BatchInv, RowsTyped, JobRow
<1>2. row \in JobRow /\ work \in Work
  BY <1>1 DEF JobRow, Work, JobStatus
<1>3. /\ DOMAIN jobs' = DOMAIN jobs \union {j}
      /\ jobs'[j] = row
      /\ \A x \in DOMAIN jobs : x # j => jobs'[x] = jobs[x]
      /\ jobs' = [x \in DOMAIN jobs' |-> jobs'[x]]
      /\ ingest' = work /\ UNCHANGED <<balances, checkpoints, crashes>>
  BY DEF Begin
<1>4. \A x \in DOMAIN jobs : jobs'[x].processedRows = jobs[x].processedRows
  BY <1>3 DEF ProcessedSoFar
<1>5. RowsTyped'
  BY <1>1, <1>2, <1>3 DEF BatchInv, RowsTyped
<1>6. WorkInStep'
  BY <1>1, <1>3 DEF WorkInStep, Progress
<1>7. CheckpointsBehind' /\ CheckpointsAdvance'
  BY <1>3, <1>4 DEF BatchInv, CheckpointsBehind, CheckpointsAdvance
<1> QED BY <1>5, <1>6, <1>7 DEF BatchInv

\* Both ways of handling a row.
LEMMA RowStep ==
  ASSUME BatchInv, RejectRow \/ ApplyRow
  PROVE  BatchInv'
<1>1. ingest.pc = "loop" /\ ingest.next <= ChunkEnd(ingest.i, ingest.payload)
  BY DEF RejectRow, ApplyRow, InChunk
<1>2. /\ ingest \in Work /\ ingest # Idle /\ ingest.payload \in Payloads
      /\ ingest.i \in Nat /\ ingest.next \in Nat /\ Progress \in Nat
  BY <1>1, Running
<1>3. ingest' = [ingest EXCEPT !.next = ingest.next + 1] /\ UNCHANGED <<jobs, checkpoints, crashes>>
  BY DEF RejectRow, ApplyRow, NextRow
<1>4. /\ ingest' \in Work /\ ingest'.next = ingest.next + 1 /\ ingest'.i = ingest.i
      /\ ingest'.pc = "loop" /\ ingest'.payload = ingest.payload
  BY <1>1, <1>2, <1>3 DEF Work
<1>5. balances' \in [Keys -> BalanceRow]
  <2>1. CASE RejectRow
    BY <2>1 DEF RejectRow, BatchInv, RowsTyped
  <2>2. CASE ApplyRow
    <3>1. ingest.next \in 1 .. Len(ingest.payload.rows)
      BY <1>1, <1>2, ChunkEndBounds, PayloadFields DEF BatchInv, WorkInStep
    <3>2. Row.key \in Keys /\ Row.days \in Nat
      BY <1>2, <2>2, <3>1, PayloadFields DEF ApplyRow, Valid, Row
    <3>3. upsertAbsolute(balances[Row.key], Row.days) \in BalanceRow
      BY <3>2 DEF BatchInv, RowsTyped, upsertAbsolute, BalanceRow
    <3> QED BY <2>2, <3>2, <3>3 DEF ApplyRow, BatchInv, RowsTyped
  <2> QED BY <2>1, <2>2
<1>6. RowsTyped'
  BY <1>2, <1>3, <1>4, <1>5 DEF BatchInv, RowsTyped
<1>7. WorkInStep'
  BY <1>1, <1>2, <1>3, <1>4 DEF BatchInv, WorkInStep, Progress
<1>8. CheckpointsBehind' /\ CheckpointsAdvance'
  BY <1>3, <1>4 DEF BatchInv, CheckpointsBehind, CheckpointsAdvance
<1> QED BY <1>6, <1>7, <1>8 DEF BatchInv

LEMMA SaveProgressStep ==
  ASSUME BatchInv, SaveProgress
  PROVE  BatchInv'
<1> DEFINE p == ingest.payload
           end == ChunkEnd(ingest.i, p)
<1>1. /\ ingest.pc = "loop" /\ ingest.i < Len(p.rows) /\ ingest.next > end
      /\ jobs' = [jobs EXCEPT ![p.jobId].processedRows = end]
      /\ ingest' = [ingest EXCEPT !.pc = "checkpoint"]
      /\ UNCHANGED <<balances, checkpoints, crashes>>
  BY DEF SaveProgress
<1>2. /\ ingest \in Work /\ ingest # Idle /\ p \in Payloads /\ p.jobId \in DOMAIN jobs
      /\ ingest.i \in Nat /\ ingest.next \in Nat /\ Progress \in Nat
  BY <1>1, Running
<1>3. end \in Nat /\ ingest.i < end
  BY <1>1, <1>2, ChunkEndBounds
<1>4. /\ ingest' \in Work /\ ingest'.next = ingest.next /\ ingest'.i = ingest.i
      /\ ingest'.pc = "checkpoint" /\ ingest'.payload = p
  BY <1>1, <1>2 DEF Work
<1>5. Progress <= ingest.i
  BY <1>1, <1>2 DEF BatchInv, WorkInStep
<1>6. /\ DOMAIN jobs' = DOMAIN jobs /\ jobs' \in [DOMAIN jobs -> JobRow]
      /\ jobs'[p.jobId].processedRows = end
      /\ \A x \in DOMAIN jobs : x # p.jobId => jobs'[x] = jobs[x]
  <2>1. jobs[p.jobId] \in JobRow /\ jobs \in [DOMAIN jobs -> JobRow]
    BY <1>2 DEF BatchInv, RowsTyped
  <2>2. jobs' = [jobs EXCEPT ![p.jobId] = [jobs[p.jobId] EXCEPT !.processedRows = end]]
    BY <1>1
  <2>3. /\ [jobs[p.jobId] EXCEPT !.processedRows = end] \in JobRow
        /\ [jobs[p.jobId] EXCEPT !.processedRows = end].processedRows = end
    BY <1>3, <2>1 DEF JobRow
  <2> HIDE DEF end, p
  <2> QED BY <1>2, <2>1, <2>2, <2>3 DEF p
<1> HIDE DEF end
<1>7. RowsTyped'
  BY <1>1, <1>2, <1>4, <1>6 DEF BatchInv, RowsTyped
<1>8. Progress' = end
  BY <1>4, <1>6 DEF Progress
<1>9. WorkInStep'
  BY <1>1, <1>2, <1>3, <1>4, <1>8 DEF WorkInStep, end
<1>10. CheckpointsBehind'
  <2> SUFFICES ASSUME NEW n \in DOMAIN checkpoints
               PROVE  /\ checkpoints[n].jobId \in DOMAIN jobs'
                      /\ checkpoints[n].processedRows <= jobs'[checkpoints[n].jobId].processedRows
                      /\ checkpoints[n].jobId = p.jobId => checkpoints[n].processedRows <= ingest.i
    BY <1>1, <1>4 DEF CheckpointsBehind
  <2>1. checkpoints[n].processedRows \in Nat
    <3>1. checkpoints[n] \in CheckpointRows
      BY DEF BatchInv, RowsTyped
    <3> QED BY <3>1 DEF CheckpointRows
  <2>2. /\ checkpoints[n].jobId \in DOMAIN jobs
        /\ checkpoints[n].processedRows <= jobs[checkpoints[n].jobId].processedRows
    BY DEF BatchInv, CheckpointsBehind
  <2>3. CASE checkpoints[n].jobId = p.jobId
    <3>1. checkpoints[n].processedRows <= Progress
      BY <2>2, <2>3 DEF Progress
    <3> QED BY <1>2, <1>3, <1>5, <1>6, <2>1, <2>2, <2>3, <3>1
  <2> QED BY <1>6, <2>2, <2>3
<1>11. CheckpointsAdvance'
  BY <1>1 DEF BatchInv, CheckpointsAdvance
<1> QED BY <1>7, <1>9, <1>10, <1>11 DEF BatchInv

LEMMA CheckpointStep ==
  ASSUME BatchInv, Checkpoint
  PROVE  BatchInv'
<1> DEFINE p == ingest.payload
           end == ChunkEnd(ingest.i, p)
           row == CheckpointRow(p, ingest.i, end)
<1>1. /\ ingest.pc = "checkpoint"
      /\ checkpoints' = Append(checkpoints, row)
      /\ ingest' = [ingest EXCEPT !.pc = "loop", !.i = ingest.i + p.chunkSize]
      /\ UNCHANGED <<balances, jobs, crashes>>
  BY DEF Checkpoint
<1>2. /\ ingest \in Work /\ ingest # Idle /\ p \in Payloads /\ p.jobId \in DOMAIN jobs
      /\ ingest.i \in Nat /\ ingest.next \in Nat /\ Progress \in Nat
  BY <1>1, Running
<1>3. end \in Nat /\ end <= ingest.i + p.chunkSize /\ p.chunkSize \in Nat /\ p.jobId \in Jobs
  BY <1>2, ChunkEndBounds, PayloadFields
<1>4. /\ ingest' \in Work /\ ingest'.next = ingest.next /\ ingest'.i = ingest.i + p.chunkSize
      /\ ingest'.pc = "loop" /\ ingest'.payload = p
  <2> DEFINE i == ingest.i + p.chunkSize
  <2>1. i \in Nat /\ ingest' = [ingest EXCEPT !.pc = "loop", !.i = i]
    BY <1>1, <1>2, <1>3
  <2>2. /\ ingest' \in Work /\ ingest'.next = ingest.next /\ ingest'.i = i
        /\ ingest'.pc = "loop" /\ ingest'.payload = ingest.payload
    <3> HIDE DEF i
    <3> QED BY <1>2, <2>1 DEF Work
  <2> QED BY <2>2
<1>5. Progress = end /\ Progress' = end /\ ingest.i < end
  BY <1>1, <1>2, <1>4 DEF BatchInv, WorkInStep, Progress
<1> HIDE DEF end
<1>row. /\ row \in CheckpointRows
       /\ row.jobId = p.jobId /\ row.from = ingest.i /\ row.processedRows = end
  BY <1>2, <1>3 DEF CheckpointRow, CheckpointRows
<1> HIDE DEF row
<1>6. /\ checkpoints' \in Seq(CheckpointRows)
      /\ Len(checkpoints') = Len(checkpoints) + 1 /\ Len(checkpoints) \in Nat
      /\ checkpoints'[Len(checkpoints) + 1] = row
      /\ \A n \in DOMAIN checkpoints : checkpoints'[n] = checkpoints[n]
      /\ DOMAIN checkpoints = 1 .. Len(checkpoints)
      /\ DOMAIN checkpoints' = 1 .. Len(checkpoints) + 1
  BY <1>1, <1>row DEF BatchInv, RowsTyped
<1>7. RowsTyped'
  BY <1>1, <1>2, <1>4, <1>6 DEF BatchInv, RowsTyped
<1>8. WorkInStep'
  BY <1>2, <1>3, <1>4, <1>5 DEF BatchInv, WorkInStep
<1>9. CheckpointsBehind'
  <2> SUFFICES ASSUME NEW n \in DOMAIN checkpoints'
               PROVE  /\ checkpoints'[n].jobId \in DOMAIN jobs
                      /\ checkpoints'[n].processedRows <= jobs[checkpoints'[n].jobId].processedRows
    BY <1>1, <1>4 DEF CheckpointsBehind
  <2>1. CASE n \in DOMAIN checkpoints
    BY <1>6, <2>1 DEF BatchInv, CheckpointsBehind
  <2>2. CASE n = Len(checkpoints) + 1
    BY <1>2, <1>3, <1>5, <1>row, <1>6, <2>2 DEF Progress
  <2> QED BY <1>6, <2>1, <2>2
<1>10. CheckpointsAdvance'
  <2>1. ASSUME NEW a \in DOMAIN checkpoints'
        PROVE  checkpoints'[a].from < checkpoints'[a].processedRows
    BY <1>5, <1>row, <1>6 DEF BatchInv, CheckpointsAdvance
  <2>2. ASSUME NEW a \in DOMAIN checkpoints', NEW b \in DOMAIN checkpoints',
               a < b, checkpoints'[a].jobId = checkpoints'[b].jobId
        PROVE  checkpoints'[a].processedRows <= checkpoints'[b].from
    <3>1. a \in DOMAIN checkpoints
      BY <1>6, <2>2
    <3>2. CASE b \in DOMAIN checkpoints
      BY <1>6, <2>2, <3>1, <3>2 DEF BatchInv, CheckpointsAdvance
    <3>3. CASE b = Len(checkpoints) + 1
      <4>1. checkpoints'[b].jobId = p.jobId /\ checkpoints'[b].from = ingest.i
        BY <1>6, <1>row, <3>3
      <4>2. checkpoints[a].jobId = p.jobId
        BY <1>6, <2>2, <3>1, <4>1
      <4> QED BY <1>1, <1>2, <1>6, <3>1, <4>1, <4>2 DEF BatchInv, CheckpointsBehind
    <3> QED BY <1>6, <3>2, <3>3
  <2> QED BY <2>1, <2>2 DEF CheckpointsAdvance
<1> QED BY <1>7, <1>8, <1>9, <1>10 DEF BatchInv

\* The handler answers or the process dies: its local state is gone.
LEMMA LeaveStep ==
  ASSUME BatchInv, Complete \/ Crash
  PROVE  BatchInv'
<1>1. ingest' = Idle /\ UNCHANGED <<balances, checkpoints>> /\ crashes' \in 0 .. MaxCrashes
  BY BatchCrashesAssumption DEF Complete, Crash, BatchInv, RowsTyped
<1>2. /\ DOMAIN jobs' = DOMAIN jobs /\ jobs' \in [DOMAIN jobs -> JobRow]
      /\ \A x \in DOMAIN jobs : jobs'[x].processedRows = jobs[x].processedRows
  <2>1. CASE Crash
    BY <2>1 DEF Crash, BatchInv, RowsTyped
  <2>2. CASE Complete
    <3> DEFINE j == ingest.payload.jobId
    <3>1. j \in DOMAIN jobs /\ jobs[j] \in JobRow
      BY <2>2, Running DEF Complete, BatchInv, RowsTyped
    <3>2. jobs' = [jobs EXCEPT ![j] = [jobs[j] EXCEPT !.status = "COMPLETED"]]
      BY <2>2 DEF Complete
    <3>3. /\ [jobs[j] EXCEPT !.status = "COMPLETED"] \in JobRow
          /\ [jobs[j] EXCEPT !.status = "COMPLETED"].processedRows = jobs[j].processedRows
      BY <3>1 DEF JobRow, JobStatus
    <3> HIDE DEF j
    <3> QED BY <3>1, <3>2, <3>3 DEF BatchInv, RowsTyped
  <2> QED BY <2>1, <2>2
<1>3. RowsTyped' /\ WorkInStep'
  BY <1>1, <1>2 DEF BatchInv, RowsTyped, WorkInStep
<1>4. CheckpointsBehind' /\ CheckpointsAdvance'
  BY <1>1, <1>2 DEF BatchInv, CheckpointsBehind, CheckpointsAdvance
<1> QED BY <1>3, <1>4 DEF BatchInv

LEMMA BatchInvStep == BatchInv /\ [BatchNext]_bvars => BatchInv'
<1>1. BatchInv /\ UNCHANGED bvars => BatchInv'
  BY DEF bvars, BatchInv, RowsTyped, WorkInStep, CheckpointsBehind, CheckpointsAdvance, Progress
<1> QED BY <1>1, BeginStep, RowStep, SaveProgressStep, CheckpointStep, LeaveStep
    DEF BatchNext, Statement

LEMMA BatchInvariant == BatchSpec => []BatchInv
<1> QED BY BatchInvInit, BatchInvStep, PTL DEF BatchSpec

\* An ingested snapshot never leaves a negative balance, whatever its rows,
\* and a running handler always has a job row.
THEOREM BatchTypeCorrect == BatchSpec => []BatchTypeOK
<1>1. BatchInv => BatchTypeOK
  BY DEF BatchInv, RowsTyped, BatchTypeOK, JobRow, Work
<1> QED BY <1>1, BatchInvariant, PTL

\* The checkpoints of a job describe chunks that follow each other without
\* overlap, across crashes, resumptions and resubmissions with another chunk
\* size or other rows.
THEOREM CheckpointsMoveForward == BatchSpec => []CheckpointsAdvance
<1>1. BatchInv => CheckpointsAdvance
  BY DEF BatchInv
<1> QED BY <1>1, BatchInvariant, PTL

-----------------------------------------------------------------------------
(* What was handled *)

\* Every position before the running handler's next row was handled in this
\* attempt of the job or in an earlier one.
WorkHandled ==
  ingest # Idle =>
    \A n \in Nat : 1 <= n /\ n < ingest.next => HandledAt(ingest.payload.jobId, n)

\* A handler between two chunks is past its i, or past the snapshot's end.
ChunkThrough ==
  ingest # Idle =>
    /\ ingest.start < ingest.next
    /\ ingest.pc = "loop" =>
         ingest.i < ingest.next \/ Len(ingest.payload.rows) < ingest.next
    /\ ingest.pc = "checkpoint" => ChunkEnd(ingest.i, ingest.payload) < ingest.next

HandledInv == BatchInv /\ ProgressNotAhead /\ WorkHandled /\ ChunkThrough

\* What the rows after start and before next have left behind.
RowsDone(p, start, next) ==
  \A n \in DOMAIN p.rows : start < n /\ n < next => <<p, n>> \in handled

DaysDone(p, start, next) ==
  \A k \in Keys, n \in DOMAIN p.rows :
    (/\ start < n /\ n < next
     /\ n \in RowsFor(p.rows, k)
     /\ \A m \in RowsFor(p.rows, k) : m < next => m <= n)
      => balances[k].availableDays = p.rows[n].days

LettersDone(p, start, next) ==
  \A n \in DOMAIN p.rows :
    start < n /\ n < next /\ ~Valid(p.rows[n]) => DeadLettered(p, n)

AttemptDone ==
  ingest # Idle =>
    /\ \A n \in DOMAIN ingest.payload.rows :
         n <= ingest.start => HandledAt(ingest.payload.jobId, n)
    /\ RowsDone(ingest.payload, ingest.start, ingest.next)
    /\ DaysDone(ingest.payload, ingest.start, ingest.next)
    /\ LettersDone(ingest.payload, ingest.start, ingest.next)

LettersTyped == deadLetters \in Seq(Jobs \X {p.checksum : p \in Payloads} \X Nat)

AccountInv == HandledInv /\ LettersTyped /\ AttemptDone

LEMMA HandledStays ==
  ASSUME handled \subseteq handled', NEW j, NEW n, HandledAt(j, n)
  PROVE  HandledAt(j, n)'
BY DEF HandledAt

LEMMA HandledBegin ==
  ASSUME HandledInv, BatchInv', NEW p \in Payloads, Begin(p)
  PROVE  HandledInv'
<1> DEFINE start == ProcessedSoFar(p.jobId)
           work == [pc |-> "loop", payload |-> p, start |-> start, i |-> start,
                    next |-> start + 1]
<1>1. /\ ingest' = work /\ start \in Nat /\ UNCHANGED handled
      /\ jobs'[p.jobId].processedRows = start
      /\ DOMAIN jobs' = DOMAIN jobs \union {p.jobId}
      /\ \A j \in DOMAIN jobs : j # p.jobId => jobs'[j] = jobs[j]
  BY DEF Begin, ProcessedSoFar, HandledInv, BatchInv, RowsTyped, JobRow
<1>2. \A n \in 1 .. start : HandledAt(p.jobId, n)
  BY DEF HandledInv, ProgressNotAhead, ProcessedSoFar
<1>3. ProgressNotAhead'
  BY <1>1, <1>2 DEF HandledInv, ProgressNotAhead, HandledAt
<1>4. WorkHandled' /\ ChunkThrough'
  BY <1>1, <1>2 DEF WorkHandled, ChunkThrough, HandledAt
<1> QED BY <1>3, <1>4 DEF HandledInv

\* The row at hand is one of the snapshot's, and the handler goes on to the
\* next one.
LEMMA RowHandled ==
  ASSUME BatchInv, RejectRow \/ ApplyRow
  PROVE  /\ ingest \in Work /\ ingest # Idle /\ ingest.pc = "loop"
         /\ ingest.payload \in Payloads /\ ingest.next \in DOMAIN ingest.payload.rows
         /\ ingest.next \in Nat /\ ingest.start \in Nat /\ ingest.i \in Nat
         /\ ingest'.next = ingest.next + 1 /\ ingest'.i = ingest.i
         /\ ingest'.payload = ingest.payload /\ ingest'.pc = ingest.pc
         /\ ingest'.start = ingest.start
         /\ handled' = handled \union {<<ingest.payload, ingest.next>>}
         /\ UNCHANGED jobs
<1>1. ingest.pc = "loop" /\ ingest.next <= ChunkEnd(ingest.i, ingest.payload)
  BY DEF RejectRow, ApplyRow, InChunk
<1>2. /\ ingest \in Work /\ ingest # Idle /\ ingest.payload \in Payloads
      /\ ingest.i \in Nat /\ ingest.next \in Nat /\ Progress \in Nat
  BY <1>1, Running
<1>3. /\ ingest' = [ingest EXCEPT !.next = ingest.next + 1] /\ UNCHANGED jobs
      /\ handled' = handled \union {<<ingest.payload, ingest.next>>}
  BY DEF RejectRow, ApplyRow, NextRow
<1>4. /\ ingest'.next = ingest.next + 1 /\ ingest'.i = ingest.i
      /\ ingest'.payload = ingest.payload /\ ingest'.pc = ingest.pc
      /\ ingest'.start = ingest.start /\ ingest.start \in Nat
  BY <1>2, <1>3 DEF Work
<1>5. Progress < ingest.next
  BY <1>2 DEF BatchInv, WorkInStep
<1>6. ingest.next \in DOMAIN ingest.payload.rows
  <2>1. /\ ChunkEnd(ingest.i, ingest.payload) \in Nat
        /\ ChunkEnd(ingest.i, ingest.payload) <= Len(ingest.payload.rows)
        /\ Len(ingest.payload.rows) \in Nat
    BY <1>2, ChunkEndBounds, PayloadFields
  <2>2. ingest.payload.rows \in Seq(BatchRow)
    BY <1>2, PayloadsAssumption
  <2>3. DOMAIN ingest.payload.rows = 1 .. Len(ingest.payload.rows)
    BY <2>2
  <2> QED BY <1>1, <1>2, <1>5, <2>1, <2>3
<1> QED BY <1>1, <1>2, <1>3, <1>4, <1>6

LEMMA HandledRow ==
  ASSUME HandledInv, BatchInv', RejectRow \/ ApplyRow
  PROVE  HandledInv'
<1>1. BatchInv
  BY DEF HandledInv
<1>2. /\ ingest # Idle /\ ingest.pc = "loop" /\ ingest.next \in Nat
      /\ ingest.payload \in Payloads /\ ingest.i \in Nat /\ ingest.start \in Nat
      /\ ingest'.next = ingest.next + 1 /\ ingest'.payload = ingest.payload
      /\ ingest'.i = ingest.i /\ ingest'.pc = ingest.pc /\ ingest'.start = ingest.start
      /\ handled' = handled \union {<<ingest.payload, ingest.next>>}
      /\ UNCHANGED jobs
  BY <1>1, RowHandled
<1>3. \A j : \A n : HandledAt(j, n) => HandledAt(j, n)'
  BY <1>2, HandledStays
<1>4. \A j : \A n : j = ingest.payload.jobId /\ n = ingest.next => HandledAt(j, n)'
  <2> SUFFICES ASSUME NEW j, NEW n, j = ingest.payload.jobId, n = ingest.next
               PROVE  \E h \in handled' : h[1].jobId = j /\ h[2] = n
    BY DEF HandledAt
  <2>1. <<ingest.payload, n>> \in handled'
    BY <1>2
  <2> QED BY <2>1
<1>5. ProgressNotAhead'
  BY <1>2, <1>3 DEF HandledInv, ProgressNotAhead
<1>6. WorkHandled'
  <2>1. ASSUME NEW n \in Nat, 1 <= n, n < ingest.next + 1, NEW j, j = ingest.payload.jobId
        PROVE  HandledAt(j, n)'
    <3>1. CASE n = ingest.next
      BY <1>4, <2>1, <3>1
    <3>2. CASE n < ingest.next
      <4>1. HandledAt(j, n)
        BY <1>2, <2>1, <3>2 DEF HandledInv, WorkHandled
      <4> QED BY <1>3, <4>1
    <3> QED BY <1>2, <2>1, <3>1, <3>2
  <2> QED BY <1>2, <2>1 DEF WorkHandled
<1>7. ChunkThrough'
  <2>1. Len(ingest.payload.rows) \in Nat
    BY <1>2, PayloadFields
  <2> QED BY <1>2, <2>1 DEF HandledInv, ChunkThrough
<1> QED BY <1>5, <1>6, <1>7 DEF HandledInv

LEMMA HandledSave ==
  ASSUME HandledInv, BatchInv', SaveProgress
  PROVE  HandledInv'
<1> DEFINE p == ingest.payload
           end == ChunkEnd(ingest.i, p)
<1>1. /\ ingest.pc = "loop" /\ ingest.next > end
      /\ jobs' = [jobs EXCEPT ![p.jobId].processedRows = end]
      /\ ingest' = [ingest EXCEPT !.pc = "checkpoint"]
      /\ UNCHANGED handled
  BY DEF SaveProgress
<1>2. /\ ingest \in Work /\ ingest # Idle /\ p \in Payloads /\ p.jobId \in DOMAIN jobs
      /\ ingest.i \in Nat /\ ingest.next \in Nat
  BY <1>1, Running DEF HandledInv
<1>3. end \in Nat
  BY <1>2, ChunkEndBounds
<1>4. /\ ingest'.next = ingest.next /\ ingest'.pc = "checkpoint" /\ ingest'.payload = p
      /\ ingest'.i = ingest.i /\ ingest'.start = ingest.start
  BY <1>1, <1>2 DEF Work
<1>5. /\ DOMAIN jobs' = DOMAIN jobs
      /\ jobs'[p.jobId].processedRows = end
      /\ \A j \in DOMAIN jobs : j # p.jobId => jobs'[j] = jobs[j]
  <2>1. jobs[p.jobId] \in JobRow /\ jobs \in [DOMAIN jobs -> JobRow]
    BY <1>2 DEF HandledInv, BatchInv, RowsTyped
  <2>2. jobs' = [jobs EXCEPT ![p.jobId] = [jobs[p.jobId] EXCEPT !.processedRows = end]]
    BY <1>1
  <2>3. [jobs[p.jobId] EXCEPT !.processedRows = end].processedRows = end
    BY <2>1 DEF JobRow
  <2> HIDE DEF end, p
  <2> QED BY <1>2, <2>1, <2>2, <2>3 DEF p
<1>6. \A n \in 1 .. end : HandledAt(p.jobId, n)
  <2> HIDE DEF end
  <2> QED BY <1>1, <1>2, <1>3 DEF HandledInv, WorkHandled
<1>7. ProgressNotAhead'
  <2> HIDE DEF end
  <2> QED BY <1>1, <1>5, <1>6 DEF HandledInv, ProgressNotAhead, HandledAt
<1>8. WorkHandled'
  BY <1>1, <1>2, <1>4 DEF HandledInv, WorkHandled, HandledAt
<1>9. ChunkThrough'
  BY <1>1, <1>2, <1>4 DEF HandledInv, ChunkThrough
<1> QED BY <1>7, <1>8, <1>9 DEF HandledInv

LEMMA CheckpointMoves ==
  ASSUME BatchInv, Checkpoint
  PROVE  /\ ingest \in Work /\ ingest # Idle /\ ingest.payload \in Payloads
         /\ ingest.pc = "checkpoint" /\ ingest'.pc = "loop"
         /\ ingest.i \in Nat /\ ingest.next \in Nat
         /\ ingest'.next = ingest.next /\ ingest'.payload = ingest.payload
         /\ ingest'.start = ingest.start /\ ingest'.i = ingest.i + ingest.payload.chunkSize
         /\ UNCHANGED <<balances, jobs, deadLetters, handled>>
<1> DEFINE i == ingest.i + ingest.payload.chunkSize
<1>1. /\ ingest.pc = "checkpoint"
      /\ ingest' = [ingest EXCEPT !.pc = "loop", !.i = i]
      /\ UNCHANGED <<balances, jobs, deadLetters, handled>>
  BY DEF Checkpoint
<1>2. /\ ingest \in Work /\ ingest # Idle /\ ingest.payload \in Payloads
      /\ ingest.i \in Nat /\ ingest.next \in Nat
  BY <1>1, Running
<1>3. /\ ingest'.next = ingest.next /\ ingest'.payload = ingest.payload
      /\ ingest'.start = ingest.start /\ ingest'.i = i /\ ingest'.pc = "loop"
  <2> HIDE DEF i
  <2> QED BY <1>1, <1>2 DEF Work
<1> QED BY <1>1, <1>2, <1>3

LEMMA HandledCheckpoint ==
  ASSUME HandledInv, BatchInv', Checkpoint
  PROVE  HandledInv'
<1> DEFINE p == ingest.payload
<1>1. /\ ingest # Idle /\ p \in Payloads /\ ingest.pc = "checkpoint" /\ ingest'.pc = "loop"
      /\ ingest.i \in Nat /\ ingest.next \in Nat
      /\ ingest'.next = ingest.next /\ ingest'.payload = p
      /\ ingest'.start = ingest.start /\ ingest'.i = ingest.i + p.chunkSize
      /\ UNCHANGED <<jobs, handled>>
  BY CheckpointMoves DEF HandledInv
<1>2. \A j : \A n : HandledAt(j, n) => HandledAt(j, n)'
  BY <1>1, HandledStays
<1>3. ProgressNotAhead'
  BY <1>1, <1>2 DEF HandledInv, ProgressNotAhead
<1>4. WorkHandled'
  BY <1>1, <1>2 DEF HandledInv, WorkHandled
<1>5. ChunkThrough'
  BY <1>1 DEF HandledInv, ChunkThrough, ChunkEnd
<1> QED BY <1>3, <1>4, <1>5 DEF HandledInv

LEMMA HandledLeave ==
  ASSUME HandledInv, BatchInv', Complete \/ Crash
  PROVE  HandledInv'
<1>1. ingest' = Idle /\ UNCHANGED handled
  BY DEF Complete, Crash
<1>2. DOMAIN jobs' = DOMAIN jobs
      /\ \A j \in DOMAIN jobs : jobs'[j].processedRows = jobs[j].processedRows
  <2>1. CASE Complete
    <3>1. ingest.payload.jobId \in DOMAIN jobs /\ jobs[ingest.payload.jobId] \in JobRow
      BY <2>1, Running DEF Complete, HandledInv, BatchInv, RowsTyped
    <3>2. jobs' = [jobs EXCEPT ![ingest.payload.jobId] =
                     [jobs[ingest.payload.jobId] EXCEPT !.status = "COMPLETED"]]
      BY <2>1 DEF Complete
    <3> QED BY <3>1, <3>2 DEF JobRow
  <2>2. CASE Crash
    BY <2>2 DEF Crash
  <2> QED BY <2>1, <2>2
<1>3. ProgressNotAhead'
  BY <1>1, <1>2 DEF HandledInv, ProgressNotAhead, HandledAt
<1> QED BY <1>1, <1>3 DEF HandledInv, WorkHandled, ChunkThrough

LEMMA HandledStep ==
  ASSUME HandledInv, BatchInv', [BatchNext]_bvars
  PROVE  HandledInv'
<1>1. CASE UNCHANGED bvars
  BY <1>1 DEF bvars, HandledInv, ProgressNotAhead, WorkHandled, ChunkThrough, HandledAt
<1> QED BY <1>1, HandledBegin, HandledRow, HandledSave, HandledCheckpoint, HandledLeave
        DEF BatchNext, Statement

LEMMA HandledInit == BatchInit => HandledInv
<1> SUFFICES ASSUME BatchInit PROVE HandledInv
  OBVIOUS
<1>1. ProgressNotAhead /\ WorkHandled /\ ChunkThrough
  BY DEF BatchInit, ProgressNotAhead, WorkHandled, ChunkThrough
<1> QED BY <1>1, BatchInvInit DEF HandledInv

\* processed_rows only counts positions at which a row of the job was handled,
\* wherever the process dies and whatever rows are posted next.
THEOREM ProgressIsSafe == BatchSpec => []ProgressNotAhead
<1>1. HandledInv /\ [BatchNext]_bvars => HandledInv'
  BY BatchInvStep, HandledStep DEF HandledInv
<1>2. HandledInv => ProgressNotAhead
  BY DEF HandledInv
<1> QED BY <1>1, <1>2, HandledInit, PTL DEF BatchSpec

-----------------------------------------------------------------------------
(* What a completed job has done *)

\* Steps after which the attempt's traces are the same.
LEMMA NothingUndone ==
  ASSUME AttemptDone, ingest # Idle, handled \subseteq handled',
         UNCHANGED <<balances, deadLetters>>,
         ingest'.payload = ingest.payload, ingest'.start = ingest.start,
         ingest'.next = ingest.next
  PROVE  AttemptDone'
BY DEF AttemptDone, RowsDone, DaysDone, LettersDone, HandledAt, DeadLettered

\* AttemptDone after a step, spelt out.
LEMMA AttemptNow ==
  ASSUME NEW p, NEW s, NEW t,
         ingest'.payload = p, ingest'.start = s, ingest'.next = t,
         \A n \in DOMAIN p.rows : n <= s =>
           \E h \in handled' : h[1].jobId = p.jobId /\ h[2] = n,
         \A n \in DOMAIN p.rows : s < n /\ n < t => <<p, n>> \in handled',
         \A k \in Keys, n \in DOMAIN p.rows :
           (/\ s < n /\ n < t /\ n \in RowsFor(p.rows, k)
            /\ \A m \in RowsFor(p.rows, k) : m < t => m <= n)
             => balances'[k].availableDays = p.rows[n].days,
         \A n \in DOMAIN p.rows :
           s < n /\ n < t /\ ~Valid(p.rows[n]) =>
             \E d \in DOMAIN deadLetters' : deadLetters'[d] = <<p.jobId, p.checksum, n>>
  PROVE  AttemptDone'
<1>1. \A n \in DOMAIN ingest'.payload.rows :
        n <= ingest'.start => \E h \in handled' : h[1].jobId = ingest'.payload.jobId /\ h[2] = n
  BY DEF HandledAt
<1>2. RowsDone(ingest.payload, ingest.start, ingest.next)'
  BY DEF RowsDone
<1>3. DaysDone(ingest.payload, ingest.start, ingest.next)'
  BY DEF DaysDone
<1>4. LettersDone(ingest.payload, ingest.start, ingest.next)'
  BY DEF LettersDone, DeadLettered
<1> QED BY <1>1, <1>2, <1>3, <1>4 DEF AttemptDone, HandledAt

LEMMA AccountBegin ==
  ASSUME AccountInv, NEW p \in Payloads, Begin(p)
  PROVE  AttemptDone'
<1> DEFINE start == ProcessedSoFar(p.jobId)
<1>1. /\ ingest'.payload = p /\ ingest'.start = start /\ ingest'.next = start + 1
      /\ start \in Nat /\ UNCHANGED handled
  BY DEF Begin, ProcessedSoFar, AccountInv, HandledInv, BatchInv, RowsTyped, JobRow
<1>2. \A n \in DOMAIN p.rows : n \in Nat /\ 1 <= n
  BY PayloadsAssumption
<1>3. \A n \in 1 .. start : HandledAt(p.jobId, n)
  BY DEF AccountInv, HandledInv, ProgressNotAhead, ProcessedSoFar
<1> HIDE DEF start
<1>4. ASSUME NEW n \in DOMAIN p.rows PROVE ~(start < n /\ n < start + 1)
  BY <1>1, <1>2
<1>5. \A n \in DOMAIN p.rows : n <= start =>
        \E h \in handled' : h[1].jobId = p.jobId /\ h[2] = n
  BY <1>1, <1>2, <1>3 DEF HandledAt
<1> QED BY <1>1, <1>4, <1>5, AttemptNow

LEMMA AccountReject ==
  ASSUME AccountInv, RejectRow
  PROVE  LettersTyped' /\ AttemptDone'
<1> DEFINE p == ingest.payload
           letter == <<p.jobId, p.checksum, ingest.next>>
<1>1. /\ ingest # Idle /\ p \in Payloads /\ ingest.next \in DOMAIN p.rows
      /\ ingest.next \in Nat /\ ingest'.next = ingest.next + 1
      /\ ingest'.payload = p /\ ingest'.start = ingest.start /\ ingest.start \in Nat
      /\ handled' = handled \union {<<p, ingest.next>>}
  BY RowHandled DEF AccountInv, HandledInv
<1>2. /\ ~Valid(p.rows[ingest.next]) /\ deadLetters' = Append(deadLetters, letter)
      /\ balances' = balances
  BY DEF RejectRow, Row
<1>3. letter \in Jobs \X {q.checksum : q \in Payloads} \X Nat
  BY <1>1, PayloadsAssumption
<1>4. /\ LettersTyped'
      /\ \A d \in DOMAIN deadLetters : d \in DOMAIN deadLetters'
                                       /\ deadLetters'[d] = deadLetters[d]
      /\ \E d \in DOMAIN deadLetters' : deadLetters'[d] = letter
  <2> HIDE DEF letter
  <2>1. /\ deadLetters' \in Seq(Jobs \X {q.checksum : q \in Payloads} \X Nat)
        /\ Len(deadLetters') = Len(deadLetters) + 1 /\ Len(deadLetters) \in Nat
        /\ DOMAIN deadLetters = 1 .. Len(deadLetters)
        /\ DOMAIN deadLetters' = 1 .. Len(deadLetters) + 1
        /\ deadLetters'[Len(deadLetters) + 1] = letter
        /\ \A d \in DOMAIN deadLetters : deadLetters'[d] = deadLetters[d]
    BY <1>2, <1>3 DEF AccountInv, LettersTyped
  <2> QED BY <2>1 DEF LettersTyped
<1>5. /\ \A n \in DOMAIN p.rows : n <= ingest.start => HandledAt(p.jobId, n)
      /\ RowsDone(p, ingest.start, ingest.next)
      /\ DaysDone(p, ingest.start, ingest.next)
      /\ LettersDone(p, ingest.start, ingest.next)
  BY <1>1 DEF AccountInv, AttemptDone
<1>6. \A n \in DOMAIN p.rows : n \in Nat
  BY <1>1, PayloadsAssumption
<1>7. \A n \in DOMAIN p.rows : n < ingest.next + 1 => n < ingest.next \/ n = ingest.next
  BY <1>1, <1>6
<1>8. ASSUME NEW n \in DOMAIN p.rows, ingest.start < n, n < ingest.next + 1
      PROVE  <<p, n>> \in handled'
  BY <1>1, <1>5, <1>7, <1>8 DEF RowsDone
<1>9. ASSUME NEW k \in Keys, NEW n \in DOMAIN p.rows, ingest.start < n, n < ingest.next + 1,
             n \in RowsFor(p.rows, k),
             \A m \in RowsFor(p.rows, k) : m < ingest.next + 1 => m <= n
      PROVE  balances[k].availableDays = p.rows[n].days
  <2>1. n # ingest.next
    BY <1>2, <1>9 DEF RowsFor
  <2>2. \A m \in RowsFor(p.rows, k) : m < ingest.next => m <= n
    BY <1>1, <1>6, <1>9 DEF RowsFor
  <2> QED BY <1>5, <1>7, <1>9, <2>1, <2>2 DEF DaysDone
<1>10. ASSUME NEW n \in DOMAIN p.rows, ingest.start < n, n < ingest.next + 1, ~Valid(p.rows[n])
       PROVE  \E d \in DOMAIN deadLetters' : deadLetters'[d] = <<p.jobId, p.checksum, n>>
  <2>1. CASE n = ingest.next
    BY <1>4, <2>1
  <2>2. CASE n < ingest.next
    BY <1>4, <1>5, <1>10, <2>2 DEF LettersDone, DeadLettered
  <2> QED BY <1>7, <1>10, <2>1, <2>2
<1>11. AttemptDone'
  <2>1. \A n \in DOMAIN p.rows : n <= ingest.start =>
          \E h \in handled' : h[1].jobId = p.jobId /\ h[2] = n
    BY <1>1, <1>5 DEF HandledAt
  <2> HIDE DEF letter
  <2>2. \A k \in Keys, n \in DOMAIN p.rows :
          (/\ ingest.start < n /\ n < ingest.next + 1 /\ n \in RowsFor(p.rows, k)
           /\ \A m \in RowsFor(p.rows, k) : m < ingest.next + 1 => m <= n)
            => balances'[k].availableDays = p.rows[n].days
    BY <1>2, <1>9
  <2> HIDE DEF p
  <2> QED BY <1>1, <1>8, <1>10, <2>1, <2>2, AttemptNow
<1> QED BY <1>4, <1>11

LEMMA AccountApply ==
  ASSUME AccountInv, ApplyRow
  PROVE  AttemptDone'
<1> DEFINE p == ingest.payload
<1>1. /\ ingest # Idle /\ p \in Payloads /\ ingest.next \in DOMAIN p.rows
      /\ ingest.next \in Nat /\ ingest'.next = ingest.next + 1
      /\ ingest'.payload = p /\ ingest'.start = ingest.start /\ ingest.start \in Nat
      /\ handled' = handled \union {<<p, ingest.next>>}
  BY RowHandled DEF AccountInv, HandledInv
<1>2. /\ Valid(Row) /\ Row = p.rows[ingest.next] /\ deadLetters' = deadLetters
  BY DEF ApplyRow, Row
<1>3. balances \in [Keys -> BalanceRow] /\ Row.key \in Keys
  <2>1. p.rows[ingest.next] \in BatchRow
    BY <1>1, PayloadsAssumption
  <2> QED BY <1>2, <2>1 DEF BatchRow, AccountInv, HandledInv, BatchInv, RowsTyped
<1>4. /\ balances'[Row.key].availableDays = Row.days
      /\ \A k \in Keys : k # Row.key => balances'[k] = balances[k]
  BY <1>3 DEF ApplyRow, upsertAbsolute
<1>5. /\ \A n \in DOMAIN p.rows : n <= ingest.start => HandledAt(p.jobId, n)
      /\ RowsDone(p, ingest.start, ingest.next)
      /\ DaysDone(p, ingest.start, ingest.next)
      /\ LettersDone(p, ingest.start, ingest.next)
  BY <1>1 DEF AccountInv, AttemptDone
<1>6. \A n \in DOMAIN p.rows : n \in Nat
  BY <1>1, PayloadsAssumption
<1>7. \A n \in DOMAIN p.rows : n < ingest.next + 1 => n < ingest.next \/ n = ingest.next
  BY <1>1, <1>6
<1>8. ASSUME NEW n \in DOMAIN p.rows, ingest.start < n, n < ingest.next + 1
      PROVE  <<p, n>> \in handled'
  BY <1>1, <1>5, <1>7, <1>8 DEF RowsDone
<1>9. ASSUME NEW k \in Keys, NEW n \in DOMAIN p.rows, ingest.start < n, n < ingest.next + 1,
             n \in RowsFor(p.rows, k),
             \A m \in RowsFor(p.rows, k) : m < ingest.next + 1 => m <= n
      PROVE  balances'[k].availableDays = p.rows[n].days
  <2>1. CASE n = ingest.next
    BY <1>2, <1>4, <1>9, <2>1 DEF RowsFor
  <2>2. CASE n < ingest.next
    <3>1. k # Row.key
      <4>1. SUFFICES ASSUME k = Row.key PROVE FALSE
        OBVIOUS
      <4>2. ingest.next \in RowsFor(p.rows, k)
        BY <1>1, <1>2, <4>1 DEF RowsFor
      <4>3. ingest.next <= n
        BY <1>1, <1>9, <4>2
      <4> QED BY <1>1, <1>6, <2>2, <4>3
    <3>2. \A m \in RowsFor(p.rows, k) : m < ingest.next => m <= n
      BY <1>1, <1>6, <1>9 DEF RowsFor
    <3>3. balances[k].availableDays = p.rows[n].days
      BY <1>5, <1>9, <2>2, <3>2 DEF DaysDone
    <3> QED BY <1>4, <3>1, <3>3
  <2> QED BY <1>7, <1>9, <2>1, <2>2
<1>10. ASSUME NEW n \in DOMAIN p.rows, ingest.start < n, n < ingest.next + 1, ~Valid(p.rows[n])
       PROVE  \E d \in DOMAIN deadLetters : deadLetters[d] = <<p.jobId, p.checksum, n>>
  <2>1. n # ingest.next
    BY <1>2, <1>10
  <2> QED BY <1>5, <1>7, <1>10, <2>1 DEF LettersDone, DeadLettered
<1>11. \A n \in DOMAIN p.rows : n <= ingest.start =>
         \E h \in handled' : h[1].jobId = p.jobId /\ h[2] = n
  BY <1>1, <1>5 DEF HandledAt
<1> HIDE DEF p
<1> QED BY <1>1, <1>2, <1>8, <1>9, <1>10, <1>11, AttemptNow

LEMMA AccountStep ==
  ASSUME AccountInv, HandledInv', [BatchNext]_bvars
  PROVE  AccountInv'
<1>1. CASE UNCHANGED bvars
  BY <1>1 DEF bvars, AccountInv, LettersTyped, AttemptDone, RowsDone, DaysDone, LettersDone,
              HandledAt, DeadLettered
<1>2. CASE \E p \in Payloads : Begin(p)
  BY <1>2, AccountBegin DEF AccountInv, LettersTyped, Begin
<1>3. CASE RejectRow
  BY <1>3, AccountReject DEF AccountInv
<1>4. CASE ApplyRow
  BY <1>4, AccountApply DEF AccountInv, LettersTyped, ApplyRow
<1>5. CASE SaveProgress
  <2>1. /\ ingest.pc = "loop" /\ ingest' = [ingest EXCEPT !.pc = "checkpoint"]
        /\ UNCHANGED <<balances, deadLetters, handled>>
    BY <1>5 DEF SaveProgress
  <2>2. ingest \in Work /\ ingest # Idle
    BY <2>1, Running DEF AccountInv, HandledInv
  <2>3. /\ ingest'.payload = ingest.payload /\ ingest'.start = ingest.start
        /\ ingest'.next = ingest.next
    BY <2>1, <2>2 DEF Work
  <2> QED BY <2>1, <2>2, <2>3, NothingUndone DEF AccountInv, LettersTyped
<1>6. CASE Checkpoint
  BY <1>6, CheckpointMoves, NothingUndone DEF AccountInv, HandledInv, LettersTyped
<1>7. CASE Complete \/ Crash
  BY <1>7 DEF Complete, Crash, AccountInv, LettersTyped, AttemptDone
<1> QED BY <1>1, <1>2, <1>3, <1>4, <1>5, <1>6, <1>7 DEF BatchNext, Statement

LEMMA AccountInit == BatchInit => AccountInv
BY HandledInit DEF BatchInit, AccountInv, LettersTyped, AttemptDone

\* A handler that answers is through with every chunk.
LEMMA CompletedAccounted ==
  ASSUME AccountInv, Complete
  PROVE  JobAccounted(ingest.payload, ingest.start)
<1> DEFINE p == ingest.payload
<1>1. ingest.pc = "loop" /\ ingest.i >= Len(p.rows)
  BY DEF Complete
<1>2. /\ ingest # Idle /\ p \in Payloads /\ ingest \in Work
      /\ ingest.i \in Nat /\ ingest.next \in Nat
  BY <1>1, Running DEF AccountInv, HandledInv
<1>3. ingest.start \in Nat /\ Len(p.rows) \in Nat
  BY <1>2, PayloadFields DEF Work
<1>4. Len(p.rows) < ingest.next
  BY <1>1, <1>2, <1>3 DEF AccountInv, HandledInv, ChunkThrough
<1>5. \A n \in DOMAIN p.rows : n \in Nat /\ n < ingest.next
  <2>1. p.rows \in Seq(BatchRow)
    BY <1>2, PayloadsAssumption
  <2> QED BY <1>2, <1>3, <1>4, <2>1
<1>6. /\ \A n \in DOMAIN p.rows : n <= ingest.start => HandledAt(p.jobId, n)
      /\ RowsDone(p, ingest.start, ingest.next)
      /\ DaysDone(p, ingest.start, ingest.next)
      /\ LettersDone(p, ingest.start, ingest.next)
  BY <1>2 DEF AccountInv, AttemptDone
<1>7. \A n \in DOMAIN p.rows :
        IF n > ingest.start THEN <<p, n>> \in handled ELSE HandledAt(p.jobId, n)
  BY <1>3, <1>5, <1>6 DEF RowsDone
<1>8. \A k \in Keys, n \in DOMAIN p.rows :
        n > ingest.start /\ IsLast(n, RowsFor(p.rows, k))
          => balances[k].availableDays = p.rows[n].days
  BY <1>3, <1>5, <1>6 DEF DaysDone, IsLast
<1>9. \A n \in DOMAIN p.rows :
        n > ingest.start /\ ~Valid(p.rows[n]) => DeadLettered(p, n)
  BY <1>3, <1>5, <1>6 DEF LettersDone
<1> QED BY <1>7, <1>8, <1>9 DEF JobAccounted

\* A completed job has handled every row of its snapshot from where it started,
\* with the last valid days of each key as its balance and every invalid row in
\* dead_letters, and every row before that was handled by an earlier post: for
\* snapshots of any content and chunk size, posted in any order, and crashes
\* anywhere.
THEOREM NoRowIsLost == BatchSpec => RowsAccounted
<1>1. AccountInv /\ [BatchNext]_bvars => AccountInv'
  BY BatchInvStep, HandledStep, AccountStep DEF AccountInv, HandledInv
<1>2. AccountInv => [Complete => JobAccounted(ingest.payload, ingest.start)]_bvars
  BY CompletedAccounted
<1> QED BY <1>1, <1>2, AccountInit, PTL DEF BatchSpec, RowsAccounted
=============================================================================
