----------------------------- MODULE BatchSync -----------------------------
(***************************************************************************)
(* BatchSyncService.ingestBatch: HCM posts a snapshot of all balances as   *)
(* one job; the rows are applied in chunks and the job's row remembers how *)
(* far it came (processed_rows), so that a later submission can resume.    *)
(*                                                                         *)
(* The handler awaits nothing: while it runs no other handler does.  But   *)
(* every statement commits by itself and the process can die between any   *)
(* two of them, so the handler is modelled statement by statement, with    *)
(* "ingest" as its local state.  HCM may post any payload at any time,     *)
(* again after a crash in particular.                                      *)
(***************************************************************************)
EXTENDS TimeOffDomain, Sequences, FiniteSets

CONSTANTS
  Keys,
  Jobs,        \* job ids
  Payloads,    \* what HCM posts: [jobId, checksum, rows, chunkSize]
  MaxCrashes   \* bound on the number of crashes explored

\* A row [key, days]; days below zero stands for every row that is rejected
\* (no employee, no location, days not a finite number, negative days).
BatchRow == [key : Keys, days : Int]

ASSUME PayloadsAssumption ==
  \A p \in Payloads : /\ p.jobId \in Jobs
                      /\ p.rows \in Seq(BatchRow)
                      /\ p.chunkSize \in Nat \ {0}
ASSUME BatchCrashesAssumption == MaxCrashes \in Nat

VARIABLES
  balances,     \* key -> row
  jobs,         \* batch_jobs: jobId -> [checksum, status, processedRows]
  deadLetters,  \* dead_letters: <<jobId, checksum, row index>>, in order
  checkpoints,  \* batch_checkpoints, in order
  ingest,       \* the running handler, or Idle
  handled,      \* history: the rows handled so far, <<payload, row index>>
  crashes

bvars == <<balances, jobs, deadLetters, checkpoints, ingest, handled, crashes>>

\* A row of batch_checkpoints.  checkpoint_index is from / chunkSize, kept as
\* its two numbers; with a larger chunk size it can go backwards.
CheckpointRow(p, i, end) ==
  [jobId |-> p.jobId, from |-> i, chunkSize |-> p.chunkSize, processedRows |-> end]

\* pc: next statement.  i: the loop's i; next: index of the next row to
\* handle, counted from 1; start: startAt.
Idle == [pc |-> "idle"]

JobStatus == {"RUNNING", "COMPLETED"}

\* A plausible slip: the last row of a chunk is left out.
ChunkEndShort(i, p) == IF i + p.chunkSize <= Len(p.rows) THEN i + p.chunkSize - 1
                                                         ELSE Len(p.rows)
\* Math.min(i + chunkSize, payload.balances.length): rows up to here belong to
\* the chunk that starts at i.
ChunkEnd(i, p) == IF i + p.chunkSize <= Len(p.rows) THEN i + p.chunkSize
                                                    ELSE Len(p.rows)

\* A slip: off by one.
AcceptsNegative(row) == row.days >= -1

Valid(row) == row.days >= 0

----------------------------------------------------------------------------
BatchInit ==
  /\ balances = [k \in Keys |-> NoBalance]
  /\ jobs = [j \in {} |-> Idle]
  /\ deadLetters = << >>
  /\ checkpoints = << >>
  /\ ingest = Idle
  /\ handled = {}
  /\ crashes = 0


\* existingJob.checksum === payload.checksum: answered as deduped.
Deduped(p) == p.jobId \in DOMAIN jobs /\ jobs[p.jobId].checksum = p.checksum

\* A slip: progress is forgotten.
StartsOver(j) == 0

\* COALESCE((SELECT processed_rows FROM batch_jobs WHERE job_id = ?), 0)
ProcessedSoFar(j) == IF j \in DOMAIN jobs THEN jobs[j].processedRows ELSE 0

\* POST /sync/hcm/batch/balances up to INSERT OR REPLACE and startAt.  A post
\* without jobId or checksum throws before any statement, so it is no payload.
Begin(p) ==
  LET start == ProcessedSoFar(p.jobId) IN
  /\ ingest = Idle
  /\ ~Deduped(p)
  /\ jobs' = [j \in DOMAIN jobs \union {p.jobId} |->
                IF j = p.jobId
                  THEN [checksum |-> p.checksum, status |-> "RUNNING",
                        processedRows |-> start]
                  ELSE jobs[j]]
  /\ ingest' = [pc |-> "loop", payload |-> p, start |-> start, i |-> start,
                next |-> start + 1]
  /\ UNCHANGED <<balances, deadLetters, checkpoints, handled, crashes>>

InChunk ==
  /\ ingest.pc = "loop"
  /\ ingest.i < Len(ingest.payload.rows)
  /\ ingest.next <= ChunkEnd(ingest.i, ingest.payload)

Row == ingest.payload.rows[ingest.next]

NextRow ==
  /\ ingest' = [ingest EXCEPT !.next = @ + 1]
  /\ handled' = handled \union {<<ingest.payload, ingest.next>>}

\* An invalid row goes to dead_letters.
RejectRow ==
  /\ InChunk
  /\ ~Valid(Row)
  /\ deadLetters' = Append(deadLetters, <<ingest.payload.jobId,
                                          ingest.payload.checksum, ingest.next>>)
  /\ NextRow
  /\ UNCHANGED <<balances, jobs, checkpoints, crashes>>

\* A new key, or one whose days differ, is overwritten.
ApplyRow ==
  /\ InChunk
  /\ Valid(Row)
  /\ balances' =
       IF ~HasRow(balances[Row.key]) \/ balances[Row.key].availableDays # Row.days
         THEN [balances EXCEPT ![Row.key] = upsertAbsolute(@, Row.days)]
         ELSE balances
  /\ NextRow
  /\ UNCHANGED <<jobs, deadLetters, checkpoints, crashes>>

\* A slip: progress is saved before the last row of the chunk.
SaveProgressEarly ==
  LET p == ingest.payload
      end == ChunkEnd(ingest.i, p) IN
  /\ ingest.pc = "loop"
  /\ ingest.i < Len(p.rows)
  /\ ingest.next >= end
  /\ jobs' = [jobs EXCEPT ![p.jobId].processedRows = end]
  /\ ingest' = [ingest EXCEPT !.pc = IF ingest.next > end THEN "checkpoint" ELSE @]
  /\ UNCHANGED <<balances, deadLetters, checkpoints, handled, crashes>>

\* UPDATE batch_jobs SET processed_rows, once the chunk is through.
SaveProgress ==
  LET p == ingest.payload
      end == ChunkEnd(ingest.i, p) IN
  /\ ingest.pc = "loop"
  /\ ingest.i < Len(p.rows)
  /\ ingest.next > end
  /\ jobs' = [jobs EXCEPT ![p.jobId].processedRows = end]
  /\ ingest' = [ingest EXCEPT !.pc = "checkpoint"]
  /\ UNCHANGED <<balances, deadLetters, checkpoints, handled, crashes>>

\* INSERT INTO batch_checkpoints; i += chunkSize.
Checkpoint ==
  LET p == ingest.payload IN
  /\ ingest.pc = "checkpoint"
  /\ checkpoints' = Append(checkpoints,
                           CheckpointRow(p, ingest.i, ChunkEnd(ingest.i, p)))
  /\ ingest' = [ingest EXCEPT !.pc = "loop", !.i = @ + p.chunkSize]
  /\ UNCHANGED <<balances, jobs, deadLetters, handled, crashes>>

\* UPDATE batch_jobs SET status = 'COMPLETED'; the answer is sent.
Complete ==
  /\ ingest.pc = "loop"
  /\ ingest.i >= Len(ingest.payload.rows)
  /\ jobs' = [jobs EXCEPT ![ingest.payload.jobId].status = "COMPLETED"]
  /\ ingest' = Idle
  /\ UNCHANGED <<balances, deadLetters, checkpoints, handled, crashes>>

\* The process dies between two statements.
Crash ==
  /\ ingest # Idle
  /\ crashes < MaxCrashes
  /\ crashes' = crashes + 1
  /\ ingest' = Idle
  /\ UNCHANGED <<balances, jobs, deadLetters, checkpoints, handled>>

Statement == RejectRow \/ ApplyRow \/ SaveProgress \/ Checkpoint \/ Complete

BatchNext == (\E p \in Payloads : Begin(p)) \/ Statement \/ Crash

BatchSpec == BatchInit /\ [][BatchNext]_bvars

\* The handler runs on, and HCM keeps posting every payload: a post that
\* arrives while the event loop is busy waits for its turn, so one that is
\* accepted again and again is served (strong fairness).
BatchFairSpec ==
  BatchSpec /\ WF_bvars(Statement) /\ \A p \in Payloads : SF_bvars(Begin(p))

----------------------------------------------------------------------------
(* Properties *)

\* Types; an ingested snapshot never leaves a negative balance.
BatchTypeOK ==
  /\ balances \in [Keys -> BalanceRow]
  /\ DOMAIN jobs \subseteq Jobs
  /\ \A j \in DOMAIN jobs : /\ jobs[j].status \in JobStatus
                            /\ jobs[j].processedRows \in Nat
  /\ ingest = Idle \/ /\ ingest.pc \in {"loop", "checkpoint"}
                      /\ ingest.payload \in Payloads
                      /\ ingest.payload.jobId \in DOMAIN jobs
  /\ crashes \in 0 .. MaxCrashes

\* Some post of the job had its row n handled.
HandledAt(j, n) == \E h \in handled : h[1].jobId = j /\ h[2] = n

\* Wherever the process dies and whatever is posted next, processed_rows only
\* counts positions at which a row of the job was handled, so a resumed job
\* redoes a chunk rather than skipping rows nobody handled.
ProgressNotAhead ==
  \A j \in DOMAIN jobs : \A n \in 1 .. jobs[j].processedRows : HandledAt(j, n)

\* The valid rows of a snapshot for one key; the last one wins.
RowsFor(rows, k) ==
  {n \in DOMAIN rows : rows[n].key = k /\ Valid(rows[n])}

IsLast(n, S) == n \in S /\ \A m \in S : m <= n

DeadLettered(p, n) ==
  \E d \in DOMAIN deadLetters : deadLetters[d] = <<p.jobId, p.checksum, n>>

\* What a completed job has done, for snapshots of any content, posted in any
\* order and resumed after any crash.  Every row from startAt on was handled
\* by this post: the last valid row of a key is the balance, an invalid row is
\* in dead_letters.  Every row before startAt was handled by an earlier post
\* of the job, with the content that post had.
JobAccounted(p, start) ==
  /\ \A n \in DOMAIN p.rows :
       IF n > start THEN <<p, n>> \in handled ELSE HandledAt(p.jobId, n)
  /\ \A k \in Keys, n \in DOMAIN p.rows :
       n > start /\ IsLast(n, RowsFor(p.rows, k)) => balances[k].availableDays = p.rows[n].days
  /\ \A n \in DOMAIN p.rows : n > start /\ ~Valid(p.rows[n]) => DeadLettered(p, n)

RowsAccounted == [][Complete => JobAccounted(ingest.payload, ingest.start)]_bvars

\* docs/trd/00: "Batch import reconciles full corpus without data loss".  When
\* a job completes, every key of its snapshot has the snapshot's days and
\* every invalid row is in dead_letters, even if the job was resumed.
CorpusCovered ==
  [][Complete =>
       LET p == ingest.payload IN
       /\ \A k \in Keys, n \in DOMAIN p.rows :
            IsLast(n, RowsFor(p.rows, k)) => balances[k].availableDays = p.rows[n].days
       /\ \A n \in DOMAIN p.rows : ~Valid(p.rows[n]) => DeadLettered(p, n)]_bvars

\* The checkpoints of a job describe chunks that follow each other without
\* overlap, across crashes, resubmissions and other chunk sizes.
CheckpointsAdvance ==
  \A a, b \in DOMAIN checkpoints :
    /\ checkpoints[a].from < checkpoints[a].processedRows
    /\ (a < b /\ checkpoints[a].jobId = checkpoints[b].jobId)
         => checkpoints[a].processedRows <= checkpoints[b].from

============================================================================
