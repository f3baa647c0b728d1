---------------------------- MODULE MCBatchSync ----------------------------
(* Small instances of the batch ingestion. *)
EXTENDS BatchSync

CONSTANTS k1, k2, k3, j1, j2

\* k1 twice (the last row wins), a row that is rejected, two chunks of two.
Rows == << [key |-> k1, days |-> 1], [key |-> k2, days |-> -1],
           [key |-> k2, days |-> 2], [key |-> k1, days |-> 3] >>

Post(j, c, rows, size) ==
  [jobId |-> j, checksum |-> c, rows |-> rows, chunkSize |-> size]

\* A corrected snapshot of j1 with another length, and one of j2 that carries
\* a key of j1.
Corrected == << [key |-> k1, days |-> 2], [key |-> k2, days |-> 1],
                [key |-> k2, days |-> -1], [key |-> k2, days |-> 1],
                [key |-> k3, days |-> 1] >>
Other == << [key |-> k1, days |-> 2] >>

ResumablePayloads ==
  { Post(j1, "c1", Rows, 2), Post(j1, "c2", Corrected, 3),
    Post(j2, "c1", Other, 1), Post(j2, "c2", << >>, 1) }

\* The process dies in a job, and HCM posts the job again with the days of
\* that moment.
OldRows == << [key |-> k1, days |-> 1], [key |-> k2, days |-> 1], [key |-> k3, days |-> 1] >>
NewRows == << [key |-> k1, days |-> 2], [key |-> k2, days |-> 2], [key |-> k3, days |-> 2] >>
ChangedPayloads == { Post(j1, "c1", OldRows, 1), Post(j1, "c2", NewRows, 2) }
============================================================================
