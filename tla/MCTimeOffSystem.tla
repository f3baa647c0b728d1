-------------------------- MODULE MCTimeOffSystem --------------------------
(* Small instances of the whole service. *)
EXTENDS TimeOffSystem, TLC

CONSTANTS r1, r2, k1, w1, c1, u1, j1

ThreeDays == k1 :> 3

\* HCM's update and its snapshot are from before anything was consumed, or
\* from after an adjustment: they fit no other state of HCM.
LateUpdate == u1 :> [key |-> k1, updateType |-> "ABSOLUTE", days |-> 2]
LateSnapshot == {[jobId |-> j1, checksum |-> "a", chunkSize |-> 1,
                  rows |-> <<[key |-> k1, days |-> 3]>>]}
NoUpdate == [u \in {} |-> u1]
============================================================================
