--------------------------- MODULE MCRealtimeSync ---------------------------
(* Small instances of the realtime updates. *)
EXTENDS RealtimeSync

CONSTANTS r1, r2, k1, k2, u1, u2, u3, u4, u5

MCImported == (k1 :> 2) @@ (k2 :> 0)

\* A correction, a bonus and a deduction for k1, and a deduction for k2, which
\* has no row.  u5 is u2 with its members in another order: the service takes
\* it for new.
MCPayload ==
  (u1 :> [key |-> k1, updateType |-> "ABSOLUTE", days |-> 1]) @@
  (u2 :> [key |-> k1, updateType |-> "DELTA", days |-> 2]) @@
  (u3 :> [key |-> k1, updateType |-> "DELTA", days |-> -2]) @@
  (u4 :> [key |-> k2, updateType |-> "DELTA", days |-> -1]) @@
  (u5 :> [key |-> k1, updateType |-> "DELTA", days |-> 2])

MCSymmetry == Permutations(Requests)
=============================================================================
