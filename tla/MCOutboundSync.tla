--------------------------- MODULE MCOutboundSync ---------------------------
(* Small instances of the outbound worker, one per cfg file. *)
EXTENDS OutboundSync, TLC

CONSTANTS r1, r2, r3, k1, k2, w1, w2

\* Three days under k1: two requests of 1 and 2 days fit, two of 2 do not.
MCImported == (k1 :> 3) @@ (k2 :> 0)
OneKey == k1 :> 2

MCSymmetry == Permutations(Requests)
=============================================================================
