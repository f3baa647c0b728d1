-------------------------- MODULE MCOutboundCrash --------------------------
(* Small instances of the outbound worker with crashes. *)
EXTENDS OutboundCrash, TLC

CONSTANTS r1, r2, k1, w1

TwoDays == k1 :> 2
============================================================================
