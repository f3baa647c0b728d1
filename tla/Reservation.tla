---------------------------- MODULE Reservation ----------------------------
(***************************************************************************)
(* What the service promises about an approved request, without outbox,    *)
(* worker or retries: the days are taken from the local balance when the   *)
(* request is approved, and then either HCM is charged for them exactly    *)
(* once or they go back to the local balance exactly once, never both.     *)
(*                                                                         *)
(* This is the abstract specification; OutboundSync with a single worker   *)
(* run and answers that can be trusted implements it.                      *)
(***************************************************************************)
EXTENDS Integers

CONSTANTS Keys, Requests, DayInputs, Imported

VARIABLES
  avail,    \* days left locally, per key
  charged,  \* days left at HCM, per key
  held      \* reservations so far: id -> [key, days, state], with state one of
            \* HELD, CHARGED and RETURNED

rvars == <<avail, charged, held>>

RInit ==
  /\ avail = Imported
  /\ charged = Imported
  /\ held = [r \in {} |-> "HELD"]

\* An approval: the days must be there.
Reserve(r, k, d) ==
  /\ r \notin DOMAIN held
  /\ d > 0
  /\ avail[k] >= d
  /\ avail' = [avail EXCEPT ![k] = @ - d]
  /\ held' = [x \in DOMAIN held \union {r} |->
                IF x = r THEN [key |-> k, days |-> d, state |-> "HELD"]
                         ELSE held[x]]
  /\ UNCHANGED charged

\* HCM consumes the days of a held reservation.
Charge(r) ==
  /\ r \in DOMAIN held
  /\ held[r].state = "HELD"
  /\ charged' = [charged EXCEPT ![held[r].key] = @ - held[r].days]
  /\ held' = [held EXCEPT ![r].state = "CHARGED"]
  /\ UNCHANGED avail

\* The compensation: a held reservation is given back.
Return(r) ==
  /\ r \in DOMAIN held
  /\ held[r].state = "HELD"
  /\ avail' = [avail EXCEPT ![held[r].key] = @ + held[r].days]
  /\ held' = [held EXCEPT ![r].state = "RETURNED"]
  /\ UNCHANGED charged

RNext ==
  \E r \in Requests :
    \/ \E k \in Keys, d \in DayInputs : Reserve(r, k, d)
    \/ Charge(r)
    \/ Return(r)

RSpec == RInit /\ [][RNext]_rvars
============================================================================
