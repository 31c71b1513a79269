-------------------------------- MODULE Lease --------------------------------
(***************************************************************************)
(* What a locker promises about one key: the members recorded in the       *)
(* backend succeed one another, nobody takes a lease that is still fresh,  *)
(* and a fresh lease ends only because a member that is unlocking released *)
(* it: its holder, where the backend checks who releases (fenced).         *)
(***************************************************************************)
CONSTANTS Members, Nobody

VARIABLES holder,    \* the member the backend records, or Nobody
          fresh,     \* its lease has not expired
          fenced,    \* the backend checks who releases
          unlocking  \* members that called Unlock or Stop

vars == <<holder, fresh, fenced, unlocking>>

Init == holder = Nobody /\ fresh = FALSE /\ unlocking = {} /\ fenced \in BOOLEAN

Acquire(m) == (holder = Nobody \/ ~fresh) /\ holder' = m /\ fresh' = TRUE
Renew(m) == holder = m /\ fresh' = TRUE /\ UNCHANGED holder
Lapse == fresh' = FALSE /\ UNCHANGED holder
Release(m) == (holder = m \/ ~fenced) /\ m \in unlocking /\ holder' = Nobody /\ fresh' = FALSE

Next ==
  /\ UNCHANGED fenced
  /\ unlocking' \in SUBSET Members
  /\ \/ \E m \in Members : Acquire(m) \/ Renew(m) \/ Release(m)
     \/ Lapse
     \/ UNCHANGED <<holder, fresh>>

Spec == Init /\ [][Next]_vars
=============================================================================
