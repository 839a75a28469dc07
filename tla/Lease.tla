------------------------------- MODULE Lease --------------------------------
(***************************************************************************)
(* What the election promises about the record of the leader: whoever holds*)
(* it keeps it until LeaseDuration has passed without a renewal.  There are*)
(* no requests, no local clocks and no copies here.                        *)
(***************************************************************************)
EXTENDS Integers

CONSTANTS Replicas, NoOne, LeaseDuration

VARIABLES
  holder,   \* who holds the lease
  idle      \* ticks since it was taken or renewed, LeaseDuration at most

leaseVars == <<holder, idle>>

Init == holder = NoOne /\ idle = LeaseDuration

Renew ==
  /\ holder # NoOne
  /\ idle' = 0
  /\ UNCHANGED holder

Take(r) ==
  /\ holder = NoOne \/ idle = LeaseDuration
  /\ holder' = r
  /\ idle' = 0

Pass ==
  /\ idle < LeaseDuration
  /\ idle' = idle + 1
  /\ UNCHANGED holder

Next == Renew \/ Pass \/ \E r \in Replicas : Take(r)

Spec == Init /\ [][Next]_leaseVars
=============================================================================
