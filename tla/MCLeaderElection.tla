------------------------- MODULE MCLeaderElection ---------------------------
(***************************************************************************)
(* Constants of the runs of LeaderElection.                                *)
(***************************************************************************)
EXTENDS LeaderElection

CONSTANTS r1, r2
=============================================================================
