------------------------ MODULE MCServiceController -------------------------
(***************************************************************************)
(* Constants of the runs of ServiceController.                             *)
(***************************************************************************)
EXTENDS ServiceController

CONSTANTS s1, s2, s3, s4, s5, app, traffic
=============================================================================
