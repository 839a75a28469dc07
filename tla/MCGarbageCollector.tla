------------------------ MODULE MCGarbageCollector --------------------------
(***************************************************************************)
(* Constants of the runs of GarbageCollector.                              *)
(***************************************************************************)
EXTENDS GarbageCollector

CONSTANTS p1, b1, c1, c2
=============================================================================
