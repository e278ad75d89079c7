--------------------------- MODULE MCMountManager ---------------------------
(* A small instance of MountManager for TLC.                               *)
EXTENDS MountManager, TLC

CONSTANTS v1, t1

MCVolumeOf == t1 :> v1
=============================================================================
