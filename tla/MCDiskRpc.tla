-------------------------------- MODULE MCDiskRpc --------------------------------
(* Instances of DiskRpc for TLC. *)
EXTENDS DiskRpc
=============================================================================
