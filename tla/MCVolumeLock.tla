------------------------------ MODULE MCVolumeLock ------------------------------
(* Instances of VolumeLock for TLC. *)
EXTENDS VolumeLock, TLC

NodeSymmetry == Permutations(Node)
=============================================================================
