---------------------------- MODULE MCControllerServer ----------------------------
(* Instances of ControllerServer for TLC. *)
EXTENDS ControllerServer, TLC

NodeCallSymmetry == Permutations(Node) \cup Permutations(Call)
=============================================================================
