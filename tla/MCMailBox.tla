-------------------------------- MODULE MCMailBox --------------------------------
(* Instances of MailBox for TLC. *)
EXTENDS MailBox, TLC

NodeSymmetry == Permutations(Node)
=============================================================================
