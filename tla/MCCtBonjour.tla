---------------------------- MODULE MCCtBonjour ----------------------------
(* Instances of CtBonjour for TLC.                                         *)
EXTENDS CtBonjour, TLC

(* Addresses are only compared, so exchanging them changes nothing.        *)
OpsSymmetry == Permutations(Ops)
=============================================================================
