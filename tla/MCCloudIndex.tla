---------------------------- MODULE MCCloudIndex ----------------------------
(* Small instances of CloudIndex for TLC. *)
EXTENDS CloudIndex, TLC

CONSTANTS root, d1, d2, f1, f2, a, b

NameSymmetry == Permutations(Name)
=============================================================================
