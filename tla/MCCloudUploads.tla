---------------------------- MODULE MCCloudUploads ----------------------------
(* Model values and symmetry for CloudUploads. *)
EXTENDS CloudUploads, TLC

CONSTANTS a, b, x, none

Symmetry == Permutations({a, b})
=============================================================================
