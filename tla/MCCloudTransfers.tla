-------------------------- MODULE MCCloudTransfers --------------------------
(* Model values for CloudTransfers. *)
EXTENDS CloudTransfers

CONSTANTS file1, file2
=============================================================================
