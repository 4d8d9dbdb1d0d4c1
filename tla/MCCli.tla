--------------------------------- MODULE MCCli ---------------------------------
(* Cli for TLC: two recordings.                                               *)
EXTENDS Cli, TLC

CONSTANTS r1, r2
MCResource == {r1, r2}
Recordings == Permutations(MCResource)

===============================================================================
