---------------------------- MODULE MCTdScheduler ----------------------------
(* Small instances of TdScheduler for TLC. *)
EXTENDS TdScheduler, TLC

CONSTANTS s1, s2, p1, p2

\* The first two slots of a day of three.
OneWindow == {<<0, 1>>}

\* Two windows of a day of 14 slots that hold three rounds of waits of two slots.
WideWindows == {<<0, 6>>, <<8, 12>>}

ProcSymmetry == Permutations(Proc)
=============================================================================
