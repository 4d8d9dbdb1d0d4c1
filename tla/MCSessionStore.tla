---------------------------- MODULE MCSessionStore ----------------------------
(* SessionStore for TLC: one desktop program, one other context. *)
EXTENDS SessionStore, TLC

Symmetry == Permutations(User)

===============================================================================
