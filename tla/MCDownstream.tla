----------------------------- MODULE MCDownstream -----------------------------
(* Downstream for TLC: nothing to bound, the configurations choose services. *)
EXTENDS Downstream

===============================================================================
