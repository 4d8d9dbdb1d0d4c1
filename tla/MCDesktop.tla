------------------------------- MODULE MCDesktop -------------------------------
(* Desktop for TLC: the configurations choose platforms, accounts and bounds. *)
EXTENDS Desktop

===============================================================================
