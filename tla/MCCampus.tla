------------------------------- MODULE MCCampus -------------------------------
(* Campus for TLC: every query command, and one turn of each loop.           *)
EXTENDS Campus

===============================================================================
