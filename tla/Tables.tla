-------------------------------- MODULE Tables --------------------------------
(***************************************************************************)
(* Tables, as functions, that are put together of smaller ones.            *)
(***************************************************************************)

\* The entries of the tables, none of which is in two of them.
Joined(tables) ==
    [n \in UNION {DOMAIN t : t \in tables} |-> (CHOOSE t \in tables : n \in DOMAIN t)[n]]

===============================================================================
