------------------------------ MODULE MCFetch ------------------------------
EXTENDS Fetch
CONSTANTS old, new

(* Two releases, one a piece longer than the other. *)
MCSize == [r \in Releases |-> IF r = old THEN 3 ELSE 2]
=============================================================================
