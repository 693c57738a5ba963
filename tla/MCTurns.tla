------------------------------- MODULE MCTurns -------------------------------
(* The names of Turns for TLC. *)
EXTENDS Turns, TLC

CONSTANTS dis, ci, cd, t1, t2

MCRules == [x \in Probes |-> IF x = ci THEN {"exit_codes"} ELSE {"done_values"}]
MCPool == <<"a", "b">>

\* Nothing tells the threads on the accounts apart.
ThreadSymmetry == Permutations({t1, t2})
==============================================================================
