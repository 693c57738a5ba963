------------------------------ MODULE MCWaits ------------------------------
(* Waits for TLC: p is a probe with pending exit codes, q one with done    *)
(* values, d a Discord thread and c a console conversation.                *)
EXTENDS Waits

CONSTANTS c, d, p, q

MCRules == [x \in Probes |-> IF x = p THEN {"exit_codes"} ELSE {"done_values"}]
=============================================================================
