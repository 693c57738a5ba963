--------------------------- MODULE MCSessionSlots ---------------------------
(* SessionSlots for TLC: r1 and r2 are runs of one thread, r3 of another.  *)
EXTENDS SessionSlots

CONSTANTS r1, r2, r3, t1, t2

MCThreadOf == [r \in Runs |-> IF r = r3 THEN t2 ELSE t1]
=============================================================================
