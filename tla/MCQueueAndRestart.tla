--------------------------- MODULE MCQueueAndRestart ---------------------------
(* QueueAndRestart for TLC: r1 and r2 are runs of one thread, r3 of another; *)
(* m1 is sent to thread t1, m2 and m3 to t2.                                 *)
EXTENDS QueueAndRestart

CONSTANTS r1, r2, r3, t1, t2, m1, m2, m3

MCThreadOf == [r \in Runs |-> IF r = r3 THEN t2 ELSE t1]
MCMessageThread == [m \in Messages |-> IF m = m1 THEN t1 ELSE t2]
===============================================================================
