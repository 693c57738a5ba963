----------------------- MODULE MCRestartReservation -----------------------
(* RestartReservation for TLC: m1 is sent to thread t1, m2 and m3 to t2.   *)
EXTENDS RestartReservation

CONSTANTS m1, m2, m3, t1, t2

MCThreadOf == [m \in Messages |-> IF m = m1 THEN t1 ELSE t2]
=============================================================================
