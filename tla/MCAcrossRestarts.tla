--------------------------- MODULE MCAcrossRestarts ---------------------------
(* What must happen in the end: liveness of reserved restarts, of the        *)
(* attachment outbox, and of a thread's runs with /clear and failing posts.  *)
(* No two modules share a variable: each behaviour exercises one part, the   *)
(* others stay as they start, where no step that is owed is enabled.         *)
EXTENDS RestartReservation

CONSTANTS m1, m2, m3, t1, t2

MCThreadOf == [m \in Messages |-> IF m = m1 THEN t1 ELSE t2]

VARIABLES
    part,
    pc, lock, activeRunner, activeTask, awaits, live, signalled, reruns, retried, clears,
    raised, marker, pending, paths, step, running, owed, raced, requests, sends, unsure, faults

runVars == <<pc, lock, activeRunner, activeTask, awaits, live, signalled, reruns,
             retried, clears, raised>>
outboxVars == <<marker, pending, paths, step, running, owed, raced, requests, sends, unsure,
                faults>>

ThreadRuns == INSTANCE ThreadRuns
                WITH Tasks <- {"a", "b", "c"}, Interrupts <- {"a"}, MaxReruns <- 1,
                     MaxClears <- 1, MayRetry <- FALSE, SendMayFail <- TRUE
Outbox == INSTANCE AttachmentOutbox
            WITH up <- running, Files <- {"f1", "f2"}, Unreadable <- {},
                 Turns <- {"c1", "c2"}, MaxRequests <- 3, MaxFaults <- 2

MCInit == part \in {"restart", "runs", "outbox"} /\ Init /\ ThreadRuns!Init /\ Outbox!Init
MCNext == \/ part = "restart" /\ Next /\ UNCHANGED <<part, runVars, outboxVars>>
          \/ part = "runs" /\ ThreadRuns!Next /\ UNCHANGED <<part, vars, outboxVars>>
          \/ part = "outbox" /\ Outbox!Next /\ UNCHANGED <<part, vars, runVars>>
MCSpec == /\ MCInit /\ [][MCNext]_<<part, vars, runVars, outboxVars>>
          /\ Fairness /\ ThreadRuns!Fairness /\ Outbox!Fairness

EveryTaskEnds == ThreadRuns!EveryTaskEnds
EveryFileSent == Outbox!EveryFileSent
===============================================================================
