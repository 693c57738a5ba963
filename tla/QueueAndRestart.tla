---------------------------- MODULE QueueAndRestart ----------------------------
(* Safety of the slot queue and of reserved restarts.  The two modules share *)
(* no variable (RestartReservation keeps what it needs of the queue), so     *)
(* their product would show nothing more: each behaviour exercises one part. *)
EXTENDS SessionSlots

CONSTANTS Messages, MessageThread, Seats,   \* ThreadOf and MaxSlots of RestartReservation
          MaxReplays, MaxRestarts, MaxReconnects, MaxReserves, MaxContinues,
          MarkMayFail, ResumeMarkMayFail, Crashes, Overlaps

VARIABLES part, up, phase, resumeFor, toSave, saved, stage, rows, replay, ends,
          reconnects, reserves, starts, cuts, again, lost

restartVars == <<up, phase, resumeFor, toSave, saved, stage, rows, replay, ends,
                 reconnects, reserves, starts, cuts, again, lost>>

Restart == INSTANCE RestartReservation WITH ThreadOf <- MessageThread, MaxSlots <- Seats

ASSUME RestartConstants ==
    /\ MessageThread \in [Messages -> Threads]
    /\ {Restart!None, Restart!Generic} \cap (Messages \cup Threads) = {}
    /\ Seats \in Nat \ {0} /\ MaxReplays \in Nat /\ MaxRestarts \in Nat
    /\ MaxReconnects \in Nat /\ MaxReserves \in Nat
    /\ MaxContinues \in Nat /\ {MarkMayFail, ResumeMarkMayFail, Crashes} \subseteq BOOLEAN
    /\ Overlaps \subseteq {"shutdown", "reconnect"}

AllInit ==
    /\ Init /\ Restart!Init
    /\ \/ part = "slots"
       \/ part = "restart" /\ maxSlots = 1
AllNext ==
    \/ part = "slots" /\ Next /\ UNCHANGED <<part, restartVars>>
    \/ part = "restart" /\ Restart!Next /\ UNCHANGED <<part, vars>>
AllSpec == AllInit /\ [][AllNext]_<<part, vars, restartVars>>

IdleAtRestart == Restart!IdleAtRestart
RunsOnce == Restart!RunsOnce
===============================================================================
