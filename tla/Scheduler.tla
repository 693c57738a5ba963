--------------------------- MODULE Scheduler ---------------------------
(***************************************************************************)
(* Scheduled tasks (cogs/scheduler.py, database/task_repo.py).             *)
(*                                                                         *)
(* Every 30 s the master loop reads the due rows and then, one at a time   *)
(* and with a database write in between, moves each to its next interval   *)
(* and spawns its run.  API calls, ends of runs and a restart come between *)
(* any two of these steps, and the loop goes on with the rows it read.  A  *)
(* session queued for a slot counts as a run.                              *)
(***************************************************************************)
EXTENDS Integers, Sequences, SequencesExt, FiniteSets

CONSTANTS Tasks,       \* row ids; AUTOINCREMENT never gives one twice
          OneShots,    \* those created with one_shot
          MaxToggles,  \* bound: patches of "enabled"
          MaxFaults    \* bound: crashes, failing runs, database errors

ConstantsType ==
    IsFiniteSet(Tasks) /\ OneShots \subseteq Tasks /\ {MaxToggles, MaxFaults} \subseteq Nat

VARIABLES
    row,       \* "new", "enabled", "disabled" or "deleted"
    due,       \* whether next_run_at has passed
    running,   \* _running
    loop,      \* the master loop: "asleep", "working", "writing", "stopped" or "down"
    batch,     \* what is left of the rows it read
    runs,      \* of each task: the runs that execute
    closing,   \* of each one-shot: the runs that write enabled = 0
    executed,  \* history: completed executions of each one-shot, 2 for more
    broken,    \* history: one-shots with a failed or cut off run
    early,     \* history: one-shots whose interval passed during their run
    toggles, faults

vars == <<row, due, running, loop, batch, runs, closing, executed, broken, early,
          toggles, faults>>

(* The runs of a task that are not over. *)
Active(t) == runs[t] + (IF t \in OneShots THEN closing[t] ELSE 0)

TypeOK ==
    /\ row \in [Tasks -> {"new", "enabled", "disabled", "deleted"}]
    /\ due \in [Tasks -> BOOLEAN]
    /\ running \subseteq Tasks /\ \A t \in Tasks : Active(t) > 0 => t \in running
    /\ loop \in {"asleep", "working", "writing", "stopped", "down"}
    /\ batch \in Seq(Tasks) /\ (loop = "writing" => batch # <<>>)
    /\ runs \in [Tasks -> Nat] /\ closing \in [OneShots -> Nat]
    /\ executed \in [OneShots -> 0..2]
    /\ broken \subseteq OneShots /\ early \subseteq OneShots
    /\ toggles \in 0..MaxToggles /\ faults \in 0..MaxFaults

Init ==
    /\ row = [t \in Tasks |-> "new"] /\ due = [t \in Tasks |-> FALSE]
    /\ running = {} /\ loop = "asleep" /\ batch = <<>>
    /\ runs = [t \in Tasks |-> 0] /\ closing = [t \in OneShots |-> 0]
    /\ executed = [t \in OneShots |-> 0] /\ broken = {} /\ early = {}
    /\ toggles = 0 /\ faults = 0

-----------------------------------------------------------------------------
(* The rows: POST, PATCH and DELETE of /api/tasks, a session's wakeup.     *)

Create(t) ==
    /\ row[t] = "new" /\ loop # "down"
    /\ row' = [row EXCEPT ![t] = "enabled"]
    /\ \E run_immediately \in BOOLEAN : due' = [due EXCEPT ![t] = run_immediately]
    /\ UNCHANGED <<running, loop, batch, runs, closing, executed, broken, early, toggles, faults>>

(* patch_task; a task that is enabled again may run again. *)
SetEnabled(t) ==
    /\ row[t] \in {"enabled", "disabled"} /\ loop # "down" /\ toggles < MaxToggles
    /\ row' = [row EXCEPT ![t] = IF @ = "enabled" THEN "disabled" ELSE "enabled"]
    /\ executed' = [x \in OneShots |-> IF x = t THEN 0 ELSE executed[x]]
    /\ broken' = IF t \in OneShots THEN broken \cup {t} ELSE broken
    /\ toggles' = toggles + 1
    /\ UNCHANGED <<due, running, loop, batch, runs, closing, early, faults>>

Delete(t) ==
    /\ row[t] \in {"enabled", "disabled"} /\ loop # "down"
    /\ row' = [row EXCEPT ![t] = "deleted"]
    /\ UNCHANGED <<due, running, loop, batch, runs, closing, executed, broken, early, toggles, faults>>

(* next_run_at passes, or a patch moves it to the past. *)
Elapse(t) ==
    /\ row[t] \in {"enabled", "disabled"} /\ ~due[t]
    /\ due' = [due EXCEPT ![t] = TRUE]
    /\ early' = IF t \in OneShots /\ Active(t) > 0 THEN early \cup {t} ELSE early
    /\ UNCHANGED <<row, running, loop, batch, runs, closing, executed, broken, toggles, faults>>

-----------------------------------------------------------------------------
(* The master loop. *)

(* get_due; ORDER BY next_run_at may give any order. *)
Tick ==
    /\ loop = "asleep"
    /\ \E order \in SetToSeqs({t \in Tasks : row[t] = "enabled" /\ due[t]}) :
         /\ batch' = order
         /\ loop' = IF order = <<>> THEN "asleep" ELSE "working"
    /\ UNCHANGED <<row, due, running, runs, closing, executed, broken, early, toggles, faults>>

Take(rest) == batch' = rest /\ loop' = IF rest = <<>> THEN "asleep" ELSE "working"

(* The next row: its run is still going, or update_next_run starts. *)
Consider ==
    /\ loop = "working"
    /\ IF Head(batch) \in running
         THEN Take(Tail(batch))
         ELSE loop' = "writing" /\ UNCHANGED batch
    /\ UNCHANGED <<row, due, running, runs, closing, executed, broken, early, toggles, faults>>

(* Mutant: a one-shot is disabled when its run is created. *)
SpawnDisablesMutant ==
    /\ loop = "writing"
    /\ LET t == Head(batch) IN
         /\ due' = [due EXCEPT ![t] = FALSE]
         /\ row' = [row EXCEPT ![t] = IF t \in OneShots THEN "disabled" ELSE @]
         /\ running' = running \cup {t}
         /\ runs' = [runs EXCEPT ![t] = @ + 1]
    /\ Take(Tail(batch))
    /\ UNCHANGED <<closing, executed, broken, early, toggles, faults>>

(* The row is moved to its next interval and the run is created. *)
Spawn ==
    /\ loop = "writing"
    /\ LET t == Head(batch) IN
         /\ due' = [due EXCEPT ![t] = FALSE]
         /\ running' = running \cup {t}
         /\ runs' = [runs EXCEPT ![t] = @ + 1]
    /\ Take(Tail(batch))
    /\ UNCHANGED <<row, closing, executed, broken, early, toggles, faults>>

(* A database error is not one that tasks.loop retries: the loop ends. *)
LoopFails ==
    /\ loop \in {"asleep", "writing"} /\ faults < MaxFaults
    /\ loop' = "stopped" /\ batch' = <<>> /\ faults' = faults + 1
    /\ UNCHANGED <<row, due, running, runs, closing, executed, broken, early, toggles>>

-----------------------------------------------------------------------------
(* A run (_run_task). *)

(* Mutant: a one-shot is over with its execution. *)
ExecutedMutant(t) ==
    /\ runs[t] > 0
    /\ runs' = [runs EXCEPT ![t] = @ - 1]
    /\ running' = running \ {t}
    /\ executed' = [x \in OneShots |-> IF x = t /\ executed[x] < 2 THEN executed[x] + 1
                                       ELSE executed[x]]
    /\ UNCHANGED <<row, due, loop, batch, closing, broken, early, toggles, faults>>

(* The session ends; a one-shot then disables its row. *)
Executed(t) ==
    /\ runs[t] > 0
    /\ runs' = [runs EXCEPT ![t] = @ - 1]
    /\ executed' = [x \in OneShots |-> IF x = t /\ executed[x] < 2 THEN executed[x] + 1
                                       ELSE executed[x]]
    /\ closing' = [x \in OneShots |-> IF x = t THEN closing[x] + 1 ELSE closing[x]]
    /\ running' = IF t \in OneShots THEN running ELSE running \ {t}
    /\ UNCHANGED <<row, due, loop, batch, broken, early, toggles, faults>>

(* set_enabled(False) and the end of _run_task. *)
Closed(t) ==
    /\ closing[t] > 0
    /\ closing' = [closing EXCEPT ![t] = @ - 1]
    /\ row' = [row EXCEPT ![t] = IF @ = "enabled" THEN "disabled" ELSE @]
    /\ running' = running \ {t}
    /\ UNCHANGED <<due, loop, batch, runs, executed, broken, early, toggles, faults>>

(* No conversation could be opened, an exception, or the row could not be  *)
(* disabled: the task comes back with its next interval.                   *)
RunFails(t) ==
    /\ Active(t) > 0 /\ faults < MaxFaults
    /\ runs' = [runs EXCEPT ![t] = IF @ > 0 THEN @ - 1 ELSE @]
    /\ closing' = [x \in OneShots |-> IF x = t /\ runs[t] = 0 THEN closing[x] - 1
                                      ELSE closing[x]]
    /\ running' = running \ {t}
    /\ broken' = IF t \in OneShots THEN broken \cup {t} ELSE broken
    /\ faults' = faults + 1
    /\ UNCHANGED <<row, due, loop, batch, executed, early, toggles>>

-----------------------------------------------------------------------------
(* Only the rows outlive the process. *)
Crash ==
    /\ loop # "down" /\ faults < MaxFaults
    /\ loop' = "down" /\ batch' = <<>> /\ running' = {}
    /\ broken' = broken \cup {t \in OneShots : Active(t) > 0}
    /\ runs' = [t \in Tasks |-> 0] /\ closing' = [t \in OneShots |-> 0]
    /\ faults' = faults + 1
    /\ UNCHANGED <<row, due, executed, early, toggles>>

Boot ==
    /\ loop = "down" /\ loop' = "asleep"
    /\ UNCHANGED <<row, due, running, batch, runs, closing, executed, broken, early, toggles, faults>>

Next ==
    \/ \E t \in Tasks : Create(t) \/ SetEnabled(t) \/ Delete(t) \/ Elapse(t)
    \/ Tick \/ Consider \/ Spawn \/ LoopFails
    \/ \E t \in Tasks : Executed(t) \/ RunFails(t)
    \/ \E t \in OneShots : Closed(t)
    \/ Crash \/ Boot

(* Clocks go on, the loop ticks, sessions end, the service is restarted.   *)
Fairness ==
    /\ \A t \in Tasks : WF_vars(Elapse(t)) /\ WF_vars(Executed(t))
    /\ \A t \in OneShots : WF_vars(Closed(t))
    /\ WF_vars(Tick) /\ WF_vars(Consider) /\ WF_vars(Spawn) /\ WF_vars(Boot)

Spec == Init /\ [][Next]_vars
FairSpec == Spec /\ Fairness

-----------------------------------------------------------------------------
(* "Track in-flight tasks to avoid double-running the same task_id": a     *)
(* task has one run at a time however short its interval.                  *)
OneRunPerTask == \A t \in Tasks : Active(t) <= 1

(* A one-shot executes once, unless a fault or a user lets it run again,   *)
(* and when its interval is longer than its run.                           *)
OneShotOnce == \A t \in OneShots \ (broken \cup early) : executed[t] <= 1

(* Nothing is run twice, at the same time or one after the other. *)
NoDoubleRun == OneRunPerTask /\ OneShotOnce

(* The same however long the run takes: "the task auto-disables after a    *)
(* single execution" (TaskRepository.create).                              *)
OneShotAlwaysOnce == \A t \in OneShots \ broken : executed[t] <= 1

(* A task that falls due is run, unless it is disabled or deleted, or the  *)
(* loop is dead.                                                           *)
DueRuns ==
    \A t \in Tasks : (row[t] = "enabled" /\ due[t])
        ~> (Active(t) > 0 \/ row[t] # "enabled" \/ loop = "stopped")

(* A one-shot that nobody disables or deletes is executed, whatever fails  *)
(* before: it is not disabled until then.                                  *)
OneShotExecutes ==
    \A t \in OneShots : (row[t] = "enabled")
        ~> (executed[t] > 0 \/ row[t] = "deleted" \/ toggles > 0 \/ loop = "stopped")
=============================================================================
