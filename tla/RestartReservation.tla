------------------------ MODULE RestartReservation ------------------------
(***************************************************************************)
(* Reserved and ordinary restarts (claude_discord/restart_reservation.py,  *)
(* database/resume_repo.py, and cog_unload / on_ready of                   *)
(* cogs/claude_chat.py): the slot queue is held, the running turns end,    *)
(* queued runs are saved as rows, the process restarts, and on_ready       *)
(* replays the rows.                                                       *)
(*                                                                         *)
(* A message is run by the tasks <<m, k>>: k = 0 when it arrives, k > 0    *)
(* when on_ready replays its row.  The slot queue is that of SessionSlots  *)
(* without its order, which does not matter here.  A turn that is paused,  *)
(* compacted or answered goes on in its own task as a run that queues      *)
(* again; a row of m stands for what m's queued entry would have sent, its *)
(* own prompt or that of such a continuation.  The rows survive a restart; *)
(* everything else is in memory.                                           *)
(***************************************************************************)
EXTENDS Integers, FiniteSets

CONSTANTS Threads, Messages,
          ThreadOf,       \* the thread a message is sent to
          MaxSlots,       \* MAX_CONCURRENT_SESSIONS
          MaxReplays,     \* bound: replays of one message
          MaxRestarts,    \* bound: ends of the process
          MaxReconnects,  \* bound: on_ready without a restart
          MaxReserves,    \* bound: reservations
          MaxContinues,   \* bound: continuations of one message
          MarkMayFail,    \* whether the mark of one of several rows may raise
          ResumeMarkMayFail,  \* whether that of resume_thread_id may
          Crashes,        \* whether the process may be killed without cog_unload
          Overlaps        \* what may come while the rows of a reservation are there:
                          \* a "shutdown" from outside, a "reconnect"

None == "none"
Generic == "generic"   \* a row that only says the thread is to be continued

ASSUME ThreadOfType == ThreadOf \in [Messages -> Threads]
ASSUME NamesDistinct == {None, Generic} \cap (Messages \cup Threads) = {}
ASSUME BoundsType == /\ MaxSlots \in Nat \ {0} /\ MaxReplays \in Nat /\ MaxRestarts \in Nat
                     /\ MaxReconnects \in Nat /\ MaxReserves \in Nat
                     /\ MaxContinues \in Nat
                     /\ {MarkMayFail, ResumeMarkMayFail, Crashes} \subseteq BOOLEAN
                     /\ Overlaps \subseteq {"shutdown", "reconnect"}

Tasks == Messages \X (0..MaxReplays)

VARIABLES
    up,          \* "running", "unloaded" (cog_unload saved the queue), "closing", "down"
    phase,       \* _phase; "restarting" is "saving", "acting" or "forgetting"
    resumeFor,   \* _resume_thread_id, or None
    toSave,      \* the queue entries persist_queued_runs has still to save
    saved,       \* the threads whose rows this reservation wrote
    stage,       \* of each task: "absent", "locked" (waits for its thread's run),
                 \* "starting", "queued" (for a slot), "running", "over"
    rows,        \* pending_resumes: a message, Generic or None for each thread
    replay,      \* what on_ready read and has not come to: <<thread, row>>
    ends, reconnects, reserves,  \* counters of the bounds
    starts,      \* history: turns started for each message
    cuts,        \* history: turns of each message in progress once a process was ending
    again,       \* history: continuations of each message
    lost         \* history: the messages a row of which was not written or not replayed

memory == <<up, phase, resumeFor, toSave, saved, stage, replay>>
counters == <<ends, reconnects, reserves>>
history == <<starts, cuts, again, lost>>
vars == <<memory, rows, counters, history>>

TypeOK ==
    /\ up \in {"running", "unloaded", "closing", "down"}
    /\ phase \in {"idle", "draining", "saving", "acting", "forgetting"}
    /\ resumeFor \in Threads \cup {None}
    /\ toSave \subseteq Messages /\ saved \subseteq Threads
    /\ stage \in [Tasks -> {"absent", "locked", "starting", "queued", "running", "over"}]
    /\ rows \in [Threads -> Messages \cup {None, Generic}]
    /\ replay \subseteq Threads \X (Messages \cup {Generic})
    /\ ends \in 0..MaxRestarts /\ reconnects \in 0..MaxReconnects
    /\ reserves \in 0..MaxReserves
    /\ starts \in [Messages -> Nat] /\ cuts \in [Messages -> Nat]
    /\ again \in [Messages -> Nat] /\ lost \subseteq Messages

Init ==
    /\ up = "running" /\ phase = "idle" /\ resumeFor = None
    /\ toSave = {} /\ saved = {} /\ replay = {}
    /\ stage = [k \in Tasks |-> "absent"]
    /\ rows = [t \in Threads |-> None]
    /\ ends = 0 /\ reconnects = 0 /\ reserves = 0
    /\ starts = [m \in Messages |-> 0] /\ cuts = [m \in Messages |-> 0]
    /\ again = [m \in Messages |-> 0] /\ lost = {}

-----------------------------------------------------------------------------
Held == phase # "idle"
Alive == up # "down"
TasksIn(s) == {k \in Tasks : stage[k] = s}
TaskThread(k) == ThreadOf[k[1]]
Active(t) == {k \in Tasks : TaskThread(k) = t /\ stage[k] \in {"starting", "queued", "running"}}
Unblocked(k) == Active(TaskThread(k)) = {}

(* Mutant: runs start although the queue is held. *)
DispatchMutant(s) ==
    \E go \in SUBSET {k \in Tasks : s[k] = "queued"} :
        LET running == {k \in Tasks : s[k] = "running"} \cup go IN
        /\ go = {} \/ Cardinality(running) <= MaxSlots
        /\ stage' = [k \in Tasks |-> IF k \in go THEN "running" ELSE s[k]]
        /\ starts' = [m \in Messages |->
                        starts[m] + Cardinality({k \in go : k[1] = m})]
        /\ UNCHANGED cuts

(* The slot queue dispatches: with s the stages before, the queued tasks   *)
(* that get a slot start running.                                          *)
Dispatch(s) ==
    LET queued == {k \in Tasks : s[k] = "queued"}
        running == {k \in Tasks : s[k] = "running"}
    IN \E go \in SUBSET queued :
          /\ IF phase' # "idle" THEN go = {}
             ELSE /\ go = queued \/ Cardinality(running \cup go) >= MaxSlots
                  /\ go = {} \/ Cardinality(running \cup go) <= MaxSlots
          /\ stage' = [k \in Tasks |-> IF k \in go THEN "running" ELSE s[k]]
          /\ starts' = [m \in Messages |->
                          starts[m] + Cardinality({k \in go : k[1] = m})]
          /\ cuts' = IF up' = "running" THEN cuts
                     ELSE [m \in Messages |-> cuts[m] + Cardinality({k \in go : k[1] = m})]

(* A message reaches its thread: _run_claude waits for the thread's lock   *)
(* and run, or registers itself as the thread's run.                       *)
Message(m) ==
    LET k == <<m, 0>> IN
    /\ up = "running" /\ stage[k] = "absent"
    /\ stage' = [stage EXCEPT ![k] = IF Unblocked(k) THEN "starting" ELSE "locked"]
    /\ UNCHANGED <<up, phase, resumeFor, toSave, saved, replay, rows, counters, history>>

Unlock(k) ==
    /\ Alive /\ stage[k] = "locked" /\ Unblocked(k)
    /\ stage' = [stage EXCEPT ![k] = "starting"]
    /\ UNCHANGED <<up, phase, resumeFor, toSave, saved, replay, rows, counters, history>>

(* run_claude_with_config reaches the slot queue. *)
Enqueue(k) ==
    /\ Alive /\ stage[k] = "starting"
    /\ UNCHANGED <<up, phase, resumeFor, toSave, saved, replay, rows, counters, again, lost>>
    /\ Dispatch([stage EXCEPT ![k] = "queued"])

EndTurn(k) ==
    /\ Alive /\ stage[k] = "running"
    /\ UNCHANGED <<up, phase, resumeFor, toSave, saved, replay, rows, counters, again, lost>>
    /\ Dispatch([stage EXCEPT ![k] = "over"])

(* A paused, compacted or answered turn gives its slot back and comes to   *)
(* the queue again, still the thread's registered run.                     *)
Continue(k) ==
    /\ Alive /\ stage[k] = "running" /\ again[k[1]] < MaxContinues
    /\ again' = [again EXCEPT ![k[1]] = @ + 1]
    /\ UNCHANGED <<up, phase, resumeFor, toSave, saved, replay, rows, counters, lost>>
    /\ Dispatch([stage EXCEPT ![k] = "starting"])

(* POST /api/mark-resume by the agent of the thread's running turn. *)
MarkResume(t) ==
    /\ up = "running" /\ \E k \in TasksIn("running") : TaskThread(k) = t
    /\ rows' = [rows EXCEPT ![t] = Generic]
    /\ UNCHANGED <<memory, counters, history>>

-----------------------------------------------------------------------------
(* reserve: hold the queue and poll for idleness. *)
Reserve(t) ==
    /\ up = "running" /\ phase = "idle" /\ reserves < MaxReserves
    /\ phase' = "draining" /\ resumeFor' = t /\ saved' = {} /\ toSave' = {}
    /\ reserves' = reserves + 1
    /\ UNCHANGED <<up, stage, replay, rows, ends, reconnects, history>>

(* cancel, and the deadline of _run while turns are running. *)
Abandon ==
    /\ Alive /\ phase = "draining"
    /\ phase' = "idle"
    /\ UNCHANGED <<up, resumeFor, toSave, saved, replay, rows, counters, again, lost>>
    /\ Dispatch(stage)

(* Nothing runs any more: the entries to save are those queued now. *)
Drained ==
    /\ Alive /\ phase = "draining" /\ TasksIn("running") = {}
    /\ phase' = "saving"
    /\ toSave' = {k[1] : k \in TasksIn("queued")}
    /\ UNCHANGED <<up, resumeFor, saved, stage, replay, rows, counters, history>>

(* persist_queued_runs; an entry whose mark raises is skipped. *)
SaveQueued(m) ==
    /\ Alive /\ phase = "saving" /\ m \in toSave
    /\ toSave' = toSave \ {m}
    /\ \/ /\ rows' = [rows EXCEPT ![ThreadOf[m]] = m]
          /\ saved' = saved \cup {ThreadOf[m]}
          /\ UNCHANGED lost
       \/ /\ MarkMayFail
          /\ lost' = lost \cup {m}
          /\ UNCHANGED <<rows, saved>>
    /\ UNCHANGED <<up, phase, resumeFor, stage, replay, counters, starts, cuts, again>>

(* The rest of _save_for_restart: the row of resume_thread_id, unless a    *)
(* queued message of that thread already has it.                           *)
SaveResume ==
    /\ Alive /\ phase = "saving" /\ toSave = {}
    /\ phase' = "acting"
    /\ IF resumeFor \notin saved \cup {None}
         THEN /\ rows' = [rows EXCEPT ![resumeFor] = Generic]
              /\ saved' = saved \cup {resumeFor}
         ELSE UNCHANGED <<rows, saved>>
    /\ UNCHANGED <<up, resumeFor, toSave, stage, replay, counters, history>>

(* That mark raises: saved is still the empty list of _run, so nothing is  *)
(* forgotten before the queue is released.                                 *)
SaveResumeFails ==
    /\ ResumeMarkMayFail
    /\ Alive /\ phase = "saving" /\ toSave = {} /\ resumeFor \notin saved \cup {None}
    /\ phase' = "forgetting" /\ saved' = {}
    /\ UNCHANGED <<up, resumeFor, toSave, stage, replay, rows, counters, history>>

(* The restart action returns an error, or this process is still there.    *)
RestartFails ==
    /\ up = "running" /\ phase = "acting"
    /\ phase' = "forgetting"
    /\ UNCHANGED <<up, resumeFor, toSave, saved, stage, replay, rows, counters, history>>

Forget(t) ==
    /\ Alive /\ phase = "forgetting" /\ t \in saved
    /\ saved' = saved \ {t}
    /\ rows' = [rows EXCEPT ![t] = None]
    /\ UNCHANGED <<up, phase, resumeFor, toSave, stage, replay, counters, history>>

Release ==
    /\ Alive /\ phase = "forgetting" /\ saved = {}
    /\ phase' = "idle"
    /\ UNCHANGED <<up, resumeFor, toSave, saved, replay, rows, counters, again, lost>>
    /\ Dispatch(stage)

-----------------------------------------------------------------------------
CutOff == [m \in Messages |-> cuts[m] + Cardinality({k \in TasksIn("running") : k[1] = m})]

(* Mutant: the queued runs are not saved. *)
UnloadMutant ==
    /\ up = "running" /\ ends < MaxRestarts
    /\ "shutdown" \in Overlaps \/ phase \notin {"saving", "forgetting"}
    /\ up' = "unloaded"
    /\ cuts' = CutOff
    /\ UNCHANGED <<phase, resumeFor, toSave, saved, stage, replay, rows, counters, starts,
                   again, lost>>

(* cog_unload of a clean shutdown, reserved or not: first the queued runs, *)
(* then the threads with a registered run that is not queued.  A mark that *)
(* raises leaves the row of its thread as it was.                          *)
Unload ==
    /\ up = "running" /\ ends < MaxRestarts
    /\ "shutdown" \in Overlaps \/ phase \notin {"saving", "forgetting"}
    /\ up' = "unloaded"
    /\ \E failed \in SUBSET TasksIn("queued") :
          LET entries == TasksIn("queued") \ failed IN
          /\ MarkMayFail \/ failed = {}
          /\ rows' = [t \in Threads |->
                        IF \E k \in entries : TaskThread(k) = t
                          THEN (CHOOSE k \in entries : TaskThread(k) = t)[1]
                          ELSE rows[t]]
          /\ lost' = lost \cup {k[1] : k \in failed}
    /\ cuts' = CutOff
    /\ UNCHANGED <<phase, resumeFor, toSave, saved, stage, replay, counters, starts, again>>

MarkActive ==
    /\ up = "unloaded"
    /\ up' = "closing"
    /\ \E failed \in SUBSET {t \in Threads : \E k \in Active(t) : stage[k] # "queued"} :
          /\ MarkMayFail \/ failed = {}
          /\ rows' = [t \in Threads |->
                        IF t \notin failed /\ \E k \in Active(t) : stage[k] # "queued"
                          THEN Generic ELSE rows[t]]
    /\ UNCHANGED <<phase, resumeFor, toSave, saved, stage, replay, counters, history>>

(* The process ends, after cog_unload or killed without it.  Until then    *)
(* the turns go on and a slot they free goes to the queue.                 *)
Die ==
    /\ \/ up = "closing"
       \/ Crashes /\ Alive
    /\ ends < MaxRestarts
    /\ up' = "down"
    /\ ends' = ends + 1
    /\ cuts' = IF up = "running" THEN CutOff ELSE cuts
    /\ stage' = [k \in Tasks |-> IF stage[k] = "absent" THEN "absent" ELSE "over"]
    /\ phase' = "idle" /\ resumeFor' = None /\ toSave' = {} /\ saved' = {} /\ replay' = {}
    /\ UNCHANGED <<rows, reconnects, reserves, starts, again, lost>>

(* on_ready, at startup and on every reconnect: the rows are read once ... *)
OnReady ==
    /\ \/ up = "down" /\ UNCHANGED reconnects
       \/ /\ up = "running" /\ replay = {} /\ reconnects < MaxReconnects
          /\ "reconnect" \in Overlaps \/ phase \in {"idle", "draining"}
          /\ reconnects' = reconnects + 1
    /\ up' = "running"
    /\ replay' = {<<t, rows[t]>> : t \in {u \in Threads : rows[u] # None}}
    /\ UNCHANGED <<phase, resumeFor, toSave, saved, stage, rows, ends, reserves, history>>

(* Mutant: the row is left for the next start. *)
ReplayMutant(t, r) ==
    /\ Alive /\ <<t, r>> \in replay
    /\ replay' = replay \ {<<t, r>>}
    /\ IF r = Generic
         THEN UNCHANGED stage
         ELSE \E n \in 1..MaxReplays :
                 /\ stage[<<r, n>>] = "absent"
                 /\ \A j \in 1..(n - 1) : stage[<<r, j>>] # "absent"
                 /\ stage' = [stage EXCEPT ![<<r, n>>] = "starting"]
    /\ UNCHANGED <<up, phase, resumeFor, toSave, saved, rows, counters, history>>

(* ... and each is deleted before its run is started.  A generic row       *)
(* starts a turn that is not one of Messages.                              *)
Replay(t, r) ==
    /\ Alive /\ <<t, r>> \in replay
    /\ replay' = replay \ {<<t, r>>}
    /\ rows' = IF rows[t] = r THEN [rows EXCEPT ![t] = None] ELSE rows
    /\ IF r = Generic
         THEN UNCHANGED stage
         ELSE \E n \in 1..MaxReplays :
                 LET k == <<r, n>> IN
                 /\ stage[k] = "absent"
                 /\ \A j \in 1..(n - 1) : stage[<<r, j>>] # "absent"
                 /\ stage' = [stage EXCEPT ![k] = IF Unblocked(k) THEN "starting" ELSE "locked"]
    /\ UNCHANGED <<up, phase, resumeFor, toSave, saved, counters, history>>

(* _replay_queued_run's way out when the channel cannot be fetched or is   *)
(* no thread, or its notice cannot be sent: the row is deleted already and *)
(* nothing starts.  So it goes too when the process is killed in between.  *)
ReplaySkipped(t, r) ==
    /\ Alive /\ <<t, r>> \in replay /\ r \in Messages
    /\ replay' = replay \ {<<t, r>>}
    /\ rows' = IF rows[t] = r THEN [rows EXCEPT ![t] = None] ELSE rows
    /\ lost' = lost \cup {r}
    /\ UNCHANGED <<up, phase, resumeFor, toSave, saved, stage, counters, starts, cuts, again>>

Next ==
    \/ \E m \in Messages : Message(m) \/ SaveQueued(m)
    \/ \E k \in Tasks : Unlock(k) \/ Enqueue(k) \/ EndTurn(k) \/ Continue(k)
    \/ \E t \in Threads : \/ MarkResume(t) \/ Reserve(t) \/ Forget(t)
                          \/ \E r \in Messages \cup {Generic} :
                                Replay(t, r) \/ ReplaySkipped(t, r)
    \/ Reserve(None) \/ Abandon \/ Drained \/ SaveResume \/ SaveResumeFails
    \/ RestartFails \/ Release \/ Unload \/ MarkActive \/ Die \/ OnReady

(* Tasks go on, turns end, the supervisor starts the process again.  The   *)
(* restart action fails when this process survives it, so it always ends.  *)
Fairness ==
    /\ \A k \in Tasks : WF_vars(Unlock(k)) /\ WF_vars(Enqueue(k)) /\ WF_vars(EndTurn(k))
    /\ \A m \in Messages : WF_vars(SaveQueued(m))
    /\ \A t \in Threads : /\ WF_vars(Forget(t))
                          /\ \A r \in Messages \cup {Generic} :
                                WF_vars(Replay(t, r) \/ ReplaySkipped(t, r))
    /\ WF_vars(Drained) /\ WF_vars(SaveResume) /\ WF_vars(RestartFails) /\ WF_vars(Release)
    /\ WF_vars(MarkActive) /\ WF_vars(up = "closing" /\ Die) /\ WF_vars(up = "down" /\ OnReady)

Spec == Init /\ [][Next]_vars
FairSpec == Spec /\ Fairness

-----------------------------------------------------------------------------
(* From the moment the queue is saved until it is released or the process  *)
(* ends, nothing runs that a restart would cut off.                        *)
IdleAtRestart == phase \in {"saving", "acting", "forgetting"} => TasksIn("running") = {}

(* "Replaying it later would run it twice": a message is run again only    *)
(* because it was continued or was in progress while a process was ending, *)
(* whatever rows could not be written or replayed.                         *)
RunsOnce == \A m \in Messages : starts[m] <= 1 + cuts[m] + again[m]

(* When a reserved restart closes the bot and every run of the process is  *)
(* queued, each accepted message is saved ("every new request joins the    *)
(* queue instead of starting", "each queued run is saved").                *)
AcceptedIsSaved ==
    (/\ up = "closing" /\ phase = "acting"
     /\ \A t \in Threads : \A k \in Active(t) : stage[k] = "queued")
        => \A k \in TasksIn("locked") \cup TasksIn("queued") : rows[TaskThread(k)] = k[1]

(* A hold always ends: by the restart, its failure, a cancel or the        *)
(* deadline.                                                               *)
HoldEnds == Held ~> ~Held

(* A run that is queued for a slot before the shutdown begins, a new one   *)
(* or a continuation, is run by this process or by the next one, unless    *)
(* its row could not be written or replayed.                               *)
QueuedIsRun ==
    \A m \in Messages :
        (up = "running" /\ \E k \in TasksIn("queued") : k[1] = m)
            ~> (m \in lost \/ \E k \in TasksIn("running") : k[1] = m)
=============================================================================
