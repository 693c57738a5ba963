-------------------------- MODULE AutoUpgrade --------------------------
(***************************************************************************)
(* The upgrade of the bot by itself (claude_discord/cogs/auto_upgrade.py): *)
(* approvals, the commands, the drain of the running sessions, their rows  *)
(* in pending_resumes, and the restart command, which nobody waits for.    *)
(*                                                                         *)
(* A pipeline holds the cog's lock from its thread to its end.  Sessions   *)
(* begin and end at any time, also behind the drain; the process may be    *)
(* stopped at any time, by the restart command or by others.               *)
(***************************************************************************)
EXTENDS Integers, FiniteSets

CONSTANTS Requests,         \* triggers of an upgrade
          Slash,            \* those by /upgrade, the others are webhook messages
          Threads,          \* threads with sessions
          Gates,            \* upgrade_approval and restart_approval, those that are set
          MaxPolls,         \* drain_timeout in intervals of drain_poll_interval
          MaxFaults,        \* bound: failing commands, posts and marks
          MaxSessions,      \* bound: sessions that begin
          MaxStops          \* bound: ends of the process

ConstantsType == MaxPolls \in Nat \ {0} /\ {MaxFaults, MaxSessions, MaxStops} \subseteq Nat

VARIABLES
    up,         \* "running", "closing" (the cogs are unloaded) or "down"
    stage,      \* of each request: where its pipeline is
    gate,       \* the approval a pipeline asks for
    prompt,     \* its message: "none", "shown" or "over"
    listens,    \* requests whose reaction task is in wait_for
    approved,   \* requests whose event is set
    reacted,    \* history: users reacted to the message that is shown
    snapshot, toMark, polls,
    sessions,   \* threads in _active_runners
    rows,       \* threads in pending_resumes
    toClose,    \* prompts cog_unload took and has still to close
    since,      \* history: threads of the snapshot whose session never ended
    unmarked,   \* history: threads whose mark raised
    clean,      \* history: the last end of the process was not a kill
    begun, faults, stops

asking == <<gate, prompt, listens, approved, reacted>>
drain == <<snapshot, toMark, polls, since, unmarked>>
counters == <<begun, faults, stops>>
vars == <<up, stage, asking, drain, sessions, rows, toClose, clean, counters>>

Holding == {"opening", "ready", "prompting", "posted", "asking", "upgrading", "approved",
            "draining", "marking", "restarting"}
Over == {"skipped", "failed", "done", "cut"}

TypeOK ==
    /\ up \in {"running", "closing", "down"}
    /\ stage \in [Requests -> {"absent", "deferring", "queued"} \cup Holding \cup Over]
    /\ gate \in [Requests -> {"none", "upgrade", "restart"}]
    /\ prompt \in [Requests -> {"none", "shown", "over"}]
    /\ listens \subseteq {r \in Requests : stage[r] = "asking"}
    /\ approved \subseteq Requests /\ reacted \subseteq Requests
    /\ snapshot \subseteq Threads /\ toMark \subseteq snapshot /\ since \subseteq snapshot
    /\ polls \in 0..MaxPolls /\ unmarked \subseteq Threads
    /\ sessions \subseteq Threads /\ rows \subseteq Threads
    /\ toClose \subseteq Requests /\ clean \in BOOLEAN
    /\ begun \in 0..MaxSessions /\ faults \in 0..MaxFaults /\ stops \in 0..MaxStops
    /\ Cardinality({r \in Requests : stage[r] \in Holding}) <= 1

Init ==
    /\ up = "running" /\ stage = [r \in Requests |-> "absent"]
    /\ gate = [r \in Requests |-> "none"] /\ prompt = [r \in Requests |-> "none"]
    /\ listens = {} /\ approved = {} /\ reacted = {}
    /\ snapshot = {} /\ toMark = {} /\ polls = 0 /\ since = {} /\ unmarked = {}
    /\ sessions = {} /\ rows = {} /\ toClose = {} /\ clean = TRUE
    /\ begun = 0 /\ faults = 0 /\ stops = 0

-----------------------------------------------------------------------------
(* The lock *)
Alive == up # "down"
Locked == \E r \in Requests : stage[r] \in Holding
Entered == IF Locked \/ \E q \in Requests : stage[q] = "queued" THEN "queued" ELSE "opening"

Goes(r, from, to) ==
    Alive /\ stage[r] = from /\ stage' = [stage EXCEPT ![r] = to]

(* An upgrade is refused while one is running; /upgrade first answers ...  *)
Trigger(r) ==
    /\ Goes(r, "absent", IF Locked THEN "skipped" ELSE IF r \in Slash THEN "deferring" ELSE Entered)
    /\ UNCHANGED <<up, asking, drain, sessions, rows, toClose, clean, counters>>

(* ... and does not look again. *)
Defer(r) ==
    /\ Goes(r, "deferring", Entered)
    /\ UNCHANGED <<up, asking, drain, sessions, rows, toClose, clean, counters>>

Enter(r) ==
    /\ ~Locked /\ Goes(r, "queued", "opening")
    /\ UNCHANGED <<up, asking, drain, sessions, rows, toClose, clean, counters>>

(* The thread is created; the first gate, or the commands. *)
Open(r) ==
    /\ Goes(r, "opening", IF "upgrade" \in Gates THEN "prompting" ELSE "upgrading")
    /\ gate' = [gate EXCEPT ![r] = IF "upgrade" \in Gates THEN "upgrade" ELSE @]
    /\ UNCHANGED <<up, prompt, listens, approved, reacted, drain, sessions, rows, toClose,
                   clean, counters>>

-----------------------------------------------------------------------------
(* _wait_for_approval *)

(* The message is posted, later the reaction task and the button.  *)
Post(r) ==
    /\ Goes(r, "prompting", "posted")
    /\ prompt' = [prompt EXCEPT ![r] = "shown"]
    /\ UNCHANGED <<up, gate, listens, approved, reacted, drain, sessions, rows, toClose, clean,
                   counters>>

Listen(r) ==
    /\ \/ Goes(r, "posted", "asking")
       \/ Alive /\ stage[r] = "asking" /\ r \notin listens \cup approved /\ UNCHANGED stage
    /\ listens' = listens \cup {r}
    /\ UNCHANGED <<up, gate, prompt, approved, reacted, drain, sessions, rows, toClose, clean,
                   counters>>

(* wait_for times out: a reminder is posted, the button moved. *)
Remind(r) ==
    /\ Alive /\ r \in listens /\ r \notin approved
    /\ listens' = listens \ {r}
    /\ UNCHANGED <<up, stage, gate, prompt, approved, reacted, drain, sessions, rows, toClose,
                   clean, counters>>

(* A reaction is an event: only a task that waits for it sees it. *)
React(r) ==
    /\ Alive /\ stage[r] \in {"posted", "asking"} /\ r \notin reacted
    /\ reacted' = reacted \cup {r}
    /\ approved' = IF r \in listens THEN approved \cup {r} ELSE approved
    /\ UNCHANGED <<up, stage, gate, prompt, listens, drain, sessions, rows, toClose, clean,
                   counters>>

(* The channel's button and the console's action set the event; cog_unload *)
(* takes the action away and deletes the button.                           *)
Press(r) ==
    /\ Alive /\ stage[r] \in {"posted", "asking"} /\ prompt[r] = "shown" /\ r \notin approved
    /\ approved' = approved \cup {r}
    /\ UNCHANGED <<up, stage, gate, prompt, listens, reacted, drain, sessions, rows, toClose,
                   clean, counters>>

(* The wait is over, and its event with it. *)
Proceed(r) ==
    /\ r \in approved
    /\ Goes(r, "asking", IF gate[r] = "upgrade" THEN "upgrading" ELSE "approved")
    /\ prompt' = [prompt EXCEPT ![r] = "over"] /\ listens' = listens \ {r}
    /\ approved' = approved \ {r} /\ reacted' = reacted \ {r}
    /\ UNCHANGED <<up, gate, drain, sessions, rows, toClose, clean, counters>>

-----------------------------------------------------------------------------
(* The upgrade and sync commands succeed. *)
Upgrade(r) ==
    /\ Goes(r, "upgrading", IF "restart" \in Gates THEN "prompting" ELSE "approved")
    /\ gate' = [gate EXCEPT ![r] = "restart"]
    /\ UNCHANGED <<up, prompt, listens, approved, reacted, drain, sessions, rows, toClose, clean,
                   counters>>

(* The sessions are noted before they drain, to be resumed afterwards. *)
Snapshot(r) ==
    /\ Goes(r, "approved", IF sessions = {} THEN "marking" ELSE "draining")
    /\ snapshot' = sessions /\ since' = sessions /\ toMark' = sessions
    /\ polls' = 0 /\ unmarked' = {}
    /\ UNCHANGED <<up, asking, sessions, rows, toClose, clean, counters>>

Poll(r) ==
    /\ Goes(r, "draining", IF sessions = {} \/ polls + 1 = MaxPolls THEN "marking" ELSE "draining")
    /\ polls' = polls + 1
    /\ UNCHANGED <<up, asking, snapshot, toMark, since, unmarked, sessions, rows, toClose, clean,
                   counters>>

(* Every thread of the snapshot gets a row, also one whose session ended.  *)
Mark(r, t) ==
    /\ t \in toMark /\ Goes(r, "marking", "marking")
    /\ toMark' = toMark \ {t}
    /\ \/ rows' = rows \cup {t} /\ UNCHANGED <<unmarked, faults>>
       \/ /\ faults < MaxFaults /\ faults' = faults + 1
          /\ unmarked' = unmarked \cup {t} /\ UNCHANGED rows
    /\ UNCHANGED <<up, asking, snapshot, polls, since, sessions, toClose, clean, begun, stops>>

(* Mutant: the restart is announced while rows are being written. *)
AnnounceMutant(r) ==
    /\ Goes(r, "marking", "restarting")
    /\ UNCHANGED <<up, asking, drain, sessions, rows, toClose, clean, counters>>

Announce(r) ==
    /\ toMark = {} /\ Goes(r, "marking", "restarting")
    /\ UNCHANGED <<up, asking, drain, sessions, rows, toClose, clean, counters>>

(* What a pipeline knew of its drain goes with it. *)
DrainOver ==
    snapshot' = {} /\ toMark' = {} /\ polls' = 0 /\ since' = {} /\ unmarked' = {}

(* The restart command is started; whether it stops the process is its own *)
(* affair.                                                                 *)
Restart(r) ==
    /\ Goes(r, "restarting", "done") /\ DrainOver
    /\ UNCHANGED <<up, asking, sessions, rows, toClose, clean, counters>>

(* A post, a command or a timeout ends the pipeline with an error: the     *)
(* lock is free, rows and messages stay as they are.                       *)
Fails(r) ==
    /\ Alive /\ stage[r] \in Holding /\ faults < MaxFaults
    /\ stage' = [stage EXCEPT ![r] = "failed"]
    /\ listens' = listens \ {r} /\ approved' = approved \ {r} /\ reacted' = reacted \ {r}
    /\ DrainOver /\ faults' = faults + 1
    /\ UNCHANGED <<up, gate, prompt, sessions, rows, toClose, clean, begun, stops>>

-----------------------------------------------------------------------------
Begin(t) ==
    /\ Alive /\ t \notin sessions /\ begun < MaxSessions
    /\ sessions' = sessions \cup {t} /\ begun' = begun + 1
    /\ UNCHANGED <<up, stage, asking, drain, rows, toClose, clean, faults, stops>>

End(t) ==
    /\ Alive /\ t \in sessions
    /\ sessions' = sessions \ {t} /\ since' = since \ {t}
    /\ UNCHANGED <<up, stage, asking, snapshot, toMark, polls, unmarked, rows, toClose, clean,
                   counters>>

(* The cogs are unloaded: the chat cog marks its sessions, this one takes  *)
(* the prompts whose waiter is registered ...                              *)
Stop ==
    /\ up = "running" /\ stops < MaxStops
    /\ up' = "closing" /\ stops' = stops + 1
    /\ rows' = rows \cup sessions
    /\ toClose' = {r \in Requests : stage[r] = "asking"}
    /\ UNCHANGED <<stage, asking, drain, sessions, clean, begun, faults>>

(* ... and says of each that it is no longer waiting. *)
Close(r) ==
    /\ up = "closing" /\ r \in toClose
    /\ toClose' = toClose \ {r}
    /\ prompt' = [prompt EXCEPT ![r] = "over"]
    /\ UNCHANGED <<up, stage, gate, listens, approved, reacted, drain, sessions, rows, clean,
                   counters>>

Die ==
    /\ \/ up = "closing" /\ toClose = {} /\ clean' = TRUE /\ UNCHANGED stops
       \/ Alive /\ stops < MaxStops /\ clean' = FALSE /\ stops' = stops + 1
    /\ up' = "down"
    /\ stage' = [r \in Requests |->
                   IF stage[r] \in {"absent"} \cup Over THEN stage[r] ELSE "cut"]
    /\ listens' = {} /\ approved' = {} /\ reacted' = {} /\ toClose' = {}
    /\ sessions' = {} /\ DrainOver
    /\ UNCHANGED <<gate, prompt, rows, begun, faults>>

(* on_ready: the marked threads are continued. *)
Boot ==
    /\ up = "down" /\ up' = "running"
    /\ sessions' = rows /\ rows' = {}
    /\ UNCHANGED <<stage, asking, drain, toClose, clean, counters>>

Next ==
    \/ \E r \in Requests :
         \/ Trigger(r) \/ Defer(r) \/ Enter(r) \/ Open(r) \/ Post(r) \/ Listen(r) \/ Remind(r)
         \/ React(r) \/ Press(r) \/ Proceed(r) \/ Upgrade(r) \/ Snapshot(r) \/ Poll(r)
         \/ Announce(r) \/ Restart(r) \/ Fails(r) \/ Close(r)
         \/ \E t \in Threads : Mark(r, t)
    \/ \E t \in Threads : Begin(t) \/ End(t)
    \/ Stop \/ Die \/ Boot

Spec == Init /\ [][Next]_vars

-----------------------------------------------------------------------------
(* "Sessions which were active at upgrade time are automatically resumed": *)
(* once the restart is announced, a session that has been running since    *)
(* the snapshot has its row, so that even a kill cannot lose it.           *)
CutOffIsMarked ==
    \A r \in Requests : (up # "down" /\ stage[r] = "restarting") => since \subseteq rows \cup unmarked

(* "Either action grants approval." *)
ReactionApproves == reacted \subseteq approved

(* "Close every approval prompt that the shutdown is about to orphan." *)
NoOrphanPrompt ==
    (up = "down" /\ clean) => \A r \in Requests : stage[r] = "cut" => prompt[r] # "shown"
=======================================================================
