------------------------------- MODULE Waits -------------------------------
(***************************************************************************)
(* Waits (claude_discord/waits.py, database/wait_repo.py,                  *)
(* cogs/wait_watcher.py, ext/wait_api.py): an agent ends its turn after    *)
(* registering a probe, the watcher runs the probe and resumes the thread  *)
(* with its result.                                                        *)
(*                                                                         *)
(* The rows of pending_waits survive a restart; checks, resume tasks and   *)
(* turns do not.  Time is abstract: a wait whose next check is not before  *)
(* its next step is due, and PassDeadline lets its deadline pass.  A check *)
(* works on the row as due() read it; errors and dfail of a row are only   *)
(* written by the check or resume in flight for it, so the row itself      *)
(* stands for that copy in everything but its status.                      *)
(***************************************************************************)
EXTENDS Integers, FiniteSets

CONSTANTS Discord,        \* threads that live in Discord
          Console,        \* conversations of the console
          Probes,         \* probe command lines (argv)
          Rules,          \* the pending rules of each: exit codes, done values
          MaxRows,        \* bound: waits registered in a behaviour
          MaxCrashes,     \* bound: restarts in a behaviour
          MaxWaitsPerThread, MaxActiveWaits,
          MaxConsecutiveErrors, MaxDeliveryFailures

Threads == Discord \cup Console
Rows == 1..MaxRows
Live == {"active", "resuming"}
Outcomes == {"done", "timeout", "probe_error"}
Statuses == Live \cup Outcomes \cup {"absent", "cancelled", "undeliverable"}
NoTurn == 0
HumanTurn == -1

ASSUME FrontendsDisjoint == Discord \cap Console = {}
ASSUME NotEmpty == Threads # {} /\ Probes # {}
ASSUME RulesType == Rules \in [Probes -> (SUBSET {"exit_codes", "done_values"}) \ {{}}]
ASSUME BoundsType == /\ MaxRows \in Nat /\ MaxCrashes \in Nat
                     /\ MaxWaitsPerThread \in Nat /\ MaxActiveWaits \in Nat
                     /\ MaxConsecutiveErrors \in Nat \ {0}
                     /\ MaxDeliveryFailures \in Nat \ {0}

VARIABLES
    status, thread, argv, errors, dfail, outcome,  \* columns of pending_waits, by id
    expired,    \* the waits whose deadline has passed
    up,         \* the bot is running
    checking,   \* _in_flight: the waits whose _check runs
    verdict,    \* what a check that ran its probe is about to claim, or "none"
    resume,     \* the _resume task of a wait: "none", "delivering", "delivered", "failed"
    pending,    \* resumed turns posted to their thread and not started
    turn,       \* the turn a thread runs: NoTurn, HumanTurn or the wait resuming it
    gone,       \* deleted Discord threads
    crashes,    \* restarts so far
    woken,      \* history: resumed turns of a wait that ran to their end
    cut,        \* history: restarts that hit a wait while it was resuming
    promised    \* history: <<thread, argv>> whose agent was answered "waiting" or
                \* "already_waiting" and has not been resumed, told or cancelled since

row == <<status, thread, argv, errors, dfail, outcome>>
process == <<up, checking, verdict, resume, pending, turn>>
history == <<woken, cut, promised>>
vars == <<row, expired, process, gone, crashes, history>>

TypeOK ==
    /\ status \in [Rows -> Statuses]
    /\ thread \in [Rows -> Threads] /\ argv \in [Rows -> Probes]
    /\ errors \in [Rows -> Nat]
    /\ dfail \in [Rows -> 0..(MaxDeliveryFailures - 1)]
    /\ outcome \in [Rows -> Outcomes \cup {"none"}]
    /\ expired \subseteq Rows /\ up \in BOOLEAN /\ checking \subseteq Rows
    /\ verdict \in [Rows -> Outcomes \cup {"none"}]
    /\ resume \in [Rows -> {"none", "delivering", "delivered", "failed"}]
    /\ pending \subseteq Rows /\ turn \in [Threads -> Rows \cup {NoTurn, HumanTurn}]
    /\ gone \subseteq Discord /\ crashes \in 0..MaxCrashes
    /\ woken \in [Rows -> Nat] /\ cut \in [Rows -> 0..MaxCrashes]
    /\ promised \subseteq Threads \X Probes

Init ==
    /\ status = [w \in Rows |-> "absent"]
    /\ thread = [w \in Rows |-> CHOOSE t \in Threads : TRUE]
    /\ argv = [w \in Rows |-> CHOOSE p \in Probes : TRUE]
    /\ errors = [w \in Rows |-> 0] /\ dfail = [w \in Rows |-> 0]
    /\ outcome = [w \in Rows |-> "none"]
    /\ expired = {} /\ up = TRUE /\ checking = {}
    /\ verdict = [w \in Rows |-> "none"] /\ resume = [w \in Rows |-> "none"]
    /\ pending = {} /\ turn = [t \in Threads |-> NoTurn] /\ gone = {}
    /\ crashes = 0
    /\ woken = [w \in Rows |-> 0] /\ cut = [w \in Rows |-> 0] /\ promised = {}

-----------------------------------------------------------------------------
LiveRows == {w \in Rows : status[w] \in Live}
LiveOf(t, p) == {w \in LiveRows : thread[w] = t /\ argv[w] = p}

Results == [exit : {"none", "pending", "zero", "other"}, matches : BOOLEAN]

(* evaluate_probe on the rules of probe p. *)
EvaluateProbe(p, res) ==
    CASE res.exit = "none" -> "ERROR"
      [] res.exit = "pending" /\ "exit_codes" \in Rules[p] -> "PENDING"
      [] res.exit # "none" /\ ~(res.exit = "pending" /\ "exit_codes" \in Rules[p]) ->
           IF "done_values" \notin Rules[p] THEN "DONE"
           ELSE IF res.exit # "zero" THEN "ERROR"
           ELSE IF res.matches THEN "DONE" ELSE "PENDING"

(* Mutant: a resuming wait is neither counted nor found again. *)
RegisterMutant(t, p) ==
    LET active == {w \in Rows : status[w] = "active"} IN
    /\ up /\ turn[t] # NoTurn
    /\ \A w \in active : thread[w] # t \/ argv[w] # p
    /\ Cardinality({w \in active : thread[w] = t}) < MaxWaitsPerThread
    /\ Cardinality(active) < MaxActiveWaits
    /\ \E w \in Rows :
          /\ status[w] = "absent" /\ \A v \in 1..(w - 1) : status[v] # "absent"
          /\ status' = [status EXCEPT ![w] = "active"]
          /\ thread' = [thread EXCEPT ![w] = t]
          /\ argv' = [argv EXCEPT ![w] = p]
    /\ UNCHANGED <<errors, dfail, outcome, expired, process, gone, crashes, history>>

(* POST /api/waits by the agent of a running turn: create() in one write   *)
(* transaction.  A live wait of the thread on the same argv is returned as *)
(* it is; at a limit nothing is stored and the agent gets an error.        *)
Register(t, p) ==
    /\ up /\ turn[t] # NoTurn
    /\ \/ /\ LiveOf(t, p) # {}
          /\ UNCHANGED row
       \/ /\ LiveOf(t, p) = {}
          /\ Cardinality({w \in LiveRows : thread[w] = t}) < MaxWaitsPerThread
          /\ Cardinality(LiveRows) < MaxActiveWaits
          /\ \E w \in Rows :
                /\ status[w] = "absent"
                /\ \A v \in 1..(w - 1) : status[v] # "absent"
                /\ status' = [status EXCEPT ![w] = "active"]
                /\ thread' = [thread EXCEPT ![w] = t]
                /\ argv' = [argv EXCEPT ![w] = p]
                /\ UNCHANGED <<errors, dfail, outcome>>
    /\ promised' = promised \cup {<<t, p>>}
    /\ UNCHANGED <<expired, process, gone, crashes, woken, cut>>

(* Mutant: a wait whose resume is under way is cancelled too. *)
CancelWaitMutant(w) ==
    /\ up /\ status[w] \in Live
    /\ status' = [status EXCEPT ![w] = "cancelled"]
    /\ UNCHANGED <<thread, argv, errors, dfail, outcome, expired, process, gone,
                   crashes, history>>

(* DELETE /api/waits/{id}, from anywhere: only an active wait is cancelled. *)
CancelWait(w) ==
    /\ up /\ status[w] = "active"
    /\ status' = [status EXCEPT ![w] = "cancelled"]
    /\ promised' = promised \ {<<thread[w], argv[w]>>}
    /\ UNCHANGED <<thread, argv, errors, dfail, outcome, expired, process, gone,
                   crashes, woken, cut>>

PassDeadline(w) ==
    /\ status[w] \in Live /\ w \notin expired
    /\ expired' = expired \cup {w}
    /\ UNCHANGED <<row, process, gone, crashes, history>>

(* tick: a due wait that is not being checked gets a _check. *)
Tick(w) ==
    /\ up /\ status[w] = "active" /\ w \notin checking
    /\ checking' = checking \cup {w}
    /\ UNCHANGED <<row, expired, up, verdict, resume, pending, turn, gone,
                   crashes, history>>

(* Mutant: a pending probe outlives its deadline. *)
ProbeMutant(w, res) ==
    LET v == EvaluateProbe(argv[w], res)
        n == IF v = "ERROR" THEN errors[w] + 1 ELSE 0
        o == IF v = "DONE" THEN "done"
             ELSE IF n >= MaxConsecutiveErrors THEN "probe_error" ELSE "none"
    IN /\ w \in checking /\ verdict[w] = "none"
       /\ errors' = IF status[w] = "active" THEN [errors EXCEPT ![w] = n] ELSE errors
       /\ verdict' = [verdict EXCEPT ![w] = o]
       /\ checking' = IF o = "none" THEN checking \ {w} ELSE checking
       /\ UNCHANGED <<status, thread, argv, dfail, outcome, expired, up, resume,
                      pending, turn, gone, crashes, history>>

(* _check up to record_probe, which writes only to a wait still active;    *)
(* the outcome is decided from the check's own count of errors.            *)
Probe(w, res) ==
    LET v == EvaluateProbe(argv[w], res)
        n == IF v = "ERROR" THEN errors[w] + 1 ELSE 0
        o == IF v = "DONE" THEN "done"
             ELSE IF n >= MaxConsecutiveErrors THEN "probe_error"
             ELSE IF w \in expired THEN "timeout" ELSE "none"
    IN /\ w \in checking /\ verdict[w] = "none"
       /\ errors' = IF status[w] = "active" THEN [errors EXCEPT ![w] = n] ELSE errors
       /\ verdict' = [verdict EXCEPT ![w] = o]
       /\ checking' = IF o = "none" THEN checking \ {w} ELSE checking
       /\ UNCHANGED <<status, thread, argv, dfail, outcome, expired, up, resume,
                      pending, turn, gone, crashes, history>>

(* _finish: whoever flips the row from active to resuming starts the one   *)
(* _resume task.                                                           *)
Claim(w) ==
    /\ w \in checking /\ verdict[w] # "none"
    /\ IF status[w] = "active"
         THEN /\ status' = [status EXCEPT ![w] = "resuming"]
              /\ outcome' = [outcome EXCEPT ![w] = verdict[w]]
              /\ resume' = [resume EXCEPT ![w] = "delivering"]
         ELSE UNCHANGED <<status, outcome, resume>>
    /\ checking' = checking \ {w}
    /\ verdict' = [verdict EXCEPT ![w] = "none"]
    /\ UNCHANGED <<thread, argv, errors, dfail, expired, up, pending, turn, gone,
                   crashes, history>>

(* Mutant: every thread counts as delivered to once its turn is spawned. *)
DeliverMutant(w) ==
    /\ resume[w] = "delivering" /\ w \notin pending /\ turn[thread[w]] # w
    /\ pending' = IF thread[w] \in gone THEN pending ELSE pending \cup {w}
    /\ resume' = [resume EXCEPT ![w] = "delivered"]
    /\ UNCHANGED <<row, expired, up, checking, verdict, turn, gone, crashes, history>>

(* _deliver_to_discord.  A Discord thread is delivered to when the resumed *)
(* turn has run; a console conversation as soon as its turn is spawned     *)
(* (ConsoleSessionHost.reply); a deleted thread at once.                   *)
Deliver(w) ==
    /\ resume[w] = "delivering" /\ w \notin pending /\ turn[thread[w]] # w
    /\ \/ /\ thread[w] \notin gone
          /\ pending' = pending \cup {w}
          /\ resume' = [resume EXCEPT ![w] = IF thread[w] \in Console
                                               THEN "delivered" ELSE "delivering"]
       \/ /\ thread[w] \in gone
          /\ resume' = [resume EXCEPT ![w] = "delivered"]
          /\ UNCHANGED pending
    /\ UNCHANGED <<row, expired, up, checking, verdict, turn, gone, crashes, history>>

(* The thread cannot be reached, or the turn waiting for it cannot start.  *)
DeliverFails(w) ==
    /\ resume[w] = "delivering" /\ turn[thread[w]] # w
    /\ resume' = [resume EXCEPT ![w] = "failed"]
    /\ pending' = pending \ {w}
    /\ UNCHANGED <<row, expired, up, checking, verdict, turn, gone, crashes, history>>

(* The resumed turn queues behind any turn of its thread. *)
StartTurn(w) ==
    /\ w \in pending /\ turn[thread[w]] = NoTurn /\ thread[w] \notin gone
    /\ pending' = pending \ {w}
    /\ turn' = [turn EXCEPT ![thread[w]] = w]
    /\ promised' = promised \ {<<thread[w], argv[w]>>}
    /\ UNCHANGED <<row, expired, up, checking, verdict, resume, gone, crashes,
                   woken, cut>>

(* Its end; an error raised by the turn of a Discord thread is a failed    *)
(* delivery.                                                               *)
EndTurn(w) ==
    /\ turn[thread[w]] = w
    /\ turn' = [turn EXCEPT ![thread[w]] = NoTurn]
    /\ woken' = [woken EXCEPT ![w] = @ + 1]
    /\ IF resume[w] = "delivering"
         THEN \E end \in {"delivered", "failed"} : resume' = [resume EXCEPT ![w] = end]
         ELSE UNCHANGED resume
    /\ UNCHANGED <<row, expired, up, checking, verdict, pending, gone, crashes,
                   cut, promised>>

(* Mutants: one delivery too many; a failed delivery is not counted. *)
RecordFails(w, most, step) ==
    /\ resume[w] \in {"delivered", "failed"} /\ status[w] = "resuming"
    /\ resume' = [resume EXCEPT ![w] = "none"]
    /\ LET to == IF resume[w] = "delivered" THEN outcome[w]
                 ELSE IF dfail[w] + 1 > most THEN "undeliverable" ELSE "active"
       IN /\ status' = [status EXCEPT ![w] = to]
          /\ dfail' = [dfail EXCEPT ![w] = @ + (IF to = "active" THEN step ELSE 0)]
    /\ UNCHANGED <<thread, argv, errors, outcome, expired, up, checking, verdict,
                   pending, turn, gone, crashes, history>>
RecordOneMoreMutant(w) == RecordFails(w, MaxDeliveryFailures, 1)
RecordUncountedMutant(w) == RecordFails(w, MaxDeliveryFailures, 0)

(* _resume after the delivery: mark_delivered, give_up or release_for_retry. *)
Record(w) ==
    /\ resume[w] \in {"delivered", "failed"}
    /\ resume' = [resume EXCEPT ![w] = "none"]
    /\ LET givesUp == dfail[w] + 1 >= MaxDeliveryFailures
           to == IF resume[w] = "delivered" THEN outcome[w]
                 ELSE IF givesUp THEN "undeliverable" ELSE "active"
       IN /\ status' = IF status[w] = "resuming" THEN [status EXCEPT ![w] = to] ELSE status
          /\ dfail' = IF status[w] = "resuming" /\ to = "active"
                        THEN [dfail EXCEPT ![w] = @ + 1] ELSE dfail
          /\ promised' = IF to = "undeliverable"
                           THEN promised \ {<<thread[w], argv[w]>>} ELSE promised
    /\ UNCHANGED <<thread, argv, errors, outcome, expired, up, checking, verdict,
                   pending, turn, gone, crashes, woken, cut>>

(* Turns a human starts, and the deletion of a Discord thread. *)
StartHumanTurn(t) ==
    /\ up /\ turn[t] = NoTurn /\ t \notin gone
    /\ turn' = [turn EXCEPT ![t] = HumanTurn]
    /\ UNCHANGED <<row, expired, up, checking, verdict, resume, pending, gone,
                   crashes, history>>

EndHumanTurn(t) ==
    /\ turn[t] = HumanTurn
    /\ turn' = [turn EXCEPT ![t] = NoTurn]
    /\ UNCHANGED <<row, expired, up, checking, verdict, resume, pending, gone,
                   crashes, history>>

DeleteThread(t) ==
    /\ t \in Discord \ gone
    /\ gone' = gone \cup {t}
    /\ promised' = {x \in promised : x[1] # t}
    /\ UNCHANGED <<row, expired, process, crashes, woken, cut>>

Crash ==
    /\ up /\ crashes < MaxCrashes
    /\ up' = FALSE
    /\ crashes' = crashes + 1
    /\ checking' = {} /\ verdict' = [w \in Rows |-> "none"]
    /\ resume' = [w \in Rows |-> "none"] /\ pending' = {}
    /\ turn' = [t \in Threads |-> NoTurn]
    /\ cut' = [w \in Rows |-> IF status[w] = "resuming" THEN cut[w] + 1 ELSE cut[w]]
    /\ UNCHANGED <<row, expired, gone, woken, promised>>

(* cog_load: recover_interrupted, then the loop starts. *)
Boot ==
    /\ ~up
    /\ up' = TRUE
    /\ status' = [w \in Rows |-> IF status[w] = "resuming" THEN "active" ELSE status[w]]
    /\ UNCHANGED <<thread, argv, errors, dfail, outcome, expired, checking, verdict,
                   resume, pending, turn, gone, crashes, history>>

Next ==
    \/ Crash \/ Boot
    \/ \E t \in Threads : \/ StartHumanTurn(t) \/ EndHumanTurn(t) \/ DeleteThread(t)
                          \/ \E p \in Probes : Register(t, p)
    \/ \E w \in Rows : \/ CancelWait(w) \/ PassDeadline(w) \/ Tick(w)
                       \/ \E res \in Results : Probe(w, res)
                       \/ Claim(w) \/ Deliver(w) \/ DeliverFails(w) \/ StartTurn(w)
                       \/ EndTurn(w) \/ Record(w)

(* The loop ticks, a probe has a timeout of its own, a deadline passes, a  *)
(* turn ends, and the queue for a thread's lock is first in first out, so  *)
(* a turn waiting there is not overtaken for ever.                         *)
Fairness ==
    /\ WF_vars(Boot)
    /\ \A t \in Threads : WF_vars(EndHumanTurn(t))
    /\ \A w \in Rows :
          /\ WF_vars(PassDeadline(w)) /\ WF_vars(Tick(w))
          /\ WF_vars(\E res \in Results : Probe(w, res)) /\ WF_vars(Claim(w))
          /\ WF_vars(Deliver(w) \/ (DeliverFails(w) /\ (w \notin pending \/ thread[w] \in gone)))
          /\ SF_vars(StartTurn(w))
          /\ WF_vars(EndTurn(w)) /\ WF_vars(Record(w))

Spec == Init /\ [][Next]_vars
FairSpec == Spec /\ Fairness

-----------------------------------------------------------------------------
(* "Once" (docs/waits.md): a wait resumes its thread once more only after  *)
(* a failed delivery or a restart that cut the resume off.                 *)
ResumedOnce == \A w \in Rows : woken[w] <= 1 + dfail[w] + cut[w]

(* A cancelled wait starts no turn: cancel and claim exclude each other    *)
(* whatever the probe was doing when the cancel came.                      *)
CancelledStaysQuiet ==
    \A w \in Rows : status[w] = "cancelled" => /\ resume[w] = "none" /\ w \notin pending
                                               /\ turn[thread[w]] # w

(* The limits hold in every state, although checks, retries and recovery   *)
(* move waits between active and resuming without looking at them; and an  *)
(* agent told twice to wait has one live wait.                             *)
LiveWithinLimits ==
    /\ Cardinality(LiveRows) <= MaxActiveWaits
    /\ \A t \in Threads : Cardinality({w \in LiveRows : thread[w] = t}) <= MaxWaitsPerThread
    /\ \A t \in Threads, p \in Probes : Cardinality(LiveOf(t, p)) <= 1

(* "A finished wait is resuming until the thread's next turn has run", for *)
(* the threads of Discord that still exist.                                *)
FinishedMeansRun(Scope) ==
    \A w \in Rows : status[w] \in Outcomes /\ thread[w] \in Scope \ gone => woken[w] > 0
FinishedDiscordWaitHasRun == FinishedMeansRun(Discord)

(* The same sentence for every conversation, the console's included.       *)
FinishedWaitHasRun == FinishedMeansRun(Threads)

(* "Never lost" and "resumed once": an agent that was answered waiting or  *)
(* already_waiting has a live wait, or a turn on its way, until it is      *)
(* resumed.                                                                *)
RegisteredIsWatched ==
    \A t \in Threads \ gone, p \in Probes : <<t, p>> \in promised =>
        LiveOf(t, p) # {} \/ \E w \in pending : thread[w] = t /\ argv[w] = p

(* Every live wait ends: by its outcome, a cancel, or as undeliverable.    *)
EveryWaitEnds == \A w \in Rows : status[w] \in Live ~> status[w] \notin Live
=============================================================================
