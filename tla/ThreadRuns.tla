----------------------------- MODULE ThreadRuns -----------------------------
(***************************************************************************)
(* The runs of one Discord thread (_run_claude, _evict_active_run and      *)
(* /clear of claude_discord/cogs/claude_chat.py, and the life of the       *)
(* process in run_claude_with_config of cogs/_run_helper.py).              *)
(*                                                                         *)
(* Every message, relay or replay is an asyncio task.  Under the thread's  *)
(* lock it evicts the run in flight and registers its own; outside the     *)
(* lock it takes a session slot and drives the agent's processes, several  *)
(* in a row when the run pauses, compacts or asks.  Turns end in any       *)
(* order; the slot limiter and the rest of a turn are other modules.       *)
(***************************************************************************)
EXTENDS Integers, Sequences, SequencesExt

CONSTANTS Tasks,
          Interrupts,   \* the tasks started with interrupt_existing
          MaxReruns,    \* bound: further processes of one run
          MaxClears,    \* bound: /clear and /rewind of a thread without history
          MayRetry,     \* whether an account pool with retry_on_exhaustion is set
          SendMayFail   \* whether posting to the thread may raise

None == "none"

ASSUME TasksType == None \notin Tasks /\ Interrupts \subseteq Tasks
ASSUME BoundsType == /\ MaxReruns \in Nat /\ MaxClears \in Nat
                     /\ {MayRetry, SendMayFail} \subseteq BOOLEAN

(* A run's template is what _run_claude registers; the process belongs to  *)
(* the clone run_claude_with_config makes of it.                           *)
Runners == Tasks \X {"template", "clone"}
NoRunner == <<None, "template">>

VARIABLES
    pc,            \* of each task: "absent", "handoff", "locking", "evicting" (awaits
                   \* the run in flight), "building", "registered", "starting" (until it
                   \* has a slot), "running", "between" (two processes), "cleanup",
                   \* "finishing", "over"
    lock,          \* the thread's lock: the tasks in order of arrival, its holder first
    activeRunner,  \* _active_runners[thread], or NoRunner
    activeTask,    \* _active_tasks[thread], or None
    awaits,        \* the task each evicting task awaits, or None
    live,          \* the clones that own a process
    signalled,     \* history: the clones whose process got SIGINT
    reruns,        \* further processes a run has started
    retried,       \* the tasks on their _account_retry
    clears,        \* how often the entries were cleared from outside
    raised         \* history: the registered tasks that ended without a cleanup

vars == <<pc, lock, activeRunner, activeTask, awaits, live, signalled, reruns,
          retried, clears, raised>>

Stages == {"absent", "handoff", "locking", "evicting", "building", "registered",
           "starting", "running", "between", "cleanup", "finishing", "over"}

TypeOK ==
    /\ pc \in [Tasks -> Stages]
    /\ lock \in Seq(Tasks) /\ IsInjective(lock)
    /\ activeRunner \in Runners \cup {NoRunner} /\ activeTask \in Tasks \cup {None}
    /\ awaits \in [Tasks -> Tasks \cup {None}]
    /\ live \subseteq Runners /\ signalled \subseteq Runners
    /\ reruns \in [Tasks -> 0..MaxReruns] /\ retried \subseteq Tasks
    /\ clears \in 0..MaxClears /\ raised \subseteq Tasks

Init ==
    /\ pc = [t \in Tasks |-> "absent"]
    /\ lock = <<>> /\ activeRunner = NoRunner /\ activeTask = None
    /\ awaits = [t \in Tasks |-> None]
    /\ live = {} /\ signalled = {} /\ reruns = [t \in Tasks |-> 0]
    /\ retried = {} /\ clears = 0 /\ raised = {}

-----------------------------------------------------------------------------
Holds(t) == lock # <<>> /\ Head(lock) = t
Goes(t, from, to) == pc[t] = from /\ pc' = [pc EXCEPT ![t] = to]

(* runner.interrupt(): SIGINT to the process the runner owns, if it does.  *)
Interrupt(r) == signalled' = IF r \in live THEN signalled \cup {r} ELSE signalled

Arrive(t) ==
    /\ Goes(t, "absent", "handoff")
    /\ UNCHANGED <<lock, activeRunner, activeTask, awaits, live, signalled, reruns,
                   retried, clears, raised>>

(* After _prepare_cross_backend_handoff: join the queue for the lock. *)
JoinLock(t) ==
    /\ Goes(t, "handoff", "locking")
    /\ lock' = Append(lock, t)
    /\ UNCHANGED <<activeRunner, activeTask, awaits, live, signalled, reruns,
                   retried, clears, raised>>

(* _evict_active_run: without a registered runner nothing is evicted; a    *)
(* task registered by this very task, or done, is not awaited.             *)
Evict(t) ==
    /\ Holds(t)
    /\ Goes(t, "locking", "evicting")
    /\ LET waitsFor == activeRunner # NoRunner /\ activeTask \notin {None, t}
       IN awaits' = [awaits EXCEPT ![t] =
                       IF waitsFor /\ pc[activeTask] # "over" THEN activeTask ELSE None]
    /\ IF activeRunner # NoRunner /\ t \in Interrupts \ retried
         THEN Interrupt(activeRunner)
         ELSE UNCHANGED signalled
    /\ UNCHANGED <<lock, activeRunner, activeTask, live, reruns, retried, clears, raised>>

(* Mutant: the evicted task is not awaited. *)
EvictedMutant(t) ==
    /\ Goes(t, "evicting", "building")
    /\ awaits' = [awaits EXCEPT ![t] = None]
    /\ UNCHANGED <<lock, activeRunner, activeTask, live, signalled, reruns, retried,
                   clears, raised>>

Evicted(t) ==
    /\ awaits[t] # None => pc[awaits[t]] = "over"
    /\ Goes(t, "evicting", "building")
    /\ awaits' = [awaits EXCEPT ![t] = None]
    /\ UNCHANGED <<lock, activeRunner, activeTask, live, signalled, reruns, retried,
                   clears, raised>>

Register(t) ==
    /\ Goes(t, "building", "registered")
    /\ activeRunner' = <<t, "template">> /\ activeTask' = t
    /\ UNCHANGED <<lock, awaits, live, signalled, reruns, retried, clears, raised>>

(* An error of the phase under the lock. *)
Raises(t) ==
    /\ SendMayFail
    /\ \/ Goes(t, "building", "over") /\ UNCHANGED raised
       \/ Goes(t, "registered", "over") /\ raised' = raised \cup {t}

(* Mutant: the lock is not released. *)
LeaveLockMutant(t) ==
    /\ \/ Goes(t, "registered", "starting") /\ UNCHANGED raised
       \/ Raises(t)
    /\ UNCHANGED <<lock, activeRunner, activeTask, awaits, live, signalled, reruns,
                   retried, clears>>

(* The stop button is posted and the lock released.  An error ends the     *)
(* task: before its registration, or with its entries in place.            *)
LeaveLock(t) ==
    /\ \/ Goes(t, "registered", "starting") /\ UNCHANGED raised
       \/ Raises(t)
    /\ lock' = Tail(lock)
    /\ UNCHANGED <<activeRunner, activeTask, awaits, live, signalled, reruns, retried,
                   clears>>

(* run_claude_with_config has its slot: the clone's process starts. *)
StartProcess(t) ==
    /\ Goes(t, "starting", "running")
    /\ live' = live \cup {<<t, "clone">>}
    /\ UNCHANGED <<lock, activeRunner, activeTask, awaits, signalled, reruns, retried,
                   clears, raised>>

EndProcess(t) ==
    /\ Goes(t, "running", "between")
    /\ live' = live \ {<<t, "clone">>}
    /\ signalled' = signalled \ {<<t, "clone">>}
    /\ UNCHANGED <<lock, activeRunner, activeTask, awaits, reruns, retried, clears, raised>>

(* Pause, compaction, answered question or the PR gate: the run goes on in *)
(* a process of its own.                                                   *)
Rerun(t) ==
    /\ reruns[t] < MaxReruns
    /\ Goes(t, "between", "starting")
    /\ reruns' = [reruns EXCEPT ![t] = @ + 1]
    /\ UNCHANGED <<lock, activeRunner, activeTask, awaits, live, signalled, retried,
                   clears, raised>>

(* The run returns, or raises before it has a slot. *)
FinishRun(t) ==
    /\ \/ Goes(t, "between", "cleanup")
       \/ SendMayFail /\ Goes(t, "starting", "cleanup")
    /\ UNCHANGED <<lock, activeRunner, activeTask, awaits, live, signalled, reruns,
                   retried, clears, raised>>

(* Mutant: only the task is removed. *)
CleanupHalfMutant(t) ==
    /\ Goes(t, "cleanup", "finishing")
    /\ activeTask' = IF activeTask = t THEN None ELSE activeTask
    /\ UNCHANGED <<lock, activeRunner, awaits, live, signalled, reruns, retried, clears, raised>>

(* The finally of phase 2: only the run's own entries are removed. *)
Cleanup(t) ==
    /\ Goes(t, "cleanup", "finishing")
    /\ activeRunner' = IF activeRunner = <<t, "template">> THEN NoRunner ELSE activeRunner
    /\ activeTask' = IF activeTask = t THEN None ELSE activeTask
    /\ UNCHANGED <<lock, awaits, live, signalled, reruns, retried, clears, raised>>

(* What comes after it in the same task: nothing, or _run_claude again on  *)
(* the next account, once.                                                 *)
Finish(t) ==
    /\ \/ Goes(t, "finishing", "over") /\ UNCHANGED retried
       \/ /\ MayRetry /\ t \notin retried
          /\ Goes(t, "finishing", "handoff")
          /\ retried' = retried \cup {t}
    /\ UNCHANGED <<lock, activeRunner, activeTask, awaits, live, signalled, reruns,
                   clears, raised>>

(* /clear (and /rewind without history): kill the registered runner and    *)
(* drop its entry.  What is killed is the template, which owns no process. *)
Clear ==
    /\ activeRunner # NoRunner /\ clears < MaxClears
    /\ clears' = clears + 1
    /\ Interrupt(activeRunner)
    /\ activeRunner' = NoRunner
    /\ UNCHANGED <<pc, lock, activeTask, awaits, live, reruns, retried, raised>>

Step(t) == \/ JoinLock(t) \/ Evict(t) \/ Evicted(t) \/ Register(t) \/ LeaveLock(t)
           \/ StartProcess(t) \/ EndProcess(t) \/ Rerun(t) \/ FinishRun(t)
           \/ Cleanup(t) \/ Finish(t)

Next == Clear \/ \E t \in Tasks : Arrive(t) \/ Step(t)

(* The event loop runs every task that can go on; a turn ends.             *)
Fairness == \A t \in Tasks : WF_vars(Step(t))

Spec == Init /\ [][Next]_vars
FairSpec == Spec /\ Fairness

-----------------------------------------------------------------------------
(* "At most one Claude run may be active per thread at any time": two runs *)
(* never drive processes, or wait for a slot to, at the same time.         *)
RunStages == {"starting", "running", "between"}
OneRunPerThread == \A t, u \in Tasks : pc[t] \in RunStages /\ pc[u] \in RunStages => t = u

(* Until someone clears the entries from outside, a run in flight is the   *)
(* registered one, or the next message would start next to it; the cleanup *)
(* of an earlier run never removes it.                                     *)
RunIsRegistered ==
    clears = 0 => \A t \in Tasks : pc[t] \in RunStages => activeRunner = <<t, "template">>
                                                            /\ activeTask = t

(* "Idle sessions are NOT in _active_runners": an entry left behind makes  *)
(* /compact and /goal refuse and an upgrade wait for a run that is over.   *)
(* Whatever clears or retries happen, only a post that raises between the  *)
(* registration and the run leaves one.                                    *)
RegisteredIsAlive ==
    activeRunner # NoRunner => \/ pc[activeRunner[1]] # "over"
                               \/ activeRunner[1] \in raised

(* Taken literally, the sentence does not hold of that post. *)
NoDeadEntry == activeRunner # NoRunner => pc[activeRunner[1]] # "over"

(* "It never blocks on the lock we hold here": the task whose run is being *)
(* evicted does not itself wait for the lock the evicting task holds.      *)
EvictedNeverLocks ==
    \A t \in Tasks : awaits[t] # None => pc[awaits[t]] # "locking"

(* "The in-flight runner is SIGINT'd": a task that evicts with interrupt   *)
(* interrupts the process of the run it then awaits.                       *)
InterruptReachesProcess ==
    [][\A t \in Interrupts : awaits[t] = None /\ awaits'[t] # None => signalled' = live]_vars

(* A message that reached its thread is handled, whatever the others do.   *)
EveryTaskEnds == \A t \in Tasks : pc[t] = "handoff" ~> pc[t] = "over"
=============================================================================
