---------------------------- MODULE SessionSlots ----------------------------
(***************************************************************************)
(* The session slot scheduler (claude_discord/session_slots.py): at most   *)
(* maxSlots agent runs at a time, the others wait in a queue that users    *)
(* reorder at runtime, and a hold that keeps every waiter from starting    *)
(* while a restart is reserved.                                            *)
(*                                                                         *)
(* A run is one caller of _acquire_slot (cogs/_run_helper.py), which awaits *)
(* acquire() itself when would_wait says it need not wait, and otherwise   *)
(* makes a task of it, posts a queue message and awaits the task.  A run   *)
(* is in none of the sets while it has nothing to do with a slot, in       *)
(* created while that task has not begun, in waiting or running as its     *)
(* SlotEntry is in _waiting or _running, and in owners once _acquire_slot  *)
(* returned: a run of running \ owners was granted a slot and its caller   *)
(* is still to be resumed, posts the message, or closes it.  A caller that *)
(* is cancelled reaches its task only where it awaits it: anywhere else    *)
(* the entry goes on without it (strays).  The entry's seq number is only  *)
(* ever compared, so ahead[r] records the runs whose seq is smaller.       *)
(***************************************************************************)
EXTENDS Integers, FiniteSets

CONSTANTS Runs,      \* the callers of _acquire_slot
          Threads,   \* thread keys, by which users address the queue
          ThreadOf,  \* the thread of each run
          MaxLimit,  \* MAX_SLOTS
          MaxStrays  \* bound: callers cancelled while they do not await acquire()

DEFERRED == -1
NORMAL == 0
PRIORITIZED == 1
Priorities == {DEFERRED, NORMAL, PRIORITIZED}

ASSUME RunsFinite == IsFiniteSet(Runs)
ASSUME ThreadOfType == ThreadOf \in [Runs -> Threads]
ASSUME MaxLimitType == MaxLimit \in Nat \ {0}
ASSUME MaxStraysType == MaxStrays \in Nat

VARIABLES
    maxSlots,   \* _max_slots
    held,       \* _held
    created,    \* the runs whose acquire() is a task that has not begun
    waiting,    \* the runs whose entry is in _waiting
    running,    \* the runs whose entry is in _running
    owners,     \* the running runs whose _acquire_slot has returned
    cancelled,  \* the runs whose acquire() was sent a CancelledError
    strays,     \* the runs whose caller was cancelled, and not their acquire()
    prio,       \* SlotEntry.priority
    ahead,      \* SlotEntry.seq: the runs with a smaller one
    pausing     \* the runs whose last entry has pause_requested

vars == <<maxSlots, held, created, waiting, running, owners, cancelled, strays,
          prio, ahead, pausing>>

Idle == Runs \ (created \cup waiting \cup running)

TypeOK ==
    /\ maxSlots \in 1..MaxLimit
    /\ held \in BOOLEAN
    /\ waiting \subseteq Runs
    /\ running \subseteq Runs \ waiting
    /\ created \subseteq Runs \ (waiting \cup running)
    /\ owners \subseteq running
    /\ cancelled \subseteq (waiting \cup running) \ owners
    /\ strays \subseteq (created \cup waiting \cup running) \ (owners \cup cancelled)
    /\ prio \in [Runs -> Priorities]
    /\ ahead \in [Runs -> SUBSET Runs]
    /\ pausing \subseteq Runs \ (waiting \cup (running \ owners))

Init ==
    /\ maxSlots \in 1..MaxLimit
    /\ held = FALSE
    /\ created = {} /\ waiting = {} /\ running = {} /\ owners = {}
    /\ cancelled = {} /\ strays = {} /\ pausing = {}
    /\ prio = [r \in Runs |-> NORMAL]
    /\ ahead = [r \in Runs |-> {}]

-----------------------------------------------------------------------------
(* Mutant: waiters of equal priority in any order. *)
PrecedesMutant(a, b) == prio[a] >= prio[b]

(* The key (-priority, seq) of a starts before that of b. *)
Precedes(a, b) == \/ prio[a] > prio[b]
                  \/ prio[a] = prio[b] /\ a \in ahead[b]

(* Mutant: one run too many. *)
DispatchMutant(w, r) ==
    \E started \in SUBSET w :
        /\ waiting' = w \ started /\ running' = r \cup started
        /\ IF held' THEN started = {}
           ELSE started = w \/ Cardinality(running') = maxSlots' + 1

(* Mutant: an entry that starts stays in the queue. *)
DispatchKeepsMutant(w, r) ==
    \E started \in SUBSET w :
        /\ waiting' = w /\ running' = r \cup started
        /\ IF held' THEN started = {}
           ELSE started = w \/ Cardinality(running') = maxSlots'

(* _dispatch, run on the queue w and the running entries r with everything *)
(* else as the step leaves it: it starts waiters in order until no slot or *)
(* no waiter is left, and none at all while held.                          *)
Dispatch(w, r) ==
    \E started \in SUBSET w :
        /\ waiting' = w \ started
        /\ running' = r \cup started
        /\ IF held'
             THEN started = {}
             ELSE /\ started = w \/ Cardinality(running') >= maxSlots'
                  /\ started = {} \/ Cardinality(running') <= maxSlots'
        /\ \A a \in started, b \in w \ started : Precedes(a, b)'

(* Mutant: a raised limit starts nobody. *)
SetMaxSlotsMutant(v) ==
    /\ maxSlots' = v
    /\ UNCHANGED <<held, created, waiting, running, owners, cancelled, strays, prio,
                   ahead, pausing>>

SetMaxSlots(v) ==
    /\ maxSlots' = v
    /\ UNCHANGED <<held, created, owners, cancelled, strays, prio, ahead, pausing>>
    /\ Dispatch(waiting, running)

Hold ==
    /\ held' = TRUE
    /\ UNCHANGED <<maxSlots, created, waiting, running, owners, cancelled, strays,
                   prio, ahead, pausing>>

Unhold ==
    /\ held' = FALSE
    /\ UNCHANGED <<maxSlots, created, owners, cancelled, strays, prio, ahead, pausing>>
    /\ Dispatch(waiting, running)

(* Mutant: the hold is overlooked. *)
WouldWaitMutant(p) == \/ Cardinality(running) >= maxSlots
                      \/ \E w \in waiting : prio[w] >= p

WouldWait(p) == \/ held
                \/ Cardinality(running) >= maxSlots
                \/ \E w \in waiting : prio[w] >= p

(* A run that was paused comes back as DEFERRED, any other as NORMAL. *)
AsksWith(r) == IF r \in pausing THEN DEFERRED ELSE NORMAL

(* acquire up to its await; the new entry is not pausing. *)
Join(r) ==
    /\ prio' = [x \in Runs |-> IF x = r THEN AsksWith(r)
                             ELSE IF x \in waiting THEN prio[x] ELSE NORMAL]
    /\ ahead' = [x \in Runs |-> IF x = r THEN waiting ELSE ahead[x] \cap waiting]
    /\ pausing' = pausing \ {r}
    /\ UNCHANGED <<maxSlots, held, cancelled, strays>>
    /\ Dispatch(waiting \cup {r}, running)

(* An entry that is dropped has no priority and no seq any more; those of *)
(* one that has started are not read again.                                *)
ForgetEntry(r) ==
    /\ prio' = [prio EXCEPT ![r] = NORMAL]
    /\ ahead' = [x \in Runs |-> IF x = r THEN {} ELSE ahead[x] \ {r}]

(* _acquire_slot of a run that is told it starts now: awaiting a future    *)
(* that is done does not suspend it.                                       *)
AcquireAtOnce(r) ==
    /\ r \in Idle /\ ~WouldWait(AsksWith(r))
    /\ Join(r)
    /\ owners' = owners \cup ({r} \cap running')
    /\ UNCHANGED created

(* Of one that is told to wait: it makes a task of acquire() ... *)
CreateAcquire(r) ==
    /\ r \in Idle /\ WouldWait(AsksWith(r))
    /\ created' = created \cup {r}
    /\ UNCHANGED <<maxSlots, held, waiting, running, owners, cancelled, strays, prio,
                   ahead, pausing>>

(* ... which joins the queue as its first step, whoever still awaits it. *)
Acquire(r) ==
    /\ r \in created
    /\ created' = created \ {r}
    /\ Join(r)
    /\ UNCHANGED owners

(* The task of a granted run returns, then its caller: it has posted the   *)
(* queue message and closes it, and makes its entry pausable.              *)
Return(r) ==
    /\ r \in running \ (owners \cup cancelled \cup strays)
    /\ owners' = owners \cup {r}
    /\ UNCHANGED <<maxSlots, held, created, waiting, running, cancelled, strays, prio,
                   ahead, pausing>>

Release(r) ==
    /\ r \in owners
    /\ owners' = owners \ {r}
    /\ UNCHANGED <<maxSlots, held, created, cancelled, strays, pausing>>
    /\ ForgetEntry(r)
    /\ Dispatch(waiting, running \ {r})

(* Task.cancel() of a run in _acquire_slot.  Where it awaits its acquire() *)
(* that is cancelled: the CancelledError is on its way, and until it is    *)
(* raised the entry may still be granted a slot.  In the sleep before, the *)
(* post of the message, or after acquire() has returned, while it closes   *)
(* the message, the entry is left to itself.                               *)
Cancel(r) ==
    /\ r \in (created \cup waiting \cup running) \ (owners \cup cancelled \cup strays)
    /\ \/ /\ r \notin created
          /\ cancelled' = cancelled \cup {r} /\ UNCHANGED strays
       \/ /\ Cardinality(strays) < MaxStrays
          /\ strays' = strays \cup {r} /\ UNCHANGED cancelled
    /\ UNCHANGED <<maxSlots, held, created, waiting, running, owners, prio, ahead,
                   pausing>>

(* Mutant: a slot granted in the same tick is not handed on. *)
LeaveQueueMutant(r) ==
    /\ r \in cancelled
    /\ cancelled' = cancelled \ {r}
    /\ waiting' = waiting \ {r}
    /\ UNCHANGED <<maxSlots, held, created, running, owners, strays, prio, ahead,
                   pausing>>

(* acquire's except clause. *)
LeaveQueue(r) ==
    /\ r \in cancelled
    /\ cancelled' = cancelled \ {r}
    /\ UNCHANGED <<maxSlots, held, created, owners, strays, pausing>>
    /\ ForgetEntry(r)
    /\ IF r \in waiting
         THEN waiting' = waiting \ {r} /\ running' = running
         ELSE Dispatch(waiting, running \ {r})

(* _find_waiting: the first entry of the thread in arrival order. *)
FirstWaiting(t, r) ==
    /\ r \in waiting /\ ThreadOf[r] = t
    /\ \A w \in waiting : ThreadOf[w] = t => w \notin ahead[r]

Prioritize(t) ==
    \E r \in waiting :
        /\ FirstWaiting(t, r)
        /\ prio' = [prio EXCEPT ![r] = PRIORITIZED]
        /\ UNCHANGED <<maxSlots, held, created, owners, cancelled, strays, ahead, pausing>>
        /\ Dispatch(waiting, running)

Defer(t) ==
    \E r \in waiting :
        /\ FirstWaiting(t, r)
        /\ prio' = [prio EXCEPT ![r] = DEFERRED]
        /\ UNCHANGED <<maxSlots, held, created, waiting, running, owners, cancelled,
                       strays, ahead, pausing>>

(* pause, with _find_running: the interrupt it awaits only makes the run's *)
(* stream end sooner, which Release leaves open.                           *)
Pause(t) ==
    \E r \in owners :
        /\ ThreadOf[r] = t
        /\ r \notin pausing
        /\ ~held
        /\ waiting # {}
        /\ pausing' = pausing \cup {r}
        /\ UNCHANGED <<maxSlots, held, created, waiting, running, owners, cancelled,
                       strays, prio, ahead>>

Next ==
    \/ \E v \in 1..MaxLimit : SetMaxSlots(v)
    \/ Hold \/ Unhold
    \/ \E r \in Runs : \/ AcquireAtOnce(r) \/ CreateAcquire(r) \/ Acquire(r)
                       \/ Return(r) \/ Release(r) \/ Cancel(r) \/ LeaveQueue(r)
    \/ \E t \in Threads : Prioritize(t) \/ Defer(t) \/ Pause(t)

(* A scheduled coroutine is resumed, a turn ends (the runner has a         *)
(* timeout), a paused run queues again, and a hold is released: the        *)
(* reservation that took it has a deadline.                                *)
Fairness ==
    /\ WF_vars(Unhold /\ held)
    /\ \A r \in Runs : /\ WF_vars(Acquire(r)) /\ WF_vars(Return(r))
                       /\ WF_vars(LeaveQueue(r)) /\ WF_vars(Release(r))
                       /\ WF_vars(r \in pausing /\ (AcquireAtOnce(r) \/ CreateAcquire(r)))

Spec == Init /\ [][Next]_vars
FairSpec == Spec /\ Fairness

-----------------------------------------------------------------------------
(* No slot stays empty while a run waits for one: whatever frees a slot    *)
(* (a release, a cancelled grant, a higher limit, the end of a hold) hands *)
(* it on in the same step.                                                 *)
WorkConserving == held \/ waiting = {} \/ Cardinality(running) >= maxSlots

Semaphore == INSTANCE SlotSemaphore
               WITH Callers <- Runs, asking <- waiting, holders <- running,
                    limit <- maxSlots, closed <- held

(* "Exactly as the semaphore did": whoever is cancelled, reordered, paused *)
(* or granted in the tick of its cancellation, slots are asked for, given  *)
(* out and given back as by a counting semaphore, in the same steps.       *)
KeepsTheLimit == Semaphore!Spec

(* Of two waiting runs at most one has the smaller seq. *)
ArrivalOrder == \A a, b \in waiting : b \in ahead[a] => a \notin ahead[b]

(* A run that started before another one still waiting, when both were     *)
(* waiting, had a higher priority or had come first.  Users can only undo  *)
(* arrival order by prioritize and defer.                                  *)
Jumped(a, b) == a \in waiting /\ a \notin waiting' /\ a \in running'
                /\ b \in waiting /\ b \in waiting' /\ b \in ahead[a]
ArrivalOrderKept ==
    [][\A a, b \in Runs : Jumped(a, b) => prio'[a] = PRIORITIZED \/ prio[b] = DEFERRED]_vars

(* What _acquire_slot does without a queue message rests on would_wait: a  *)
(* run it lets through has its slot in that very step.  When the task of   *)
(* one that was told to wait begins later, the answer may be another one,  *)
(* and it is exact then too.                                               *)
WouldWaitIsExact ==
    [][\A r \in Runs : /\ AcquireAtOnce(r) => r \in owners'
                       /\ Acquire(r) => (r \in waiting' <=> WouldWait(AsksWith(r)))]_vars

(* "If the slot was granted in the same tick it is handed on, never        *)
(* leaked": an acquire() that is cancelled leaves neither a queue entry    *)
(* nor a slot, also beside callers that are cancelled elsewhere.           *)
CancelledLeaves == \A r \in Runs : r \in cancelled ~> r \in Idle

(* What the same sentence would say of _acquire_slot, and does not hold:   *)
(* a caller that is cancelled leaves neither.                              *)
NothingLeaks == \A r \in Runs : r \in cancelled \cup strays ~> r \in Idle

(* A run with the normal priority starts unless users prioritize others    *)
(* forever or strays take every slot: later arrivals and resumed runs      *)
(* cannot starve it, nor does a stray in the queue or in a slot beside it. *)
NoneJumps == \A r \in waiting : prio[r] # PRIORITIZED
NormalStarts ==
    <>[](NoneJumps /\ Cardinality(strays) < maxSlots)
        => \A r \in Runs : (r \in waiting /\ prio[r] = NORMAL)
                                ~> (r \notin waiting \/ prio[r] = DEFERRED)
=============================================================================
