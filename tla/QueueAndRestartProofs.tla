----------------------- MODULE QueueAndRestartProofs -----------------------
(***************************************************************************)
(* Safety of the slot scheduler for every set of runs and every limit.     *)
(* The inductive invariant is TypeOK with WorkConserving and ArrivalOrder; *)
(* the three action properties follow from it.  At the end, what           *)
(* RestartReservationProofs proves is carried over to the composition.     *)
(***************************************************************************)
EXTENDS QueueAndRestart, FiniteSetTheorems, TLAPS

IInv == TypeOK /\ WorkConserving /\ ArrivalOrder

(* What a dispatch on the queue w and the running entries r leaves behind. *)
LEMMA DispatchEffect ==
    ASSUME NEW w, NEW r, w \cap r = {}, Dispatch(w, r)
    PROVE  /\ waiting' \subseteq w
           /\ running' \cap waiting' = {}
           /\ r \subseteq running'
           /\ running' \subseteq r \cup w
           /\ waiting' \cup running' = w \cup r
           /\ WorkConserving'
           /\ running' \subseteq r \/ (~held' /\ Cardinality(running') <= maxSlots')
           /\ \A a \in w \cap running', b \in waiting' : Precedes(a, b)'
BY DEF Dispatch, WorkConserving

LEMMA InitInv == Init => IInv
BY MaxLimitType DEF Init, IInv, TypeOK, WorkConserving, ArrivalOrder, Priorities, NORMAL

(* A run that joins the queue is behind those that wait already. *)
LEMMA JoinKeeps ==
    ASSUME IInv, NEW r \in Runs, Join(r), r \notin waiting, r \notin running,
           owners' \subseteq owners \cup ({r} \cap running'), owners \subseteq owners',
           created' = created \ {r}, r \in strays => owners' = owners
    PROVE  IInv'
<1> USE DEF IInv
<1> DEFINE w == waiting \cup {r}
<1>1. w \cap running = {} /\ w \in SUBSET Runs /\ running \in SUBSET Runs
  BY DEF TypeOK
<1>2. Dispatch(w, running)
  BY DEF Join
<1>3. /\ waiting' \subseteq w
      /\ running' \cap waiting' = {}
      /\ running \subseteq running'
      /\ waiting' \cup running' = w \cup running
      /\ WorkConserving'
  BY <1>1, <1>2, DispatchEffect
<1>4. prio' \in [Runs -> Priorities] /\ ahead' \in [Runs -> SUBSET Runs]
  BY DEF Join, AsksWith, TypeOK, Priorities, NORMAL, DEFERRED
<1>5. /\ pausing' = pausing \ {r}
      /\ UNCHANGED <<maxSlots, held, cancelled, strays>>
  BY DEF Join
<1>6. TypeOK'
  <2>1. /\ owners' \subseteq running'
        /\ created' \subseteq Runs \ (waiting' \cup running')
        /\ cancelled' \subseteq (waiting' \cup running') \ owners'
        /\ pausing' \subseteq Runs \ (waiting' \cup (running' \ owners'))
    BY <1>1, <1>3, <1>5 DEF TypeOK
  <2>2. strays' \subseteq (created' \cup waiting' \cup running') \ (owners' \cup cancelled')
    BY <1>1, <1>3, <1>5 DEF TypeOK
  <2>3. QED
    BY <1>1, <1>3, <1>4, <1>5, <2>1, <2>2 DEF TypeOK
<1>7. ArrivalOrder'
  <2> SUFFICES ASSUME NEW a \in waiting', NEW b \in waiting', b \in ahead'[a]
               PROVE  a \notin ahead'[b]
    BY DEF ArrivalOrder
  <2>1. a \in w /\ b \in w /\ a \in Runs /\ b \in Runs
    BY <1>1, <1>3
  <2>2. /\ ahead'[a] = IF a = r THEN waiting ELSE ahead[a] \cap waiting
        /\ ahead'[b] = IF b = r THEN waiting ELSE ahead[b] \cap waiting
    BY <2>1 DEF Join
  <2>3. QED
    BY <2>1, <2>2 DEF ArrivalOrder
<1>8. QED
  BY <1>3, <1>6, <1>7

(* An entry that is dropped changes nothing between the others. *)
LEMMA ForgetKeeps ==
    ASSUME TypeOK, ArrivalOrder, NEW r \in Runs, ForgetEntry(r), waiting' \subseteq waiting
    PROVE  /\ prio' \in [Runs -> Priorities] /\ ahead' \in [Runs -> SUBSET Runs]
           /\ ArrivalOrder'
           /\ \A a \in Runs \ {r} : prio'[a] = prio[a] /\ ahead'[a] \subseteq ahead[a]
<1>1. prio' \in [Runs -> Priorities] /\ ahead' \in [Runs -> SUBSET Runs]
  BY DEF ForgetEntry, TypeOK, Priorities, NORMAL
<1>2. \A a \in Runs \ {r} : prio'[a] = prio[a] /\ ahead'[a] = ahead[a] \ {r}
  BY DEF ForgetEntry, TypeOK
<1>3. ahead'[r] = {}
  BY DEF ForgetEntry
<1>4. ArrivalOrder'
  BY <1>2, <1>3 DEF ArrivalOrder, TypeOK
<1>5. QED
  BY <1>1, <1>2, <1>4

LEMMA StepInv == IInv /\ [Next]_vars => IInv'
<1> SUFFICES ASSUME IInv, [Next]_vars PROVE IInv'
  OBVIOUS
<1> USE DEF IInv
<1>1. ASSUME NEW v \in 1..MaxLimit, SetMaxSlots(v) PROVE IInv'
  <2>1. waiting \cap running = {} /\ waiting \in SUBSET Runs /\ running \in SUBSET Runs
    BY DEF TypeOK
  <2>2. QED
    BY <1>1, <2>1, DispatchEffect DEF SetMaxSlots, TypeOK, ArrivalOrder
<1>2. CASE Hold
  BY <1>2 DEF Hold, TypeOK, WorkConserving, ArrivalOrder
<1>3. CASE Unhold
  <2>1. waiting \cap running = {} /\ waiting \in SUBSET Runs /\ running \in SUBSET Runs
    BY DEF TypeOK
  <2>2. /\ waiting' \subseteq waiting
        /\ running' \cap waiting' = {}
        /\ running \subseteq running'
        /\ waiting' \cup running' = waiting \cup running
        /\ WorkConserving'
    BY <1>3, <2>1, DispatchEffect DEF Unhold
  <2>3. QED
    BY <1>3, <2>2 DEF Unhold, TypeOK, ArrivalOrder
<1>4. ASSUME NEW r \in Runs, AcquireAtOnce(r) \/ Acquire(r) PROVE IInv'
  <2>1. /\ Join(r) /\ r \notin waiting /\ r \notin running
        /\ owners' \subseteq owners \cup ({r} \cap running') /\ owners \subseteq owners'
        /\ created' = created \ {r} /\ (r \in strays => owners' = owners)
    BY <1>4 DEF AcquireAtOnce, Acquire, Idle, TypeOK
  <2>2. QED
    BY <2>1, JoinKeeps
<1>5. ASSUME NEW r \in Runs, CreateAcquire(r) \/ Return(r) PROVE IInv'
  BY <1>5 DEF CreateAcquire, Return, Idle, TypeOK, WorkConserving, ArrivalOrder
<1>7. ASSUME NEW r \in Runs, Release(r) PROVE IInv'
  <2>1. /\ waiting \cap (running \ {r}) = {}
        /\ waiting \in SUBSET Runs /\ running \ {r} \in SUBSET Runs
    BY DEF TypeOK
  <2>2. /\ waiting' \subseteq waiting
        /\ running' \cap waiting' = {}
        /\ running \ {r} \subseteq running'
        /\ waiting' \cup running' = waiting \cup (running \ {r})
        /\ WorkConserving'
    BY <1>7, <2>1, DispatchEffect DEF Release
  <2>3. ForgetEntry(r)
    BY <1>7 DEF Release
  <2>4. TypeOK'
    <3>1. /\ UNCHANGED <<maxSlots, held, created, cancelled, strays, pausing>>
          /\ owners' = owners \ {r} /\ r \in owners
      BY <1>7 DEF Release
    <3>2. r \notin waiting /\ r \notin running'
      BY <2>1, <2>2, <3>1 DEF TypeOK
    <3>3. /\ owners' \subseteq running'
          /\ cancelled' \subseteq (waiting' \cup running') \ owners'
          /\ strays' \subseteq (created' \cup waiting' \cup running') \ (owners' \cup cancelled')
          /\ created' \subseteq Runs \ (waiting' \cup running')
      BY <2>2, <3>1 DEF TypeOK
    <3>4. pausing' \subseteq Runs \ (waiting' \cup (running' \ owners'))
      BY <2>2, <3>1, <3>2 DEF TypeOK
    <3>5. QED
      BY <2>2, <2>3, <3>1, <3>3, <3>4, ForgetKeeps DEF TypeOK
  <2>5. QED
    BY <2>2, <2>3, <2>4, ForgetKeeps
<1>8. ASSUME NEW r \in Runs, Cancel(r) PROVE IInv'
  BY <1>8 DEF Cancel, TypeOK, WorkConserving, ArrivalOrder
<1>9. ASSUME NEW r \in Runs, LeaveQueue(r) PROVE IInv'
  <2>1. /\ ForgetEntry(r) /\ r \in cancelled /\ cancelled' = cancelled \ {r}
        /\ UNCHANGED <<maxSlots, held, created, owners, strays, pausing>>
    BY <1>9 DEF LeaveQueue
  <2>2. CASE r \in waiting
    <3>1. waiting' = waiting \ {r} /\ running' = running
      BY <1>9, <2>2 DEF LeaveQueue
    <3>2. TypeOK'
      BY <2>1, <2>2, <3>1, ForgetKeeps DEF TypeOK
    <3>3. QED
      BY <2>1, <3>1, <3>2, ForgetKeeps DEF WorkConserving
  <2>3. CASE r \notin waiting
    <3>1. /\ waiting \cap (running \ {r}) = {}
          /\ waiting \in SUBSET Runs /\ running \ {r} \in SUBSET Runs
      BY DEF TypeOK
    <3>2. /\ waiting' \subseteq waiting
          /\ running' \cap waiting' = {}
          /\ running \ {r} \subseteq running'
          /\ waiting' \cup running' = waiting \cup (running \ {r})
          /\ WorkConserving'
      BY <1>9, <2>3, <3>1, DispatchEffect DEF LeaveQueue
    <3>3. /\ owners' \subseteq running'
          /\ cancelled' \subseteq (waiting' \cup running') \ owners'
          /\ strays' \subseteq (created' \cup waiting' \cup running') \ (owners' \cup cancelled')
          /\ created' \subseteq Runs \ (waiting' \cup running')
          /\ pausing' \subseteq Runs \ (waiting' \cup (running' \ owners'))
      BY <2>1, <3>2 DEF TypeOK
    <3>4. TypeOK'
      BY <2>1, <3>2, <3>3, ForgetKeeps DEF TypeOK
    <3>5. QED
      BY <2>1, <3>2, <3>4, ForgetKeeps
  <2>4. QED
    BY <2>2, <2>3
<1>10. ASSUME NEW t \in Threads, Prioritize(t) PROVE IInv'
  <2>1. waiting \cap running = {} /\ waiting \in SUBSET Runs /\ running \in SUBSET Runs
    BY DEF TypeOK
  <2>2. prio' \in [Runs -> Priorities]
    BY <1>10 DEF Prioritize, TypeOK, Priorities, PRIORITIZED
  <2>3. /\ waiting' \subseteq waiting
        /\ running' \cap waiting' = {}
        /\ running \subseteq running'
        /\ waiting' \cup running' = waiting \cup running
        /\ WorkConserving'
    BY <1>10, <2>1, DispatchEffect DEF Prioritize
  <2>4. TypeOK'
    BY <1>10, <2>2, <2>3 DEF Prioritize, TypeOK
  <2>5. QED
    BY <1>10, <2>3, <2>4 DEF Prioritize, ArrivalOrder
<1>11. ASSUME NEW t \in Threads, Defer(t) PROVE IInv'
  <2>1. prio' \in [Runs -> Priorities]
    BY <1>11 DEF Defer, TypeOK, Priorities, DEFERRED
  <2>2. QED
    BY <1>11, <2>1 DEF Defer, TypeOK, WorkConserving, ArrivalOrder
<1>12. ASSUME NEW t \in Threads, Pause(t) PROVE IInv'
  BY <1>12 DEF Pause, TypeOK, WorkConserving, ArrivalOrder
<1>13. CASE UNCHANGED vars
  BY <1>13 DEF vars, TypeOK, WorkConserving, ArrivalOrder
<1>14. QED
  BY <1>1, <1>2, <1>3, <1>4, <1>5, <1>7, <1>8, <1>9, <1>10, <1>11, <1>12, <1>13
   DEF Next

(* The types of the scheduler's state, in every reachable state. *)
THEOREM TypeCorrect == Spec => []TypeOK
BY InitInv, StepInv, PTL DEF Spec, IInv

(* A free slot and a waiting run never meet (session_slots._dispatch and   *)
(* its callers), for any number of runs and any limit.                     *)
THEOREM SlotsConserveWork == Spec => []WorkConserving
BY InitInv, StepInv, PTL DEF Spec, IInv

(* A dispatch is the semaphore's admission, with an order among those      *)
(* admitted.                                                               *)
LEMMA DispatchAdmits ==
    ASSUME NEW w \in SUBSET Runs, NEW r \in SUBSET Runs, Dispatch(w, r)
    PROVE  Semaphore!Admit(w, r)
<1>1. PICK started \in SUBSET w :
         /\ waiting' = w \ started /\ running' = r \cup started
         /\ IF held' THEN started = {}
                     ELSE /\ started = w \/ Cardinality(running') >= maxSlots'
                          /\ started = {} \/ Cardinality(running') <= maxSlots'
  BY DEF Dispatch
<1>2. Semaphore!Cardinality(running') = Cardinality(running')
  BY DEF Semaphore!Cardinality, Cardinality
<1>3. started \in SUBSET w /\ (started # {} => ~held' /\ Cardinality(running') <= maxSlots')
  BY <1>1
<1>4. held' \/ waiting' = {} \/ Cardinality(running') >= maxSlots'
  BY <1>1
<1>5. QED
  BY <1>1, <1>2, <1>3, <1>4 DEF Semaphore!Admit

(* Among runs that wait already, reordering admits nobody: were a slot     *)
(* free, the queue would be empty.                                         *)
LEMMA ReorderingAdmitsNobody ==
    ASSUME IInv, Dispatch(waiting, running), UNCHANGED <<maxSlots, held>>
    PROVE  UNCHANGED <<waiting, running>>
<1>1. PICK started \in SUBSET waiting :
         /\ waiting' = waiting \ started /\ running' = running \cup started
         /\ IF held THEN started = {}
                    ELSE started = {} \/ Cardinality(running') <= maxSlots
  BY DEF Dispatch
<1>2. ASSUME started # {} PROVE FALSE
  <2>1. ~held /\ waiting # {} /\ Cardinality(running) >= maxSlots
    BY <1>1, <1>2 DEF IInv, WorkConserving
  <2>2. running' \subseteq Runs /\ maxSlots \in Nat
    BY <1>1, MaxLimitType DEF IInv, TypeOK
  <2>3. IsFiniteSet(running') /\ IsFiniteSet(running)
    BY <1>1, <2>2, RunsFinite, FS_Subset
  <2>4. running \subseteq running' /\ running # running'
    BY <1>1, <1>2 DEF IInv, TypeOK
  <2>5. Cardinality(running) < Cardinality(running')
        /\ Cardinality(running) \in Nat /\ Cardinality(running') \in Nat
    BY <2>3, <2>4, FS_Subset, FS_CardinalityType
  <2>6. QED
    BY <1>1, <1>2, <2>1, <2>2, <2>5
<1>3. QED
  BY <1>1, <1>2

(* Every step of the scheduler is one of the semaphore, or leaves its      *)
(* slots as they are.                                                      *)
LEMMA SemaphoreStep == IInv /\ [Next]_vars => [Semaphore!Next]_(Semaphore!vars)
<1> SUFFICES ASSUME IInv, [Next]_vars PROVE [Semaphore!Next]_(Semaphore!vars)
  OBVIOUS
<1>1. waiting \in SUBSET Runs /\ running \in SUBSET Runs /\ waiting \cap running = {}
  BY DEF IInv, TypeOK
<1>2. ASSUME NEW v \in 1..MaxLimit, SetMaxSlots(v) PROVE Semaphore!SetLimit(v)
  BY <1>1, <1>2, DispatchAdmits DEF SetMaxSlots, Semaphore!SetLimit
<1>3. Hold => Semaphore!Close
  BY DEF Hold, Semaphore!Close
<1>4. ASSUME Unhold PROVE Semaphore!Open
  BY <1>1, <1>4, DispatchAdmits DEF Unhold, Semaphore!Open
<1>5. ASSUME NEW r \in Runs, AcquireAtOnce(r) \/ Acquire(r) PROVE Semaphore!Ask(r)
  <2>1. Join(r) /\ r \notin waiting /\ r \notin running
    BY <1>5 DEF AcquireAtOnce, Acquire, Idle, IInv, TypeOK
  <2>2. /\ waiting \cup {r} \in SUBSET Runs /\ Dispatch(waiting \cup {r}, running)
        /\ UNCHANGED <<maxSlots, held>>
    BY <1>1, <2>1 DEF Join
  <2>3. Semaphore!Admit(waiting \cup {r}, running)
    BY <1>1, <2>2, DispatchAdmits
  <2>4. QED
    BY <2>1, <2>2, <2>3 DEF Semaphore!Ask
<1>6. ASSUME NEW r \in Runs, Release(r) PROVE Semaphore!GiveBack(r)
  <2>1. running \ {r} \in SUBSET Runs /\ Dispatch(waiting, running \ {r})
    BY <1>1, <1>6 DEF Release
  <2>2. Semaphore!Admit(waiting, running \ {r})
    BY <1>1, <2>1, DispatchAdmits
  <2>3. QED
    BY <1>6, <2>2 DEF Release, IInv, TypeOK, Semaphore!GiveBack
<1>7. ASSUME NEW r \in Runs, LeaveQueue(r)
      PROVE  Semaphore!GiveUp(r) \/ Semaphore!GiveBack(r)
  <2>1. CASE r \in waiting
    BY <1>7, <2>1 DEF LeaveQueue, Semaphore!GiveUp
  <2>2. CASE r \notin waiting
    <3>1. r \in running /\ running \ {r} \in SUBSET Runs
          /\ Dispatch(waiting, running \ {r})
      BY <1>1, <1>7, <2>2 DEF LeaveQueue, IInv, TypeOK
    <3>2. Semaphore!Admit(waiting, running \ {r})
      BY <1>1, <3>1, DispatchAdmits
    <3>3. QED
      BY <1>7, <3>1, <3>2 DEF LeaveQueue, Semaphore!GiveBack
  <2>3. QED
    BY <2>1, <2>2
<1>8. ASSUME NEW t \in Threads, Prioritize(t) PROVE UNCHANGED Semaphore!vars
  BY <1>8, ReorderingAdmitsNobody DEF Prioritize, Semaphore!vars
<1>9. CASE \/ UNCHANGED vars
           \/ \E r \in Runs : CreateAcquire(r) \/ Return(r) \/ Cancel(r)
           \/ \E t \in Threads : Defer(t) \/ Pause(t)
  BY <1>9 DEF vars, CreateAcquire, Return, Cancel, Defer, Pause, Semaphore!vars
<1>10. QED
  BY <1>2, <1>3, <1>4, <1>5, <1>6, <1>7, <1>8, <1>9 DEF Next, Semaphore!Next

(* The scheduler implements the semaphore it replaced: slots are asked     *)
(* for, given out and given back in the same steps, whatever is            *)
(* reordered, paused, cancelled or granted in the tick of a cancellation.  *)
THEOREM SlotsAreASemaphore == Spec => KeepsTheLimit
<1>1. Init => Semaphore!Init
  BY DEF Init, Semaphore!Init
<1>2. QED
  BY <1>1, InitInv, StepInv, SemaphoreStep, PTL DEF Spec, KeepsTheLimit, Semaphore!Spec

(* Which of two waiting entries precedes does not change by a step that    *)
(* starts one of them and not the other, apart from prioritize and defer.  *)
LEMMA StepKeepsArrival ==
    ASSUME IInv, [Next]_vars, NEW a \in Runs, NEW b \in Runs, Jumped(a, b)
    PROVE  prio'[a] = PRIORITIZED \/ prio[b] = DEFERRED
<1> DEFINE Goal == prio'[a] = PRIORITIZED \/ prio[b] = DEFERRED
<1>1. /\ a \in waiting /\ a \notin waiting' /\ a \in running' /\ a \notin running
      /\ b \in waiting /\ b \in waiting' /\ b \in ahead[a] /\ a \notin ahead[b]
  BY DEF Jumped, IInv, TypeOK, ArrivalOrder
<1>2. waiting \cap running = {} /\ prio[a] \in Priorities /\ prio[b] \in Priorities
  BY DEF IInv, TypeOK
<1>3. ASSUME NEW r, r \subseteq running, Dispatch(waiting, r), ahead' = ahead
      PROVE  prio'[a] > prio'[b]
  <2>1. waiting \cap r = {}
    BY <1>2, <1>3
  <2>2. Precedes(a, b)'
    BY <1>1, <1>3, <2>1, DispatchEffect
  <2>3. QED
    BY <1>1, <1>3, <2>2 DEF Precedes
<1>4. ASSUME NEW r, r \subseteq running, Dispatch(waiting, r), ahead' = ahead,
             prio' = prio
      PROVE  Goal
  BY <1>2, <1>3, <1>4 DEF Priorities, PRIORITIZED, NORMAL, DEFERRED
<1>5. ASSUME NEW t \in Threads, Prioritize(t) PROVE Goal
  <2>1. PICK r \in waiting : /\ prio' = [prio EXCEPT ![r] = PRIORITIZED]
                             /\ ahead' = ahead
                             /\ Dispatch(waiting, running)
    BY <1>5 DEF Prioritize
  <2>2. prio'[a] > prio'[b]
    BY <1>3, <2>1
  <2>3. prio'[b] \in Priorities /\ prio'[a] \in Priorities
    BY <1>2, <2>1 DEF IInv, TypeOK, Priorities, PRIORITIZED
  <2>4. prio'[b] = PRIORITIZED \/ prio'[b] = prio[b]
    BY <2>1 DEF IInv, TypeOK
  <2>5. QED
    BY <2>2, <2>3, <2>4 DEF Priorities, PRIORITIZED, NORMAL, DEFERRED
<1>6. ASSUME NEW r \in Runs, AcquireAtOnce(r) \/ Acquire(r) PROVE Goal
  <2> DEFINE w == waiting \cup {r}
  <2>1. Join(r) /\ r \notin waiting /\ r \notin running
    BY <1>6 DEF AcquireAtOnce, Acquire, Idle, IInv, TypeOK
  <2>2. /\ Dispatch(w, running) /\ w \cap running = {}
        /\ r # a /\ r # b
        /\ ahead' = [x \in Runs |-> IF x = r THEN waiting ELSE ahead[x] \cap waiting]
    BY <1>1, <1>2, <2>1 DEF Join
  <2>3. Precedes(a, b)'
    BY <1>1, <2>2, DispatchEffect
  <2>4. prio'[a] = prio[a] /\ prio'[b] = prio[b] /\ a \notin ahead'[b]
    BY <1>1, <2>1, <2>2 DEF Join
  <2>5. prio'[a] > prio'[b]
    BY <2>3, <2>4 DEF Precedes
  <2>6. QED
    BY <1>2, <2>4, <2>5 DEF Priorities, PRIORITIZED, NORMAL, DEFERRED
<1>7. ASSUME NEW v \in 1..MaxLimit, SetMaxSlots(v) PROVE Goal
  BY <1>4, <1>7 DEF SetMaxSlots
<1>8. CASE Unhold
  BY <1>4, <1>8 DEF Unhold
<1>9. ASSUME NEW r \in Runs, Release(r) \/ LeaveQueue(r), r # a, r # b PROVE Goal
  <2>1. running' = running \/ Dispatch(waiting, running \ {r})
    BY <1>9 DEF Release, LeaveQueue
  <2>2. prio'[a] = prio[a] /\ prio'[b] = prio[b] /\ a \notin ahead'[b]
    BY <1>1, <1>9 DEF Release, LeaveQueue, ForgetEntry, IInv, TypeOK
  <2>3. CASE Dispatch(waiting, running \ {r})
    <3>1. waiting \cap (running \ {r}) = {}
      BY <1>2
    <3>2. Precedes(a, b)'
      BY <1>1, <2>3, <3>1, DispatchEffect
    <3>3. prio[a] > prio[b]
      BY <2>2, <3>2 DEF Precedes
    <3>4. QED
      BY <1>2, <2>2, <3>3 DEF Priorities, PRIORITIZED, NORMAL, DEFERRED
  <2>4. QED
    BY <1>1, <2>1, <2>3
<1>10. ASSUME NEW r \in {a, b}, Release(r) \/ LeaveQueue(r) PROVE Goal
  <2>1. CASE Release(r)
    BY <1>1, <1>2, <2>1 DEF Release, IInv, TypeOK
  <2>2. CASE LeaveQueue(r)
    BY <1>1, <1>10, <2>2 DEF LeaveQueue
  <2>3. QED
    BY <1>10, <2>1, <2>2
<1>11. CASE \/ Hold \/ UNCHANGED vars
            \/ \E r \in Runs : CreateAcquire(r) \/ Return(r) \/ Cancel(r)
            \/ \E t \in Threads : Defer(t) \/ Pause(t)
  BY <1>1, <1>11 DEF Hold, vars, CreateAcquire, Return, Cancel, Defer, Pause
<1>12. QED
  BY <1>5, <1>6, <1>7, <1>8, <1>9, <1>10, <1>11 DEF Next

(* Waiting runs start in arrival order, except where a user prioritized    *)
(* the one that started or deferred the one left behind.                   *)
THEOREM SlotsKeepArrivalOrder == Spec => ArrivalOrderKept
<1>1. ASSUME IInv, [Next]_vars
      PROVE  \A a, b \in Runs : Jumped(a, b) => prio'[a] = PRIORITIZED \/ prio[b] = DEFERRED
  BY <1>1, StepKeepsArrival
<1>2. QED
  BY <1>1, InitInv, StepInv, PTL DEF Spec, ArrivalOrderKept

(* would_wait is what joining the queue does, for either priority a run    *)
(* asks with.                                                              *)
LEMMA JoinWaits ==
    ASSUME IInv, NEW r \in Runs, Join(r), r \notin waiting, r \notin running
    PROVE  /\ r \in waiting' <=> WouldWait(AsksWith(r))
           /\ r \in waiting' \cup running'
<1> DEFINE p == AsksWith(r)
<1>1. r \notin waiting /\ r \notin running /\ held' = held /\ maxSlots' = maxSlots
  BY DEF Join
<1>2. PICK started \in SUBSET (waiting \cup {r}) :
         /\ waiting' = (waiting \cup {r}) \ started
         /\ running' = running \cup started
         /\ IF held
              THEN started = {}
              ELSE /\ \/ started = waiting \cup {r}
                      \/ Cardinality(running') >= maxSlots
                   /\ started = {} \/ Cardinality(running') <= maxSlots
  BY <1>1 DEF Join, Dispatch
<1>3. IsFiniteSet(running) /\ IsFiniteSet(running') /\ Cardinality(running) \in Nat
      /\ Cardinality(running') \in Nat /\ maxSlots \in Nat
  <2>1. running \subseteq Runs /\ running' \subseteq Runs /\ maxSlots \in Nat
    BY <1>2, MaxLimitType DEF IInv, TypeOK
  <2>2. QED
    BY <2>1, RunsFinite, FS_Subset, FS_CardinalityType
<1>4. CASE held
  BY <1>1, <1>2, <1>4 DEF WouldWait
<1>5. CASE ~held /\ Cardinality(running) >= maxSlots
  <2>1. started = {}
    <3> SUFFICES ASSUME started # {} PROVE FALSE
      OBVIOUS
    <3>1. PICK x \in started : x \notin running
      BY <1>1 DEF IInv, TypeOK
    <3>2. running \subseteq running' /\ running # running'
      BY <1>2, <3>1
    <3>3. Cardinality(running) < Cardinality(running')
      BY <1>3, <3>2, FS_Subset
    <3>4. QED
      BY <1>2, <1>3, <1>5, <3>3
  <2>2. QED
    BY <1>1, <1>2, <1>5, <2>1 DEF WouldWait
<1>6. CASE ~held /\ ~(Cardinality(running) >= maxSlots)
  <2>1. waiting = {}
    BY <1>6 DEF IInv, WorkConserving
  <2>2. started = {r}
    <3> SUFFICES ASSUME started = {} PROVE FALSE
      BY <1>2, <2>1
    <3>1. running' = running
      BY <1>2
    <3>2. QED
      BY <1>2, <1>6, <2>1, <3>1
  <2>3. QED
    BY <1>2, <1>6, <2>1, <2>2 DEF WouldWait
<1>7. QED
  BY <1>4, <1>5, <1>6

(* would_wait tells whoever acquires a slot at once that it gets one, and  *)
(* is exact for one that joins later, whatever it was told before.         *)
THEOREM WouldWaitPredicts == Spec => WouldWaitIsExact
<1>1. ASSUME IInv, NEW r \in Runs, AcquireAtOnce(r) PROVE r \in owners'
  <2>1. Join(r) /\ r \notin waiting /\ r \notin running /\ ~WouldWait(AsksWith(r))
    BY <1>1 DEF AcquireAtOnce, Idle
  <2>2. r \in running'
    BY <1>1, <2>1, JoinWaits
  <2>3. QED
    BY <1>1, <2>2 DEF AcquireAtOnce
<1>2. ASSUME IInv, NEW r \in Runs, Acquire(r)
      PROVE  r \in waiting' <=> WouldWait(AsksWith(r))
  <2>1. Join(r) /\ r \notin waiting /\ r \notin running
    BY <1>2 DEF Acquire, IInv, TypeOK
  <2>2. QED
    BY <1>2, <2>1, JoinWaits
<1>3. ASSUME IInv
      PROVE  \A r \in Runs :
               /\ AcquireAtOnce(r) => r \in owners'
               /\ Acquire(r) => (r \in waiting' <=> WouldWait(AsksWith(r)))
  BY <1>1, <1>2, <1>3
<1>4. QED
  BY <1>3, InitInv, StepInv, PTL DEF Spec, WouldWaitIsExact

-----------------------------------------------------------------------------
(* The composition: a step of it is a step of RestartReservation or leaves *)
(* it as it is.                                                            *)
RestartFacts == INSTANCE RestartReservationProofs
                  WITH ThreadOf <- MessageThread, MaxSlots <- Seats

LEMMA SameDispatch ==
    ASSUME NEW s, Restart!Dispatch(s) PROVE RestartFacts!Dispatch(s)
BY DEF Restart!Dispatch, RestartFacts!Dispatch, Restart!Tasks, RestartFacts!Tasks, Restart!Cardinality, RestartFacts!Cardinality

LEMMA RestartStep == Restart!Next => RestartFacts!Next
<1>1. ASSUME NEW m \in Messages
      PROVE  /\ Restart!Message(m) => RestartFacts!Message(m)
             /\ Restart!SaveQueued(m) => RestartFacts!SaveQueued(m)
  BY DEF Restart!Message, RestartFacts!Message, Restart!SaveQueued, RestartFacts!SaveQueued, Restart!Unblocked, RestartFacts!Unblocked, Restart!Active, RestartFacts!Active, Restart!TaskThread, RestartFacts!TaskThread, Restart!Tasks, RestartFacts!Tasks, Restart!Alive, RestartFacts!Alive, Restart!counters, RestartFacts!counters, Restart!history, RestartFacts!history
<1>2. ASSUME NEW k \in Restart!Tasks
      PROVE  /\ k \in RestartFacts!Tasks
             /\ Restart!Unlock(k) => RestartFacts!Unlock(k)
             /\ Restart!Enqueue(k) => RestartFacts!Enqueue(k)
             /\ Restart!EndTurn(k) => RestartFacts!EndTurn(k)
             /\ Restart!Continue(k) => RestartFacts!Continue(k)
  BY SameDispatch
     DEF Restart!Unlock, RestartFacts!Unlock, Restart!Enqueue, RestartFacts!Enqueue, Restart!EndTurn, RestartFacts!EndTurn, Restart!Continue, RestartFacts!Continue, Restart!Unblocked, RestartFacts!Unblocked, Restart!Active, RestartFacts!Active, Restart!TaskThread, RestartFacts!TaskThread, Restart!Tasks, RestartFacts!Tasks, Restart!Alive, RestartFacts!Alive, Restart!counters, RestartFacts!counters, Restart!history, RestartFacts!history
<1>3. ASSUME NEW t \in Threads
      PROVE  /\ Restart!MarkResume(t) => RestartFacts!MarkResume(t)
             /\ Restart!Forget(t) => RestartFacts!Forget(t)
  BY DEF Restart!MarkResume, RestartFacts!MarkResume, Restart!Forget, RestartFacts!Forget, Restart!TasksIn, RestartFacts!TasksIn, Restart!TaskThread, RestartFacts!TaskThread, Restart!Tasks, RestartFacts!Tasks, Restart!Alive, RestartFacts!Alive, Restart!memory, RestartFacts!memory, Restart!counters, RestartFacts!counters, Restart!history, RestartFacts!history, Restart!Generic, RestartFacts!Generic, Restart!None, RestartFacts!None
<1>4. ASSUME NEW t PROVE Restart!Reserve(t) => RestartFacts!Reserve(t)
  BY DEF Restart!Reserve, RestartFacts!Reserve, Restart!history, RestartFacts!history
<1>5. ASSUME NEW t \in Threads, NEW r \in Messages \cup {Restart!Generic}
      PROVE  /\ r \in Messages \cup {RestartFacts!Generic}
             /\ Restart!Replay(t, r) => RestartFacts!Replay(t, r)
             /\ Restart!ReplaySkipped(t, r) => RestartFacts!ReplaySkipped(t, r)
  BY DEF Restart!Replay, RestartFacts!Replay, Restart!ReplaySkipped, RestartFacts!ReplaySkipped, Restart!Unblocked, RestartFacts!Unblocked, Restart!Active, RestartFacts!Active, Restart!TaskThread, RestartFacts!TaskThread, Restart!Tasks, RestartFacts!Tasks, Restart!Alive, RestartFacts!Alive, Restart!counters, RestartFacts!counters, Restart!history, RestartFacts!history, Restart!Generic, RestartFacts!Generic, Restart!None, RestartFacts!None
<1>6. /\ Restart!Abandon => RestartFacts!Abandon
      /\ Restart!Release => RestartFacts!Release
  BY SameDispatch DEF Restart!Abandon, RestartFacts!Abandon, Restart!Release, RestartFacts!Release, Restart!Alive, RestartFacts!Alive, Restart!counters, RestartFacts!counters, Restart!history, RestartFacts!history
<1>7. /\ Restart!Drained => RestartFacts!Drained
      /\ Restart!SaveResume => RestartFacts!SaveResume
      /\ Restart!SaveResumeFails => RestartFacts!SaveResumeFails
      /\ Restart!RestartFails => RestartFacts!RestartFails
  BY DEF Restart!Drained, RestartFacts!Drained, Restart!SaveResume, RestartFacts!SaveResume, Restart!SaveResumeFails, RestartFacts!SaveResumeFails, Restart!RestartFails, RestartFacts!RestartFails, Restart!TasksIn, RestartFacts!TasksIn, Restart!Tasks, RestartFacts!Tasks, Restart!Alive, RestartFacts!Alive, Restart!counters, RestartFacts!counters, Restart!history, RestartFacts!history, Restart!Generic, RestartFacts!Generic, Restart!None, RestartFacts!None
<1>8. Restart!Unload => RestartFacts!Unload
  BY DEF Restart!Unload, RestartFacts!Unload, Restart!CutOff, RestartFacts!CutOff, Restart!TasksIn, RestartFacts!TasksIn, Restart!TaskThread, RestartFacts!TaskThread, Restart!Tasks, RestartFacts!Tasks, Restart!Cardinality, RestartFacts!Cardinality, Restart!counters, RestartFacts!counters, Restart!history, RestartFacts!history
<1>9. /\ Restart!MarkActive => RestartFacts!MarkActive
      /\ Restart!OnReady => RestartFacts!OnReady
  BY DEF Restart!MarkActive, RestartFacts!MarkActive, Restart!OnReady, RestartFacts!OnReady, Restart!Active, RestartFacts!Active, Restart!TaskThread, RestartFacts!TaskThread, Restart!Tasks, RestartFacts!Tasks, Restart!counters, RestartFacts!counters, Restart!history, RestartFacts!history, Restart!Generic, RestartFacts!Generic, Restart!None, RestartFacts!None
<1>10. Restart!Die => RestartFacts!Die
  BY DEF Restart!Die, RestartFacts!Die, Restart!CutOff, RestartFacts!CutOff, Restart!TasksIn, RestartFacts!TasksIn, Restart!Tasks, RestartFacts!Tasks, Restart!Alive, RestartFacts!Alive, Restart!Cardinality, RestartFacts!Cardinality, Restart!None, RestartFacts!None
<1>11. Restart!None = RestartFacts!None
  BY DEF Restart!None, RestartFacts!None
<1>12. QED
  BY <1>1, <1>2, <1>3, <1>4, <1>5, <1>6, <1>7, <1>8, <1>9, <1>10, <1>11 DEF Restart!Next, RestartFacts!Next

LEMMA RestartBehaves == AllSpec => RestartFacts!Spec
<1>1. AllInit => RestartFacts!Init
  BY DEF AllInit, Restart!Init, RestartFacts!Init, Restart!Tasks, RestartFacts!Tasks, Restart!None, RestartFacts!None
<1>2. [AllNext]_<<part, vars, restartVars>> => [RestartFacts!Next]_(RestartFacts!vars)
  BY RestartStep DEF AllNext, restartVars, RestartFacts!vars, RestartFacts!memory,
     RestartFacts!counters, RestartFacts!history
<1>3. QED
  BY <1>1, <1>2, PTL DEF AllSpec, RestartFacts!Spec

(* From the moment the queue is saved until it is released or the process  *)
(* ends, nothing runs that a restart would cut off.                        *)
THEOREM RestartFindsNothingRunning == AllSpec => []IdleAtRestart
<1>1. RestartFacts!IdleAtRestart => IdleAtRestart
  BY DEF Restart!IdleAtRestart, RestartFacts!IdleAtRestart, Restart!TasksIn, RestartFacts!TasksIn, Restart!Tasks, RestartFacts!Tasks, IdleAtRestart
<1>2. RestartFacts!Spec => []RestartFacts!IdleAtRestart
  BY RestartConstants, RestartFacts!NothingCutOff DEF Restart!None, RestartFacts!None, Restart!Generic, RestartFacts!Generic
<1>3. QED
  BY <1>1, <1>2, RestartBehaves, PTL

(* "Replaying it later would run it twice": while the mark of the thread   *)
(* that asked for the restart does not raise and no reconnect replays the  *)
(* rows of a reservation, a message runs again only because it was         *)
(* continued or its turn was in progress while a process was ending.       *)
THEOREM QueuedMessagesRunOnce ==
    ASSUME ~ResumeMarkMayFail, "reconnect" \notin Overlaps
    PROVE  AllSpec => []RunsOnce
<1>1. RestartFacts!RunsOnce => RunsOnce
  BY DEF Restart!RunsOnce, RestartFacts!RunsOnce, RunsOnce
<1>2. RestartFacts!Spec => []RestartFacts!RunsOnce
  BY RestartConstants, RestartFacts!MessagesRunOnce DEF Restart!None, RestartFacts!None, Restart!Generic, RestartFacts!Generic
<1>3. QED
  BY <1>1, <1>2, RestartBehaves, PTL
=============================================================================
