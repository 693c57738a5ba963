-------------------------- MODULE ThreadRunsProofs --------------------------
(***************************************************************************)
(* Safety of the runs of a thread for every set of tasks and any number of *)
(* further processes.  "One run per thread" is not inductive: it rests on  *)
(* who is in the thread's lock, on what a task that holds it awaits, and   *)
(* on the entries a run has from its registration to its cleanup.          *)
(***************************************************************************)
EXTENDS Conversations, SequenceTheorems, TLAPS

WaitFacts == INSTANCE WaitsProofs

HolderStages == {"evicting", "building", "registered"}
Registered == {"registered", "starting", "running", "between", "cleanup"}

(* Only tasks on their way to a registration are in the lock, each once,   *)
(* and whoever is past its first stage holds it.                           *)
Queue ==
    /\ \A i \in 1..Len(lock) : pc[lock[i]] \in HolderStages \cup {"locking"}
    /\ \A t \in Tasks : pc[t] \in HolderStages => Holds(t)

(* A registered run has both entries, a task that evicts awaits it, and    *)
(* one that builds its own run has seen it end.                            *)
Entries ==
    \A u \in Tasks :
        pc[u] \in Registered =>
            /\ activeRunner = <<u, "template">> /\ activeTask = u
            /\ \A t \in Tasks : /\ pc[t] = "evicting" => awaits[t] = u
                                /\ pc[t] # "building"

IInv == TypeOK /\ Queue

(* At the start no task is there. *)
LEMMA InitInv == Init => IInv
<1> SUFFICES ASSUME Init PROVE IInv
  OBVIOUS
<1>1. lock \in Seq(Tasks) /\ Len(lock) = 0
  BY EmptySeq DEF Init
<1>2. IsInjective(lock)
  BY <1>1, LenProperties DEF IsInjective
<1>3. reruns \in [Tasks -> 0..MaxReruns] /\ clears \in 0..MaxClears
  BY BoundsType DEF Init
<1>4. TypeOK
  BY <1>1, <1>2, <1>3 DEF Init, TypeOK, Stages
<1>5. Queue
  BY <1>1 DEF Init, Queue, HolderStages
<1>6. QED
  BY <1>4, <1>5 DEF IInv

(* Joining the lock puts a task that is not in it at its end.              *)
LEMMA JoinKeeps ==
    ASSUME TypeOK, Queue, NEW t \in Tasks, JoinLock(t)
    PROVE  lock' \in Seq(Tasks) /\ IsInjective(lock') /\ Queue'
<1> DEFINE n == Len(lock)
<1>1. n \in Nat /\ lock \in Seq(Tasks) /\ pc \in [Tasks -> Stages] /\ DOMAIN lock = 1..n
  BY LenProperties DEF TypeOK
<1>2. /\ lock' \in Seq(Tasks) /\ Len(lock') = n + 1 /\ lock'[n + 1] = t
      /\ \A i \in 1..n : lock'[i] = lock[i]
  BY <1>1, AppendProperties DEF JoinLock
<1>3. DOMAIN lock' = 1..(n + 1)
  BY <1>2, LenProperties
<1>4. pc[t] = "handoff" /\ pc' = [pc EXCEPT ![t] = "locking"]
  BY DEF JoinLock, Goes
<1>5. \A i \in 1..n : lock[i] \in Tasks /\ lock[i] # t /\ pc[lock[i]] \in HolderStages \cup {"locking"}
  BY <1>1, <1>4, ElementOfSeq DEF Queue, HolderStages
<1>6. \A i, j \in 1..n : lock[i] = lock[j] => i = j
  BY <1>1 DEF TypeOK, IsInjective
<1> HIDE DEF n
<1>7. ASSUME NEW i \in 1..(n + 1), NEW j \in 1..(n + 1), lock'[i] = lock'[j] PROVE i = j
  <2>1. CASE i \in 1..n /\ j \in 1..n
    BY <1>2, <1>6, <1>7, <2>1
  <2>2. CASE i = n + 1 /\ j \in 1..n
    BY <1>2, <1>5, <1>7, <2>2
  <2>3. CASE i \in 1..n /\ j = n + 1
    BY <1>2, <1>5, <1>7, <2>3
  <2>4. QED
    BY <1>1, <2>1, <2>2, <2>3
<1>8. \A i \in 1..(n + 1) : pc'[lock'[i]] \in HolderStages \cup {"locking"}
  <2>1. TAKE i \in 1..(n + 1)
  <2>2. CASE i \in 1..n
    BY <1>1, <1>2, <1>4, <1>5, <2>2
  <2>3. CASE i = n + 1
    BY <1>1, <1>2, <1>4, <2>3
  <2>4. QED
    BY <1>1, <2>2, <2>3
<1>9. ASSUME NEW u \in Tasks, pc'[u] \in HolderStages PROVE Holds(u)'
  <2>1. Holds(u) /\ n > 0
    <3>1. Holds(u)
      BY <1>1, <1>4, <1>9 DEF Queue, HolderStages
    <3>2. QED
      BY <1>1, <3>1, EmptySeq DEF Holds, n
  <2>2. lock[1] = u
    BY <2>1 DEF Holds
  <2>3. Len(lock') > 0 /\ lock'[1] = u
    BY <1>1, <1>2, <2>1, <2>2
  <2>4. QED
    BY <1>2, <2>3, EmptySeq DEF Holds
<1>10. QED
  BY <1>2, <1>3, <1>7, <1>8, <1>9 DEF IsInjective, Queue

(* The holder's going leaves the others in the lock.                       *)
LEMMA LeaveKeeps ==
    ASSUME TypeOK, Queue, NEW t \in Tasks, LeaveLock(t)
    PROVE  lock' \in Seq(Tasks) /\ IsInjective(lock') /\ Queue'
<1> DEFINE n == Len(lock)
<1>1. n \in Nat /\ lock \in Seq(Tasks) /\ pc \in [Tasks -> Stages] /\ DOMAIN lock = 1..n
  BY LenProperties DEF TypeOK
<1>2. /\ pc[t] \in HolderStages /\ pc[t] # "evicting"
      /\ \E s \in {"starting", "over"} : pc' = [pc EXCEPT ![t] = s]
  BY DEF LeaveLock, Raises, Goes, HolderStages
<1>3. Holds(t)
  BY <1>2 DEF Queue
<1>4. n > 0 /\ lock[1] = t
  BY <1>1, <1>3, EmptySeq DEF Holds
<1>5. /\ lock' \in Seq(Tasks) /\ Len(lock') = n - 1
      /\ \A i \in 1..(n - 1) : lock'[i] = lock[i + 1]
  BY <1>1, <1>3, HeadTailProperties DEF LeaveLock, Holds
<1>6. DOMAIN lock' = 1..(n - 1)
  BY <1>5, LenProperties
<1>7. \A i, j \in 1..n : lock[i] = lock[j] => i = j
  BY <1>1 DEF TypeOK, IsInjective
<1>8. \A i \in 1..n : lock[i] \in Tasks /\ pc[lock[i]] \in HolderStages \cup {"locking"}
  BY <1>1, ElementOfSeq DEF Queue
<1> HIDE DEF n
<1>9. ASSUME NEW i \in 1..(n - 1)
      PROVE  i + 1 \in 1..n /\ lock'[i] = lock[i + 1] /\ lock[i + 1] # t
  <2>1. i + 1 \in 1..n /\ 1 \in 1..n /\ i + 1 # 1
    BY <1>1
  <2>2. lock[i + 1] # lock[1]
    BY <1>7, <2>1
  <2>3. QED
    BY <1>4, <1>5, <2>1, <2>2
<1>10. ASSUME NEW i \in 1..(n - 1), NEW j \in 1..(n - 1), lock'[i] = lock'[j] PROVE i = j
  <2>1. i + 1 \in 1..n /\ j + 1 \in 1..n /\ lock[i + 1] = lock[j + 1]
    BY <1>9, <1>10
  <2>2. i + 1 = j + 1
    BY <1>7, <2>1
  <2>3. QED
    BY <1>1, <2>2
<1>11. \A i \in 1..(n - 1) : pc'[lock'[i]] \in HolderStages \cup {"locking"}
  BY <1>1, <1>2, <1>8, <1>9
<1>12. \A u \in Tasks : pc'[u] \notin HolderStages
  <2>1. TAKE u \in Tasks
  <2>2. CASE u = t
    BY <1>1, <1>2, <2>2 DEF HolderStages
  <2>3. CASE u # t
    <3>1. ~Holds(u)
      BY <1>3, <2>3 DEF Holds
    <3>2. QED
      BY <1>1, <1>2, <2>3, <3>1 DEF Queue
  <2>4. QED
    BY <2>2, <2>3
<1>13. QED
  BY <1>5, <1>6, <1>10, <1>11, <1>12 DEF IsInjective, Queue

(* A step that leaves the lock alone, and moves no task into or out of its *)
(* stages except the holder within them, keeps the queue.                  *)
LEMMA QueueKept ==
    ASSUME TypeOK, Queue, UNCHANGED lock, NEW t \in Tasks,
           NEW s \in Stages, pc' = [pc EXCEPT ![t] = s],
           \/ pc[t] \notin HolderStages \cup {"locking"} /\ s \notin HolderStages
           \/ Holds(t) /\ s \in HolderStages
    PROVE  Queue'
<1>1. lock \in Seq(Tasks) /\ pc \in [Tasks -> Stages]
  BY DEF TypeOK
<1>2. \A i \in 1..Len(lock) : lock[i] \in Tasks
  BY <1>1, ElementOfSeq
<1>3. \A i \in 1..Len(lock') : pc'[lock'[i]] \in HolderStages \cup {"locking"}
  BY <1>1, <1>2 DEF Queue
<1>4. \A u \in Tasks : pc'[u] \in HolderStages => Holds(u)'
  BY <1>1 DEF Queue, Holds
<1>5. QED
  BY <1>3, <1>4 DEF Queue

LEMMA StepInv == IInv /\ [Next]_vars => IInv'
<1> SUFFICES ASSUME IInv, [Next]_vars PROVE IInv'
  OBVIOUS
<1> USE BoundsType DEF IInv
<1>1. ASSUME NEW t \in Tasks, Arrive(t) PROVE IInv'
  <2>1. TypeOK'
    BY <1>1 DEF Arrive, Goes, TypeOK, Stages
  <2>2. Queue'
    BY <1>1, QueueKept, "handoff" \in Stages DEF Arrive, Goes, HolderStages, Stages
  <2>3. QED
    BY <2>1, <2>2
<1>2. ASSUME NEW t \in Tasks, JoinLock(t) PROVE IInv'
  <2>1. TypeOK'
    BY <1>2, JoinKeeps DEF JoinLock, Goes, TypeOK, Stages
  <2>2. QED
    BY <1>2, <2>1, JoinKeeps
<1>3. ASSUME NEW t \in Tasks, Evict(t) PROVE IInv'
  <2>1. TypeOK'
    <3>1. awaits' \in [Tasks -> Tasks \cup {None}]
      BY <1>3 DEF Evict, TypeOK
    <3>2. signalled' \subseteq Runners
      BY <1>3 DEF Evict, Interrupt, TypeOK
    <3>3. pc' \in [Tasks -> Stages]
      BY <1>3 DEF Evict, Goes, TypeOK, Stages
    <3>4. QED
      BY <1>3, <3>1, <3>2, <3>3 DEF Evict, TypeOK
  <2>2. Queue'
    BY <1>3, QueueKept, "evicting" \in Stages DEF Evict, Goes, HolderStages, Stages
  <2>3. QED
    BY <2>1, <2>2
<1>4. ASSUME NEW t \in Tasks, Evicted(t) PROVE IInv'
  <2>1. TypeOK'
    BY <1>4 DEF Evicted, Goes, TypeOK, Stages
  <2>2. Holds(t)
    BY <1>4 DEF Evicted, Goes, Queue, HolderStages
  <2>3. Queue'
    BY <1>4, <2>2, QueueKept, "building" \in Stages DEF Evicted, Goes, HolderStages, Stages
  <2>4. QED
    BY <2>1, <2>3
<1>5. ASSUME NEW t \in Tasks, Register(t) PROVE IInv'
  <2>1. TypeOK'
    BY <1>5 DEF Register, Goes, TypeOK, Stages, Runners
  <2>2. Holds(t)
    BY <1>5 DEF Register, Goes, Queue, HolderStages
  <2>3. Queue'
    BY <1>5, <2>2, QueueKept, "registered" \in Stages DEF Register, Goes, HolderStages, Stages
  <2>4. QED
    BY <2>1, <2>3
<1>6. ASSUME NEW t \in Tasks, LeaveLock(t) PROVE IInv'
  <2>1. TypeOK'
    BY <1>6, LeaveKeeps DEF LeaveLock, Raises, Goes, TypeOK, Stages
  <2>2. QED
    BY <1>6, <2>1, LeaveKeeps
<1>7. ASSUME NEW t \in Tasks, StartProcess(t) PROVE IInv'
  <2>1. TypeOK'
    BY <1>7 DEF StartProcess, Goes, TypeOK, Stages, Runners
  <2>2. Queue'
    BY <1>7, QueueKept, "running" \in Stages DEF StartProcess, Goes, HolderStages, Stages
  <2>3. QED
    BY <2>1, <2>2
<1>8. ASSUME NEW t \in Tasks, EndProcess(t) PROVE IInv'
  <2>1. TypeOK'
    BY <1>8 DEF EndProcess, Goes, TypeOK, Stages
  <2>2. Queue'
    BY <1>8, QueueKept, "between" \in Stages DEF EndProcess, Goes, HolderStages, Stages
  <2>3. QED
    BY <2>1, <2>2
<1>9. ASSUME NEW t \in Tasks, Rerun(t) PROVE IInv'
  <2>1. TypeOK'
    <3>1. reruns' \in [Tasks -> 0..MaxReruns]
      <4>1. reruns[t] + 1 \in 0..MaxReruns
        BY <1>9 DEF Rerun, TypeOK
      <4>2. QED
        BY <1>9, <4>1 DEF Rerun, TypeOK
    <3>2. QED
      BY <1>9, <3>1 DEF Rerun, Goes, TypeOK, Stages
  <2>2. Queue'
    BY <1>9, QueueKept, "starting" \in Stages DEF Rerun, Goes, HolderStages, Stages
  <2>3. QED
    BY <2>1, <2>2
<1>10. ASSUME NEW t \in Tasks, FinishRun(t) PROVE IInv'
  <2>1. TypeOK'
    BY <1>10 DEF FinishRun, Goes, TypeOK, Stages
  <2>2. Queue'
    BY <1>10, QueueKept, "cleanup" \in Stages DEF FinishRun, Goes, HolderStages, Stages
  <2>3. QED
    BY <2>1, <2>2
<1>11. ASSUME NEW t \in Tasks, Cleanup(t) PROVE IInv'
  <2>1. TypeOK'
    BY <1>11 DEF Cleanup, Goes, TypeOK, Stages
  <2>2. Queue'
    BY <1>11, QueueKept, "finishing" \in Stages DEF Cleanup, Goes, HolderStages, Stages
  <2>3. QED
    BY <2>1, <2>2
<1>12. ASSUME NEW t \in Tasks, Finish(t) PROVE IInv'
  <2>1. TypeOK'
    BY <1>12 DEF Finish, Goes, TypeOK, Stages
  <2>2. CASE Goes(t, "finishing", "over")
    BY <1>12, <2>1, <2>2, QueueKept, "over" \in Stages DEF Finish, Goes, HolderStages, Stages
  <2>3. CASE Goes(t, "finishing", "handoff")
    BY <1>12, <2>1, <2>3, QueueKept, "handoff" \in Stages DEF Finish, Goes, HolderStages, Stages
  <2>4. QED
    BY <1>12, <2>1, <2>2, <2>3 DEF Finish
<1>13. CASE Clear
  <2>1. clears' \in 0..MaxClears
    BY <1>13 DEF Clear, TypeOK
  <2>2. signalled' \subseteq Runners
    BY <1>13 DEF Clear, Interrupt, TypeOK
  <2>3. TypeOK'
    BY <1>13, <2>1, <2>2 DEF Clear, TypeOK
  <2>4. Queue'
    BY <1>13 DEF Clear, Queue, Holds
  <2>5. QED
    BY <2>3, <2>4
<1>14. CASE UNCHANGED vars
  BY <1>14 DEF vars, TypeOK, Queue, Holds
<1>15. QED
  BY <1>1, <1>2, <1>3, <1>4, <1>5, <1>6, <1>7, <1>8, <1>9, <1>10, <1>11, <1>12, <1>13,
     <1>14 DEF Next, Step

LEMMA Invariant == Spec => []IInv
BY InitInv, StepInv, PTL DEF Spec

(* The variables of a thread's runs keep their types, and no task waits    *)
(* for the lock twice.                                                     *)
THEOREM ThreadRunsTypeCorrect == Spec => []TypeOK
<1>1. IInv => TypeOK
  BY DEF IInv
<1>2. QED
  BY <1>1, Invariant, PTL

-----------------------------------------------------------------------------
(* Two tasks never hold the lock at once. *)
LEMMA OneHolder == ASSUME Queue, NEW t \in Tasks, NEW u \in Tasks,
                          pc[t] \in HolderStages, pc[u] \in HolderStages
                   PROVE  t = u
BY DEF Queue, Holds

(* As long as nothing clears the entries, a registered run keeps its own.  *)
LEMMA EntriesStep ==
    ASSUME IInv, Entries, clears' = 0, [Next]_vars PROVE Entries'
<1> USE BoundsType, TasksType DEF IInv
<1>1. pc \in [Tasks -> Stages] /\ awaits \in [Tasks -> Tasks \cup {None}]
  BY DEF TypeOK
<1>2. ASSUME NEW t \in Tasks, Arrive(t) PROVE Entries'
  BY <1>1, <1>2 DEF Arrive, Goes, Entries, Registered
<1>3. ASSUME NEW t \in Tasks, JoinLock(t) PROVE Entries'
  BY <1>1, <1>3 DEF JoinLock, Goes, Entries, Registered
<1>4. ASSUME NEW t \in Tasks, Evict(t) PROVE Entries'
  <2>1. SUFFICES ASSUME NEW u \in Tasks, pc'[u] \in Registered
                 PROVE  /\ activeRunner' = <<u, "template">> /\ activeTask' = u
                        /\ \A v \in Tasks : /\ pc'[v] = "evicting" => awaits'[v] = u
                                            /\ pc'[v] # "building"
    BY DEF Entries
  <2>2. u # t /\ pc[u] \in Registered
    BY <1>1, <1>4, <2>1 DEF Evict, Goes, Registered
  <2>3. activeRunner = <<u, "template">> /\ activeTask = u
    BY <2>2 DEF Entries
  <2>4. activeRunner # NoRunner /\ activeTask \notin {None, t} /\ pc[activeTask] # "over"
    BY <2>2, <2>3 DEF NoRunner, Registered
  <2>5. awaits' = [awaits EXCEPT ![t] = u]
    BY <1>4, <2>3, <2>4 DEF Evict
  <2>6. pc' = [pc EXCEPT ![t] = "evicting"] /\ UNCHANGED <<activeRunner, activeTask>>
    BY <1>4 DEF Evict, Goes
  <2>7. QED
    BY <1>1, <2>2, <2>3, <2>5, <2>6 DEF Entries
<1>5. ASSUME NEW t \in Tasks, Evicted(t) PROVE Entries'
  <2>1. ASSUME NEW u \in Tasks PROVE pc[u] \notin Registered
    <3>1. SUFFICES ASSUME pc[u] \in Registered PROVE FALSE
      OBVIOUS
    <3>2. awaits[t] = u
      BY <1>5, <3>1 DEF Evicted, Goes, Entries
    <3>3. pc[u] = "over"
      BY <1>5, <3>2 DEF Evicted
    <3>4. QED
      BY <3>1, <3>3 DEF Registered
  <2>2. QED
    BY <1>1, <1>5, <2>1 DEF Evicted, Goes, Entries, Registered
<1>6. ASSUME NEW t \in Tasks, Register(t) PROVE Entries'
  <2>1. \A u \in Tasks : pc[u] \notin Registered
    BY <1>6 DEF Register, Goes, Entries
  <2>2. \A u \in Tasks : u # t => pc[u] \notin HolderStages
    BY <1>6, OneHolder DEF Register, Goes, HolderStages
  <2>3. pc' = [pc EXCEPT ![t] = "registered"] /\ activeRunner' = <<t, "template">> /\ activeTask' = t
    BY <1>6 DEF Register, Goes
  <2>4. QED
    BY <1>1, <2>1, <2>2, <2>3 DEF Entries, HolderStages
<1>7. ASSUME NEW t \in Tasks, LeaveLock(t) PROVE Entries'
  BY <1>1, <1>7 DEF LeaveLock, Raises, Goes, Entries, Registered
<1>8. ASSUME NEW t \in Tasks, StartProcess(t) PROVE Entries'
  BY <1>1, <1>8 DEF StartProcess, Goes, Entries, Registered
<1>9. ASSUME NEW t \in Tasks, EndProcess(t) PROVE Entries'
  BY <1>1, <1>9 DEF EndProcess, Goes, Entries, Registered
<1>10. ASSUME NEW t \in Tasks, Rerun(t) PROVE Entries'
  BY <1>1, <1>10 DEF Rerun, Goes, Entries, Registered
<1>11. ASSUME NEW t \in Tasks, FinishRun(t) PROVE Entries'
  BY <1>1, <1>11 DEF FinishRun, Goes, Entries, Registered
<1>12. ASSUME NEW t \in Tasks, Cleanup(t) PROVE Entries'
  <2>1. ASSUME NEW u \in Tasks, pc'[u] \in Registered PROVE FALSE
    <3>1. u # t /\ pc[u] \in Registered
      BY <1>1, <1>12, <2>1 DEF Cleanup, Goes, Registered
    <3>2. activeTask = u
      BY <3>1 DEF Entries
    <3>3. activeTask = t
      BY <1>12 DEF Cleanup, Goes, Entries, Registered
    <3>4. QED
      BY <3>1, <3>2, <3>3
  <2>2. QED
    BY <2>1 DEF Entries
<1>13. ASSUME NEW t \in Tasks, Finish(t) PROVE Entries'
  BY <1>1, <1>13 DEF Finish, Goes, Entries, Registered
<1>14. CASE Clear
  BY <1>14 DEF Clear, TypeOK
<1>15. CASE UNCHANGED vars
  BY <1>15 DEF vars, Entries
<1>16. QED
  BY <1>2, <1>3, <1>4, <1>5, <1>6, <1>7, <1>8, <1>9, <1>10, <1>11, <1>12, <1>13, <1>14,
     <1>15 DEF Next, Step

(* The entries are never cleared and then not. *)
LEMMA ClearsStay == ASSUME IInv, clears' = 0, [Next]_vars PROVE clears = 0
<1>1. CASE Clear
  BY <1>1, BoundsType DEF Clear, IInv, TypeOK
<1>2. ASSUME NEW t \in Tasks, Step(t) PROVE clears = 0
  BY <1>2 DEF Step, JoinLock, Evict, Evicted, Register, LeaveLock, StartProcess, EndProcess,
     Rerun, FinishRun, Cleanup, Finish
<1>3. ASSUME NEW t \in Tasks, Arrive(t) PROVE clears = 0
  BY <1>3 DEF Arrive
<1>4. QED
  BY <1>1, <1>2, <1>3 DEF Next, vars

(* Until someone clears the entries from outside, a run in flight is the   *)
(* registered one: no cleanup, retry or failing post of another run takes  *)
(* its entries away.                                                       *)
THEOREM RunsAreRegistered == Spec => []RunIsRegistered
<1> DEFINE Kept == clears = 0 => Entries
<1>1. Init => Kept
  BY DEF Init, Entries, Registered
<1>2. IInv /\ Kept /\ [Next]_vars => Kept'
  BY EntriesStep, ClearsStay
<1>3. Kept => RunIsRegistered
  BY DEF Entries, RunIsRegistered, RunStages, Registered
<1> HIDE DEF Kept
<1>4. QED
  BY <1>1, <1>2, <1>3, Invariant, PTL DEF Spec

(* "At most one Claude run may be active per thread at any time", until    *)
(* someone clears the entries from outside.                                *)
THEOREM OneRunAtATime == Spec => [](clears = 0 => OneRunPerThread)
<1>1. RunIsRegistered => (clears = 0 => OneRunPerThread)
  BY DEF RunIsRegistered, OneRunPerThread
<1>2. QED
  BY <1>1, RunsAreRegistered, PTL

-----------------------------------------------------------------------------
(* The registered runner is that of a run between its registration and its *)
(* cleanup, or of one that a failing post ended in between.                *)
Alive ==
    activeRunner # NoRunner =>
        \E t \in Tasks : activeRunner = <<t, "template">> /\ (pc[t] \in Registered \/ t \in raised)

(* "Idle sessions are NOT in _active_runners": whatever clears, retries,   *)
(* evictions and failing posts happen, the only runs left registered after *)
(* their end are those whose stop button could not be posted.              *)
THEOREM RegisteredRunsLive == Spec => []RegisteredIsAlive
<1> USE TasksType
<1>1. Init => Alive
  BY DEF Init, Alive
<1>2. ASSUME IInv, Alive, [Next]_vars PROVE Alive'
  <2>1. pc \in [Tasks -> Stages]
    BY <1>2 DEF IInv, TypeOK
  <2>2. ASSUME NEW t \in Tasks, \/ Arrive(t) \/ JoinLock(t) \/ Evict(t) \/ Evicted(t)
                                \/ LeaveLock(t) \/ StartProcess(t) \/ EndProcess(t)
                                \/ Rerun(t) \/ FinishRun(t) \/ Finish(t)
        PROVE  Alive'
    <3>1. UNCHANGED activeRunner /\ raised \subseteq raised'
      BY <2>2 DEF Arrive, JoinLock, Evict, Evicted, LeaveLock, Raises, StartProcess,
                  EndProcess, Rerun, FinishRun, Finish
    <3>2. \E s \in Stages : /\ pc' = [pc EXCEPT ![t] = s]
                            /\ pc[t] \in Registered => s \in Registered \/ t \in raised'
      BY <2>2 DEF Arrive, JoinLock, Evict, Evicted, LeaveLock, Raises, StartProcess,
                  EndProcess, Rerun, FinishRun, Finish, Goes, Stages, Registered
    <3>3. QED
      BY <1>2, <2>1, <3>1, <3>2 DEF Alive
  <2>3. ASSUME NEW t \in Tasks, Register(t) PROVE Alive'
    BY <2>1, <2>3 DEF Register, Goes, Alive, Registered
  <2>4. ASSUME NEW t \in Tasks, Cleanup(t) PROVE Alive'
    <3>1. pc' = [pc EXCEPT ![t] = "finishing"] /\ UNCHANGED raised
      BY <2>4 DEF Cleanup, Goes
    <3>2. SUFFICES ASSUME activeRunner' # NoRunner PROVE Alive'
      BY DEF Alive
    <3>3. activeRunner # <<t, "template">> /\ activeRunner' = activeRunner
      BY <2>4, <3>2 DEF Cleanup
    <3>4. PICK u \in Tasks : activeRunner = <<u, "template">> /\ (pc[u] \in Registered \/ u \in raised)
      BY <1>2, <3>2, <3>3 DEF Alive
    <3>5. u # t
      BY <3>3, <3>4
    <3>6. QED
      BY <2>1, <3>1, <3>3, <3>4, <3>5 DEF Alive
  <2>5. CASE Clear
    BY <2>5 DEF Clear, Alive
  <2>6. CASE UNCHANGED vars
    BY <1>2, <2>6 DEF vars, Alive
  <2>7. QED
    BY <1>2, <2>2, <2>3, <2>4, <2>5, <2>6 DEF Next, Step
<1>3. Alive => RegisteredIsAlive
  BY DEF Alive, RegisteredIsAlive, Registered
<1>4. IInv /\ Alive /\ [Next]_vars => Alive'
  BY <1>2
<1>5. QED
  BY <1>1, <1>3, <1>4, Invariant, PTL DEF Spec

-----------------------------------------------------------------------------
(* The waits of Conversations: their steps are those of WaitsProofs, whose  *)
(* theorems hold here.                                                      *)
LEMMA WaitStep == Waits!Next => WaitFacts!Next
<1>1. Waits!Rows = WaitFacts!Rows /\ Waits!Threads = WaitFacts!Threads
  BY DEF Waits!Rows, WaitFacts!Rows, Waits!Threads, WaitFacts!Threads
<1>2. ASSUME NEW w \in Waits!Rows
      PROVE  /\ Waits!CancelWait(w) => WaitFacts!CancelWait(w)
             /\ Waits!PassDeadline(w) => WaitFacts!PassDeadline(w)
             /\ Waits!Tick(w) => WaitFacts!Tick(w)
             /\ Waits!Claim(w) => WaitFacts!Claim(w)
  BY DEF Waits!CancelWait, WaitFacts!CancelWait, Waits!PassDeadline,
         WaitFacts!PassDeadline, Waits!Tick, WaitFacts!Tick, Waits!Claim,
         WaitFacts!Claim, Waits!row, WaitFacts!row, Waits!process,
         WaitFacts!process, Waits!history, WaitFacts!history, Waits!Live,
         WaitFacts!Live
<1>3. ASSUME NEW w \in Waits!Rows
      PROVE  /\ Waits!Deliver(w) => WaitFacts!Deliver(w)
             /\ Waits!DeliverFails(w) => WaitFacts!DeliverFails(w)
             /\ Waits!StartTurn(w) => WaitFacts!StartTurn(w)
             /\ Waits!EndTurn(w) => WaitFacts!EndTurn(w)
             /\ Waits!Record(w) => WaitFacts!Record(w)
  BY DEF Waits!Deliver, WaitFacts!Deliver, Waits!DeliverFails,
         WaitFacts!DeliverFails, Waits!StartTurn, WaitFacts!StartTurn,
         Waits!EndTurn, WaitFacts!EndTurn, Waits!Record, WaitFacts!Record,
         Waits!row, WaitFacts!row, Waits!history, WaitFacts!history, Waits!NoTurn,
         WaitFacts!NoTurn
<1>4. ASSUME NEW w \in Waits!Rows, NEW res \in Waits!Results
      PROVE  Waits!Probe(w, res) => WaitFacts!Probe(w, res)
  <2>1. Waits!EvaluateProbe(argv[w], res) = WaitFacts!EvaluateProbe(argv[w], res)
    BY DEF Waits!EvaluateProbe, WaitFacts!EvaluateProbe
  <2>2. QED
    BY <2>1 DEF Waits!Probe, WaitFacts!Probe, Waits!history, WaitFacts!history
<1>5. ASSUME NEW t \in Waits!Threads
      PROVE  /\ Waits!StartHumanTurn(t) => WaitFacts!StartHumanTurn(t)
             /\ Waits!EndHumanTurn(t) => WaitFacts!EndHumanTurn(t)
             /\ Waits!DeleteThread(t) => WaitFacts!DeleteThread(t)
  BY DEF Waits!StartHumanTurn, WaitFacts!StartHumanTurn, Waits!EndHumanTurn,
         WaitFacts!EndHumanTurn, Waits!DeleteThread, WaitFacts!DeleteThread,
         Waits!row, WaitFacts!row, Waits!process, WaitFacts!process,
         Waits!history, WaitFacts!history, Waits!NoTurn, WaitFacts!NoTurn,
         Waits!HumanTurn, WaitFacts!HumanTurn
<1>6. ASSUME NEW t \in Waits!Threads, NEW p \in Probes
      PROVE  Waits!Register(t, p) => WaitFacts!Register(t, p)
  BY DEF Waits!Register, WaitFacts!Register, Waits!LiveOf, WaitFacts!LiveOf,
         Waits!LiveRows, WaitFacts!LiveRows, Waits!Live, WaitFacts!Live,
         Waits!Rows, WaitFacts!Rows, Waits!row, WaitFacts!row, Waits!process,
         WaitFacts!process, Waits!NoTurn, WaitFacts!NoTurn, Waits!Cardinality,
         WaitFacts!Cardinality
<1>7. /\ Waits!Crash => WaitFacts!Crash
      /\ Waits!Boot => WaitFacts!Boot
  BY DEF Waits!Crash, WaitFacts!Crash, Waits!Boot, WaitFacts!Boot, Waits!Rows,
         WaitFacts!Rows, Waits!Threads, WaitFacts!Threads, Waits!row,
         WaitFacts!row, Waits!history, WaitFacts!history, Waits!NoTurn,
         WaitFacts!NoTurn
<1>8. Waits!Results = WaitFacts!Results
  BY DEF Waits!Results, WaitFacts!Results
<1>9. QED
  BY <1>1, <1>2, <1>3, <1>4, <1>5, <1>6, <1>7, <1>8 DEF Waits!Next, WaitFacts!Next

LEMMA WaitsBehave == AllSpec => WaitFacts!Spec
<1>1. AllInit => WaitFacts!Init
  BY DEF AllInit, Waits!Init, WaitFacts!Init, Waits!Rows, WaitFacts!Rows, Waits!Threads,
         WaitFacts!Threads, Waits!NoTurn, WaitFacts!NoTurn
<1>2. [AllNext]_<<part, vars, waitVars>> => [WaitFacts!Next]_(WaitFacts!vars)
  BY WaitStep DEF AllNext, waitVars, WaitFacts!vars, WaitFacts!row, WaitFacts!process,
     WaitFacts!history
<1>3. QED
  BY <1>1, <1>2, PTL DEF AllSpec, WaitFacts!Spec

(* "Once" (docs/waits.md): however checks, deliveries, failures and         *)
(* restarts interleave, a wait's turn ends at most once more than its       *)
(* resumes failed or were cut off.                                          *)
THEOREM ConversationsResumeOnce == AllSpec => []ResumedOnce
<1>1. WaitFacts!ResumedOnce => ResumedOnce
  BY DEF Waits!ResumedOnce, WaitFacts!ResumedOnce, Waits!Rows, WaitFacts!Rows, ResumedOnce
<1>2. WaitFacts!Spec => []WaitFacts!ResumedOnce
  BY WaitConstants, WaitFacts!WaitsResumeOnce DEF WaitFacts!Threads
<1>3. QED
  BY <1>1, <1>2, WaitsBehave, PTL

(* A finished wait of a Discord thread that still exists has had its turn.  *)
THEOREM FinishedConversationsHaveRun == AllSpec => []FinishedDiscordWaitHasRun
<1>1. WaitFacts!FinishedDiscordWaitHasRun => FinishedDiscordWaitHasRun
  BY DEF Waits!FinishedDiscordWaitHasRun, WaitFacts!FinishedDiscordWaitHasRun,
         Waits!FinishedMeansRun, WaitFacts!FinishedMeansRun, Waits!Rows,
         WaitFacts!Rows, Waits!Outcomes, WaitFacts!Outcomes,
         FinishedDiscordWaitHasRun
<1>2. WaitFacts!Spec => []WaitFacts!FinishedDiscordWaitHasRun
  BY WaitConstants, WaitFacts!FinishedDiscordWaitsHaveRun DEF WaitFacts!Threads
<1>3. QED
  BY <1>1, <1>2, WaitsBehave, PTL
=============================================================================
