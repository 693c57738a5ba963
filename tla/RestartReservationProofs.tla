---------------------- MODULE RestartReservationProofs ----------------------
(***************************************************************************)
(* Safety of restarts for every set of threads and messages, any number of *)
(* restarts, crashes and replays.  IdleAtRestart is inductive next to the  *)
(* types; RunsOnce rests on where a message is: in one task at most, as a  *)
(* row, or as a replay on_ready still has to start, and on what allows two *)
(* of these at once.                                                       *)
(***************************************************************************)
EXTENDS RestartReservation, FiniteSetTheorems, TLAPS

TaskStages == {"absent", "locked", "starting", "queued", "running", "over"}
Pending == {"locked", "starting", "queued"}
Present == Pending \cup {"running"}
Late == {"saving", "acting", "forgetting"}
Of(S, m) == {k \in S : k[1] = m}
HasRow(m) == rows[ThreadOf[m]] = m
HasReplay(m) == <<ThreadOf[m], m>> \in replay

(* A message that has not arrived has left no trace. *)
Fresh ==
    \A m \in Messages : stage[<<m, 0>>] = "absent" =>
        /\ \A k \in Tasks : k[1] = m => stage[k] = "absent"
        /\ ~HasRow(m) /\ ~HasReplay(m) /\ starts[m] = 0

(* Rows and replays of a message are those of its thread. *)
Placed ==
    \A t \in Threads : \A m \in Messages :
        rows[t] = m \/ <<t, m>> \in replay => ThreadOf[m] = t

(* One task of a message is under way, and none while a replay of it is    *)
(* still to start.                                                         *)
OneTask ==
    \A k, l \in Tasks :
        stage[k] \in Present /\ stage[l] \in Present /\ k[1] = l[1] => k = l
ReplayOrTask == \A k \in Tasks : stage[k] \in Present => ~HasReplay(k[1])

(* In a process that goes on, a row is there because it is still to be     *)
(* replayed, or because a reservation saved its queued message.            *)
Queued(m) == \E k \in TasksIn("queued") : k[1] = m
RowsExplained ==
    up = "running" => \A m \in Messages : HasRow(m) =>
        \/ HasReplay(m)
        \/ phase \in Late /\ ThreadOf[m] \in saved /\ Queued(m)
ToSaveQueued == \A m \in toSave : phase = "saving" /\ Queued(m)

NothingDown == up = "down" => /\ replay = {} /\ toSave = {} /\ phase = "idle"
                              /\ \A k \in Tasks : stage[k] \in {"absent", "over"}

(* What may still start a turn of a message whose start is not yet made    *)
(* good by a cut or a continuation.                                        *)
Owed(m) == \/ HasRow(m) \/ HasReplay(m)
           \/ \E k \in Tasks : /\ k[1] = m
                               /\ \/ stage[k] \in Pending
                                  \/ stage[k] = "running" /\ up # "running"
Budget == \A m \in Messages : Owed(m) => starts[m] <= cuts[m] + again[m]

Where == /\ Fresh /\ Placed /\ OneTask /\ ReplayOrTask /\ RowsExplained /\ ToSaveQueued
         /\ NothingDown

IInv == TypeOK /\ Where /\ Budget /\ RunsOnce

(* Tasks are pairs; a message's are the one of its arrival and those of    *)
(* its replays.                                                            *)
LEMMA TaskFacts ==
    /\ \A k \in Tasks : k[1] \in Messages /\ k[1] \notin {None, Generic}
    /\ \A m \in Messages : \A n \in 0..MaxReplays : <<m, n>> \in Tasks
    /\ \A m \in Messages : <<m, 0>> \in Tasks
    /\ \A k \in Tasks : TaskThread(k) \in Threads
BY BoundsType, NamesDistinct, ThreadOfType DEF Tasks, TaskThread

(* How many tasks of a message a set holds is a number; it is one when the *)
(* tasks of each message in it are one, and zero when it holds none.       *)
LEMMA CountOf ==
    ASSUME NEW S, S \subseteq Tasks, NEW m \in Messages
    PROVE  /\ Cardinality(Of(S, m)) \in Nat
           /\ Cardinality(Of(S, m)) # 0 => \E k \in S : k[1] = m
           /\ ((\E k \in S : k[1] = m) /\ \A k, l \in S : k[1] = l[1] => k = l)
                 => Cardinality(Of(S, m)) = 1
<1>1. IsFiniteSet({m} \X (0..MaxReplays))
  <2>1. IsFiniteSet(0..MaxReplays)
    BY BoundsType, FS_Interval
  <2>2. QED
    BY <2>1, FS_Singleton, FS_Product
<1>2. Of(S, m) \subseteq {m} \X (0..MaxReplays)
  BY DEF Of, Tasks
<1>3. IsFiniteSet(Of(S, m))
  BY <1>1, <1>2, FS_Subset
<1>4. Cardinality(Of(S, m)) \in Nat
  BY <1>3, FS_CardinalityType
<1>5. Cardinality(Of(S, m)) # 0 => \E k \in S : k[1] = m
  BY FS_EmptySet DEF Of
<1>6. ASSUME NEW k \in S, k[1] = m, \A i, j \in S : i[1] = j[1] => i = j
      PROVE  Cardinality(Of(S, m)) = 1
  <2>1. Of(S, m) = {k}
    BY <1>6 DEF Of
  <2>2. QED
    BY <2>1, FS_Singleton
<1>7. QED
  BY <1>4, <1>5, <1>6

-----------------------------------------------------------------------------
(* The type invariant *)

LEMMA TypeInit == Init => TypeOK
<1> SUFFICES ASSUME Init PROVE TypeOK
  OBVIOUS
<1>1. stage \in [Tasks -> {"absent", "locked", "starting", "queued", "running", "over"}]
  BY DEF Init
<1>2. ends \in 0..MaxRestarts /\ reconnects \in 0..MaxReconnects /\ reserves \in 0..MaxReserves
  BY BoundsType DEF Init
<1>3. QED
  BY <1>1, <1>2 DEF Init, TypeOK

(* A dispatch takes stages to stages and counts what it starts. *)
LEMMA DispatchTypes ==
    ASSUME TypeOK, NEW s \in [Tasks -> TaskStages], Dispatch(s)
    PROVE  /\ stage' \in [Tasks -> TaskStages]
           /\ starts' \in [Messages -> Nat] /\ cuts' \in [Messages -> Nat]
<1>1. PICK go \in SUBSET {k \in Tasks : s[k] = "queued"} :
        /\ stage' = [k \in Tasks |-> IF k \in go THEN "running" ELSE s[k]]
        /\ starts' = [m \in Messages |-> starts[m] + Cardinality(Of(go, m))]
        /\ cuts' = IF up' = "running" THEN cuts
                   ELSE [m \in Messages |-> cuts[m] + Cardinality(Of(go, m))]
  BY DEF Dispatch, Of
<1>2. go \subseteq Tasks
  OBVIOUS
<1>3. \A m \in Messages : Cardinality(Of(go, m)) \in Nat
  BY <1>2, CountOf
<1>4. stage' \in [Tasks -> TaskStages]
  BY <1>1 DEF TaskStages
<1>5. QED
  BY <1>1, <1>3, <1>4 DEF TypeOK

LEMMA CutOffType == ASSUME TypeOK PROVE CutOff \in [Messages -> Nat]
<1>1. \A m \in Messages : Cardinality(Of(TasksIn("running"), m)) \in Nat
  BY CountOf DEF TasksIn
<1>2. CutOff = [m \in Messages |-> cuts[m] + Cardinality(Of(TasksIn("running"), m))]
  BY DEF CutOff, Of
<1>3. QED
  BY <1>1, <1>2 DEF TypeOK

LEMMA TypeStep == TypeOK /\ [Next]_vars => TypeOK'
<1> SUFFICES ASSUME TypeOK, [Next]_vars PROVE TypeOK'
  OBVIOUS
<1> USE BoundsType, ThreadOfType DEF TypeOK, counters, history
<1>0. stage \in [Tasks -> TaskStages]
  BY DEF TaskStages
<1>1. ASSUME NEW m \in Messages, Message(m) PROVE TypeOK'
  BY <1>1 DEF Message
<1>2. ASSUME NEW k \in Tasks, Unlock(k) PROVE TypeOK'
  BY <1>2 DEF Unlock
<1>3. ASSUME NEW k \in Tasks, Enqueue(k) PROVE TypeOK'
  <2>1. [stage EXCEPT ![k] = "queued"] \in [Tasks -> TaskStages]
    BY <1>0 DEF TaskStages
  <2>2. Dispatch([stage EXCEPT ![k] = "queued"])
    BY <1>3 DEF Enqueue
  <2>3. QED
    BY <1>3, <2>1, <2>2, DispatchTypes DEF Enqueue, TaskStages
<1>4. ASSUME NEW k \in Tasks, EndTurn(k) PROVE TypeOK'
  <2>1. [stage EXCEPT ![k] = "over"] \in [Tasks -> TaskStages]
    BY <1>0 DEF TaskStages
  <2>2. Dispatch([stage EXCEPT ![k] = "over"])
    BY <1>4 DEF EndTurn
  <2>3. QED
    BY <1>4, <2>1, <2>2, DispatchTypes DEF EndTurn, TaskStages
<1>22. ASSUME NEW k \in Tasks, Continue(k) PROVE TypeOK'
  <2>1. [stage EXCEPT ![k] = "starting"] \in [Tasks -> TaskStages]
    BY <1>0 DEF TaskStages
  <2>2. Dispatch([stage EXCEPT ![k] = "starting"])
    BY <1>22 DEF Continue
  <2>3. again' \in [Messages -> Nat]
    BY <1>22, TaskFacts DEF Continue
  <2>4. QED
    BY <1>22, <2>1, <2>2, <2>3, DispatchTypes DEF Continue, TaskStages
<1>5. ASSUME NEW t \in Threads, MarkResume(t) PROVE TypeOK'
  BY <1>5 DEF MarkResume, memory
<1>6. ASSUME NEW t \in Threads \cup {None}, Reserve(t) PROVE TypeOK'
  <2>1. reserves' \in 0..MaxReserves
    BY <1>6 DEF Reserve
  <2>2. QED
    BY <1>6, <2>1 DEF Reserve
<1>7. CASE Abandon
  BY <1>0, <1>7, DispatchTypes DEF Abandon, TaskStages
<1>8. CASE Drained
  BY <1>8 DEF Drained, TasksIn, Tasks
<1>9. ASSUME NEW m \in Messages, SaveQueued(m) PROVE TypeOK'
  BY <1>9 DEF SaveQueued
<1>10. CASE SaveResume
  BY <1>10 DEF SaveResume
<1>11. CASE SaveResumeFails
  BY <1>11 DEF SaveResumeFails
<1>12. CASE RestartFails
  BY <1>12 DEF RestartFails
<1>13. ASSUME NEW t \in Threads, Forget(t) PROVE TypeOK'
  BY <1>13 DEF Forget
<1>14. CASE Release
  BY <1>0, <1>14, DispatchTypes DEF Release, TaskStages
<1>15. CASE Unload
  <2>1. PICK failed \in SUBSET TasksIn("queued") :
          /\ rows' = [t \in Threads |->
                        IF \E k \in TasksIn("queued") \ failed : TaskThread(k) = t
                          THEN (CHOOSE k \in TasksIn("queued") \ failed : TaskThread(k) = t)[1]
                          ELSE rows[t]]
          /\ lost' = lost \cup {k[1] : k \in failed}
    BY <1>15 DEF Unload
  <2>2. ASSUME NEW t \in Threads, \E k \in TasksIn("queued") \ failed : TaskThread(k) = t
        PROVE  (CHOOSE k \in TasksIn("queued") \ failed : TaskThread(k) = t)[1] \in Messages
    BY <2>2, TaskFacts DEF TasksIn
  <2>3. rows' \in [Threads -> Messages \cup {None, Generic}]
    BY <2>1, <2>2
  <2>4. lost' \subseteq Messages
    BY <2>1, TaskFacts DEF TasksIn
  <2>5. QED
    BY <1>15, <2>3, <2>4, CutOffType DEF Unload
<1>16. CASE MarkActive
  BY <1>16 DEF MarkActive
<1>17. CASE Die
  <2>1. ends' \in 0..MaxRestarts
    BY <1>17 DEF Die
  <2>2. cuts' \in [Messages -> Nat]
    BY <1>17, CutOffType DEF Die
  <2>3. stage' \in [Tasks -> TaskStages]
    BY <1>17 DEF Die, TaskStages
  <2>4. QED
    BY <1>17, <2>1, <2>2, <2>3 DEF Die, TaskStages
<1>18. CASE OnReady
  <2>1. reconnects' \in 0..MaxReconnects
    BY <1>18 DEF OnReady
  <2>2. replay' \subseteq Threads \X (Messages \cup {Generic})
    BY <1>18 DEF OnReady
  <2>3. QED
    BY <1>18, <2>1, <2>2 DEF OnReady
<1>19. ASSUME NEW t \in Threads, NEW r \in Messages \cup {Generic}, Replay(t, r) PROVE TypeOK'
  <2>1. stage' \in [Tasks -> TaskStages]
    BY <1>0, <1>19 DEF Replay, TaskStages
  <2>2. rows' \in [Threads -> Messages \cup {None, Generic}]
    BY <1>19 DEF Replay
  <2>3. QED
    BY <1>19, <2>1, <2>2 DEF Replay, TaskStages
<1>23. ASSUME NEW t \in Threads, NEW r \in Messages \cup {Generic}, ReplaySkipped(t, r)
       PROVE  TypeOK'
  BY <1>23 DEF ReplaySkipped
<1>20. CASE UNCHANGED vars
  BY <1>20 DEF vars, memory
<1>21. QED
  BY <1>1, <1>2, <1>3, <1>4, <1>5, <1>6, <1>7, <1>8, <1>9, <1>10, <1>11, <1>12, <1>13,
     <1>14, <1>15, <1>16, <1>17, <1>18, <1>19, <1>20, <1>22, <1>23 DEF Next

(* The variables of restarts keep their types. *)
THEOREM RestartTypeCorrect == Spec => []TypeOK
BY TypeInit, TypeStep, PTL DEF Spec

-----------------------------------------------------------------------------
(* While the queue is held, a dispatch starts nothing. *)
LEMMA HeldStartsNothing ==
    ASSUME NEW s \in [Tasks -> TaskStages], Dispatch(s), phase' # "idle"
    PROVE  stage' = s
BY DEF Dispatch

(* From the moment the queue is saved until it is released or the process  *)
(* ends, nothing runs that a restart would cut off.                        *)
THEOREM NothingCutOff == Spec => []IdleAtRestart
<1>1. Init => IdleAtRestart
  BY DEF Init, IdleAtRestart
<1>2. ASSUME TypeOK, IdleAtRestart, [Next]_vars PROVE IdleAtRestart'
  <2>0. stage \in [Tasks -> TaskStages]
    BY <1>2 DEF TypeOK, TaskStages
  <2> USE DEF IdleAtRestart, TasksIn, counters, history
  <2>1. ASSUME NEW m \in Messages, Message(m) PROVE IdleAtRestart'
    BY <1>2, <2>0, <2>1, TaskFacts DEF Message
  <2>2. ASSUME NEW k \in Tasks, Unlock(k) PROVE IdleAtRestart'
    BY <1>2, <2>0, <2>2 DEF Unlock
  <2>3. ASSUME NEW k \in Tasks, Enqueue(k) PROVE IdleAtRestart'
    <3>1. SUFFICES ASSUME phase' \in {"saving", "acting", "forgetting"} PROVE IdleAtRestart'
      OBVIOUS
    <3>2. [stage EXCEPT ![k] = "queued"] \in [Tasks -> TaskStages]
      BY <2>0 DEF TaskStages
    <3>3. stage' = [stage EXCEPT ![k] = "queued"]
      BY <2>3, <3>1, <3>2, HeldStartsNothing DEF Enqueue
    <3>4. QED
      BY <1>2, <2>0, <2>3, <3>3 DEF Enqueue
  <2>4. ASSUME NEW k \in Tasks, EndTurn(k) PROVE IdleAtRestart'
    BY <1>2, <2>4 DEF EndTurn
  <2>12. ASSUME NEW k \in Tasks, Continue(k) PROVE IdleAtRestart'
    BY <1>2, <2>12 DEF Continue
  <2>5. ASSUME NEW t \in Threads,
               \/ MarkResume(t) \/ Forget(t)
               \/ \E r \in Messages \cup {Generic} : Replay(t, r) \/ ReplaySkipped(t, r)
        PROVE  IdleAtRestart'
    <3>1. CASE MarkResume(t) \/ Forget(t)
      BY <1>2, <3>1 DEF MarkResume, Forget, memory
    <3>2. ASSUME NEW r \in Messages \cup {Generic}, Replay(t, r) PROVE IdleAtRestart'
      <4>1. \A k \in Tasks : stage'[k] = "running" => stage[k] = "running"
        BY <2>0, <3>2 DEF Replay
      <4>2. QED
        BY <1>2, <3>2, <4>1 DEF Replay
    <3>3. ASSUME NEW r \in Messages \cup {Generic}, ReplaySkipped(t, r) PROVE IdleAtRestart'
      BY <1>2, <3>3 DEF ReplaySkipped
    <3>4. QED
      BY <2>5, <3>1, <3>2, <3>3
  <2>6. CASE \/ \E t \in Threads \cup {None} : Reserve(t)
             \/ Abandon \/ Release
    BY <2>6 DEF Reserve, Abandon, Release
  <2>7. ASSUME \/ \E m \in Messages : SaveQueued(m)
               \/ Drained \/ SaveResume \/ SaveResumeFails
               \/ RestartFails \/ Unload \/ MarkActive
        PROVE  IdleAtRestart'
    BY <1>2, <2>7 DEF Drained, SaveQueued, SaveResume, SaveResumeFails, RestartFails, Unload,
                      MarkActive
  <2>8. CASE Die
    BY <2>8 DEF Die
  <2>9. CASE OnReady
    BY <1>2, <2>9 DEF OnReady
  <2>10. CASE UNCHANGED vars
    BY <1>2, <2>10 DEF vars, memory
  <2>11. QED
    BY <1>2, <2>1, <2>2, <2>3, <2>4, <2>5, <2>6, <2>7, <2>8, <2>9, <2>10, <2>12 DEF Next
<1>3. TypeOK /\ IdleAtRestart /\ [Next]_vars => IdleAtRestart'
  BY <1>2
<1>4. QED
  BY <1>1, <1>3, RestartTypeCorrect, PTL DEF Spec

-----------------------------------------------------------------------------
(* A process that begins to end counts every running turn, once for each   *)
(* message.                                                                *)
LEMMA CutsRunning ==
    ASSUME TypeOK, OneTask
    PROVE  \A x \in Messages :
             /\ cuts[x] \in Nat /\ CutOff[x] \in Nat /\ cuts[x] <= CutOff[x]
             /\ (\E k \in TasksIn("running") : k[1] = x) => CutOff[x] = cuts[x] + 1
<1> TAKE x \in Messages
<1>1. TasksIn("running") \subseteq Tasks
  BY DEF TasksIn
<1>2. \A k, l \in TasksIn("running") : k[1] = l[1] => k = l
  BY DEF TasksIn, OneTask, Present
<1>3. /\ Cardinality(Of(TasksIn("running"), x)) \in Nat
      /\ (\E k \in TasksIn("running") : k[1] = x) => Cardinality(Of(TasksIn("running"), x)) = 1
  BY <1>1, <1>2, CountOf
<1>4. CutOff[x] = cuts[x] + Cardinality(Of(TasksIn("running"), x))
  BY DEF CutOff, Of
<1>5. cuts[x] \in Nat
  BY DEF TypeOK
<1>6. QED
  BY <1>3, <1>4, <1>5

(* A dispatch, after a task has come to the queue or a turn has ended or   *)
(* goes on in a continuation, takes a message's one start from those that  *)
(* were owed.                                                              *)
LEMMA DispatchKeeps ==
    ASSUME IInv, TypeOK', NEW s \in [Tasks -> TaskStages], Dispatch(s),
           \A k \in Tasks : \/ s[k] = stage[k]
                            \/ stage[k] = "starting" /\ s[k] = "queued"
                            \/ stage[k] = "running" /\ s[k] = "over"
                            \/ /\ stage[k] = "running" /\ s[k] = "starting"
                               /\ again'[k[1]] = again[k[1]] + 1,
           \A m \in Messages : again[m] <= again'[m],
           UNCHANGED <<up, toSave, saved, replay, rows>>, up # "down",
           \/ phase' = phase
           \/ phase' = "idle" /\ (phase = "draining" \/ (phase = "forgetting" /\ saved = {}))
    PROVE  IInv'
<1> USE DEF IInv, Where
<1>1. PICK go \in SUBSET {k \in Tasks : s[k] = "queued"} :
        /\ phase' # "idle" => go = {}
        /\ stage' = [k \in Tasks |-> IF k \in go THEN "running" ELSE s[k]]
        /\ starts' = [m \in Messages |-> starts[m] + Cardinality(Of(go, m))]
        /\ cuts' = IF up' = "running" THEN cuts
                   ELSE [m \in Messages |-> cuts[m] + Cardinality(Of(go, m))]
  BY DEF Dispatch, Of
<1>2. /\ go \subseteq Tasks
      /\ \A k \in go : stage[k] \in {"starting", "queued"}
  OBVIOUS
<1>3. \A k \in Tasks :
        /\ stage'[k] \in Present => stage[k] \in Present
        /\ stage'[k] \in Pending =>
             /\ k \notin go
             /\ \/ stage[k] \in Pending
                \/ stage[k] = "running" /\ again'[k[1]] = again[k[1]] + 1
        /\ stage'[k] = "running" => stage[k] = "running" \/ k \in go
        /\ stage'[k] = "absent" <=> stage[k] = "absent"
        /\ k \in go => stage[k] \in Pending
        /\ phase' # "idle" /\ stage[k] = "queued" => stage'[k] = "queued"
  BY <1>1, <1>2 DEF Present, Pending
<1> DEFINE c(m) == Cardinality(Of(go, m))
<1>4. \A m \in Messages : c(m) \in Nat /\ (c(m) # 0 => \E k \in go : k[1] = m)
  BY <1>2, CountOf
<1>5. \A m \in Messages : (\E k \in go : k[1] = m) => c(m) = 1
  <2>1. \A k, l \in go : k[1] = l[1] => k = l
    BY <1>2 DEF OneTask, Present, Pending
  <2>2. QED
    BY <1>2, <2>1, CountOf
<1>6. /\ \A m \in Messages : starts'[m] = starts[m] + c(m)
      /\ up = "running" => cuts' = cuts
      /\ up # "running" => \A m \in Messages : cuts'[m] = cuts[m] + c(m)
      /\ \A m \in Messages : /\ starts[m] \in Nat /\ cuts[m] \in Nat
                             /\ again[m] \in Nat /\ again'[m] \in Nat
                             /\ again[m] <= again'[m]
  BY <1>1 DEF TypeOK
<1> HIDE DEF c
<1>7. UNCHANGED <<up, toSave, saved, replay, rows>> /\ up # "down"
  OBVIOUS
<1>8. Fresh'
  <2>1. ASSUME NEW m \in Messages, stage'[<<m, 0>>] = "absent"
        PROVE  /\ \A k \in Tasks : k[1] = m => stage'[k] = "absent"
               /\ ~HasRow(m)' /\ ~HasReplay(m)' /\ starts'[m] = 0
    <3>1. stage[<<m, 0>>] = "absent"
      BY <1>3, <2>1, TaskFacts
    <3>2. /\ \A k \in Tasks : k[1] = m => stage[k] = "absent"
          /\ ~HasRow(m) /\ ~HasReplay(m) /\ starts[m] = 0
      BY <3>1 DEF Fresh
    <3>3. c(m) = 0
      BY <1>2, <1>4, <3>2
    <3>4. QED
      BY <1>3, <1>6, <1>7, <3>2, <3>3 DEF HasRow, HasReplay
  <2>2. QED
    BY <2>1 DEF Fresh
<1>9. Placed'
  BY <1>7 DEF Placed
<1>10. OneTask'
  BY <1>3 DEF OneTask
<1>11. ReplayOrTask'
  BY <1>3, <1>7 DEF ReplayOrTask, HasReplay
<1>12. RowsExplained'
  <2>1. SUFFICES ASSUME up' = "running", NEW m \in Messages, HasRow(m)', ~HasReplay(m)'
                 PROVE  phase' \in Late /\ ThreadOf[m] \in saved' /\ Queued(m)'
    BY DEF RowsExplained
  <2>2. phase \in Late /\ ThreadOf[m] \in saved /\ Queued(m)
    BY <1>7, <2>1 DEF RowsExplained, HasRow, HasReplay
  <2>3. phase' = phase
    BY <2>2 DEF Late
  <2>4. QED
    BY <1>3, <1>7, <2>2, <2>3 DEF Queued, TasksIn, Late
<1>13. ToSaveQueued'
  <2>1. SUFFICES ASSUME NEW m \in toSave PROVE phase' = "saving" /\ Queued(m)'
    BY <1>7 DEF ToSaveQueued
  <2>2. phase = "saving" /\ Queued(m)
    BY DEF ToSaveQueued
  <2>3. QED
    BY <1>3, <2>2 DEF Queued, TasksIn
<1>14. NothingDown'
  BY <1>7 DEF NothingDown
<1>15. ASSUME NEW m \in Messages, up = "running", c(m) # 0
       PROVE  /\ c(m) = 1 /\ ~HasRow(m)' /\ ~HasReplay(m)' /\ Owed(m)
              /\ \A k \in Tasks : k[1] = m => stage'[k] \notin Pending
  <2>1. PICK k \in go : k[1] = m
    BY <1>4, <1>15
  <2>2. c(m) = 1
    BY <1>5, <2>1
  <2>3. ~HasReplay(m) /\ Owed(m)
    BY <1>2, <1>3, <2>1 DEF ReplayOrTask, Present, Pending, Owed
  <2>4. \A l \in Tasks : l[1] = m => stage'[l] \notin Pending
    <3>1. SUFFICES ASSUME NEW l \in Tasks, l[1] = m, stage'[l] \in Pending PROVE FALSE
      OBVIOUS
    <3>2. l = k
      BY <1>2, <1>3, <2>1, <3>1 DEF OneTask, Present
    <3>3. QED
      BY <1>3, <2>1, <3>1, <3>2
  <2>5. ~HasRow(m)
    <3>1. phase' = "idle"
      BY <1>1, <2>1
    <3>2. ~(phase \in Late /\ ThreadOf[m] \in saved)
      BY <3>1 DEF Late
    <3>3. QED
      BY <1>15, <2>3, <3>2 DEF RowsExplained
  <2>6. QED
    BY <1>7, <2>2, <2>3, <2>4, <2>5 DEF HasRow, HasReplay
<1>16. ASSUME NEW m \in Messages, Owed(m)' PROVE starts'[m] <= cuts'[m] + again'[m]
  <2>1. CASE up = "running"
    <3>1. c(m) = 0
      BY <1>7, <1>15, <1>16, <2>1 DEF Owed
    <3>2. Owed(m) \/ again'[m] = again[m] + 1
      BY <1>3, <1>7, <1>16, <2>1 DEF Owed, HasRow, HasReplay
    <3>3. starts[m] <= cuts[m] + again'[m]
      <4>1. CASE Owed(m)
        BY <1>6, <4>1 DEF Budget
      <4>2. CASE again'[m] = again[m] + 1
        BY <1>6, <4>2 DEF RunsOnce
      <4>3. QED
        BY <3>2, <4>1, <4>2
    <3>4. QED
      BY <1>6, <2>1, <3>1, <3>3
  <2>2. CASE up # "running"
    <3>1. Owed(m)
      BY <1>2, <1>3, <1>7, <1>16, <2>2 DEF Owed, HasRow, HasReplay, Pending
    <3>2. starts[m] <= cuts[m] + again[m]
      BY <3>1 DEF Budget
    <3>3. QED
      BY <1>4, <1>6, <2>2, <3>2
  <2>3. QED
    BY <2>1, <2>2
<1>17. ASSUME NEW m \in Messages PROVE starts'[m] <= 1 + cuts'[m] + again'[m]
  <2>1. CASE up = "running" /\ c(m) # 0
    BY <1>6, <1>15, <2>1 DEF Budget
  <2>2. CASE up = "running" /\ c(m) = 0
    BY <1>6, <2>2 DEF RunsOnce
  <2>3. CASE up # "running"
    BY <1>4, <1>6, <2>3 DEF RunsOnce
  <2>4. QED
    BY <2>1, <2>2, <2>3
<1>18. QED
  BY <1>8, <1>9, <1>10, <1>11, <1>12, <1>13, <1>14, <1>16, <1>17 DEF Budget, RunsOnce

(* A replay of on_ready gives a message one task for its row, or none. *)
LEMMA ReplayKeeps ==
    ASSUME IInv, TypeOK', NEW t \in Threads, NEW r \in Messages \cup {Generic}, Replay(t, r)
    PROVE  IInv'
<1> USE NamesDistinct, ThreadOfType DEF IInv, Where, TypeOK, counters, history
<1>1. /\ up # "down" /\ replay' = replay \ {<<t, r>>}
      /\ UNCHANGED <<up, phase, toSave, saved, starts, cuts, again>>
  BY DEF Replay, Alive
<1>2. CASE r = Generic
  <2>1. stage' = stage
    BY <1>2 DEF Replay
  <2>2. \A x \in Messages : (HasRow(x)' <=> HasRow(x)) /\ (HasReplay(x)' <=> HasReplay(x))
    BY <1>2 DEF Replay, HasRow, HasReplay
  <2>3. Placed'
    BY <1>2 DEF Replay, Placed
  <2>4. Fresh' /\ OneTask' /\ ReplayOrTask'
    BY <1>1, <2>1, <2>2, TaskFacts DEF Fresh, OneTask, ReplayOrTask
  <2>5. RowsExplained' /\ ToSaveQueued' /\ NothingDown'
    BY <1>1, <2>1, <2>2 DEF RowsExplained, ToSaveQueued, NothingDown, Queued, TasksIn
  <2>6. Budget' /\ RunsOnce'
    BY <1>1, <2>1, <2>2 DEF Budget, RunsOnce, Owed
  <2>7. QED
    BY <2>3, <2>4, <2>5, <2>6
<1>3. CASE r \in Messages
  <2>1. ThreadOf[r] = t /\ HasReplay(r)
    BY <1>3 DEF Replay, Placed, HasReplay
  <2>2. \A x \in Messages :
          /\ HasReplay(x)' <=> HasReplay(x) /\ x # r
          /\ HasRow(x)' <=> HasRow(x) /\ x # r
    BY <1>3, <2>1 DEF Replay, HasReplay, HasRow
  <2>3. Placed'
    BY <1>3 DEF Replay, Placed
  <2>4. PICK a \in Tasks : /\ a[1] = r /\ stage[a] = "absent"
                           /\ \E x \in {"starting", "locked"} : stage' = [stage EXCEPT ![a] = x]
    <3>1. PICK n \in 1..MaxReplays : /\ stage[<<r, n>>] = "absent"
                                     /\ \E x \in {"starting", "locked"} :
                                           stage' = [stage EXCEPT ![<<r, n>>] = x]
      BY <1>3 DEF Replay
    <3>2. <<r, n>> \in Tasks /\ <<r, n>>[1] = r
      BY <1>3, TaskFacts, BoundsType
    <3>3. QED
      BY <3>1, <3>2
  <2>5. \A k \in Tasks : k[1] = r => stage[k] \notin Present
    BY <2>1 DEF ReplayOrTask
  <2>6. \A k \in Tasks : /\ k # a => stage'[k] = stage[k]
                         /\ stage'[a] \in Pending /\ stage'[a] # "queued" /\ stage'[a] # "absent"
    BY <2>4 DEF Pending
  <2>7. Fresh'
    <3>1. ASSUME NEW x \in Messages, stage'[<<x, 0>>] = "absent"
          PROVE  x # r /\ stage[<<x, 0>>] = "absent"
      <4>1. <<x, 0>> \in Tasks
        BY TaskFacts
      <4>2. <<x, 0>> # a
        BY <2>6, <3>1
      <4>3. stage[<<x, 0>>] = "absent"
        BY <2>6, <3>1, <4>1, <4>2
      <4>4. x # r
        BY <2>1, <4>3 DEF Fresh
      <4>5. QED
        BY <4>3, <4>4
    <3>2. QED
      BY <1>1, <2>2, <2>4, <2>6, <3>1 DEF Fresh
  <2>8. OneTask' /\ ReplayOrTask'
    BY <2>2, <2>4, <2>5, <2>6, TaskFacts DEF OneTask, ReplayOrTask, Present
  <2>9. \A x \in Messages : Queued(x) => Queued(x)'
    BY <2>4, <2>6 DEF Queued, TasksIn
  <2>10. RowsExplained' /\ ToSaveQueued' /\ NothingDown'
    BY <1>1, <2>2, <2>9 DEF RowsExplained, ToSaveQueued, NothingDown
  <2>11. \A x \in Messages : Owed(x)' => Owed(x)
    <3>1. SUFFICES ASSUME NEW x \in Messages, Owed(x)', x # r PROVE Owed(x)
      BY <2>1 DEF Owed
    <3>2. \A k \in Tasks : k[1] = x => stage'[k] = stage[k]
      BY <2>4, <2>6, <3>1
    <3>3. QED
      BY <1>1, <2>2, <3>1, <3>2 DEF Owed
  <2>12. Budget' /\ RunsOnce'
    BY <1>1, <2>11 DEF Budget, RunsOnce
  <2>13. QED
    BY <2>3, <2>7, <2>8, <2>10, <2>12
<1>4. QED
  BY <1>2, <1>3

LEMMA SkippedReplayKeeps ==
    ASSUME IInv, TypeOK', NEW t \in Threads, NEW r \in Messages, ReplaySkipped(t, r)
    PROVE  IInv'
<1> USE NamesDistinct, ThreadOfType DEF IInv, Where, TypeOK, counters
<1>1. /\ replay' = replay \ {<<t, r>>} /\ up # "down"
      /\ UNCHANGED <<up, phase, toSave, saved, stage, starts, cuts, again>>
  BY DEF ReplaySkipped, Alive
<1>2. ThreadOf[r] = t /\ HasReplay(r)
  BY DEF ReplaySkipped, Placed, HasReplay
<1>3. \A x \in Messages :
        /\ HasReplay(x)' <=> HasReplay(x) /\ x # r
        /\ HasRow(x)' <=> HasRow(x) /\ x # r
  BY <1>2 DEF ReplaySkipped, HasReplay, HasRow
<1>4. Placed'
  BY DEF ReplaySkipped, Placed
<1>5. Fresh' /\ OneTask' /\ ReplayOrTask'
  BY <1>1, <1>3, TaskFacts DEF Fresh, OneTask, ReplayOrTask
<1>6. RowsExplained' /\ ToSaveQueued' /\ NothingDown'
  BY <1>1, <1>3 DEF RowsExplained, ToSaveQueued, NothingDown, Queued, TasksIn
<1>7. Budget' /\ RunsOnce'
  BY <1>1, <1>3 DEF Budget, RunsOnce, Owed
<1>8. QED
  BY <1>4, <1>5, <1>6, <1>7

(* A shutdown cuts off the running turns, and its rows are of messages     *)
(* that had one, or were queued.                                           *)
LEMMA UnloadCounts ==
    ASSUME TypeOK, OneTask, Budget, RunsOnce, UNCHANGED <<stage, replay, starts, again>>,
           cuts' = CutOff,
           \A x \in Messages : HasRow(x)' => HasRow(x) \/ Queued(x)
    PROVE  Budget' /\ RunsOnce'
<1>1. ASSUME NEW x \in Messages
      PROVE  /\ starts[x] \in Nat /\ cuts[x] \in Nat /\ cuts'[x] \in Nat /\ cuts[x] <= cuts'[x]
             /\ (\E k \in TasksIn("running") : k[1] = x) => cuts'[x] = cuts[x] + 1
             /\ starts[x] <= 1 + cuts[x] + again[x] /\ again[x] \in Nat
  <2>1. starts[x] \in Nat /\ again[x] \in Nat
    BY DEF TypeOK
  <2>2. QED
    BY <2>1, CutsRunning DEF RunsOnce
<1>2. RunsOnce'
  BY <1>1 DEF RunsOnce
<1>3. ASSUME NEW x \in Messages, Owed(x)' PROVE starts[x] <= cuts'[x] + again[x]
  <2>1. Owed(x) \/ \E k \in TasksIn("running") : k[1] = x
    BY <1>3 DEF Owed, HasReplay, Pending, Queued, TasksIn
  <2>2. CASE Owed(x)
    <3>1. starts[x] <= cuts[x] + again[x]
      BY <2>2 DEF Budget
    <3>2. QED
      BY <1>1, <3>1
  <2>3. CASE \E k \in TasksIn("running") : k[1] = x
    BY <1>1, <2>3
  <2>4. QED
    BY <2>1, <2>2, <2>3
<1>4. Budget'
  BY <1>3 DEF Budget
<1>5. QED
  BY <1>2, <1>4

(* Every step of a restart, a shutdown, a crash or a replay keeps it.      *)
LEMMA StepInv ==
    ASSUME ~ResumeMarkMayFail, "reconnect" \notin Overlaps, IInv, TypeOK', [Next]_vars
    PROVE  IInv'
<1> USE ThreadOfType, NamesDistinct, TaskFacts DEF counters, history
<1> USE DEF IInv, Where, TypeOK
<1>1. ASSUME NEW m \in Messages, Message(m) PROVE IInv'
  <2>1. PICK a \in Tasks : a = <<m, 0>> /\ a[1] = m
    <3>1. <<m, 0>> \in Tasks /\ <<m, 0>>[1] = m
      BY TaskFacts
    <3>2. QED
      BY <3>1
  <2>2. stage[a] = "absent" /\ UNCHANGED <<up, phase, toSave, saved, replay, rows, starts, cuts>>
    BY <1>1, <2>1 DEF Message
  <2>3. /\ \A k \in Tasks : k[1] = m => stage[k] = "absent"
        /\ ~HasRow(m) /\ ~HasReplay(m) /\ starts[m] = 0
    BY <2>1, <2>2 DEF Fresh
  <2>4. \E x \in {"starting", "locked"} : stage' = [stage EXCEPT ![a] = x]
    BY <1>1, <2>1 DEF Message
  <2>5. Fresh'
    BY <1>1 DEF Message, Fresh, HasRow, HasReplay
  <2>6. Placed'
    BY <1>1 DEF Message, Placed
  <2>7. OneTask'
    BY <2>1, <2>3, <2>4 DEF OneTask, Present, Pending
  <2>8. ReplayOrTask'
    BY <2>1, <2>2, <2>3, <2>4 DEF ReplayOrTask, HasReplay, Present, Pending
  <2>9. RowsExplained'
    BY <1>1 DEF Message, RowsExplained, HasRow, HasReplay, Queued, TasksIn, Late
  <2>10. ToSaveQueued'
    BY <1>1 DEF Message, ToSaveQueued, Queued, TasksIn
  <2>11. NothingDown'
    BY <1>1 DEF Message, NothingDown
  <2>12. Budget'
    <3>1. SUFFICES ASSUME NEW x \in Messages, Owed(x)' PROVE starts[x] <= cuts[x] + again[x]
      BY <1>1, <2>2 DEF Message, Budget
    <3>2. CASE x = m
      BY <2>3, <3>2
    <3>3. CASE x # m
      <4>1. \A k \in Tasks : k[1] = x => stage'[k] = stage[k]
        BY <2>1, <2>4, <3>3
      <4>2. Owed(x)
        BY <2>2, <3>1, <4>1 DEF Owed, HasRow, HasReplay
      <4>3. QED
        BY <4>2 DEF Budget
    <3>4. QED
      BY <3>2, <3>3
  <2>13. RunsOnce'
    BY <1>1 DEF Message, RunsOnce
  <2>14. QED
    BY <2>5, <2>6, <2>7, <2>8, <2>9, <2>10, <2>11, <2>12, <2>13
<1>2. ASSUME NEW k \in Tasks, Unlock(k) PROVE IInv'
  <2>1. Fresh'
    BY <1>2 DEF Unlock, Fresh, HasRow, HasReplay
  <2>2. Placed'
    BY <1>2 DEF Unlock, Placed
  <2>3. OneTask'
    BY <1>2 DEF Unlock, OneTask, Present, Pending
  <2>4. ReplayOrTask'
    BY <1>2 DEF Unlock, ReplayOrTask, HasReplay, Present, Pending
  <2>5. RowsExplained'
    BY <1>2 DEF Unlock, RowsExplained, HasRow, HasReplay, Queued, TasksIn, Late
  <2>6. ToSaveQueued'
    BY <1>2 DEF Unlock, ToSaveQueued, Queued, TasksIn
  <2>7. NothingDown'
    BY <1>2 DEF Unlock, NothingDown
  <2>8. Budget'
    BY <1>2 DEF Unlock, Budget, Owed, HasRow, HasReplay, Pending
  <2>9. RunsOnce'
    BY <1>2 DEF Unlock, RunsOnce
  <2>10. QED
    BY <2>1, <2>2, <2>3, <2>4, <2>5, <2>6, <2>7, <2>8, <2>9
<1>3. ASSUME NEW t \in Threads, MarkResume(t) PROVE IInv'
  <2>1. Fresh'
    BY <1>3 DEF MarkResume, memory, Fresh, HasRow, HasReplay
  <2>2. Placed'
    BY <1>3 DEF MarkResume, memory, Placed
  <2>3. OneTask'
    BY <1>3 DEF MarkResume, memory, OneTask, Present, Pending
  <2>4. ReplayOrTask'
    BY <1>3 DEF MarkResume, memory, ReplayOrTask, HasReplay, Present, Pending
  <2>5. RowsExplained'
    BY <1>3 DEF MarkResume, memory, RowsExplained, HasRow, HasReplay, Queued, TasksIn, Late
  <2>6. ToSaveQueued'
    BY <1>3 DEF MarkResume, memory, ToSaveQueued, Queued, TasksIn
  <2>7. NothingDown'
    BY <1>3 DEF MarkResume, memory, NothingDown
  <2>8. Budget'
    BY <1>3 DEF MarkResume, memory, Budget, Owed, HasRow, HasReplay, Pending
  <2>9. RunsOnce'
    BY <1>3 DEF MarkResume, memory, RunsOnce
  <2>10. QED
    BY <2>1, <2>2, <2>3, <2>4, <2>5, <2>6, <2>7, <2>8, <2>9
<1>4. ASSUME NEW t \in Threads \cup {None}, Reserve(t) PROVE IInv'
  <2>1. Fresh'
    BY <1>4 DEF Reserve, Fresh, HasRow, HasReplay
  <2>2. Placed'
    BY <1>4 DEF Reserve, Placed
  <2>3. OneTask'
    BY <1>4 DEF Reserve, OneTask, Present, Pending
  <2>4. ReplayOrTask'
    BY <1>4 DEF Reserve, ReplayOrTask, HasReplay, Present, Pending
  <2>5. RowsExplained'
    BY <1>4 DEF Reserve, RowsExplained, HasRow, HasReplay, Queued, TasksIn, Late
  <2>6. ToSaveQueued'
    BY <1>4 DEF Reserve, ToSaveQueued, Queued, TasksIn
  <2>7. NothingDown'
    BY <1>4 DEF Reserve, NothingDown
  <2>8. Budget'
    BY <1>4 DEF Reserve, Budget, Owed, HasRow, HasReplay, Pending
  <2>9. RunsOnce'
    BY <1>4 DEF Reserve, RunsOnce
  <2>10. QED
    BY <2>1, <2>2, <2>3, <2>4, <2>5, <2>6, <2>7, <2>8, <2>9
<1>5. CASE Drained
  <2>1. Fresh'
    BY <1>5 DEF Drained, Fresh, HasRow, HasReplay
  <2>2. Placed'
    BY <1>5 DEF Drained, Placed
  <2>3. OneTask'
    BY <1>5 DEF Drained, OneTask, Present, Pending
  <2>4. ReplayOrTask'
    BY <1>5 DEF Drained, ReplayOrTask, HasReplay, Present, Pending
  <2>5. RowsExplained'
    BY <1>5 DEF Drained, RowsExplained, HasRow, HasReplay, Queued, TasksIn, Late
  <2>6. ToSaveQueued'
    BY <1>5 DEF Drained, ToSaveQueued, Queued, TasksIn
  <2>7. NothingDown'
    BY <1>5 DEF Drained, NothingDown
  <2>8. Budget'
    BY <1>5 DEF Drained, Budget, Owed, HasRow, HasReplay, Pending
  <2>9. RunsOnce'
    BY <1>5 DEF Drained, RunsOnce
  <2>10. QED
    BY <2>1, <2>2, <2>3, <2>4, <2>5, <2>6, <2>7, <2>8, <2>9
<1>6. ASSUME NEW m \in Messages, SaveQueued(m) PROVE IInv'
  <2>1. PICK k \in Tasks : k[1] = m /\ stage[k] = "queued" /\ phase = "saving"
    BY <1>6 DEF SaveQueued, ToSaveQueued, Queued, TasksIn
  <2>2. /\ UNCHANGED <<up, phase, stage, replay, starts, cuts, again>>
        /\ \/ rows' = [rows EXCEPT ![ThreadOf[m]] = m] /\ saved' = saved \cup {ThreadOf[m]}
           \/ UNCHANGED <<rows, saved>>
    BY <1>6 DEF SaveQueued
  <2>3. \/ /\ HasRow(m)' /\ \A x \in Messages : HasRow(x)' => x = m \/ HasRow(x)
           /\ saved' = saved \cup {ThreadOf[m]}
        \/ (\A x \in Messages : HasRow(x)' => HasRow(x)) /\ saved' = saved
    BY <2>2 DEF HasRow
  <2>4. Fresh'
    BY <2>1, <2>2, <2>3 DEF Fresh, HasRow, HasReplay
  <2>5. Placed'
    BY <1>6 DEF SaveQueued, Placed
  <2>6. OneTask'
    BY <1>6 DEF SaveQueued, OneTask, Present, Pending
  <2>7. ReplayOrTask'
    BY <1>6 DEF SaveQueued, ReplayOrTask, HasReplay, Present, Pending
  <2>8. RowsExplained'
    <3>1. SUFFICES ASSUME up = "running", NEW x \in Messages, HasRow(x)', ~HasReplay(x)
                   PROVE  phase \in Late /\ ThreadOf[x] \in saved' /\ Queued(x)
      BY <2>2 DEF RowsExplained, HasReplay, Queued, TasksIn
    <3>2. phase \in Late /\ Queued(m)
      BY <2>1 DEF Late, Queued, TasksIn
    <3>3. CASE HasRow(x)
      BY <2>2, <3>1, <3>3 DEF RowsExplained
    <3>4. CASE ~HasRow(x)
      BY <2>3, <3>1, <3>2, <3>4
    <3>5. QED
      BY <3>3, <3>4
  <2>9. ToSaveQueued'
    BY <1>6 DEF SaveQueued, ToSaveQueued, Queued, TasksIn
  <2>10. NothingDown'
    BY <1>6 DEF SaveQueued, NothingDown
  <2>11. Budget'
    BY <2>1, <2>2, <2>3 DEF Budget, Owed, HasRow, HasReplay, Pending
  <2>12. RunsOnce'
    BY <1>6 DEF SaveQueued, RunsOnce
  <2>13. QED
    BY <2>4, <2>5, <2>6, <2>7, <2>8, <2>9, <2>10, <2>11, <2>12
<1>7. CASE SaveResume
  <2>1. Fresh'
    BY <1>7 DEF SaveResume, Fresh, HasRow, HasReplay
  <2>2. Placed'
    BY <1>7 DEF SaveResume, Placed
  <2>3. OneTask'
    BY <1>7 DEF SaveResume, OneTask, Present, Pending
  <2>4. ReplayOrTask'
    BY <1>7 DEF SaveResume, ReplayOrTask, HasReplay, Present, Pending
  <2>5. RowsExplained'
    BY <1>7 DEF SaveResume, RowsExplained, HasRow, HasReplay, Queued, TasksIn, Late
  <2>6. ToSaveQueued'
    BY <1>7 DEF SaveResume, ToSaveQueued, Queued, TasksIn
  <2>7. NothingDown'
    BY <1>7 DEF SaveResume, NothingDown
  <2>8. Budget'
    BY <1>7 DEF SaveResume, Budget, Owed, HasRow, HasReplay, Pending
  <2>9. RunsOnce'
    BY <1>7 DEF SaveResume, RunsOnce
  <2>10. QED
    BY <2>1, <2>2, <2>3, <2>4, <2>5, <2>6, <2>7, <2>8, <2>9
<1>8. CASE RestartFails
  <2>1. Fresh'
    BY <1>8 DEF RestartFails, Fresh, HasRow, HasReplay
  <2>2. Placed'
    BY <1>8 DEF RestartFails, Placed
  <2>3. OneTask'
    BY <1>8 DEF RestartFails, OneTask, Present, Pending
  <2>4. ReplayOrTask'
    BY <1>8 DEF RestartFails, ReplayOrTask, HasReplay, Present, Pending
  <2>5. RowsExplained'
    BY <1>8 DEF RestartFails, RowsExplained, HasRow, HasReplay, Queued, TasksIn, Late
  <2>6. ToSaveQueued'
    BY <1>8 DEF RestartFails, ToSaveQueued, Queued, TasksIn
  <2>7. NothingDown'
    BY <1>8 DEF RestartFails, NothingDown
  <2>8. Budget'
    BY <1>8 DEF RestartFails, Budget, Owed, HasRow, HasReplay, Pending
  <2>9. RunsOnce'
    BY <1>8 DEF RestartFails, RunsOnce
  <2>10. QED
    BY <2>1, <2>2, <2>3, <2>4, <2>5, <2>6, <2>7, <2>8, <2>9
<1>9. ASSUME NEW t \in Threads, Forget(t) PROVE IInv'
  <2>1. Fresh'
    BY <1>9 DEF Forget, Fresh, HasRow, HasReplay
  <2>2. Placed'
    BY <1>9 DEF Forget, Placed
  <2>3. OneTask'
    BY <1>9 DEF Forget, OneTask, Present, Pending
  <2>4. ReplayOrTask'
    BY <1>9 DEF Forget, ReplayOrTask, HasReplay, Present, Pending
  <2>5. RowsExplained'
    BY <1>9 DEF Forget, RowsExplained, HasRow, HasReplay, Queued, TasksIn, Late
  <2>6. ToSaveQueued'
    BY <1>9 DEF Forget, ToSaveQueued, Queued, TasksIn
  <2>7. NothingDown'
    BY <1>9 DEF Forget, NothingDown
  <2>8. Budget'
    BY <1>9 DEF Forget, Budget, Owed, HasRow, HasReplay, Pending
  <2>9. RunsOnce'
    BY <1>9 DEF Forget, RunsOnce
  <2>10. QED
    BY <2>1, <2>2, <2>3, <2>4, <2>5, <2>6, <2>7, <2>8, <2>9
<1>10. CASE Unload
  <2>1. /\ UNCHANGED <<phase, toSave, saved, stage, replay, starts, again>>
        /\ up' = "unloaded" /\ up = "running"
    BY <1>10 DEF Unload
  <2>2. ASSUME NEW t \in Threads, NEW x \in Messages, rows'[t] = x
        PROVE  rows[t] = x \/ (Queued(x) /\ ThreadOf[x] = t)
    <3>1. PICK failed \in SUBSET TasksIn("queued") :
            rows' = [u \in Threads |->
                       IF \E k \in TasksIn("queued") \ failed : TaskThread(k) = u
                         THEN (CHOOSE k \in TasksIn("queued") \ failed : TaskThread(k) = u)[1]
                         ELSE rows[u]]
      BY <1>10 DEF Unload
    <3>2. CASE \E k \in TasksIn("queued") \ failed : TaskThread(k) = t
      <4>1. PICK k \in TasksIn("queued") \ failed : TaskThread(k) = t /\ rows'[t] = k[1]
        BY <3>1, <3>2
      <4>2. QED
        BY <2>2, <4>1 DEF Queued, TaskThread
    <3>3. QED
      BY <2>2, <3>1, <3>2
  <2>3. \A x \in Messages : HasRow(x)' => HasRow(x) \/ Queued(x)
    BY <2>2 DEF HasRow
  <2>4. Fresh'
    BY <2>1, <2>3 DEF Fresh, HasRow, HasReplay, Queued, TasksIn
  <2>5. Placed'
    BY <2>1, <2>2 DEF Placed
  <2>6. OneTask'
    BY <1>10 DEF Unload, OneTask, Present, Pending
  <2>7. ReplayOrTask'
    BY <1>10 DEF Unload, ReplayOrTask, HasReplay, Present, Pending
  <2>8. RowsExplained'
    BY <1>10 DEF Unload, RowsExplained, HasRow, HasReplay, Queued, TasksIn, Late
  <2>9. ToSaveQueued'
    BY <1>10 DEF Unload, ToSaveQueued, Queued, TasksIn
  <2>10. NothingDown'
    BY <1>10 DEF Unload, NothingDown
  <2>11. Budget'
    BY <1>10, <2>1, <2>3, UnloadCounts DEF Unload
  <2>12. RunsOnce'
    BY <1>10, <2>1, <2>3, UnloadCounts DEF Unload
  <2>13. QED
    BY <2>4, <2>5, <2>6, <2>7, <2>8, <2>9, <2>10, <2>11, <2>12
<1>11. CASE MarkActive
  <2>1. Fresh'
    BY <1>11 DEF MarkActive, Fresh, HasRow, HasReplay
  <2>2. Placed'
    BY <1>11 DEF MarkActive, Placed
  <2>3. OneTask'
    BY <1>11 DEF MarkActive, OneTask, Present, Pending
  <2>4. ReplayOrTask'
    BY <1>11 DEF MarkActive, ReplayOrTask, HasReplay, Present, Pending
  <2>5. RowsExplained'
    BY <1>11 DEF MarkActive, RowsExplained, HasRow, HasReplay, Queued, TasksIn, Late
  <2>6. ToSaveQueued'
    BY <1>11 DEF MarkActive, ToSaveQueued, Queued, TasksIn
  <2>7. NothingDown'
    BY <1>11 DEF MarkActive, NothingDown
  <2>8. Budget'
    BY <1>11 DEF MarkActive, Budget, Owed, HasRow, HasReplay, Pending
  <2>9. RunsOnce'
    BY <1>11 DEF MarkActive, RunsOnce
  <2>10. QED
    BY <2>1, <2>2, <2>3, <2>4, <2>5, <2>6, <2>7, <2>8, <2>9
<1>12. CASE Die
  <2>1. /\ UNCHANGED <<rows, starts, again>> /\ up' = "down" /\ replay' = {}
        /\ \A k \in Tasks : stage'[k] \in {"absent", "over"}
    BY <1>12 DEF Die
  <2>2. \A x \in Messages : /\ starts[x] \in Nat /\ cuts[x] \in Nat /\ cuts'[x] \in Nat
                             /\ cuts[x] <= cuts'[x] /\ again[x] \in Nat
    BY <1>12, CutsRunning DEF Die
  <2>3. Fresh'
    BY <1>12 DEF Die, Fresh, HasRow, HasReplay
  <2>4. Placed'
    BY <1>12 DEF Die, Placed
  <2>5. OneTask'
    BY <1>12 DEF Die, OneTask, Present, Pending
  <2>6. ReplayOrTask'
    BY <1>12 DEF Die, ReplayOrTask, HasReplay, Present, Pending
  <2>7. RowsExplained'
    BY <1>12 DEF Die, RowsExplained, HasRow, HasReplay, Queued, TasksIn, Late
  <2>8. ToSaveQueued'
    BY <1>12 DEF Die, ToSaveQueued, Queued, TasksIn
  <2>9. NothingDown'
    BY <1>12 DEF Die, NothingDown
  <2>10. Budget'
    <3>1. SUFFICES ASSUME NEW x \in Messages, Owed(x)'
                   PROVE starts[x] <= cuts'[x] + again[x]
      BY <2>1 DEF Budget
    <3>2. Owed(x)
      BY <2>1, <3>1 DEF Owed, HasRow, HasReplay, Pending
    <3>3. starts[x] <= cuts[x] + again[x]
      BY <3>2 DEF Budget
    <3>4. QED
      BY <2>2, <3>3
  <2>11. RunsOnce'
    BY <2>1, <2>2 DEF RunsOnce
  <2>12. QED
    BY <2>3, <2>4, <2>5, <2>6, <2>7, <2>8, <2>9, <2>10, <2>11
<1>13. CASE OnReady
  <2>1. UNCHANGED <<phase, toSave, saved, stage, rows, starts, cuts, again>> /\ up' = "running"
    BY <1>13 DEF OnReady
  <2>2. \A t \in Threads, x \in Messages : <<t, x>> \in replay' <=> rows[t] = x
    BY <1>13 DEF OnReady
  <2>3. \A x \in Messages : HasReplay(x)' <=> HasRow(x)
    BY <2>2 DEF HasReplay, HasRow
  <2>4. up = "down" => \A k \in Tasks : stage[k] \notin Present
    BY DEF NothingDown, Present, Pending
  <2>5. up # "down" => \A x \in Messages : ~HasRow(x)
    BY <1>13 DEF OnReady, RowsExplained, HasReplay, Late
  <2>6. ReplayOrTask'
    <3>1. SUFFICES ASSUME NEW k \in Tasks, stage[k] \in Present PROVE ~HasRow(k[1])
      BY <2>1, <2>3, TaskFacts DEF ReplayOrTask
    <3>2. QED
      BY <2>4, <2>5, <3>1, TaskFacts
  <2>7. Fresh'
    BY <2>1, <2>3 DEF Fresh, HasRow, HasReplay
  <2>8. Placed'
    BY <2>1, <2>2 DEF Placed
  <2>9. OneTask'
    BY <1>13 DEF OnReady, OneTask, Present, Pending
  <2>10. RowsExplained'
    BY <1>13 DEF OnReady, RowsExplained, HasRow, HasReplay, Queued, TasksIn, Late
  <2>11. ToSaveQueued'
    BY <1>13 DEF OnReady, ToSaveQueued, Queued, TasksIn
  <2>12. NothingDown'
    BY <1>13 DEF OnReady, NothingDown
  <2>13. Budget'
    BY <1>13 DEF OnReady, Budget, Owed, HasRow, HasReplay, Pending
  <2>14. RunsOnce'
    BY <1>13 DEF OnReady, RunsOnce
  <2>15. QED
    BY <2>7, <2>8, <2>9, <2>6, <2>10, <2>11, <2>12, <2>13, <2>14
<1>14. ASSUME NEW t \in Threads, NEW r \in Messages \cup {Generic}, Replay(t, r) PROVE IInv'
  BY <1>14, ReplayKeeps
<1>15. CASE UNCHANGED vars
  <2>1. Fresh'
    BY <1>15 DEF vars, memory, Fresh, HasRow, HasReplay
  <2>2. Placed'
    BY <1>15 DEF vars, memory, Placed
  <2>3. OneTask'
    BY <1>15 DEF vars, memory, OneTask, Present, Pending
  <2>4. ReplayOrTask'
    BY <1>15 DEF vars, memory, ReplayOrTask, HasReplay, Present, Pending
  <2>5. RowsExplained'
    BY <1>15 DEF vars, memory, RowsExplained, HasRow, HasReplay, Queued, TasksIn, Late
  <2>6. ToSaveQueued'
    BY <1>15 DEF vars, memory, ToSaveQueued, Queued, TasksIn
  <2>7. NothingDown'
    BY <1>15 DEF vars, memory, NothingDown
  <2>8. Budget'
    BY <1>15 DEF vars, memory, Budget, Owed, HasRow, HasReplay, Pending
  <2>9. RunsOnce'
    BY <1>15 DEF vars, memory, RunsOnce
  <2>10. QED
    BY <2>1, <2>2, <2>3, <2>4, <2>5, <2>6, <2>7, <2>8, <2>9
<1>16. ASSUME NEW k \in Tasks, Enqueue(k) \/ EndTurn(k) \/ Continue(k) PROVE IInv'
  <2>1. PICK x \in {"queued", "over", "starting"} :
          /\ \/ stage[k] = "starting" /\ x = "queued" /\ again' = again
             \/ stage[k] = "running" /\ x = "over" /\ again' = again
             \/ /\ stage[k] = "running" /\ x = "starting"
                /\ again' = [again EXCEPT ![k[1]] = @ + 1]
          /\ Dispatch([stage EXCEPT ![k] = x])
          /\ up # "down" /\ UNCHANGED <<up, phase, toSave, saved, replay, rows>>
    BY <1>16 DEF Enqueue, EndTurn, Continue, Alive
  <2>2. [stage EXCEPT ![k] = x] \in [Tasks -> TaskStages]
    BY <2>1 DEF TaskStages
  <2>3. \A m \in Messages : again[m] \in Nat /\ again[m] <= again'[m]
    BY <2>1
  <2>4. x = "starting" => again'[k[1]] = again[k[1]] + 1
    BY <2>1
  <2>5. QED
    BY <2>1, <2>2, <2>3, <2>4, DispatchKeeps
<1>17. CASE Abandon \/ Release
  <2>1. stage \in [Tasks -> TaskStages]
    BY DEF TaskStages
  <2>2. /\ Dispatch(stage) /\ up # "down" /\ phase' = "idle"
        /\ (phase = "draining" \/ (phase = "forgetting" /\ saved = {}))
        /\ UNCHANGED <<up, toSave, saved, replay, rows, again>>
    BY <1>17 DEF Abandon, Release, Alive
  <2>3. \A m \in Messages : again[m] <= again'[m]
    BY <2>2
  <2>4. QED
    BY <2>1, <2>2, <2>3, DispatchKeeps
<1>19. ASSUME NEW t \in Threads, NEW r \in Messages \cup {Generic}, ReplaySkipped(t, r)
       PROVE  IInv'
  <2>1. r \in Messages
    BY <1>19 DEF ReplaySkipped
  <2>2. QED
    BY <1>19, <2>1, SkippedReplayKeeps
<1>18. QED
  BY <1>1, <1>2, <1>3, <1>4, <1>5, <1>6, <1>7, <1>8, <1>9, <1>10,
     <1>11, <1>12, <1>13, <1>14, <1>15, <1>16, <1>17, <1>19 DEF Next, SaveResumeFails

(* "Replaying it later would run it twice": while the row of the thread    *)
(* that asked for the restart can be written and no reconnect comes while  *)
(* the rows of a reservation are there, a message is run again only        *)
(* because it was continued or its turn was in progress while a process    *)
(* was ending.  The rows of queued runs may fail to be written or replayed. *)
THEOREM MessagesRunOnce ==
    ASSUME ~ResumeMarkMayFail, "reconnect" \notin Overlaps PROVE Spec => []RunsOnce
<1>1. Init => IInv
  <2>1. SUFFICES ASSUME Init PROVE IInv
    OBVIOUS
  <2>2. TypeOK
    BY <2>1, TypeInit
  <2>3. Where
    BY <2>1, TaskFacts, ThreadOfType, NamesDistinct
       DEF Init, Where, Fresh, Placed, OneTask, ReplayOrTask, RowsExplained, ToSaveQueued,
           NothingDown, HasRow, HasReplay, Present, Pending
  <2>4. Budget /\ RunsOnce
    BY <2>1 DEF Init, Budget, RunsOnce
  <2>5. QED
    BY <2>2, <2>3, <2>4 DEF IInv
<1>2. IInv /\ [Next]_vars => IInv'
  BY TypeStep, StepInv DEF IInv
<1>3. IInv => RunsOnce
  BY DEF IInv
<1>4. QED
  BY <1>1, <1>2, <1>3, PTL DEF Spec
=============================================================================
