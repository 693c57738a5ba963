----------------------------- MODULE WaitsProofs -----------------------------
(***************************************************************************)
(* Safety of the waits for every set of threads, any number of waits and   *)
(* restarts, and every limit.  A wait's tasks say where it is: Tasks ties  *)
(* the resume task, the posted turn and the running turn of a wait to its  *)
(* row, and everything else rests on it.                                   *)
(***************************************************************************)
EXTENDS Waits, FiniteSetTheorems, TLAPS

(* A turn of w was asked for and has not come to its end. *)
UnderWay(w) == w \in pending \/ turn[thread[w]] = w

(* A stopped bot runs nothing; a running one has a resume task for exactly *)
(* the waits that are resuming.  A turn of w is under way only while the   *)
(* task waits for it, or after a delivery that does not wait for the turn. *)
Tasks ==
    /\ ~up => /\ checking = {} /\ pending = {}
              /\ \A w \in Rows : verdict[w] = "none" /\ resume[w] = "none"
              /\ \A t \in Threads : turn[t] = NoTurn
    /\ up => \A w \in Rows : status[w] = "resuming" <=> resume[w] # "none"
    /\ \A w \in Rows : status[w] = "resuming" => outcome[w] \in Outcomes
    /\ \A w \in Rows : UnderWay(w) =>
          resume[w] \in {"delivering", "delivered"} \/ status[w] \in Outcomes
    /\ \A w \in pending : turn[thread[w]] # w
    /\ \A t \in Threads : turn[t] \in Rows => thread[turn[t]] = t
    /\ \A w \in Rows : cut[w] <= crashes

(* The turn that the wait's present resume is entitled to has not ended.   *)
Unspent(w) ==
    \/ status[w] \in {"absent", "active", "cancelled"}
    \/ resume[w] = "delivering"
    \/ UnderWay(w)
    \/ ~up /\ status[w] = "resuming"

(* Every turn that ended is paid for by a resume that failed, one that was *)
(* cut off, or the present one, and the present one only once.             *)
Budget ==
    \A w \in Rows : /\ woken[w] <= 1 + dfail[w] + cut[w]
                    /\ Unspent(w) => woken[w] <= dfail[w] + cut[w]

(* A delivery to an existing Discord thread has waited for its turn.       *)
Delivered ==
    \A w \in Rows : /\ thread[w] \in Discord \ gone
                    /\ resume[w] = "delivered" \/ status[w] \in Outcomes
                    => woken[w] > 0

IInv == TypeOK /\ Tasks /\ Budget /\ Delivered /\ LiveWithinLimits

-----------------------------------------------------------------------------
LEMMA TurnKinds == NoTurn \notin Rows /\ HumanTurn \notin Rows /\ NoTurn # HumanTurn
BY DEF NoTurn, HumanTurn, Rows

LEMMA TypeStep == TypeOK /\ Tasks /\ [Next]_vars => TypeOK'
<1> SUFFICES ASSUME TypeOK, Tasks, [Next]_vars PROVE TypeOK'
  OBVIOUS
<1> USE BoundsType DEF TypeOK
<1>1. CASE Crash
  <2>1. crashes' \in 0..MaxCrashes /\ crashes' = crashes + 1
    BY <1>1 DEF Crash
  <2>2. \A w \in Rows : cut[w] \in 0..crashes
    BY DEF Tasks
  <2>3. cut' \in [Rows -> 0..MaxCrashes]
    BY <1>1, <2>1, <2>2 DEF Crash
  <2>4. QED
    BY <1>1, <2>1, <2>3 DEF Crash, row, history
<1>2. CASE Boot
  BY <1>2 DEF Boot, row, process, history, Tasks, Statuses, Live, Outcomes
<1>3. ASSUME NEW t \in Threads, StartHumanTurn(t) PROVE TypeOK'
  BY <1>3 DEF StartHumanTurn, row, process, history, Tasks, Statuses, Live, Outcomes
<1>4. ASSUME NEW t \in Threads, EndHumanTurn(t) PROVE TypeOK'
  BY <1>4 DEF EndHumanTurn, row, process, history, Tasks, Statuses, Live, Outcomes
<1>5. ASSUME NEW t \in Threads, DeleteThread(t) PROVE TypeOK'
  BY <1>5 DEF DeleteThread, row, process, history, Tasks, Statuses, Live, Outcomes
<1>6. ASSUME NEW t \in Threads, NEW p \in Probes, Register(t, p) PROVE TypeOK'
  BY <1>6 DEF Register, row, process, history, Tasks, Statuses, Live, Outcomes
<1>7. ASSUME NEW w \in Rows, CancelWait(w) PROVE TypeOK'
  BY <1>7 DEF CancelWait, row, process, history, Tasks, Statuses, Live, Outcomes
<1>8. ASSUME NEW w \in Rows, PassDeadline(w) PROVE TypeOK'
  BY <1>8 DEF PassDeadline, row, process, history, Tasks, Statuses, Live, Outcomes
<1>9. ASSUME NEW w \in Rows, Tick(w) PROVE TypeOK'
  BY <1>9 DEF Tick, row, process, history, Tasks, Statuses, Live, Outcomes
<1>10. ASSUME NEW w \in Rows, Claim(w) PROVE TypeOK'
  BY <1>10 DEF Claim, row, process, history, Tasks, Statuses, Live, Outcomes
<1>11. ASSUME NEW w \in Rows, Deliver(w) PROVE TypeOK'
  BY <1>11 DEF Deliver, row, process, history, Tasks, Statuses, Live, Outcomes
<1>12. ASSUME NEW w \in Rows, DeliverFails(w) PROVE TypeOK'
  BY <1>12 DEF DeliverFails, row, process, history, Tasks, Statuses, Live, Outcomes
<1>13. ASSUME NEW w \in Rows, StartTurn(w) PROVE TypeOK'
  BY <1>13 DEF StartTurn, row, process, history, Tasks, Statuses, Live, Outcomes
<1>14. ASSUME NEW w \in Rows, EndTurn(w) PROVE TypeOK'
  BY <1>14 DEF EndTurn, row, process, history, Tasks, Statuses, Live, Outcomes
<1>15. ASSUME NEW w \in Rows, Record(w) PROVE TypeOK'
  BY <1>15 DEF Record, row, process, history, Tasks, Statuses, Live, Outcomes
<1>16. ASSUME NEW w \in Rows, NEW res \in Results, Probe(w, res) PROVE TypeOK'
  BY <1>16 DEF Probe, row, process, history, Tasks, Statuses, Live, Outcomes
<1>17. CASE UNCHANGED vars
  BY <1>17 DEF vars, row, process, history, Tasks, Statuses, Live, Outcomes
<1>18. QED
  BY <1>1, <1>2, <1>3, <1>4, <1>5, <1>6, <1>7, <1>8, <1>9, <1>10, <1>11, <1>12, <1>13, <1>14, <1>15, <1>16, <1>17 DEF Next

LEMMA TasksStep == TypeOK /\ Tasks /\ [Next]_vars => Tasks'
<1> SUFFICES ASSUME TypeOK, Tasks, [Next]_vars PROVE Tasks'
  OBVIOUS
<1> USE BoundsType, TurnKinds DEF TypeOK, Tasks, UnderWay
<1>1. CASE Crash
  BY <1>1 DEF Crash, row, process, history, Statuses, Live, Outcomes
<1>2. CASE Boot
  BY <1>2 DEF Boot, row, process, history, Statuses, Live, Outcomes
<1>3. ASSUME NEW t \in Threads, StartHumanTurn(t) PROVE Tasks'
  BY <1>3 DEF StartHumanTurn, row, process, history, Statuses, Live, Outcomes
<1>4. ASSUME NEW t \in Threads, EndHumanTurn(t) PROVE Tasks'
  BY <1>4 DEF EndHumanTurn, row, process, history, Statuses, Live, Outcomes
<1>5. ASSUME NEW t \in Threads, DeleteThread(t) PROVE Tasks'
  BY <1>5 DEF DeleteThread, row, process, history, Statuses, Live, Outcomes
<1>6. ASSUME NEW t \in Threads, NEW p \in Probes, Register(t, p) PROVE Tasks'
  BY <1>6 DEF Register, row, process, history, Statuses, Live, Outcomes
<1>7. ASSUME NEW w \in Rows, CancelWait(w) PROVE Tasks'
  BY <1>7 DEF CancelWait, row, process, history, Statuses, Live, Outcomes
<1>8. ASSUME NEW w \in Rows, PassDeadline(w) PROVE Tasks'
  BY <1>8 DEF PassDeadline, row, process, history, Statuses, Live, Outcomes
<1>9. ASSUME NEW w \in Rows, Tick(w) PROVE Tasks'
  BY <1>9 DEF Tick, row, process, history, Statuses, Live, Outcomes
<1>10. ASSUME NEW w \in Rows, Claim(w) PROVE Tasks'
  BY <1>10 DEF Claim, row, process, history, Statuses, Live, Outcomes
<1>11. ASSUME NEW w \in Rows, Deliver(w) PROVE Tasks'
  BY <1>11 DEF Deliver, row, process, history, Statuses, Live, Outcomes
<1>12. ASSUME NEW w \in Rows, DeliverFails(w) PROVE Tasks'
  BY <1>12 DEF DeliverFails, row, process, history, Statuses, Live, Outcomes
<1>13. ASSUME NEW w \in Rows, StartTurn(w) PROVE Tasks'
  BY <1>13 DEF StartTurn, row, process, history, Statuses, Live, Outcomes
<1>14. ASSUME NEW w \in Rows, EndTurn(w) PROVE Tasks'
  BY <1>14 DEF EndTurn, row, process, history, Statuses, Live, Outcomes
<1>15. ASSUME NEW w \in Rows, Record(w) PROVE Tasks'
  BY <1>15 DEF Record, row, process, history, Statuses, Live, Outcomes
<1>16. ASSUME NEW w \in Rows, NEW res \in Results, Probe(w, res) PROVE Tasks'
  BY <1>16 DEF Probe, row, process, history, Statuses, Live, Outcomes
<1>17. CASE UNCHANGED vars
  BY <1>17 DEF vars, row, process, history, Statuses, Live, Outcomes
<1>18. QED
  BY <1>1, <1>2, <1>3, <1>4, <1>5, <1>6, <1>7, <1>8, <1>9, <1>10, <1>11, <1>12, <1>13, <1>14, <1>15, <1>16, <1>17 DEF Next

LEMMA BudgetStep == TypeOK /\ Tasks /\ Budget /\ [Next]_vars => Budget'
<1> SUFFICES ASSUME TypeOK, Tasks, Budget, [Next]_vars PROVE Budget'
  OBVIOUS
<1> USE BoundsType, TurnKinds DEF TypeOK, Tasks, Budget, Unspent, UnderWay
<1>1. CASE Crash
  BY <1>1 DEF Crash, row, process, history, Statuses, Live, Outcomes
<1>2. CASE Boot
  BY <1>2 DEF Boot, row, process, history, Statuses, Live, Outcomes
<1>3. ASSUME NEW t \in Threads, StartHumanTurn(t) PROVE Budget'
  BY <1>3 DEF StartHumanTurn, row, process, history, Statuses, Live, Outcomes
<1>4. ASSUME NEW t \in Threads, EndHumanTurn(t) PROVE Budget'
  BY <1>4 DEF EndHumanTurn, row, process, history, Statuses, Live, Outcomes
<1>5. ASSUME NEW t \in Threads, DeleteThread(t) PROVE Budget'
  BY <1>5 DEF DeleteThread, row, process, history, Statuses, Live, Outcomes
<1>6. ASSUME NEW t \in Threads, NEW p \in Probes, Register(t, p) PROVE Budget'
  BY <1>6 DEF Register, row, process, history, Statuses, Live, Outcomes
<1>7. ASSUME NEW w \in Rows, CancelWait(w) PROVE Budget'
  BY <1>7 DEF CancelWait, row, process, history, Statuses, Live, Outcomes
<1>8. ASSUME NEW w \in Rows, PassDeadline(w) PROVE Budget'
  BY <1>8 DEF PassDeadline, row, process, history, Statuses, Live, Outcomes
<1>9. ASSUME NEW w \in Rows, Tick(w) PROVE Budget'
  BY <1>9 DEF Tick, row, process, history, Statuses, Live, Outcomes
<1>10. ASSUME NEW w \in Rows, Claim(w) PROVE Budget'
  BY <1>10 DEF Claim, row, process, history, Statuses, Live, Outcomes
<1>11. ASSUME NEW w \in Rows, Deliver(w) PROVE Budget'
  BY <1>11 DEF Deliver, row, process, history, Statuses, Live, Outcomes
<1>12. ASSUME NEW w \in Rows, DeliverFails(w) PROVE Budget'
  BY <1>12 DEF DeliverFails, row, process, history, Statuses, Live, Outcomes
<1>13. ASSUME NEW w \in Rows, StartTurn(w) PROVE Budget'
  BY <1>13 DEF StartTurn, row, process, history, Statuses, Live, Outcomes
<1>14. ASSUME NEW w \in Rows, EndTurn(w) PROVE Budget'
  BY <1>14 DEF EndTurn, row, process, history, Statuses, Live, Outcomes
<1>15. ASSUME NEW w \in Rows, Record(w) PROVE Budget'
  BY <1>15 DEF Record, row, process, history, Statuses, Live, Outcomes
<1>16. ASSUME NEW w \in Rows, NEW res \in Results, Probe(w, res) PROVE Budget'
  BY <1>16 DEF Probe, row, process, history, Statuses, Live, Outcomes
<1>17. CASE UNCHANGED vars
  BY <1>17 DEF vars, row, process, history, Statuses, Live, Outcomes
<1>18. QED
  BY <1>1, <1>2, <1>3, <1>4, <1>5, <1>6, <1>7, <1>8, <1>9, <1>10, <1>11, <1>12, <1>13, <1>14, <1>15, <1>16, <1>17 DEF Next

LEMMA DeliveredStep == TypeOK /\ Tasks /\ Delivered /\ [Next]_vars => Delivered'
<1> SUFFICES ASSUME TypeOK, Tasks, Delivered, [Next]_vars PROVE Delivered'
  OBVIOUS
<1> USE FrontendsDisjoint DEF TypeOK, Tasks, Delivered, UnderWay
<1>1. CASE Crash
  BY <1>1 DEF Crash, row, process, history, Statuses, Live, Outcomes
<1>2. CASE Boot
  BY <1>2 DEF Boot, row, process, history, Statuses, Live, Outcomes
<1>3. ASSUME NEW t \in Threads, StartHumanTurn(t) PROVE Delivered'
  BY <1>3 DEF StartHumanTurn, row, process, history, Statuses, Live, Outcomes
<1>4. ASSUME NEW t \in Threads, EndHumanTurn(t) PROVE Delivered'
  BY <1>4 DEF EndHumanTurn, row, process, history, Statuses, Live, Outcomes
<1>5. ASSUME NEW t \in Threads, DeleteThread(t) PROVE Delivered'
  BY <1>5 DEF DeleteThread, row, process, history, Statuses, Live, Outcomes
<1>6. ASSUME NEW t \in Threads, NEW p \in Probes, Register(t, p) PROVE Delivered'
  BY <1>6 DEF Register, row, process, history, Statuses, Live, Outcomes
<1>7. ASSUME NEW w \in Rows, CancelWait(w) PROVE Delivered'
  BY <1>7 DEF CancelWait, row, process, history, Statuses, Live, Outcomes
<1>8. ASSUME NEW w \in Rows, PassDeadline(w) PROVE Delivered'
  BY <1>8 DEF PassDeadline, row, process, history, Statuses, Live, Outcomes
<1>9. ASSUME NEW w \in Rows, Tick(w) PROVE Delivered'
  BY <1>9 DEF Tick, row, process, history, Statuses, Live, Outcomes
<1>10. ASSUME NEW w \in Rows, Claim(w) PROVE Delivered'
  BY <1>10 DEF Claim, row, process, history, Statuses, Live, Outcomes
<1>11. ASSUME NEW w \in Rows, Deliver(w) PROVE Delivered'
  BY <1>11 DEF Deliver, row, process, history, Statuses, Live, Outcomes
<1>12. ASSUME NEW w \in Rows, DeliverFails(w) PROVE Delivered'
  BY <1>12 DEF DeliverFails, row, process, history, Statuses, Live, Outcomes
<1>13. ASSUME NEW w \in Rows, StartTurn(w) PROVE Delivered'
  BY <1>13 DEF StartTurn, row, process, history, Statuses, Live, Outcomes
<1>14. ASSUME NEW w \in Rows, EndTurn(w) PROVE Delivered'
  BY <1>14 DEF EndTurn, row, process, history, Statuses, Live, Outcomes
<1>15. ASSUME NEW w \in Rows, Record(w) PROVE Delivered'
  BY <1>15 DEF Record, row, process, history, Statuses, Live, Outcomes
<1>16. ASSUME NEW w \in Rows, NEW res \in Results, Probe(w, res) PROVE Delivered'
  BY <1>16 DEF Probe, row, process, history, Statuses, Live, Outcomes
<1>17. CASE UNCHANGED vars
  BY <1>17 DEF vars, row, process, history, Statuses, Live, Outcomes
<1>18. QED
  BY <1>1, <1>2, <1>3, <1>4, <1>5, <1>6, <1>7, <1>8, <1>9, <1>10, <1>11, <1>12, <1>13, <1>14, <1>15, <1>16, <1>17 DEF Next

-----------------------------------------------------------------------------
LEMMA RowsFinite == \A R \in SUBSET Rows : IsFiniteSet(R) /\ Cardinality(R) \in Nat
<1>1. IsFiniteSet(Rows)
  BY BoundsType, FS_Interval DEF Rows
<1>2. QED
  BY <1>1, FS_Subset, FS_CardinalityType

(* No step but a registration adds to the live rows. *)
LEMMA FewerLiveRows ==
    ASSUME LiveWithinLimits, LiveRows' \subseteq LiveRows, thread' = thread, argv' = argv
    PROVE  LiveWithinLimits'
<1>1. /\ LiveRows \in SUBSET Rows
      /\ \A t : {w \in LiveRows : thread[w] = t} \in SUBSET Rows
      /\ \A t, p : LiveOf(t, p) \in SUBSET Rows
  BY DEF LiveRows, LiveOf
<1>2. /\ \A t \in Threads : {w \in LiveRows : thread[w] = t}'
                              \subseteq {w \in LiveRows : thread[w] = t}
      /\ \A t, p : LiveOf(t, p)' \subseteq LiveOf(t, p)
  BY DEF LiveOf
<1>3. ASSUME NEW R, NEW Q, R \subseteq Q, Q \in SUBSET Rows, NEW n \in Nat, Cardinality(Q) <= n
      PROVE  Cardinality(R) <= n
  <2>1. /\ IsFiniteSet(Q) /\ R \in SUBSET Q /\ R \in SUBSET Rows
        /\ Cardinality(Q) \in Nat /\ Cardinality(R) \in Nat
    BY <1>3, RowsFinite
  <2>2. Cardinality(R) <= Cardinality(Q)
    BY <2>1, FS_Subset
  <2>3. QED
    BY <1>3, <2>1, <2>2
<1>4. Cardinality(LiveRows') <= MaxActiveWaits
  BY <1>1, <1>3, BoundsType DEF LiveWithinLimits
<1>5. \A t \in Threads : Cardinality({w \in LiveRows : thread[w] = t}') <= MaxWaitsPerThread
  BY <1>1, <1>2, <1>3, BoundsType DEF LiveWithinLimits
<1>6. \A t \in Threads, p \in Probes : Cardinality(LiveOf(t, p)') <= 1
  BY <1>1, <1>2, <1>3 DEF LiveWithinLimits
<1>7. QED
  BY <1>4, <1>5, <1>6 DEF LiveWithinLimits

LEMMA LimitsStep == TypeOK /\ Tasks /\ LiveWithinLimits /\ [Next]_vars => LiveWithinLimits'
<1> SUFFICES ASSUME TypeOK, Tasks, LiveWithinLimits, [Next]_vars PROVE LiveWithinLimits'
  OBVIOUS
<1>1. ASSUME NEW t \in Threads, NEW p \in Probes, Register(t, p), LiveOf(t, p) # {}
      PROVE  LiveWithinLimits'
  BY <1>1, FewerLiveRows DEF Register, row, LiveRows
<1>2. ASSUME NEW t \in Threads, NEW p \in Probes, Register(t, p), LiveOf(t, p) = {}
      PROVE  LiveWithinLimits'
  <2> DEFINE Of(u) == {v \in LiveRows : thread[v] = u}
  <2>1. /\ Cardinality(LiveRows) < MaxActiveWaits
        /\ Cardinality(Of(t)) < MaxWaitsPerThread
    BY <1>2 DEF Register
  <2>2. PICK w \in Rows : /\ status[w] = "absent"
                          /\ status' = [status EXCEPT ![w] = "active"]
                          /\ thread' = [thread EXCEPT ![w] = t]
                          /\ argv' = [argv EXCEPT ![w] = p]
    BY <1>2 DEF Register
  <2>3. LiveRows' = LiveRows \cup {w} /\ w \notin LiveRows
    BY <2>2 DEF LiveRows, Live, TypeOK
  <2>4. \A v \in LiveRows : thread'[v] = thread[v] /\ argv'[v] = argv[v]
    BY <2>2, <2>3 DEF LiveRows, TypeOK
  <2>5. thread'[w] = t /\ argv'[w] = p
    BY <2>2 DEF TypeOK
  <2>6. \A R \in SUBSET Rows : Cardinality(R \cup {w}) <= Cardinality(R) + 1
    BY <2>2, RowsFinite, FS_AddElement
  <2>7. Cardinality(LiveRows') <= MaxActiveWaits
    <3>1. LiveRows \in SUBSET Rows
      BY DEF LiveRows
    <3>2. Cardinality(LiveRows) \in Nat /\ Cardinality(LiveRows \cup {w}) \in Nat
      BY <2>2, <3>1, RowsFinite
    <3>3. Cardinality(LiveRows \cup {w}) <= Cardinality(LiveRows) + 1
      BY <2>6, <3>1
    <3>4. QED
      BY <2>1, <2>3, <3>2, <3>3, BoundsType
  <2>8. ASSUME NEW u \in Threads
        PROVE  Cardinality({v \in LiveRows : thread[v] = u}') <= MaxWaitsPerThread
    <3>1. CASE u # t
      <4>1. {v \in LiveRows : thread[v] = u}' = Of(u)
        BY <2>3, <2>4, <2>5, <3>1
      <4>2. QED
        BY <4>1 DEF LiveWithinLimits
    <3>2. CASE u = t
      <4>1. {v \in LiveRows : thread[v] = u}' = Of(t) \cup {w}
        BY <2>3, <2>4, <2>5, <3>2
      <4>2. Of(t) \in SUBSET Rows
        BY DEF LiveRows
      <4>3. Cardinality(Of(t)) \in Nat /\ Cardinality(Of(t) \cup {w}) \in Nat
        BY <2>2, <4>2, RowsFinite
      <4>4. Cardinality(Of(t) \cup {w}) <= Cardinality(Of(t)) + 1
        BY <2>6, <4>2
      <4>5. QED
        BY <2>1, <4>1, <4>3, <4>4, BoundsType
    <3>3. QED
      BY <3>1, <3>2
  <2>9. ASSUME NEW u \in Threads, NEW q \in Probes
        PROVE  Cardinality(LiveOf(u, q)') <= 1
    <3>1. CASE u # t \/ q # p
      <4>1. LiveOf(u, q)' = LiveOf(u, q)
        BY <2>3, <2>4, <2>5, <3>1 DEF LiveOf
      <4>2. QED
        BY <4>1 DEF LiveWithinLimits
    <3>2. CASE u = t /\ q = p
      <4>1. LiveOf(u, q)' = {w}
        BY <1>2, <2>3, <2>4, <2>5, <3>2 DEF LiveOf
      <4>2. Cardinality({w}) = 1
        BY FS_Singleton
      <4>3. QED
        BY <4>1, <4>2
    <3>3. QED
      BY <3>1, <3>2
  <2>10. QED
    BY <2>7, <2>8, <2>9 DEF LiveWithinLimits
<1>3. CASE Boot
  BY <1>3, FewerLiveRows DEF Boot, LiveRows, Live, TypeOK
<1>4. ASSUME NEW w \in Rows, CancelWait(w) PROVE LiveWithinLimits'
  BY <1>4, FewerLiveRows DEF CancelWait, LiveRows, Live, TypeOK
<1>5. ASSUME NEW w \in Rows, Claim(w) PROVE LiveWithinLimits'
  BY <1>5, FewerLiveRows DEF Claim, LiveRows, Live, TypeOK
<1>6. ASSUME NEW w \in Rows, Record(w) PROVE LiveWithinLimits'
  BY <1>6, FewerLiveRows DEF Record, LiveRows, Live, TypeOK
<1>7. CASE \/ Crash \/ UNCHANGED vars
           \/ \E t \in Threads : StartHumanTurn(t) \/ EndHumanTurn(t) \/ DeleteThread(t)
           \/ \E w \in Rows : \/ PassDeadline(w) \/ Tick(w)
                              \/ \E res \in Results : Probe(w, res)
                              \/ Deliver(w) \/ DeliverFails(w) \/ StartTurn(w) \/ EndTurn(w)
  <2>1. status' = status /\ thread' = thread /\ argv' = argv
    BY <1>7 DEF Crash, vars, row, StartHumanTurn, EndHumanTurn, DeleteThread, PassDeadline,
                Tick, Probe, Deliver, DeliverFails, StartTurn, EndTurn
  <2>2. QED
    BY <2>1, FewerLiveRows DEF LiveRows
<1>8. QED
  BY <1>1, <1>2, <1>3, <1>4, <1>5, <1>6, <1>7 DEF Next

-----------------------------------------------------------------------------
LEMMA InitInv == Init => IInv
<1> SUFFICES ASSUME Init PROVE IInv
  OBVIOUS
<1>1. TypeOK
  BY NotEmpty, BoundsType DEF Init, TypeOK, Statuses
<1>2. Tasks
  BY <1>1, TurnKinds DEF Init, Tasks, UnderWay, TypeOK
<1>3. Budget /\ Delivered
  BY DEF Init, Budget, Delivered, Outcomes
<1>4. LiveRows = {} /\ \A t \in Threads, p \in Probes : LiveOf(t, p) = {}
  BY DEF Init, LiveRows, LiveOf, Live
<1>5. LiveWithinLimits
  BY <1>4, FS_EmptySet, BoundsType DEF LiveWithinLimits
<1>6. QED
  BY <1>1, <1>2, <1>3, <1>5 DEF IInv

LEMMA StepInv == IInv /\ [Next]_vars => IInv'
BY TypeStep, TasksStep, BudgetStep, DeliveredStep, LimitsStep DEF IInv

(* The types of the columns, tasks and turns, in every reachable state.    *)
THEOREM WaitsTypeCorrect == Spec => []TypeOK
BY InitInv, StepInv, PTL DEF Spec, IInv

(* "Once" (docs/waits.md): however checks, deliveries, failures and        *)
(* restarts interleave, a wait's turn ends at most once more than its      *)
(* resumes failed or were cut off.                                         *)
THEOREM WaitsResumeOnce == Spec => []ResumedOnce
<1>1. IInv => ResumedOnce
  BY DEF IInv, Budget, ResumedOnce
<1>2. QED
  BY <1>1, InitInv, StepInv, PTL DEF Spec

(* A wait that was cancelled has no resume task, no posted turn and no     *)
(* running one: WaitRepository.cancel and claim_for_resume exclude each    *)
(* other.                                                                  *)
THEOREM CancelledWaitsStayQuiet == Spec => []CancelledStaysQuiet
<1>1. IInv => CancelledStaysQuiet
  BY DEF IInv, Tasks, UnderWay, CancelledStaysQuiet, TypeOK, Outcomes
<1>2. QED
  BY <1>1, InitInv, StepInv, PTL DEF Spec

(* A finished wait of a Discord thread that still exists has had its turn. *)
THEOREM FinishedDiscordWaitsHaveRun == Spec => []FinishedDiscordWaitHasRun
<1>1. IInv => FinishedDiscordWaitHasRun
  BY DEF IInv, Delivered, FinishedDiscordWaitHasRun, FinishedMeansRun
<1>2. QED
  BY <1>1, InitInv, StepInv, PTL DEF Spec

(* The limits of WaitRepository.create() hold in every state, although     *)
(* checks, retries and recovery move waits between active and resuming     *)
(* without counting.                                                       *)
THEOREM WaitsKeepLimits == Spec => []LiveWithinLimits
BY InitInv, StepInv, PTL DEF Spec, IInv
=============================================================================
