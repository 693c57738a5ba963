----------------------------- MODULE TurnsProofs -----------------------------
(***************************************************************************)
(* Proofs for Turns: the accounts that turns are planned onto, the answers *)
(* that they stream and the files that they deliver, for any number of     *)
(* threads and profiles, any length of an answer and any number of files,  *)
(* failures and crashes.  One section for each part: its invariant, what   *)
(* its operators do, one lemma for each step, and the section's facts.     *)
(***************************************************************************)
EXTENDS Turns, WaitsProofs, SequenceTheorems, WellFoundedInduction

(* A nonempty set of naturals has a least element. *)
LEMMA LeastOf == ASSUME NEW T \in SUBSET Nat, T # {} PROVE \E x \in T : \A y \in T : x <= y
<1>1. PICK x \in T : \A y \in T : ~ (<<y, x>> \in OpToRel(<, Nat))
  BY NatLessThanWellFounded, WFMin
<1>2. ASSUME NEW y \in T, y < x PROVE <<y, x>> \in OpToRel(<, Nat)
  BY <1>2 DEF OpToRel
<1>3. ASSUME NEW y \in T PROVE x <= y
  <2>1. ~(y < x)
    BY <1>1, <1>2
  <2>2. QED
    BY <2>1
<1>4. QED
  BY <1>3

-----------------------------------------------------------------------------
(* Accounts.  Of a thread whose plans and copies went well, the session is *)
(* whole where it is looked for, from one turn to the next and on the way. *)
Profiles == Accounts!Profiles
Home(t) == Accounts!Home(t)
Whole(t) ==
    /\ session[t] => kept[t][Home(t)] = "full"
    /\ step[t] \in {"queued", "selecting", "moving", "pinning"} => plan[t].resume = session[t]
    /\ step[t] = "pinning" /\ plan[t].resume => kept[t][plan[t].profile] = "full"
    /\ step[t] = "running" => /\ plan[t].resume = session[t]
                              /\ plan[t].profile = Home(t)

(* The cursor of the pool is the one its holder of the lock has read, and  *)
(* stands behind the profile that the rotation gave out last.              *)
Cursor == [next : 1..Len(Pool), sticky : Profiles \cup {Accounts!None}]
Planned == {"moving", "pinning", "running", "opened", "over"}
PoolTypes ==
    /\ config \in [strategy : Strategies, assign : Assigns] /\ now \in 0..MaxTime
    /\ blocked \in [Profiles -> Accounts!Times] /\ usage \in [Profiles -> Accounts!Times]
    /\ marks \in [Profiles -> Accounts!Times]
    /\ cursor \in Cursor /\ last \in Profiles \cup {Accounts!None}
    /\ turns \in 0..MaxTurns /\ failures \in 0..MaxPoolFailures
ThreadTypes ==
    /\ pin \in [AccountThreads -> Profiles \cup {Accounts!None}]
    /\ session \in [AccountThreads -> BOOLEAN] /\ impaired \subseteq AccountThreads
    /\ kept \in [AccountThreads -> [Profiles -> {"none", "stale", "full"}]]
    /\ step \in [AccountThreads -> {"idle", "queued", "selecting", "moving", "pinning",
                                    "running", "opened", "over"}]
LockTypes ==
    /\ lock \in AccountThreads \cup {Accounts!None}
    /\ \A t \in AccountThreads : step[t] = "selecting" <=> lock = t
    /\ seen \in [AccountThreads -> [until : [Profiles -> Nat], cursor : Cursor]]
    /\ \A t \in AccountThreads : step[t] = "selecting" => seen[t].cursor = cursor
PlanTypes ==
    /\ plan \in [AccountThreads -> Accounts!Turn]
    /\ \A t \in AccountThreads : step[t] \in Planned => plan[t].profile \in Profiles
AccountTypes == PoolTypes /\ ThreadTypes /\ LockTypes /\ PlanTypes
Rotation ==
    config.strategy = "round_robin" /\ last # Accounts!None =>
        cursor.next = Accounts!After(Accounts!Index(last))

AccountInv ==
    /\ AccountTypes /\ Rotation
    /\ \A t \in AccountThreads \ impaired : Whole(t)

LEMMA Indexes ==
    ASSUME Accounts!ConstantsType, NEW p \in Profiles
    PROVE  Accounts!Index(p) \in 1..Len(Pool) /\ Pool[Accounts!Index(p)] = p
<1>1. \E i \in 1..Len(Pool) : Pool[i] = p
  BY DEF Accounts!ConstantsType, Profiles, Accounts!Profiles, Accounts!ToSet
<1>2. QED
  BY <1>1 DEF Accounts!Index

LEMMA IndexOf ==
    ASSUME Accounts!ConstantsType, NEW i \in 1..Len(Pool)
    PROVE  Pool[i] \in Profiles /\ Accounts!Index(Pool[i]) = i
<1>1. Pool[i] \in Profiles /\ \A j \in 1..Len(Pool) : Pool[j] = Pool[i] => j = i
  BY DEF Accounts!ConstantsType, Profiles, Accounts!Profiles, Accounts!ToSet
<1>2. QED
  BY <1>1, Indexes

LEMMA Wraps ==
    ASSUME NEW n \in Nat \ {0}, NEW x \in 0..(2 * n - 1)
    PROVE  x % n = IF x < n THEN x ELSE x - n
OBVIOUS

LEMMA NextIndex ==
    ASSUME Accounts!ConstantsType, NEW i \in 1..Len(Pool)
    PROVE  /\ Accounts!After(i) \in 1..Len(Pool)
           /\ Len(Pool) > 1 => Accounts!After(i) # i
<1>1. Len(Pool) \in Nat \ {0} /\ i \in 0..(2 * Len(Pool) - 1)
  BY DEF Accounts!ConstantsType
<1>2. i % Len(Pool) = IF i < Len(Pool) THEN i ELSE i - Len(Pool)
  BY <1>1, Wraps
<1>3. QED
  BY <1>1, <1>2 DEF Accounts!After

(* How far behind position i a profile stands. *)
Distance(p, i) == (Accounts!Index(p) - i + Len(Pool)) % Len(Pool)
LEMMA Distances ==
    ASSUME Accounts!ConstantsType, NEW p \in Profiles, NEW i \in 1..Len(Pool)
    PROVE  /\ Distance(p, i) \in Nat
           /\ Distance(p, i) = 0 <=> Accounts!Index(p) = i
<1> DEFINE d == Accounts!Index(p) - i + Len(Pool)
<1>1. /\ Len(Pool) \in Nat \ {0} /\ Accounts!Index(p) \in 1..Len(Pool)
      /\ d \in 0..(2 * Len(Pool) - 1)
  BY Indexes DEF Accounts!ConstantsType
<1>2. d % Len(Pool) = IF d < Len(Pool) THEN d ELSE d - Len(Pool)
  <2> HIDE DEF d
  <2>1. QED
    BY <1>1, Wraps
<1>3. Distance(p, i) = IF d < Len(Pool) THEN d ELSE d - Len(Pool)
  BY <1>2 DEF Distance
<1>4. d # 0 /\ (d = Len(Pool) <=> Accounts!Index(p) = i)
  BY <1>1
<1> HIDE DEF d
<1>5. QED
  BY <1>1, <1>3, <1>4

LEMMA FirstIn ==
    ASSUME Accounts!ConstantsType, NEW S \in SUBSET Profiles, S # {}, NEW i \in 1..Len(Pool)
    PROVE  /\ Accounts!FirstFrom(i, S) \in S
           /\ \A q \in S : Distance(Accounts!FirstFrom(i, S), i) <= Distance(q, i)
<1> DEFINE D == {Distance(p, i) : p \in S}
<1>1. D \in SUBSET Nat /\ D # {}
  BY Distances
<1>2. PICK d \in D : \A e \in D : d <= e
  BY <1>1, LeastOf
<1>3. \E p \in S : \A q \in S : Distance(p, i) <= Distance(q, i)
  BY <1>2
<1>4. QED
  BY <1>3 DEF Accounts!FirstFrom, Distance

LEMMA FirstOfAll ==
    ASSUME Accounts!ConstantsType, NEW i \in 1..Len(Pool)
    PROVE  Accounts!FirstFrom(i, Profiles) = Pool[i]
<1> DEFINE f == Accounts!FirstFrom(i, Profiles)
<1>1. Pool[i] \in Profiles /\ Accounts!Index(Pool[i]) = i
  BY IndexOf
<1>2. f \in Profiles /\ Distance(f, i) <= Distance(Pool[i], i)
  BY <1>1, FirstIn
<1>3. Distance(f, i) \in Nat /\ Distance(Pool[i], i) = 0
  BY <1>1, <1>2, Distances
<1>4. Accounts!Index(f) = i
  BY <1>2, <1>3, Distances
<1>5. QED
  BY <1>2, <1>4, Indexes

LEMMA SoonestIn ==
    ASSUME Accounts!ConstantsType, NEW until \in [Profiles -> Nat]
    PROVE  Accounts!Soonest(until) \in Profiles
<1> DEFINE U == {until[p] : p \in Profiles}
<1>1. U \in SUBSET Nat /\ U # {}
  BY DEF Accounts!ConstantsType, Profiles
<1>2. PICK u \in U : \A v \in U : u <= v
  BY <1>1, LeastOf
<1> DEFINE I == {Accounts!Index(p) : p \in {q \in Profiles : until[q] = u}}
<1>3. I \in SUBSET Nat /\ I # {}
  BY Indexes
<1>4. PICK i \in I : \A j \in I : i <= j
  BY <1>3, LeastOf
<1>5. PICK p \in Profiles : until[p] = u /\ Accounts!Index(p) = i
  BY <1>4
<1>6. \A q \in Profiles : \/ until[p] < until[q]
                          \/ until[p] = until[q] /\ Accounts!Index(p) <= Accounts!Index(q)
  BY <1>2, <1>4, <1>5
<1>7. QED
  BY <1>6 DEF Accounts!Soonest, Profiles

LEMMA PickTypes ==
    ASSUME Accounts!ConstantsType, NEW S \in SUBSET Profiles, S # {}, NEW c \in Cursor,
           NEW s \in Accounts!Picks(S, c)
    PROVE  s.profile \in Profiles /\ s.cursor \in Cursor
<1>1. 1 \in 1..Len(Pool) /\ c.next \in 1..Len(Pool)
  BY DEF Accounts!ConstantsType, Cursor, Accounts!Profiles, Accounts!ToSet
<1>2. CASE config.strategy = "priority"
  <2>1. s = [profile |-> Accounts!FirstFrom(1, S), cursor |-> c]
    BY <1>2 DEF Accounts!Picks
  <2>2. Accounts!FirstFrom(1, S) \in Profiles
    BY <1>1, FirstIn
  <2>3. QED
    BY <2>1, <2>2
<1>3. CASE config.strategy = "sticky"
  <2> DEFINE i == IF c.sticky = Accounts!None THEN 1 ELSE Accounts!After(Accounts!Index(c.sticky))
             p == IF c.sticky \in S THEN c.sticky ELSE Accounts!FirstFrom(i, S)
  <2>1. i \in 1..Len(Pool)
    BY <1>1, Indexes, NextIndex DEF Cursor
  <2>2. p \in Profiles
    BY <2>1, FirstIn
  <2>3. s = [profile |-> p, cursor |-> [c EXCEPT !.sticky = p]]
    BY <1>3 DEF Accounts!Picks
  <2> HIDE DEF p
  <2>4. QED
    BY <2>2, <2>3 DEF Cursor
<1>4. CASE config.strategy = "round_robin"
  <2> DEFINE p == Accounts!FirstFrom(c.next, S)
  <2>1. p \in Profiles /\ Accounts!After(Accounts!Index(p)) \in 1..Len(Pool)
    BY <1>1, FirstIn, Indexes, NextIndex
  <2>2. s = [profile |-> p, cursor |-> [c EXCEPT !.next = Accounts!After(Accounts!Index(p))]]
    BY <1>4 DEF Accounts!Picks
  <2> HIDE DEF p
  <2>3. QED
    BY <2>1, <2>2 DEF Cursor
<1>5. CASE config.strategy \notin {"priority", "sticky", "round_robin"}
  BY <1>5 DEF Accounts!Picks
<1>6. QED
  BY <1>2, <1>3, <1>4, <1>5

LEMMA SelectionTypes ==
    ASSUME Accounts!ConstantsType, NEW until \in [Profiles -> Nat], NEW c \in Cursor, NEW current,
           NEW s \in Accounts!Selections(until, c, current)
    PROVE  s.profile \in Profiles /\ s.cursor \in Cursor
<1>1. Accounts!Available(until) \in SUBSET Profiles
  BY DEF Accounts!Available, Profiles
<1>2. QED
  BY <1>1, SoonestIn, PickTypes DEF Accounts!Selections, Accounts!Stays

LEMMA MaxOf ==
    ASSUME NEW a \in Nat, NEW b \in Nat
    PROVE  Accounts!Max({a, b}) = IF a >= b THEN a ELSE b
<1>1. \E x \in {a, b} : \A y \in {a, b} : x >= y
  OBVIOUS
<1>2. Accounts!Max({a, b}) \in {a, b} /\ \A y \in {a, b} : Accounts!Max({a, b}) >= y
  BY <1>1 DEF Accounts!Max
<1>3. QED
  BY <1>2
LEMMA NothingType ==
    ASSUME Accounts!ConstantsType
    PROVE  Accounts!Nothing \in [until : [Profiles -> Nat], cursor : Cursor]
<1>1. 1 \in 1..Len(Pool)
  BY DEF Accounts!ConstantsType, Profiles, Accounts!Profiles, Accounts!ToSet
<1>2. QED
  BY <1>1 DEF Accounts!Nothing, Profiles, Cursor

LEMMA NoTurnType == Accounts!NoTurn \in Accounts!Turn
BY DEF Accounts!Turn, Accounts!NoTurn

LEMMA TimesFacts ==
    ASSUME Accounts!ConstantsType
    PROVE  /\ \A a, b \in Accounts!Times : Accounts!Max({a, b}) \in Accounts!Times
           /\ Resets \cup {0} \subseteq Accounts!Times
           /\ \A n \in 0..MaxTime : n + Cooldown \in Accounts!Times
           /\ Accounts!Times \subseteq Nat
BY MaxOf DEF Accounts!Times, Accounts!ConstantsType

LEMMA Changes ==
    ASSUME NEW S, NEW T, NEW f \in [S -> T], NEW x \in S, NEW y \in T, NEW g,
           g = f \/ g = [f EXCEPT ![x] = y]
    PROVE  g \in [S -> T] /\ g[x] \in {f[x], y} /\ \A u \in S : u # x => g[u] = f[u]
OBVIOUS

LEMMA AccountInit == ASSUME Accounts!ConstantsType PROVE Accounts!Init => AccountInv
<1> SUFFICES ASSUME Accounts!Init PROVE AccountInv
  OBVIOUS
<1>1. 1 \in 1..Len(Pool) /\ Ambient \in Profiles /\ Accounts!None \notin AccountThreads
      /\ MaxTime \in Nat /\ MaxTurns \in Nat /\ MaxPoolFailures \in Nat /\ Cooldown \in Nat
  BY DEF Accounts!ConstantsType, Profiles, Accounts!Profiles, Accounts!ToSet
<1>2. PoolTypes
  BY <1>1 DEF PoolTypes, Accounts!Init, Accounts!Times, Cursor, Profiles
<1>3. ThreadTypes
  BY <1>1 DEF ThreadTypes, Accounts!Init, Profiles
<1>4. LockTypes
  BY <1>1, NothingType DEF LockTypes, Accounts!Init
<1>5. PlanTypes
  BY NoTurnType DEF PlanTypes, Accounts!Init, Planned
<1>6. \A t \in AccountThreads : Whole(t)
  BY <1>1 DEF Accounts!Init, Whole, Home, Accounts!Home, Accounts!NoTurn, Profiles
<1>7. Rotation
  BY DEF Rotation, Accounts!Init
<1>8. QED
  BY <1>2, <1>3, <1>4, <1>5, <1>6, <1>7 DEF AccountInv, AccountTypes

LEMMA PoolTypesStep ==
    ASSUME Accounts!ConstantsType, AccountTypes, [Accounts!Next]_(Accounts!vars)
    PROVE  PoolTypes'
<1>0. /\ PoolTypes /\ ThreadTypes /\ LockTypes /\ PlanTypes
      /\ Accounts!None \notin AccountThreads /\ Ambient \in Profiles
      /\ MaxTime \in Nat /\ MaxTurns \in Nat /\ MaxPoolFailures \in Nat
  BY DEF AccountTypes, Accounts!ConstantsType, Profiles
<1>1. ASSUME NEW t \in AccountThreads, Accounts!Begin(t) PROVE PoolTypes'
  BY <1>0, <1>1 DEF PoolTypes, Accounts!Begin, Accounts!router, Accounts!history
<1>2. ASSUME NEW t \in AccountThreads, Accounts!Look(t) PROVE PoolTypes'
  BY <1>0, <1>2 DEF PoolTypes, Accounts!Look, Accounts!router, Accounts!history
<1>3. ASSUME NEW t \in AccountThreads, Accounts!Select(t) PROVE PoolTypes'
  <2>1. PICK s \in Accounts!Selections(seen[t].until, seen[t].cursor, Accounts!Current(t)) :
            cursor' = s.cursor /\ last' \in {s.profile, last}
    BY <1>3 DEF Accounts!Select
  <2>2. seen[t].until \in [Profiles -> Nat] /\ seen[t].cursor \in Cursor
    BY <1>0 DEF LockTypes
  <2>3. s.profile \in Profiles /\ s.cursor \in Cursor
    BY <2>1, <2>2, SelectionTypes
  <2>4. cursor' \in Cursor /\ last' \in Profiles \cup {Accounts!None}
    BY <1>0, <2>1, <2>3 DEF PoolTypes
  <2>5. QED
    BY <1>0, <1>3, <2>4 DEF PoolTypes, Accounts!Select
<1>4. ASSUME NEW t \in AccountThreads, Accounts!Copy(t) PROVE PoolTypes'
  BY <1>0, <1>4 DEF PoolTypes, Accounts!Copy, Accounts!router, Accounts!history
<1>5. ASSUME NEW t \in AccountThreads, Accounts!CopyFails(t) PROVE PoolTypes'
  BY <1>0, <1>5 DEF PoolTypes, Accounts!CopyFails, Accounts!router, Accounts!history
<1>6. ASSUME NEW t \in AccountThreads, Accounts!SetPin(t) PROVE PoolTypes'
  BY <1>0, <1>6 DEF PoolTypes, Accounts!SetPin, Accounts!router, Accounts!history
<1>7. ASSUME NEW t \in AccountThreads, Accounts!PlanFails(t) PROVE PoolTypes'
  BY <1>0, <1>7 DEF PoolTypes, Accounts!PlanFails, Accounts!router, Accounts!history
<1>8. ASSUME NEW t \in AccountThreads, Accounts!Open(t) PROVE PoolTypes'
  BY <1>0, <1>8 DEF PoolTypes, Accounts!Open, Accounts!router, Accounts!history
<1>9. ASSUME NEW t \in AccountThreads, Accounts!Ends(t) PROVE PoolTypes'
  BY <1>0, <1>9 DEF PoolTypes, Accounts!Ends, Accounts!router, Accounts!history
<1>10. ASSUME NEW t \in AccountThreads, Accounts!Rejected(t) PROVE PoolTypes'
  <2>1. PICK event \in BOOLEAN, at \in Resets \cup {0} :
          usage' = [usage EXCEPT ![plan[t].profile] = IF event THEN Accounts!Max({@, at}) ELSE @]
    BY <1>10 DEF Accounts!Rejected
  <2>2. plan[t].profile \in Profiles
    BY <1>0, <1>10 DEF PlanTypes, Planned, Accounts!Rejected
  <2>3. at \in Accounts!Times /\ usage[plan[t].profile] \in Accounts!Times
    BY <1>0, <2>2, TimesFacts DEF PoolTypes
  <2>4. Accounts!Max({usage[plan[t].profile], at}) \in Accounts!Times
    BY <2>3, TimesFacts
  <2>5. usage' \in [Profiles -> Accounts!Times]
    BY <1>0, <2>1, <2>2, <2>3, <2>4 DEF PoolTypes
  <2>6. QED
    BY <1>0, <1>10, <2>5 DEF PoolTypes, Accounts!Rejected, Accounts!history
<1>11. ASSUME NEW t \in AccountThreads, Accounts!Finish(t) PROVE PoolTypes'
  <2> DEFINE until == IF plan[t].resets > now THEN plan[t].resets ELSE now + Cooldown
             p == plan[t].profile
  <2>1. p \in Profiles /\ plan[t].resets \in Resets \cup {0}
    BY <1>0, <1>11 DEF PlanTypes, Planned, Accounts!Finish, Accounts!Turn
  <2>2. until \in Accounts!Times
    BY <1>0, <2>1, TimesFacts DEF PoolTypes
  <2>3. /\ blocked' = blocked \/ blocked' = [blocked EXCEPT ![p] = until]
        /\ marks' = marks \/ marks' = [marks EXCEPT ![p] = Accounts!Max({marks[p], until})]
    BY <1>11 DEF Accounts!Finish
  <2>4. UNCHANGED <<config, now, usage, cursor, last, turns, failures>>
    BY <1>11 DEF Accounts!Finish
  <2> HIDE DEF until, p
  <2>5. Accounts!Max({marks[p], until}) \in Accounts!Times
    BY <1>0, <2>1, <2>2, TimesFacts DEF PoolTypes
  <2>6. blocked' \in [Profiles -> Accounts!Times] /\ marks' \in [Profiles -> Accounts!Times]
    <3>1. blocked \in [Profiles -> Accounts!Times] /\ marks \in [Profiles -> Accounts!Times]
      BY <1>0 DEF PoolTypes
    <3>2. [blocked EXCEPT ![p] = until] \in [Profiles -> Accounts!Times]
      BY <2>1, <2>2, <3>1, Changes
    <3>3. [marks EXCEPT ![p] = Accounts!Max({marks[p], until})] \in [Profiles -> Accounts!Times]
      BY <2>1, <2>5, <3>1, Changes
    <3>4. QED
      BY <2>3, <3>1, <3>2, <3>3
  <2>7. QED
    BY <1>0, <2>4, <2>6 DEF PoolTypes
<1>12. CASE Accounts!Pass
  BY <1>0, <1>12 DEF PoolTypes, Accounts!Pass, Accounts!router, Accounts!history
<1>13. CASE Accounts!Crash
  BY <1>0, <1>13 DEF PoolTypes, Accounts!Crash, Accounts!router, Accounts!history
<1>14. CASE UNCHANGED Accounts!vars
  BY <1>0, <1>14 DEF PoolTypes, Accounts!vars, Accounts!router, Accounts!history
<1>15. QED
  BY <1>1, <1>2, <1>3, <1>4, <1>5, <1>6, <1>7, <1>8, <1>9, <1>10, <1>11, <1>12, <1>13, <1>14 DEF Accounts!Next

LEMMA ThreadTypesStep ==
    ASSUME Accounts!ConstantsType, AccountTypes, [Accounts!Next]_(Accounts!vars)
    PROVE  ThreadTypes'
<1>0. /\ PoolTypes /\ ThreadTypes /\ LockTypes /\ PlanTypes
      /\ Accounts!None \notin AccountThreads /\ Ambient \in Profiles
      /\ MaxTime \in Nat /\ MaxTurns \in Nat /\ MaxPoolFailures \in Nat
  BY DEF AccountTypes, Accounts!ConstantsType, Profiles
<1>1. ASSUME NEW t \in AccountThreads, Accounts!Begin(t) PROVE ThreadTypes'
  BY <1>0, <1>1 DEF ThreadTypes, Accounts!Begin, Accounts!router, Accounts!history
<1>2. ASSUME NEW t \in AccountThreads, Accounts!Look(t) PROVE ThreadTypes'
  BY <1>0, <1>2 DEF ThreadTypes, Accounts!Look, Accounts!router, Accounts!history
<1>3. ASSUME NEW t \in AccountThreads, Accounts!Select(t) PROVE ThreadTypes'
  BY <1>0, <1>3 DEF ThreadTypes, Accounts!Select, Accounts!router, Accounts!history
<1>4. ASSUME NEW t \in AccountThreads, Accounts!Copy(t) PROVE ThreadTypes'
  <2>1. plan[t].profile \in Profiles /\ kept[t] \in [Profiles -> {"none", "stale", "full"}]
        /\ Accounts!Home(t) \in Profiles
    BY <1>0, <1>4 DEF PlanTypes, ThreadTypes, Planned, Accounts!Home, Accounts!Copy
  <2>2. PICK left \in {"none", "stale", "full"} :
           kept' = kept \/ kept' = [kept EXCEPT ![t][plan[t].profile] = left]
    BY <1>4, <2>1 DEF Accounts!Copy
  <2>3. [kept[t] EXCEPT ![plan[t].profile] = left] \in [Profiles -> {"none", "stale", "full"}]
    BY <2>1
  <2>4. kept' = kept \/ kept' = [kept EXCEPT ![t] = [kept[t] EXCEPT ![plan[t].profile] = left]]
    BY <2>2
  <2>5. kept' \in [AccountThreads -> [Profiles -> {"none", "stale", "full"}]]
    <3>1. kept \in [AccountThreads -> [Profiles -> {"none", "stale", "full"}]]
      BY <1>0 DEF ThreadTypes
    <3>2. [kept EXCEPT ![t] = [kept[t] EXCEPT ![plan[t].profile] = left]]
             \in [AccountThreads -> [Profiles -> {"none", "stale", "full"}]]
      BY <2>3, <3>1, Changes
    <3>3. QED
      BY <2>4, <3>1, <3>2
  <2>6. QED
    BY <1>0, <1>4, <2>5 DEF ThreadTypes, Accounts!Copy, Accounts!history
<1>5. ASSUME NEW t \in AccountThreads, Accounts!CopyFails(t) PROVE ThreadTypes'
  <2>1. plan[t].profile \in Profiles /\ kept[t] \in [Profiles -> {"none", "stale", "full"}]
        /\ Accounts!Home(t) \in Profiles
    BY <1>0, <1>5 DEF PlanTypes, ThreadTypes, Planned, Accounts!Home, Accounts!CopyFails
  <2>2. PICK left \in {"none", "stale", "full"} :
           kept' = kept \/ kept' = [kept EXCEPT ![t][plan[t].profile] = left]
    BY <1>5, <2>1 DEF Accounts!CopyFails
  <2>3. [kept[t] EXCEPT ![plan[t].profile] = left] \in [Profiles -> {"none", "stale", "full"}]
    BY <2>1
  <2>4. kept' = kept \/ kept' = [kept EXCEPT ![t] = [kept[t] EXCEPT ![plan[t].profile] = left]]
    BY <2>2
  <2>5. kept' \in [AccountThreads -> [Profiles -> {"none", "stale", "full"}]]
    <3>1. kept \in [AccountThreads -> [Profiles -> {"none", "stale", "full"}]]
      BY <1>0 DEF ThreadTypes
    <3>2. [kept EXCEPT ![t] = [kept[t] EXCEPT ![plan[t].profile] = left]]
             \in [AccountThreads -> [Profiles -> {"none", "stale", "full"}]]
      BY <2>3, <3>1, Changes
    <3>3. QED
      BY <2>4, <3>1, <3>2
  <2>6. QED
    BY <1>0, <1>5, <2>5 DEF ThreadTypes, Accounts!CopyFails, Accounts!history
<1>6. ASSUME NEW t \in AccountThreads, Accounts!SetPin(t) PROVE ThreadTypes'
  <2>1. plan[t].profile \in Profiles
    BY <1>0, <1>6 DEF PlanTypes, Planned, Accounts!SetPin
  <2>2. QED
    BY <1>0, <1>6, <2>1 DEF ThreadTypes, Accounts!SetPin, Accounts!history
<1>7. ASSUME NEW t \in AccountThreads, Accounts!PlanFails(t) PROVE ThreadTypes'
  BY <1>0, <1>7 DEF ThreadTypes, Accounts!PlanFails, Accounts!router, Accounts!history
<1>8. ASSUME NEW t \in AccountThreads, Accounts!Open(t) PROVE ThreadTypes'
  <2>1. \A q \in Profiles : kept[t][q] \in {"none", "stale", "full"}
    BY <1>0 DEF ThreadTypes
  <2>2. \E new \in [Profiles -> {"none", "stale", "full"}] : kept' = [kept EXCEPT ![t] = new]
    BY <1>8, <2>1 DEF Accounts!Open, Profiles
  <2>3. kept' \in [AccountThreads -> [Profiles -> {"none", "stale", "full"}]]
    BY <1>0, <2>2, Changes DEF ThreadTypes
  <2>4. QED
    BY <1>0, <1>8, <2>3 DEF ThreadTypes, Accounts!Open
<1>9. ASSUME NEW t \in AccountThreads, Accounts!Ends(t) PROVE ThreadTypes'
  BY <1>0, <1>9 DEF ThreadTypes, Accounts!Ends, Accounts!router, Accounts!history
<1>10. ASSUME NEW t \in AccountThreads, Accounts!Rejected(t) PROVE ThreadTypes'
  BY <1>0, <1>10 DEF ThreadTypes, Accounts!Rejected, Accounts!router, Accounts!history
<1>11. ASSUME NEW t \in AccountThreads, Accounts!Finish(t) PROVE ThreadTypes'
  BY <1>0, <1>11 DEF ThreadTypes, Accounts!Finish, Accounts!router, Accounts!history
<1>12. CASE Accounts!Pass
  BY <1>0, <1>12 DEF ThreadTypes, Accounts!Pass, Accounts!router, Accounts!history
<1>13. CASE Accounts!Crash
  BY <1>0, <1>13 DEF ThreadTypes, Accounts!Crash, Accounts!router, Accounts!history
<1>14. CASE UNCHANGED Accounts!vars
  BY <1>0, <1>14 DEF ThreadTypes, Accounts!vars, Accounts!router, Accounts!history
<1>15. QED
  BY <1>1, <1>2, <1>3, <1>4, <1>5, <1>6, <1>7, <1>8, <1>9, <1>10, <1>11, <1>12, <1>13, <1>14 DEF Accounts!Next

LEMMA LockTypesStep ==
    ASSUME Accounts!ConstantsType, AccountTypes, [Accounts!Next]_(Accounts!vars)
    PROVE  LockTypes'
<1>0. /\ PoolTypes /\ ThreadTypes /\ LockTypes /\ PlanTypes
      /\ Accounts!None \notin AccountThreads /\ Ambient \in Profiles
      /\ MaxTime \in Nat /\ MaxTurns \in Nat /\ MaxPoolFailures \in Nat
  BY DEF AccountTypes, Accounts!ConstantsType, Profiles
<1>1. ASSUME NEW t \in AccountThreads, Accounts!Begin(t) PROVE LockTypes'
  BY <1>0, <1>1, NothingType DEF LockTypes, ThreadTypes, Accounts!Begin, Accounts!router, Accounts!history
<1>2. ASSUME NEW t \in AccountThreads, Accounts!Look(t) PROVE LockTypes'
  <2>1. Accounts!Until \in [Profiles -> Nat]
    BY <1>0, TimesFacts DEF Accounts!Until, PoolTypes, Profiles
  <2>2. seen' = [seen EXCEPT ![t] = [until |-> Accounts!Until, cursor |-> cursor]]
    BY <1>2 DEF Accounts!Look
  <2>3. [until |-> Accounts!Until, cursor |-> cursor] \in [until : [Profiles -> Nat], cursor : Cursor]
    BY <1>0, <2>1 DEF PoolTypes
  <2>4. /\ seen' \in [AccountThreads -> [until : [Profiles -> Nat], cursor : Cursor]]
        /\ seen'[t].cursor = cursor
    BY <1>0, <2>2, <2>3 DEF LockTypes
  <2>5. QED
    BY <1>0, <1>2, <2>4 DEF LockTypes, ThreadTypes, Accounts!Look
<1>3. ASSUME NEW t \in AccountThreads, Accounts!Select(t) PROVE LockTypes'
  BY <1>0, <1>3, NothingType DEF LockTypes, ThreadTypes, Accounts!Select, Accounts!router, Accounts!history
<1>4. ASSUME NEW t \in AccountThreads, Accounts!Copy(t) PROVE LockTypes'
  BY <1>0, <1>4, NothingType DEF LockTypes, ThreadTypes, Accounts!Copy, Accounts!router, Accounts!history
<1>5. ASSUME NEW t \in AccountThreads, Accounts!CopyFails(t) PROVE LockTypes'
  BY <1>0, <1>5, NothingType DEF LockTypes, ThreadTypes, Accounts!CopyFails, Accounts!router, Accounts!history
<1>6. ASSUME NEW t \in AccountThreads, Accounts!SetPin(t) PROVE LockTypes'
  BY <1>0, <1>6, NothingType DEF LockTypes, ThreadTypes, Accounts!SetPin, Accounts!router, Accounts!history
<1>7. ASSUME NEW t \in AccountThreads, Accounts!PlanFails(t) PROVE LockTypes'
  BY <1>0, <1>7, NothingType DEF LockTypes, ThreadTypes, Accounts!PlanFails, Accounts!router, Accounts!history
<1>8. ASSUME NEW t \in AccountThreads, Accounts!Open(t) PROVE LockTypes'
  BY <1>0, <1>8, NothingType DEF LockTypes, ThreadTypes, Accounts!Open, Accounts!router, Accounts!history
<1>9. ASSUME NEW t \in AccountThreads, Accounts!Ends(t) PROVE LockTypes'
  BY <1>0, <1>9, NothingType DEF LockTypes, ThreadTypes, Accounts!Ends, Accounts!router, Accounts!history
<1>10. ASSUME NEW t \in AccountThreads, Accounts!Rejected(t) PROVE LockTypes'
  BY <1>0, <1>10, NothingType DEF LockTypes, ThreadTypes, Accounts!Rejected, Accounts!router, Accounts!history
<1>11. ASSUME NEW t \in AccountThreads, Accounts!Finish(t) PROVE LockTypes'
  BY <1>0, <1>11, NothingType DEF LockTypes, ThreadTypes, Accounts!Finish, Accounts!router, Accounts!history
<1>12. CASE Accounts!Pass
  BY <1>0, <1>12, NothingType DEF LockTypes, ThreadTypes, Accounts!Pass, Accounts!router, Accounts!history
<1>13. CASE Accounts!Crash
  BY <1>0, <1>13, NothingType DEF LockTypes, ThreadTypes, Accounts!Crash, Accounts!router, Accounts!history
<1>14. CASE UNCHANGED Accounts!vars
  BY <1>0, <1>14 DEF LockTypes, ThreadTypes, Accounts!vars, Accounts!router, Accounts!history
<1>15. QED
  BY <1>1, <1>2, <1>3, <1>4, <1>5, <1>6, <1>7, <1>8, <1>9, <1>10, <1>11, <1>12, <1>13, <1>14 DEF Accounts!Next

LEMMA PlanTypesStep ==
    ASSUME Accounts!ConstantsType, AccountTypes, [Accounts!Next]_(Accounts!vars)
    PROVE  PlanTypes'
<1>0. /\ PoolTypes /\ ThreadTypes /\ LockTypes /\ PlanTypes
      /\ Accounts!None \notin AccountThreads /\ Ambient \in Profiles
      /\ MaxTime \in Nat /\ MaxTurns \in Nat /\ MaxPoolFailures \in Nat
  BY DEF AccountTypes, Accounts!ConstantsType, Profiles
<1>1. ASSUME NEW t \in AccountThreads, Accounts!Begin(t) PROVE PlanTypes'
  <2> DEFINE r == [Accounts!NoTurn EXCEPT !.resume = session[t]]
  <2>1. plan' = [plan EXCEPT ![t] = r]
    BY <1>1 DEF Accounts!Begin
  <2>2. r \in Accounts!Turn
    BY <1>0, NoTurnType DEF Accounts!NoTurn, Accounts!Turn, ThreadTypes
  <2> HIDE DEF r
  <2>3. QED
    BY <1>0, <1>1, <2>1, <2>2 DEF PlanTypes, ThreadTypes, Planned, Accounts!Begin
<1>2. ASSUME NEW t \in AccountThreads, Accounts!Look(t) PROVE PlanTypes'
  BY <1>0, <1>2, NoTurnType DEF PlanTypes, ThreadTypes, Planned, Accounts!Look, Accounts!router, Accounts!history
<1>3. ASSUME NEW t \in AccountThreads, Accounts!Select(t) PROVE PlanTypes'
  <2>1. PICK s \in Accounts!Selections(seen[t].until, seen[t].cursor, Accounts!Current(t)) :
            plan' = [plan EXCEPT ![t].profile = s.profile]
    BY <1>3 DEF Accounts!Select
  <2>2. seen[t].until \in [Profiles -> Nat] /\ seen[t].cursor \in Cursor
        /\ plan[t] \in Accounts!Turn
    BY <1>0 DEF LockTypes, PlanTypes
  <2>3. s.profile \in Profiles
    BY <2>1, <2>2, SelectionTypes
  <2> DEFINE r == [plan[t] EXCEPT !.profile = s.profile]
  <2>4. r \in Accounts!Turn /\ r.profile = s.profile
    BY <2>2, <2>3 DEF Accounts!Turn, Profiles
  <2>5. plan' = [plan EXCEPT ![t] = r]
    BY <2>1
  <2> HIDE DEF r
  <2>6. QED
    BY <1>0, <1>3, <2>3, <2>4, <2>5 DEF PlanTypes, ThreadTypes, Planned, Accounts!Select
<1>4. ASSUME NEW t \in AccountThreads, Accounts!Copy(t) PROVE PlanTypes'
  <2> DEFINE r == [plan[t] EXCEPT !.resume = FALSE]
  <2>1. plan' = plan \/ plan' = [plan EXCEPT ![t] = r]
    BY <1>4 DEF Accounts!Copy
  <2>2. plan[t] \in Accounts!Turn /\ session[t] \in BOOLEAN
    BY <1>0 DEF PlanTypes, ThreadTypes
  <2>3. r \in Accounts!Turn /\ r.profile = plan[t].profile
    BY <1>0, <2>2 DEF Accounts!Turn, Profiles
  <2> HIDE DEF r
  <2>4. plan' \in [AccountThreads -> Accounts!Turn]
        /\ plan'[t] \in {plan[t], r} /\ \A u \in AccountThreads : u # t => plan'[u] = plan[u]
    BY <1>0, <2>1, <2>3, Changes DEF PlanTypes
  <2>5. QED
    BY <1>0, <1>4, <2>3, <2>4 DEF PlanTypes, ThreadTypes, Planned, Accounts!Copy
<1>5. ASSUME NEW t \in AccountThreads, Accounts!CopyFails(t) PROVE PlanTypes'
  <2> DEFINE r == [plan[t] EXCEPT !.resume = FALSE]
  <2>1. plan' = plan \/ plan' = [plan EXCEPT ![t] = r]
    BY <1>5 DEF Accounts!CopyFails
  <2>2. plan[t] \in Accounts!Turn /\ session[t] \in BOOLEAN
    BY <1>0 DEF PlanTypes, ThreadTypes
  <2>3. r \in Accounts!Turn /\ r.profile = plan[t].profile
    BY <1>0, <2>2 DEF Accounts!Turn, Profiles
  <2> HIDE DEF r
  <2>4. plan' \in [AccountThreads -> Accounts!Turn]
        /\ plan'[t] \in {plan[t], r} /\ \A u \in AccountThreads : u # t => plan'[u] = plan[u]
    BY <1>0, <2>1, <2>3, Changes DEF PlanTypes
  <2>5. QED
    BY <1>0, <1>5, <2>3, <2>4 DEF PlanTypes, ThreadTypes, Planned, Accounts!CopyFails
<1>6. ASSUME NEW t \in AccountThreads, Accounts!SetPin(t) PROVE PlanTypes'
  BY <1>0, <1>6, NoTurnType DEF PlanTypes, ThreadTypes, Planned, Accounts!SetPin, Accounts!router, Accounts!history
<1>7. ASSUME NEW t \in AccountThreads, Accounts!PlanFails(t) PROVE PlanTypes'
  <2> DEFINE r == [plan[t] EXCEPT !.profile = Ambient, !.resume = session[t], !.try = "unplanned"]
  <2>1. plan' = [plan EXCEPT ![t] = r]
    BY <1>7 DEF Accounts!PlanFails
  <2>2. plan[t] \in Accounts!Turn /\ session[t] \in BOOLEAN
    BY <1>0 DEF PlanTypes, ThreadTypes
  <2>3. r \in Accounts!Turn /\ r.profile = Ambient
    BY <1>0, <2>2 DEF Accounts!Turn, Profiles
  <2> HIDE DEF r
  <2>4. plan' \in [AccountThreads -> Accounts!Turn]
        /\ plan'[t] = r /\ \A u \in AccountThreads : u # t => plan'[u] = plan[u]
    BY <1>0, <2>1, <2>3, Changes DEF PlanTypes
  <2>5. QED
    BY <1>0, <1>7, <2>3, <2>4 DEF PlanTypes, ThreadTypes, Planned, Accounts!PlanFails
<1>8. ASSUME NEW t \in AccountThreads, Accounts!Open(t) PROVE PlanTypes'
  BY <1>0, <1>8, NoTurnType DEF PlanTypes, ThreadTypes, Planned, Accounts!Open, Accounts!router, Accounts!history
<1>9. ASSUME NEW t \in AccountThreads, Accounts!Ends(t) PROVE PlanTypes'
  BY <1>0, <1>9, NoTurnType DEF PlanTypes, ThreadTypes, Planned, Accounts!Ends, Accounts!router, Accounts!history
<1>10. ASSUME NEW t \in AccountThreads, Accounts!Rejected(t) PROVE PlanTypes'
  <2>1. PICK at \in Resets \cup {0} : plan' = [plan EXCEPT ![t].rejected = TRUE, ![t].resets = at]
    BY <1>10 DEF Accounts!Rejected
  <2> DEFINE r == [plan[t] EXCEPT !.rejected = TRUE, !.resets = at]
  <2>2. plan[t] \in Accounts!Turn /\ plan[t].profile \in Profiles
    BY <1>0, <1>10 DEF PlanTypes, Planned, Accounts!Rejected
  <2>3. plan' = [plan EXCEPT ![t] = r]
    BY <1>0, <2>1 DEF PlanTypes
  <2>4. r \in Accounts!Turn /\ r.profile = plan[t].profile
    BY <2>2 DEF Accounts!Turn
  <2> HIDE DEF r
  <2>5. QED
    BY <1>0, <1>10, <2>2, <2>3, <2>4 DEF PlanTypes, ThreadTypes, Planned, Accounts!Rejected
<1>11. ASSUME NEW t \in AccountThreads, Accounts!Finish(t) PROVE PlanTypes'
  <2> DEFINE r == [Accounts!NoTurn EXCEPT !.resume = session[t], !.try = "again"]
  <2>1. /\ plan' = [plan EXCEPT ![t] = r] \/ plan' = [plan EXCEPT ![t] = Accounts!NoTurn]
        /\ step' = [step EXCEPT ![t] = "queued"] \/ step' = [step EXCEPT ![t] = "idle"]
    BY <1>11 DEF Accounts!Finish
  <2>2. r \in Accounts!Turn
    BY <1>0 DEF ThreadTypes, Accounts!NoTurn, Accounts!Turn
  <2> HIDE DEF r
  <2>3. /\ plan' \in [AccountThreads -> Accounts!Turn]
        /\ \A u \in AccountThreads : u # t => plan'[u] = plan[u]
    BY <1>0, <2>1, <2>2, NoTurnType, Changes DEF PlanTypes
  <2>4. QED
    BY <1>0, <2>1, <2>3 DEF PlanTypes, ThreadTypes, Planned
<1>12. CASE Accounts!Pass
  BY <1>0, <1>12, NoTurnType DEF PlanTypes, ThreadTypes, Planned, Accounts!Pass, Accounts!router, Accounts!history
<1>13. CASE Accounts!Crash
  BY <1>0, <1>13, NoTurnType DEF PlanTypes, ThreadTypes, Planned, Accounts!Crash, Accounts!router, Accounts!history
<1>14. CASE UNCHANGED Accounts!vars
  BY <1>0, <1>14 DEF PlanTypes, ThreadTypes, Planned, Accounts!vars, Accounts!router, Accounts!history
<1>15. QED
  BY <1>1, <1>2, <1>3, <1>4, <1>5, <1>6, <1>7, <1>8, <1>9, <1>10, <1>11, <1>12, <1>13, <1>14 DEF Accounts!Next

LEMMA RotationStep ==
    ASSUME Accounts!ConstantsType
    PROVE  AccountTypes /\ Rotation /\ [Accounts!Next]_(Accounts!vars) => Rotation'
<1> SUFFICES ASSUME AccountTypes, Rotation, [Accounts!Next]_(Accounts!vars) PROVE Rotation'
  OBVIOUS
<1>1. ASSUME NEW t \in AccountThreads, Accounts!Select(t) PROVE Rotation'
  <2> SUFFICES ASSUME config.strategy = "round_robin", last' # Accounts!None
               PROVE  cursor'.next = Accounts!After(Accounts!Index(last'))
    BY <1>1 DEF Accounts!Select, Rotation
  <2>1. step[t] = "selecting" /\ seen[t].until \in [Profiles -> Nat] /\ seen[t].cursor = cursor
    BY <1>1 DEF Accounts!Select, AccountTypes, LockTypes
  <2>2. PICK s \in Accounts!Selections(seen[t].until, cursor, Accounts!Current(t)) :
            /\ cursor' = s.cursor
            /\ last' = IF Accounts!ByStrategy(seen[t].until, Accounts!Current(t))
                       THEN s.profile ELSE last
    BY <1>1, <2>1 DEF Accounts!Select
  <2>3. CASE Accounts!ByStrategy(seen[t].until, Accounts!Current(t))
    <3> DEFINE p == Accounts!FirstFrom(cursor.next, Accounts!Available(seen[t].until))
    <3>1. s = [profile |-> p, cursor |-> [cursor EXCEPT !.next = Accounts!After(Accounts!Index(p))]]
      BY <2>2, <2>3 DEF Accounts!Selections, Accounts!ByStrategy, Accounts!Picks
    <3> HIDE DEF p
    <3>2. cursor'.next = Accounts!After(Accounts!Index(p)) /\ last' = p
      BY <2>2, <2>3, <3>1 DEF AccountTypes, PoolTypes, Cursor
    <3>3. QED
      BY <3>2
  <2>4. CASE ~Accounts!ByStrategy(seen[t].until, Accounts!Current(t))
    <3>1. cursor' = cursor /\ last' = last
      BY <2>2, <2>4 DEF Accounts!Selections, Accounts!ByStrategy
    <3>2. QED
      BY <3>1 DEF Rotation
  <2>5. QED
    BY <2>3, <2>4
<1>2. CASE UNCHANGED <<config, cursor, last>>
  BY <1>2 DEF Rotation
<1>3. ASSUME NEW t \in AccountThreads,
             \/ Accounts!Begin(t) \/ Accounts!Look(t) \/ Accounts!Copy(t) \/ Accounts!CopyFails(t)
             \/ Accounts!SetPin(t) \/ Accounts!PlanFails(t) \/ Accounts!Open(t) \/ Accounts!Ends(t)
             \/ Accounts!Rejected(t) \/ Accounts!Finish(t)
      PROVE  UNCHANGED <<config, cursor, last>>
  BY <1>3 DEF Accounts!Begin, Accounts!Look, Accounts!Copy, Accounts!CopyFails, Accounts!SetPin,
              Accounts!PlanFails, Accounts!Open, Accounts!Ends, Accounts!Rejected, Accounts!Finish,
              Accounts!router, Accounts!history
<1>4. ASSUME Accounts!Pass \/ Accounts!Crash \/ UNCHANGED Accounts!vars
      PROVE  UNCHANGED <<config, cursor, last>>
  BY <1>4 DEF Accounts!Pass, Accounts!Crash, Accounts!vars, Accounts!router, Accounts!history
<1>5. QED
  BY <1>1, <1>2, <1>3, <1>4 DEF Accounts!Next

LEMMA WholeStep ==
    ASSUME Accounts!ConstantsType, AccountInv, [Accounts!Next]_(Accounts!vars),
           NEW u \in AccountThreads \ impaired'
    PROVE  Whole(u)'
<1> USE DEF Whole, Home, Accounts!Home
<1>0. /\ PoolTypes /\ ThreadTypes /\ PlanTypes /\ Accounts!None \notin Profiles
      /\ u \notin impaired => Whole(u)
  BY DEF AccountInv, AccountTypes, Accounts!ConstantsType, Profiles
<1>1. ASSUME NEW t \in AccountThreads, Accounts!Begin(t) PROVE Whole(u)'
  <2>1. CASE u # t
    <3>1. kept'[u] = kept[u] /\ plan'[u] = plan[u] /\ step'[u] = step[u]
          /\ session'[u] = session[u] /\ pin'[u] = pin[u] /\ u \notin impaired
      BY <1>0, <1>1, <2>1 DEF Accounts!Begin, ThreadTypes, PlanTypes, Accounts!router, Accounts!history
    <3>2. QED
      BY <1>0, <3>1
  <2>2. CASE u = t
    BY <1>0, <1>1, <2>2 DEF Accounts!Begin, ThreadTypes, PlanTypes, Planned, Accounts!Turn,
       Accounts!NoTurn, Accounts!Moves, Profiles, Accounts!router, Accounts!history
  <2>3. QED
    BY <2>1, <2>2
<1>2. ASSUME NEW t \in AccountThreads, Accounts!Look(t) PROVE Whole(u)'
  <2>1. CASE u # t
    <3>1. kept'[u] = kept[u] /\ plan'[u] = plan[u] /\ step'[u] = step[u]
          /\ session'[u] = session[u] /\ pin'[u] = pin[u] /\ u \notin impaired
      BY <1>0, <1>2, <2>1 DEF Accounts!Look, ThreadTypes, PlanTypes, Accounts!router, Accounts!history
    <3>2. QED
      BY <1>0, <3>1
  <2>2. CASE u = t
    BY <1>0, <1>2, <2>2 DEF Accounts!Look, ThreadTypes, PlanTypes, Planned, Accounts!Turn,
       Accounts!NoTurn, Accounts!Moves, Profiles, Accounts!router, Accounts!history
  <2>3. QED
    BY <2>1, <2>2
<1>3. ASSUME NEW t \in AccountThreads, Accounts!Select(t) PROVE Whole(u)'
  <2>1. CASE u # t
    <3>1. kept'[u] = kept[u] /\ plan'[u] = plan[u] /\ step'[u] = step[u]
          /\ session'[u] = session[u] /\ pin'[u] = pin[u] /\ u \notin impaired
      BY <1>0, <1>3, <2>1 DEF Accounts!Select, ThreadTypes, PlanTypes, Accounts!router, Accounts!history
    <3>2. QED
      BY <1>0, <3>1
  <2>2. CASE u = t
    BY <1>0, <1>3, <2>2 DEF Accounts!Select, ThreadTypes, PlanTypes, Planned, Accounts!Turn,
       Accounts!NoTurn, Accounts!Moves, Profiles, Accounts!router, Accounts!history
  <2>3. QED
    BY <2>1, <2>2
<1>4. ASSUME NEW t \in AccountThreads, Accounts!Copy(t) PROVE Whole(u)'
  <2>1. CASE u # t
    <3>1. kept'[u] = kept[u] /\ plan'[u] = plan[u] /\ step'[u] = step[u]
          /\ session'[u] = session[u] /\ pin'[u] = pin[u] /\ u \notin impaired
      BY <1>0, <1>4, <2>1 DEF Accounts!Copy, ThreadTypes, PlanTypes, Accounts!router, Accounts!history
    <3>2. QED
      BY <1>0, <3>1
  <2>2. CASE u = t
    <3>1. u \notin impaired /\ Whole(u) /\ step[u] = "moving" /\ step'[u] = "pinning"
      BY <1>0, <1>4, <2>2 DEF Accounts!Copy, ThreadTypes, Accounts!history
    <3>2. /\ UNCHANGED <<session, pin>> /\ Home(u)' = Home(u)
          /\ plan[u].resume = session[u] /\ plan[u].resume \in BOOLEAN
          /\ plan[u].resume => kept[u][Home(u)] = "full"
          /\ plan[u].profile \in Profiles
      BY <1>0, <1>4, <2>2, <3>1 DEF Accounts!Copy, PlanTypes, Planned, Accounts!Turn, Whole, Home,
         Accounts!Home
    <3>3. CASE ~Accounts!Moves(t)
      <4>1. UNCHANGED <<kept, plan>> /\ (plan[u].resume => plan[u].profile = Home(u))
        BY <1>4, <2>2, <3>3 DEF Accounts!Copy, Accounts!Moves, Home
      <4>2. QED
        BY <3>1, <3>2, <4>1 DEF Whole
    <3>4. CASE Accounts!Moves(t)
      <4>1. plan[u].resume /\ plan[u].profile # Home(u) /\ kept[u][Home(u)] = "full"
        BY <2>2, <3>2, <3>4 DEF Accounts!Moves, Home
      <4>2. plan' = plan /\ kept' = [kept EXCEPT ![u][plan[u].profile] = "full"]
        BY <1>4, <2>2, <3>4, <4>1 DEF Accounts!Copy, Home
      <4>3. kept'[u][plan[u].profile] = "full" /\ kept'[u][Home(u)] = "full"
        BY <1>0, <2>2, <3>2, <4>1, <4>2 DEF ThreadTypes
      <4>4. QED
        BY <3>1, <3>2, <4>2, <4>3 DEF Whole
    <3>5. QED
      BY <3>3, <3>4
  <2>3. QED
    BY <2>1, <2>2
<1>5. ASSUME NEW t \in AccountThreads, Accounts!CopyFails(t) PROVE Whole(u)'
  <2>1. u # t /\ u \notin impaired
    BY <1>5 DEF Accounts!CopyFails
  <2>2. kept'[u] = kept[u] /\ plan'[u] = plan[u] /\ step'[u] = step[u] /\ UNCHANGED <<session, pin>>
    BY <1>0, <1>5, <2>1 DEF Accounts!CopyFails, ThreadTypes, PlanTypes
  <2>3. QED
    BY <1>0, <2>1, <2>2
<1>6. ASSUME NEW t \in AccountThreads, Accounts!SetPin(t) PROVE Whole(u)'
  <2>1. CASE u # t
    <3>1. kept'[u] = kept[u] /\ plan'[u] = plan[u] /\ step'[u] = step[u]
          /\ session'[u] = session[u] /\ pin'[u] = pin[u] /\ u \notin impaired
      BY <1>0, <1>6, <2>1 DEF Accounts!SetPin, ThreadTypes, PlanTypes, Accounts!router, Accounts!history
    <3>2. QED
      BY <1>0, <3>1
  <2>2. CASE u = t
    BY <1>0, <1>6, <2>2 DEF Accounts!SetPin, ThreadTypes, PlanTypes, Planned, Accounts!Turn,
       Accounts!NoTurn, Accounts!Moves, Profiles, Accounts!router, Accounts!history
  <2>3. QED
    BY <2>1, <2>2
<1>7. ASSUME NEW t \in AccountThreads, Accounts!PlanFails(t) PROVE Whole(u)'
  <2>1. CASE u # t
    <3>1. kept'[u] = kept[u] /\ plan'[u] = plan[u] /\ step'[u] = step[u]
          /\ session'[u] = session[u] /\ pin'[u] = pin[u] /\ u \notin impaired
      BY <1>0, <1>7, <2>1 DEF Accounts!PlanFails, ThreadTypes, PlanTypes, Accounts!router, Accounts!history
    <3>2. QED
      BY <1>0, <3>1
  <2>2. CASE u = t
    BY <1>0, <1>7, <2>2 DEF Accounts!PlanFails, ThreadTypes, PlanTypes, Planned, Accounts!Turn,
       Accounts!NoTurn, Accounts!Moves, Profiles, Accounts!router, Accounts!history
  <2>3. QED
    BY <2>1, <2>2
<1>8. ASSUME NEW t \in AccountThreads, Accounts!Open(t) PROVE Whole(u)'
  <2>1. CASE u # t
    <3>1. kept'[u] = kept[u] /\ plan'[u] = plan[u] /\ step'[u] = step[u]
          /\ session'[u] = session[u] /\ pin'[u] = pin[u] /\ u \notin impaired
      BY <1>0, <1>8, <2>1 DEF Accounts!Open, ThreadTypes, PlanTypes, Accounts!router, Accounts!history
    <3>2. QED
      BY <1>0, <3>1
  <2>2. CASE u = t
    BY <1>0, <1>8, <2>2 DEF Accounts!Open, ThreadTypes, PlanTypes, Planned, Accounts!Turn,
       Accounts!NoTurn, Accounts!Moves, Profiles, Accounts!router, Accounts!history
  <2>3. QED
    BY <2>1, <2>2
<1>9. ASSUME NEW t \in AccountThreads, Accounts!Ends(t) PROVE Whole(u)'
  <2>1. CASE u # t
    <3>1. kept'[u] = kept[u] /\ plan'[u] = plan[u] /\ step'[u] = step[u]
          /\ session'[u] = session[u] /\ pin'[u] = pin[u] /\ u \notin impaired
      BY <1>0, <1>9, <2>1 DEF Accounts!Ends, ThreadTypes, PlanTypes, Accounts!router, Accounts!history
    <3>2. QED
      BY <1>0, <3>1
  <2>2. CASE u = t
    BY <1>0, <1>9, <2>2 DEF Accounts!Ends, ThreadTypes, PlanTypes, Planned, Accounts!Turn,
       Accounts!NoTurn, Accounts!Moves, Profiles, Accounts!router, Accounts!history
  <2>3. QED
    BY <2>1, <2>2
<1>10. ASSUME NEW t \in AccountThreads, Accounts!Rejected(t) PROVE Whole(u)'
  <2>1. CASE u # t
    <3>1. kept'[u] = kept[u] /\ plan'[u] = plan[u] /\ step'[u] = step[u]
          /\ session'[u] = session[u] /\ pin'[u] = pin[u] /\ u \notin impaired
      BY <1>0, <1>10, <2>1 DEF Accounts!Rejected, ThreadTypes, PlanTypes, Accounts!router, Accounts!history
    <3>2. QED
      BY <1>0, <3>1
  <2>2. CASE u = t
    BY <1>0, <1>10, <2>2 DEF Accounts!Rejected, ThreadTypes, PlanTypes, Planned, Accounts!Turn,
       Accounts!NoTurn, Accounts!Moves, Profiles, Accounts!router, Accounts!history
  <2>3. QED
    BY <2>1, <2>2
<1>11. ASSUME NEW t \in AccountThreads, Accounts!Finish(t) PROVE Whole(u)'
  <2>1. CASE u # t
    <3>1. kept'[u] = kept[u] /\ plan'[u] = plan[u] /\ step'[u] = step[u]
          /\ session'[u] = session[u] /\ pin'[u] = pin[u] /\ u \notin impaired
      BY <1>0, <1>11, <2>1 DEF Accounts!Finish, ThreadTypes, PlanTypes, Accounts!router, Accounts!history
    <3>2. QED
      BY <1>0, <3>1
  <2>2. CASE u = t
    BY <1>0, <1>11, <2>2 DEF Accounts!Finish, ThreadTypes, PlanTypes, Planned, Accounts!Turn,
       Accounts!NoTurn, Accounts!Moves, Profiles, Accounts!router, Accounts!history
  <2>3. QED
    BY <2>1, <2>2
<1>12. CASE Accounts!Pass
  BY <1>0, <1>12 DEF Accounts!Pass, Accounts!router, Accounts!history
<1>13. CASE Accounts!Crash
  BY <1>0, <1>13 DEF Accounts!Crash, Accounts!history, ThreadTypes
<1>14. CASE UNCHANGED Accounts!vars
  BY <1>0, <1>14 DEF Accounts!vars, Accounts!router, Accounts!history
<1>15. QED
  BY <1>1, <1>2, <1>3, <1>4, <1>5, <1>6, <1>7, <1>8, <1>9, <1>10, <1>11, <1>12, <1>13, <1>14 DEF Accounts!Next

LEMMA AccountStep ==
    ASSUME Accounts!ConstantsType
    PROVE  AccountInv /\ [Accounts!Next]_(Accounts!vars) => AccountInv'
BY PoolTypesStep, ThreadTypesStep, LockTypesStep, PlanTypesStep, RotationStep, WholeStep
   DEF AccountInv, AccountTypes

LEMMA RotationFollows ==
    ASSUME AccountInv, [Accounts!Next]_(Accounts!vars), Accounts!ConstantsType
    PROVE  [\A t \in AccountThreads :
              (/\ config.strategy = "round_robin" /\ Len(Pool) > 1
               /\ step[t] = "selecting" /\ step'[t] = "moving"
               /\ Accounts!ByStrategy(seen[t].until, Accounts!Current(t))
               /\ Accounts!Available(seen[t].until) = Accounts!Profiles)
              => plan'[t].profile # last]_(Accounts!vars)
<1>1. ASSUME AccountInv, Accounts!Next, NEW t \in AccountThreads,
             config.strategy = "round_robin", Len(Pool) > 1,
             step[t] = "selecting", step'[t] = "moving",
             Accounts!ByStrategy(seen[t].until, Accounts!Current(t)),
             Accounts!Available(seen[t].until) = Profiles
      PROVE  plan'[t].profile # last
  <2>1. Accounts!Select(t)
    <3>1. \A u \in AccountThreads : Accounts!Select(u) => u = t
      BY <1>1 DEF AccountInv, AccountTypes, LockTypes, ThreadTypes, PlanTypes, Accounts!Select
    <3>2. ASSUME NEW u \in AccountThreads,
                 \/ Accounts!Begin(u) \/ Accounts!Look(u) \/ Accounts!Copy(u) \/ Accounts!CopyFails(u)
                 \/ Accounts!SetPin(u) \/ Accounts!PlanFails(u) \/ Accounts!Open(u)
                 \/ Accounts!Ends(u) \/ Accounts!Rejected(u) \/ Accounts!Finish(u)
          PROVE  FALSE
      BY <1>1, <3>2 DEF AccountInv, AccountTypes, LockTypes, ThreadTypes, PlanTypes, Accounts!Begin, Accounts!Look,
         Accounts!Copy, Accounts!CopyFails, Accounts!SetPin, Accounts!PlanFails, Accounts!Open,
         Accounts!Ends, Accounts!Rejected, Accounts!Finish
    <3>3. ~Accounts!Pass /\ ~Accounts!Crash
      BY <1>1 DEF Accounts!Pass, Accounts!Crash
    <3>4. QED
      BY <1>1, <3>1, <3>2, <3>3 DEF Accounts!Next
  <2>2. seen[t].cursor = cursor /\ cursor.next \in 1..Len(Pool) /\ plan[t] \in Accounts!Turn
        /\ plan \in [AccountThreads -> Accounts!Turn]
    BY <1>1 DEF AccountInv, AccountTypes, PoolTypes, LockTypes, PlanTypes, Cursor
  <2>3. plan'[t].profile = Accounts!FirstFrom(cursor.next, Profiles)
    <3>1. \E s \in Accounts!Picks(Profiles, cursor) : plan' = [plan EXCEPT ![t].profile = s.profile]
      BY <1>1, <2>1, <2>2 DEF Accounts!Select, Accounts!Selections, Accounts!ByStrategy
    <3>2. \A s \in Accounts!Picks(Profiles, cursor) :
            s.profile = Accounts!FirstFrom(cursor.next, Profiles)
      BY <1>1 DEF Accounts!Picks
    <3>3. QED
      BY <2>2, <3>1, <3>2 DEF Accounts!Turn
  <2>4. plan'[t].profile = Pool[cursor.next]
    BY <2>2, <2>3, FirstOfAll
  <2>5. CASE last = Accounts!None
    BY <2>2, <2>4, <2>5, IndexOf DEF Accounts!ConstantsType, Profiles
  <2>6. CASE last # Accounts!None
    <3>1. last \in Profiles /\ cursor.next = Accounts!After(Accounts!Index(last))
      BY <1>1, <2>6 DEF AccountInv, AccountTypes, PoolTypes, Rotation
    <3>2. cursor.next # Accounts!Index(last)
      BY <1>1, <3>1, Indexes, NextIndex
    <3>3. QED
      BY <2>2, <2>4, <3>2, IndexOf
  <2>7. QED
    BY <2>5, <2>6
<1>2. QED
  BY <1>1 DEF Profiles

LEMMA AccountFacts ==
    ASSUME AccountInv PROVE Accounts!TypeOK /\ Accounts!ResumesWhole
<1>1. Accounts!TypeOK
  BY DEF AccountInv, AccountTypes, PoolTypes, ThreadTypes, LockTypes, PlanTypes, Cursor, Profiles,
         Accounts!TypeOK
<1>2. Accounts!ResumesWhole
  BY DEF AccountInv, Whole, Accounts!ResumesWhole
<1>3. QED
  BY <1>1, <1>2

-----------------------------------------------------------------------------
(* Outbox.  The lines of a file, as a set. *)
Lines(s) == {s[i] : i \in 1..Len(s)}
Distinct(s) == \A i, j \in 1..Len(s) : s[i] = s[j] => i = j

LEMMA AppendLines ==
    ASSUME NEW s \in Seq(Files), NEW f \in Files
    PROVE  Append(s, f) \in Seq(Files) /\ Lines(Append(s, f)) = Lines(s) \cup {f}
<1>1. /\ Append(s, f) \in Seq(Files) /\ Len(Append(s, f)) = Len(s) + 1
      /\ Append(s, f)[Len(s) + 1] = f /\ \A i \in 1..Len(s) : Append(s, f)[i] = s[i]
  OBVIOUS
<1>2. 1..(Len(s) + 1) = 1..Len(s) \cup {Len(s) + 1}
  OBVIOUS
<1>3. QED
  BY <1>1, <1>2 DEF Lines

LEMMA TailLines ==
    ASSUME NEW s \in Seq(Files), s # <<>>
    PROVE  /\ Head(s) \in Files /\ Tail(s) \in Seq(Files)
           /\ Lines(s) = {Head(s)} \cup Lines(Tail(s))
           /\ Distinct(s) => Distinct(Tail(s)) /\ Head(s) \notin Lines(Tail(s))
           /\ Tail(s) = <<>> <=> Len(s) = 1
<1>1. /\ Head(s) = s[1] /\ Head(s) \in Files /\ Tail(s) \in Seq(Files)
      /\ Len(s) \in Nat /\ Len(s) > 0 /\ Len(Tail(s)) = Len(s) - 1
      /\ \A i \in 1..Len(Tail(s)) : Tail(s)[i] = s[i + 1]
  OBVIOUS
<1>2. Lines(s) \subseteq {Head(s)} \cup Lines(Tail(s))
  <2>1. ASSUME NEW i \in 1..Len(s), i # 1 PROVE s[i] \in Lines(Tail(s))
    <3>1. i - 1 \in 1..Len(Tail(s)) /\ s[i] = Tail(s)[i - 1]
      BY <1>1, <2>1
    <3>2. QED
      BY <3>1 DEF Lines
  <2>2. QED
    BY <1>1, <2>1 DEF Lines
<1>3. {Head(s)} \cup Lines(Tail(s)) \subseteq Lines(s)
  <2>1. \A i \in 1..Len(Tail(s)) : i + 1 \in 1..Len(s)
    BY <1>1
  <2>2. 1 \in 1..Len(s)
    BY <1>1
  <2>3. QED
    BY <1>1, <2>1, <2>2 DEF Lines
<1>4. Distinct(s) => Distinct(Tail(s))
  BY <1>1 DEF Distinct
<1>5. Distinct(s) => Head(s) \notin Lines(Tail(s))
  BY <1>1 DEF Distinct, Lines
<1>6. Tail(s) = <<>> <=> Len(s) = 1
  <2>1. Tail(s) = <<>> <=> Len(Tail(s)) = 0
    BY <1>1, EmptySeq
  <2>2. QED
    BY <1>1, <2>1
<1>7. QED
  BY <1>1, <1>2, <1>3, <1>4, <1>5, <1>6

(* Up to some place, any number of the elements of a set of positions.     *)
LEMMA Counted ==
    ASSUME NEW N \in Nat, NEW F \in SUBSET (1..N), NEW n \in 1..Cardinality(F)
    PROVE  \E i \in F : Cardinality(F \cap (1..i)) = n
<1> DEFINE upTo(i) == F \cap (1..i)
           T == {i \in Nat : Cardinality(upTo(i)) >= n}
<1>1. \A i \in Nat : IsFiniteSet(upTo(i)) /\ Cardinality(upTo(i)) \in Nat
  <2>1. \A i \in Nat : IsFiniteSet(1..i) /\ upTo(i) \subseteq 1..i
    BY FS_Interval
  <2>2. QED
    BY <2>1, FS_Subset, FS_CardinalityType
<1>2. upTo(N) = F
  OBVIOUS
<1>3. Cardinality(F) \in Nat
  BY <1>1, <1>2
<1>4. N \in T
  BY <1>2, <1>3
<1>5. PICK i \in T : \A j \in T : i <= j
  BY <1>4, LeastOf
<1>6. upTo(0) = {} /\ Cardinality({}) = 0
  BY FS_EmptySet
<1>7. i # 0 /\ i \in Nat
  BY <1>3, <1>6
<1>8. i - 1 \in Nat /\ i - 1 \notin T
  BY <1>5, <1>7
<1>9. upTo(i) = IF i \in F THEN upTo(i - 1) \cup {i} ELSE upTo(i - 1)
  BY <1>7
<1>10. i \in F
  BY <1>8, <1>9
<1>11. i \notin upTo(i - 1)
  BY <1>7
<1>12. Cardinality(upTo(i - 1) \cup {i}) = Cardinality(upTo(i - 1)) + 1
  BY <1>1, <1>8, <1>11, FS_AddElement
<1>13. Cardinality(upTo(i)) = n
  <2>1. Cardinality(upTo(i)) = Cardinality(upTo(i - 1)) + 1
    BY <1>9, <1>10, <1>12
  <2>2. ~(Cardinality(upTo(i - 1)) >= n) /\ Cardinality(upTo(i)) >= n
    BY <1>8
  <2>3. Cardinality(upTo(i - 1)) \in Nat /\ n \in Nat
    BY <1>1, <1>3, <1>8
  <2> HIDE DEF upTo, T
  <2>4. QED
    BY <2>1, <2>2, <2>3
<1>14. QED
  BY <1>10, <1>13

LEMMA SameCardinality == \A S : Outbox!Cardinality(S) = Cardinality(S)
BY Zenon DEF Cardinality, Outbox!Cardinality

(* Unique keeps some of the lines, each once. *)
LEMMA UniqueLines ==
    ASSUME NEW s \in Seq(Files)
    PROVE  /\ Outbox!Unique(s) \in Seq(Files) /\ Distinct(Outbox!Unique(s))
           /\ Lines(Outbox!Unique(s)) \subseteq Lines(s)
           /\ s # <<>> => Outbox!Unique(s) # <<>>
<1> DEFINE F == Outbox!Firsts(s)
           C == Outbox!Cardinality(F)
           place(n) == CHOOSE i \in F : Outbox!Cardinality(F \cap (1..i)) = n
           u == [n \in 1..C |-> s[place(n)]]
<1>1. Outbox!Unique(s) = u
  BY Zenon DEF Outbox!Unique
<1>2. F \subseteq 1..Len(s) /\ Len(s) \in Nat
  BY DEF Outbox!Firsts
<1>3. C \in Nat
  <2>1. IsFiniteSet(F)
    <3>1. IsFiniteSet(1..Len(s))
      BY <1>2, FS_Interval
    <3> HIDE DEF F
    <3>2. QED
      BY <1>2, <3>1, FS_Subset
  <2>2. QED
    BY <2>1, FS_CardinalityType, SameCardinality
<1>4. \A i, j \in F : s[i] = s[j] => i = j
  <2>1. ASSUME NEW i \in F, NEW j \in F, s[i] = s[j], i < j PROVE FALSE
    BY <1>2, <2>1 DEF Outbox!Firsts
  <2>2. QED
    BY <1>2, <2>1
<1>5. \A n \in 1..C : place(n) \in F /\ Cardinality(F \cap (1..place(n))) = n
  <2>1. \A n \in 1..C : \E i \in F : Cardinality(F \cap (1..i)) = n
    BY <1>2, Counted, SameCardinality
  <2>2. QED
    BY <2>1, SameCardinality
<1>6. s # <<>> => C # 0
  <2> SUFFICES ASSUME s # <<>> PROVE C # 0
    OBVIOUS
  <2>1. 1 \in F
    BY DEF Outbox!Firsts
  <2>2. IsFiniteSet(F)
    <3>1. IsFiniteSet(1..Len(s))
      BY <1>2, FS_Interval
    <3> HIDE DEF F
    <3>2. QED
      BY <1>2, <3>1, FS_Subset
  <2>3. QED
    BY <2>1, <2>2, FS_EmptySet, SameCardinality
<1> HIDE DEF F, C, place
<1>7. u \in Seq(Files) /\ Len(u) = C
  <2>1. \A n \in 1..C : s[place(n)] \in Files
    <3>1. ASSUME NEW n \in 1..C PROVE place(n) \in 1..Len(s)
      BY <1>2, <1>5
    <3>2. \A i \in 1..Len(s) : s[i] \in Files
      OBVIOUS
    <3>3. QED
      BY <3>1, <3>2
  <2>2. QED
    BY <1>3, <2>1
<1>8. Distinct(u)
  <2>1. ASSUME NEW n \in 1..C, NEW m \in 1..C, s[place(n)] = s[place(m)] PROVE n = m
    BY <1>4, <1>5, <2>1
  <2>2. QED
    BY <1>7, <2>1 DEF Distinct
<1>9. Lines(u) \subseteq Lines(s)
  BY <1>2, <1>5, <1>7 DEF Lines
<1>10. s # <<>> => u # <<>>
  BY <1>6, <1>7
<1>11. QED
  BY <1>1, <1>7, <1>8, <1>9, <1>10

LEMMA MergeLines ==
    ASSUME NEW s \in Seq(Files), NEW r \in Seq(Files)
    PROVE  /\ Outbox!Merge(s, r) \in Seq(Files) /\ Distinct(Outbox!Merge(s, r))
           /\ Lines(Outbox!Merge(s, r)) \subseteq Lines(s) \cup Lines(r)
           /\ r \o s # <<>> => Outbox!Merge(s, r) # <<>>
<1>1. s \o r \in Seq(Files) /\ (r \o s # <<>> => s \o r # <<>>)
  OBVIOUS
<1>2. Lines(s \o r) \subseteq Lines(s) \cup Lines(r)
  <2>1. ASSUME NEW i \in 1..Len(s \o r) PROVE (s \o r)[i] \in Lines(s) \cup Lines(r)
    <3>1. /\ Len(s \o r) = Len(s) + Len(r) /\ Len(s) \in Nat /\ Len(r) \in Nat
          /\ (s \o r)[i] = IF i <= Len(s) THEN s[i] ELSE r[i - Len(s)]
      OBVIOUS
    <3>2. i > Len(s) => i - Len(s) \in 1..Len(r)
      BY <3>1
    <3>3. QED
      BY <3>1, <3>2 DEF Lines
  <2>2. QED
    BY <2>1 DEF Lines
<1>3. QED
  BY <1>1, <1>2, UniqueLines DEF Outbox!Merge

(* Unique loses no line. *)
LEMMA UniqueKeeps ==
    ASSUME NEW s \in Seq(Files) PROVE Lines(s) \subseteq Lines(Outbox!Unique(s))
<1> DEFINE F == Outbox!Firsts(s)
           C == Outbox!Cardinality(F)
           place(n) == CHOOSE i \in F : Outbox!Cardinality(F \cap (1..i)) = n
<1>1. Outbox!Unique(s) = [n \in 1..C |-> s[place(n)]] /\ Outbox!Unique(s) \in Seq(Files)
  BY Zenon, UniqueLines DEF Outbox!Unique
<1>2. F \subseteq 1..Len(s) /\ Len(s) \in Nat
  BY DEF Outbox!Firsts
<1>3. IsFiniteSet(F) /\ C = Cardinality(F) /\ C \in Nat
  <2>1. IsFiniteSet(F)
    <3>1. IsFiniteSet(1..Len(s))
      BY <1>2, FS_Interval
    <3> HIDE DEF F
    <3>2. QED
      BY <1>2, <3>1, FS_Subset
  <2>2. QED
    BY <2>1, FS_CardinalityType, SameCardinality
<1>4. ASSUME NEW i \in 1..Len(s) PROVE \E j \in F : s[j] = s[i]
  <2>1. {k \in 1..Len(s) : s[k] = s[i]} \in SUBSET Nat /\ i \in {k \in 1..Len(s) : s[k] = s[i]}
    BY <1>2
  <2>2. PICK j \in {k \in 1..Len(s) : s[k] = s[i]} :
               \A k \in {l \in 1..Len(s) : s[l] = s[i]} : j <= k
    BY <2>1, LeastOf
  <2>3. \A k \in 1..(j - 1) : s[k] # s[j]
    BY <1>2, <2>2
  <2>4. j \in DOMAIN s
    BY <2>2
  <2>5. QED
    BY <2>2, <2>3, <2>4 DEF Outbox!Firsts
<1> HIDE DEF F, C
<1>5. \A k : IsFiniteSet(F \cap (1..k)) /\ Cardinality(F \cap (1..k)) \in Nat
             /\ Cardinality(F \cap (1..k)) <= C
  <2>1. \A k : F \cap (1..k) \subseteq F
    OBVIOUS
  <2>2. QED
    BY <1>3, <2>1, FS_Subset, FS_CardinalityType
<1>6. ASSUME NEW i \in F, NEW j \in F, i < j
      PROVE  Cardinality(F \cap (1..i)) # Cardinality(F \cap (1..j))
  <2>1. F \cap (1..i) \subseteq F \cap (1..j) /\ j \in F \cap (1..j) /\ j \notin F \cap (1..i)
    BY <1>2, <1>6
  <2>2. Cardinality(F \cap (1..i)) = Cardinality(F \cap (1..j)) => F \cap (1..i) = F \cap (1..j)
    BY <1>5, <2>1, FS_Subset
  <2>3. QED
    BY <2>1, <2>2
<1>7. ASSUME NEW i \in F PROVE \E n \in 1..C : place(n) = i
  <2>1. Cardinality(F \cap (1..i)) \in 1..C
    <3>1. i \in F \cap (1..i)
      BY <1>2
    <3>2. Cardinality(F \cap (1..i)) # 0
      BY <1>5, <3>1, FS_EmptySet
    <3>3. /\ Cardinality(F \cap (1..i)) \in Nat
          /\ Cardinality(F \cap (1..i)) <= C
      BY <1>5
    <3> DEFINE c == Cardinality(F \cap (1..i))
    <3> HIDE DEF c
    <3>4. c \in Nat /\ c <= C /\ c # 0 => c \in 1..C
      BY <1>3
    <3>5. QED
      BY <3>2, <3>3, <3>4 DEF c
  <2>2. \A k \in F : Outbox!Cardinality(F \cap (1..k)) = Cardinality(F \cap (1..i)) => k = i
    BY <1>2, <1>6, SameCardinality
  <2>3. place(Cardinality(F \cap (1..i))) = i
    <3>1. Outbox!Cardinality(F \cap (1..i)) = Cardinality(F \cap (1..i))
      BY SameCardinality
    <3>2. QED
      BY <2>2, <3>1
  <2>4. QED
    BY <2>1, <2>3
<1> HIDE DEF place
<1>8. Len(Outbox!Unique(s)) = C
  BY <1>1, <1>3
<1>9. ASSUME NEW i \in 1..Len(s) PROVE s[i] \in Lines(Outbox!Unique(s))
  <2>1. PICK j \in F : s[j] = s[i]
    BY <1>4
  <2>2. PICK n \in 1..C : place(n) = j
    BY <1>7
  <2>3. Outbox!Unique(s)[n] = s[i]
    BY <1>1, <2>1, <2>2
  <2>4. QED
    BY <1>8, <2>3 DEF Lines
<1>10. QED
  BY <1>9 DEF Lines

LEMMA MergeKeeps ==
    ASSUME NEW s \in Seq(Files), NEW r \in Seq(Files)
    PROVE  Lines(s) \cup Lines(r) \subseteq Lines(Outbox!Merge(s, r))
<1>1. /\ s \o r \in Seq(Files) /\ Len(s \o r) = Len(s) + Len(r) /\ Len(s) \in Nat /\ Len(r) \in Nat
      /\ \A i \in 1..Len(s) : (s \o r)[i] = s[i]
      /\ \A i \in 1..Len(r) : (s \o r)[Len(s) + i] = r[i]
  OBVIOUS
<1>2. ASSUME NEW i \in 1..Len(s) PROVE s[i] \in Lines(s \o r)
  <2>1. i \in 1..Len(s \o r)
    BY <1>1
  <2>2. QED
    BY <1>1, <2>1 DEF Lines
<1>3. ASSUME NEW i \in 1..Len(r) PROVE r[i] \in Lines(s \o r)
  <2>1. Len(s) + i \in 1..Len(s \o r)
    BY <1>1
  <2>2. QED
    BY <1>1, <2>1 DEF Lines
<1>4. Lines(s) \cup Lines(r) \subseteq Lines(s \o r)
  BY <1>2, <1>3 DEF Lines
<1>5. QED
  BY <1>1, <1>4, UniqueKeeps DEF Outbox!Merge

(* Of a file's requests one is waiting while a line of the two files names *)
(* it; two when it is asked for again while the delivery sends it.         *)
Steps == {"idle", "queued", "read", "saved", "sending", "sent"}
OutboxTypes ==
    /\ marker \in Seq(Files) /\ saved \in Seq(Files) /\ paths \in [Deliveries -> Seq(Files)]
    /\ delivery \in [Deliveries -> Steps] /\ running \in BOOLEAN
    /\ owed \subseteq Files /\ raced \subseteq Files
    /\ requests \in [Files -> Nat] /\ sends \in [Files -> Nat] /\ unsure \in [Files -> Nat]
    /\ faults \in 0..MaxFaults
Holds(t) == delivery[t] \notin {"idle", "queued"}
OneHolder == \A t, u \in Deliveries : Holds(t) /\ Holds(u) => t = u
Handed == \A t \in Deliveries :
    /\ Holds(t) => paths[t] # <<>> /\ Distinct(paths[t])
    /\ delivery[t] = "read" => Lines(paths[t]) \subseteq Lines(marker) \cup Lines(saved)
    /\ delivery[t] \in {"saved", "sending", "sent"} => saved = paths[t]
At(k) == \E t \in Deliveries : delivery[t] = k
In(f, S) == IF f \in S THEN 1 ELSE 0
Waiting(f) ==
    IF At("sending") THEN In(f, Lines(marker)) + In(f, Lines(saved))
    ELSE IF At("sent") THEN In(f, Lines(marker)) + In(f, Lines(Tail(saved)))
    ELSE In(f, Lines(marker) \cup Lines(saved))
Accounted == \A f \in Files : sends[f] + Waiting(f) <= requests[f] + unsure[f]
OutboxInv == OutboxTypes /\ OneHolder /\ Handed /\ Accounted

LEMMA OutboxInit == Outbox!ConstantsType /\ Outbox!Init => OutboxInv
<1> SUFFICES ASSUME Outbox!ConstantsType, Outbox!Init PROVE OutboxInv
  OBVIOUS
<1>1. OutboxTypes
  BY DEF OutboxTypes, Steps, Outbox!Init, Outbox!ConstantsType
<1>2. OneHolder /\ Handed /\ ~At("sending") /\ ~At("sent")
  BY DEF OneHolder, Handed, Holds, At, Outbox!Init
<1>3. Lines(marker) = {} /\ Lines(saved) = {}
  BY DEF Lines, Outbox!Init
<1>4. Accounted
  <2>1. \A f \in Files : Waiting(f) = 0
    BY <1>2, <1>3 DEF Waiting, In
  <2>2. QED
    BY <2>1 DEF Accounted, Outbox!Init
<1>5. QED
  BY <1>1, <1>2, <1>4 DEF OutboxInv

(* A step of the delivery that holds the lock, or takes it. *)
LEMMA Moved ==
    ASSUME OutboxTypes, OneHolder, NEW t \in Deliveries, NEW k \in Steps,
           delivery' = [delivery EXCEPT ![t] = k],
           Holds(t) \/ (\A u \in Deliveries : ~Holds(u)) \/ k \in {"idle", "queued"}
    PROVE  /\ delivery' \in [Deliveries -> Steps] /\ OneHolder' /\ delivery'[t] = k
           /\ Holds(t) => \A j \in Steps \ {"idle", "queued"} : At(j) <=> j = delivery[t]
           /\ Holds(t) \/ k \notin {"idle", "queued"} =>
                 \A j \in Steps \ {"idle", "queued"} : At(j)' <=> j = k
           /\ ~Holds(t) => \A j \in Steps \ {"idle", "queued", k} : At(j)' <=> At(j)
           /\ \A u \in Deliveries : u # t => /\ delivery'[u] = delivery[u]
                                             /\ Holds(u)' => ~Holds(t) /\ k \in {"idle", "queued"}
<1>1. delivery \in [Deliveries -> Steps]
  BY DEF OutboxTypes
<1>2. \A u \in Deliveries : delivery'[u] = IF u = t THEN k ELSE delivery[u]
  BY <1>1
<1>3. delivery' \in [Deliveries -> Steps]
  BY <1>1
<1>4. OneHolder'
  BY <1>2 DEF OneHolder, Holds
<1>5. Holds(t) => \A j \in Steps \ {"idle", "queued"} : At(j) <=> j = delivery[t]
  BY DEF OneHolder, Holds, At
<1>6. Holds(t) \/ k \notin {"idle", "queued"} => \A u \in Deliveries : u # t => ~Holds(u)
  BY DEF OneHolder, Holds
<1>7. Holds(t) \/ k \notin {"idle", "queued"} =>
         \A j \in Steps \ {"idle", "queued"} : At(j)' <=> j = k
  BY <1>2, <1>6 DEF Holds, At
<1>8. ~Holds(t) => \A j \in Steps \ {"idle", "queued", k} : At(j)' <=> At(j)
  BY <1>2 DEF Holds, At
<1>9. \A u \in Deliveries : u # t => /\ delivery'[u] = delivery[u]
                                     /\ Holds(u)' => ~Holds(t) /\ k \in {"idle", "queued"}
  BY <1>2, <1>6 DEF Holds
<1>10. QED
  BY <1>2, <1>3, <1>4, <1>5, <1>7, <1>8, <1>9

LEMMA InFacts ==
    /\ \A f, S : In(f, S) \in {0, 1}
    /\ \A f, S, T : In(f, S \cup T) <= In(f, S) + In(f, T)
    /\ \A f, S, T : S \subseteq T => In(f, S) <= In(f, T)
    /\ \A f : Waiting(f) \in {0, 1, 2}
BY DEF In, Waiting

LEMMA WaitingNow == (\A f : Waiting(f) \in {0, 1, 2}) /\ (\A f : Waiting(f)' \in {0, 1, 2})
BY DEF In, Waiting

(* Neither file nor the marker grows, and no delivery is sending after it. *)
LEMMA Settled ==
    ASSUME ~At("sending")', ~At("sent")', NEW f,
           Lines(marker)' \cup Lines(saved)' \subseteq Lines(marker) \cup Lines(saved)
    PROVE  /\ Waiting(f)' = In(f, Lines(marker)' \cup Lines(saved)')
           /\ Waiting(f)' <= In(f, Lines(marker) \cup Lines(saved))
           /\ ~At("sent") => Waiting(f)' <= Waiting(f)
<1>1. Waiting(f)' = In(f, Lines(marker)' \cup Lines(saved)')
  BY DEF Waiting, In, Lines
<1>2. In(f, Lines(marker)' \cup Lines(saved)') <= In(f, Lines(marker) \cup Lines(saved))
  BY InFacts
<1>3. ~At("sent") => In(f, Lines(marker) \cup Lines(saved)) <= Waiting(f)
  BY InFacts DEF Waiting
<1>4. Waiting(f) \in Nat /\ Waiting(f)' \in Nat /\ In(f, Lines(marker) \cup Lines(saved)) \in Nat
  BY <1>1, InFacts
<1>5. QED
  BY <1>1, <1>2, <1>3, <1>4

(* What is sent was waiting, or a request or a failure accounts for it.    *)
LEMMA StillAccounted ==
    ASSUME OutboxTypes, OutboxTypes', Accounted, NEW f \in Files,
           NEW given \in Nat, NEW asked \in Nat, NEW lost \in Nat,
           sends'[f] = sends[f] + given, requests'[f] = requests[f] + asked,
           unsure'[f] = unsure[f] + lost, Waiting(f)' + given <= Waiting(f) + asked + lost
    PROVE  (sends[f] + Waiting(f) <= requests[f] + unsure[f])'
<1>1. sends[f] \in Nat /\ requests[f] \in Nat /\ unsure[f] \in Nat
  BY DEF OutboxTypes
<1>2. Waiting(f) \in Nat /\ Waiting(f)' \in Nat
  BY WaitingNow
<1>3. sends[f] + Waiting(f) <= requests[f] + unsure[f]
  BY DEF Accounted
<1>4. QED
  BY <1>1, <1>2, <1>3

LEMMA RequestStep ==
    ASSUME OutboxInv, NEW f \in Files, Outbox!Request(f) PROVE OutboxInv'
<1>0. OutboxTypes /\ OneHolder /\ Handed /\ Accounted
  BY DEF OutboxInv
<1>1. /\ marker' = Append(marker, f) /\ requests' = [requests EXCEPT ![f] = @ + 1]
      /\ UNCHANGED <<saved, paths, delivery, running, sends, unsure, faults>>
      /\ owed' \subseteq Files /\ raced' \subseteq Files
  BY <1>0 DEF Outbox!Request, OutboxTypes
<1>2. marker' \in Seq(Files) /\ Lines(marker)' = Lines(marker) \cup {f}
  <2>1. marker \in Seq(Files)
    BY <1>0 DEF OutboxTypes
  <2>2. Append(marker, f) \in Seq(Files) /\ Lines(Append(marker, f)) = Lines(marker) \cup {f}
    BY <2>1, AppendLines
  <2>3. Lines(marker)' = Lines(Append(marker, f))
    BY <1>1 DEF Lines
  <2>4. QED
    BY <1>1, <2>2, <2>3
<1>3. OutboxTypes'
  <2>1. requests \in [Files -> Nat]
    BY <1>0 DEF OutboxTypes
  <2>2. requests' \in [Files -> Nat]
    BY <1>1, <2>1
  <2>3. QED
    BY <1>0, <1>1, <1>2, <2>2 DEF OutboxTypes
<1>4. OneHolder' /\ Handed' /\ \A k : At(k)' <=> At(k)
  <2>1. Lines(saved)' = Lines(saved) /\ \A t : Lines(paths[t])' = Lines(paths[t])
                                             /\ (Distinct(paths[t])' <=> Distinct(paths[t]))
    BY <1>1 DEF Lines, Distinct
  <2>2. Handed'
    BY <1>0, <1>1, <1>2, <2>1 DEF Handed, Holds
  <2>3. QED
    BY <1>0, <1>1, <2>2 DEF OneHolder, Holds, At
<1>5. Lines(saved)' = Lines(saved) /\ Lines(Tail(saved))' = Lines(Tail(saved))
  BY <1>1 DEF Lines
<1>6. ASSUME NEW g \in Files PROVE (sends[g] + Waiting(g) <= requests[g] + unsure[g])'
  <2>1. Waiting(g)' <= Waiting(g) + In(g, {f})
    BY <1>2, <1>4, <1>5 DEF Waiting, In
  <2>2. requests'[g] = requests[g] + In(g, {f})
    BY <1>0, <1>1 DEF OutboxTypes, In
  <2>3. sends'[g] = sends[g] + 0 /\ unsure'[g] = unsure[g] + 0
    BY <1>0, <1>1 DEF OutboxTypes
  <2>4. In(g, {f}) \in Nat /\ Waiting(g) \in Nat /\ Waiting(g)' \in Nat
    BY WaitingNow DEF In
  <2>5. Waiting(g)' + 0 <= Waiting(g) + In(g, {f}) + 0
    BY <2>1, <2>4
  <2>6. QED
    BY <1>0, <1>3, <2>2, <2>3, <2>4, <2>5, StillAccounted
<1>7. QED
  BY <1>3, <1>4, <1>6 DEF OutboxInv, Accounted

LEMMA HolderMoved ==
    ASSUME OutboxTypes, OneHolder, NEW t \in Deliveries, NEW k \in Steps,
           delivery' = [delivery EXCEPT ![t] = k], Holds(t), NEW before, delivery[t] = before
    PROVE  /\ delivery' \in [Deliveries -> Steps] /\ OneHolder'
           /\ \A j \in Steps \ {"idle", "queued"} : At(j) <=> j = before
           /\ \A j \in Steps \ {"idle", "queued"} : At(j)' <=> j = k
BY Moved
(* After a step of t, no other delivery holds the lock unless t did not.   *)
LEMMA HandedOn ==
    ASSUME OutboxTypes, OneHolder, Handed, NEW t \in Deliveries, NEW k \in Steps,
           delivery' = [delivery EXCEPT ![t] = k],
           Holds(t) \/ (\A u \in Deliveries : ~Holds(u)) \/ k \in {"idle", "queued"},
           \A u \in Deliveries : u # t => paths'[u] = paths[u],
           Holds(t) \/ UNCHANGED <<marker, saved>>,
           k \notin {"idle", "queued"} => paths'[t] # <<>> /\ Distinct(paths'[t]),
           k = "read" => Lines(paths'[t]) \subseteq Lines(marker') \cup Lines(saved'),
           k \in {"saved", "sending", "sent"} => saved' = paths'[t]
    PROVE  Handed'
<1>1. /\ delivery'[t] = k
      /\ \A u \in Deliveries : u # t => /\ delivery'[u] = delivery[u]
                                        /\ Holds(u)' => ~Holds(t) /\ k \in {"idle", "queued"}
  BY Moved
<1>2. \A u : /\ Lines(paths[u])' = Lines(paths'[u]) /\ (Distinct(paths[u])' <=> Distinct(paths'[u]))
           /\ Lines(marker)' = Lines(marker') /\ Lines(saved)' = Lines(saved')
  BY DEF Lines, Distinct
<1>3. ASSUME NEW u \in Deliveries, Holds(u)' PROVE
        /\ (paths[u] # <<>> /\ Distinct(paths[u]))'
        /\ (delivery[u] = "read" => Lines(paths[u]) \subseteq Lines(marker) \cup Lines(saved))'
        /\ (delivery[u] \in {"saved", "sending", "sent"} => saved = paths[u])'
  <2>1. CASE u = t
    BY <1>1, <1>3, <1>2, <2>1 DEF Holds
  <2>2. CASE u # t
    <3>1. /\ Holds(u) /\ delivery'[u] = delivery[u] /\ paths'[u] = paths[u]
          /\ UNCHANGED <<marker, saved>>
      BY <1>1, <1>3, <2>2 DEF Holds
    <3>2. /\ paths[u] # <<>> /\ Distinct(paths[u])
          /\ delivery[u] = "read" => Lines(paths[u]) \subseteq Lines(marker) \cup Lines(saved)
          /\ delivery[u] \in {"saved", "sending", "sent"} => saved = paths[u]
      BY <3>1 DEF Handed
    <3>3. QED
      BY <1>2, <3>1, <3>2
  <2>3. QED
    BY <2>1, <2>2
<1>4. \A u \in Deliveries : delivery'[u] \in {"read", "saved", "sending", "sent"} => Holds(u)'
  BY DEF Holds
<1>5. QED
  BY <1>3, <1>4 DEF Handed

LEMMA CompleteStep ==
    ASSUME OutboxInv, NEW t \in Deliveries, Outbox!Complete(t) PROVE OutboxInv'
<1>0. OutboxTypes /\ OneHolder /\ Handed /\ Accounted
  BY DEF OutboxInv
<1>1. /\ delivery' = [delivery EXCEPT ![t] = "queued"] /\ ~Holds(t)
      /\ UNCHANGED <<marker, saved, paths, running, owed, raced, requests, sends, unsure, faults>>
  BY DEF Outbox!Complete, Outbox!histories, Holds
<1>2. "queued" \in Steps /\ {"sending", "sent"} \subseteq Steps \ {"idle", "queued"}
  BY DEF Steps
<1>3. /\ delivery' \in [Deliveries -> Steps] /\ OneHolder'
      /\ \A j \in Steps \ {"idle", "queued"} : At(j)' <=> At(j)
  BY <1>0, <1>1, <1>2, Moved
<1>4. OutboxTypes'
  BY <1>0, <1>1, <1>3 DEF OutboxTypes
<1>5. Handed'
  BY <1>0, <1>1, <1>2, HandedOn
<1>6. ASSUME NEW f \in Files PROVE (sends[f] + Waiting(f) <= requests[f] + unsure[f])'
  <2>1. Waiting(f)' = Waiting(f)
    BY <1>1, <1>2, <1>3 DEF Waiting, In, Lines
  <2>2. QED
    BY <1>0, <1>1, <2>1 DEF Accounted
<1>7. QED
  BY <1>3, <1>4, <1>5, <1>6 DEF OutboxInv, Accounted

LEMMA ReadStep ==
    ASSUME OutboxInv, NEW t \in Deliveries, Outbox!Read(t) PROVE OutboxInv'
<1>0. OutboxTypes /\ OneHolder /\ Handed /\ Accounted
  BY DEF OutboxInv
<1> DEFINE merged == Outbox!Merge(saved, marker)
           k == IF marker \o saved = <<>> THEN "idle" ELSE "read"
<1>1. /\ delivery' = [delivery EXCEPT ![t] = k]
      /\ \A u \in Deliveries : ~Holds(u)
      /\ paths' = [paths EXCEPT ![t] = merged]
      /\ UNCHANGED <<marker, saved, running, owed, raced, requests, sends, unsure, faults>>
  BY DEF Outbox!Read, Outbox!histories, Outbox!Holder, Holds
<1>2. marker \in Seq(Files) /\ saved \in Seq(Files) /\ paths \in [Deliveries -> Seq(Files)]
  BY <1>0 DEF OutboxTypes
<1>3. /\ merged \in Seq(Files) /\ Distinct(merged)
      /\ Lines(merged) \subseteq Lines(saved) \cup Lines(marker)
      /\ k = "read" => merged # <<>>
  BY <1>2, MergeLines
<1> HIDE DEF merged
<1>4. k \in Steps /\ k \notin {"sending", "sent"} /\ {"sending", "sent"} \subseteq Steps \ {"idle", "queued"}
      /\ (k \notin {"idle", "queued"} => k = "read") /\ k \notin {"saved", "sending", "sent"}
  BY DEF Steps
<1> HIDE DEF k
<1>5. /\ delivery' \in [Deliveries -> Steps] /\ OneHolder'
      /\ ~At("sending") /\ ~At("sent") /\ ~At("sending")' /\ ~At("sent")'
  <2>1. ~At("sending") /\ ~At("sent")
    BY <1>1 DEF At, Holds
  <2>2. /\ delivery' \in [Deliveries -> Steps] /\ OneHolder'
        /\ \A j \in Steps \ {"idle", "queued", k} : At(j)' <=> At(j)
    BY <1>0, <1>1, <1>4, Moved
  <2>3. QED
    BY <1>4, <2>1, <2>2
<1>6. /\ paths' \in [Deliveries -> Seq(Files)] /\ paths'[t] = merged
      /\ \A u \in Deliveries : u # t => paths'[u] = paths[u]
  BY <1>1, <1>2, <1>3
<1>7. OutboxTypes'
  BY <1>0, <1>1, <1>5, <1>6 DEF OutboxTypes
<1>8. Handed'
  <2>1. Lines(marker') = Lines(marker) /\ Lines(saved') = Lines(saved)
    BY <1>1
  <2>2. QED
    BY <1>0, <1>1, <1>3, <1>4, <1>6, <2>1, HandedOn
<1>9. ASSUME NEW f \in Files PROVE (sends[f] + Waiting(f) <= requests[f] + unsure[f])'
  <2>1. Waiting(f)' = Waiting(f)
    BY <1>1, <1>5 DEF Waiting, In, Lines
  <2>2. QED
    BY <1>0, <1>1, <2>1 DEF Accounted
<1>10. QED
  BY <1>5, <1>7, <1>8, <1>9 DEF OutboxInv, Accounted

LEMMA SaveStep ==
    ASSUME OutboxInv, NEW t \in Deliveries, Outbox!Save(t) PROVE OutboxInv'
<1>0. OutboxTypes /\ OneHolder /\ Handed /\ Accounted
  BY DEF OutboxInv
<1>1. /\ delivery' = [delivery EXCEPT ![t] = "saved"] /\ Holds(t) /\ delivery[t] = "read"
      /\ saved' = paths[t]
      /\ UNCHANGED <<marker, paths, running, owed, raced, requests, sends, unsure, faults>>
  BY DEF Outbox!Save, Outbox!histories, Holds
<1>2. "saved" \in Steps /\ {"sending", "sent"} \subseteq Steps \ {"idle", "queued"}
  BY DEF Steps
<1>3. /\ delivery' \in [Deliveries -> Steps] /\ OneHolder'
      /\ \A j \in Steps \ {"idle", "queued"} : At(j) <=> j = "read"
      /\ \A j \in Steps \ {"idle", "queued"} : At(j)' <=> j = "saved"
  BY <1>0, <1>1, <1>2, HolderMoved
<1>4. ~At("sending")' /\ ~At("sent")' /\ ~At("sent")
  BY <1>2, <1>3
<1>5. OutboxTypes'
  BY <1>0, <1>1, <1>3 DEF OutboxTypes
<1>6. Handed'
  <2>1. paths[t] # <<>> /\ Distinct(paths[t])
    BY <1>0, <1>1 DEF Handed
  <2>2. QED
    BY <1>0, <1>1, <1>2, <2>1, HandedOn
<1>7. Lines(marker)' \cup Lines(saved)' \subseteq Lines(marker) \cup Lines(saved)
  <2>1. Lines(paths[t]) \subseteq Lines(marker) \cup Lines(saved)
    BY <1>0, <1>1 DEF Handed
  <2>2. Lines(marker)' = Lines(marker) /\ Lines(saved)' = Lines(paths[t])
    BY <1>1 DEF Lines
  <2>3. QED
    BY <2>1, <2>2
<1>8. ASSUME NEW f \in Files PROVE (sends[f] + Waiting(f) <= requests[f] + unsure[f])'
  <2>1. Waiting(f)' <= Waiting(f)
    BY <1>4, <1>7, Settled
  <2>2. Waiting(f) \in Nat /\ Waiting(f)' \in Nat
    BY WaitingNow
  <2>3. sends'[f] = sends[f] + 0 /\ requests'[f] = requests[f] + 0 /\ unsure'[f] = unsure[f] + 0
    BY <1>0, <1>1 DEF OutboxTypes
  <2>4. Waiting(f)' + 0 <= Waiting(f) + 0 + 0
    BY <2>1, <2>2
  <2>5. QED
    BY <1>0, <1>5, <2>3, <2>4, StillAccounted
<1>9. QED
  BY <1>3, <1>5, <1>6, <1>8 DEF OutboxInv, Accounted

LEMMA UnlinkStep ==
    ASSUME OutboxInv, NEW t \in Deliveries, Outbox!Unlink(t) PROVE OutboxInv'
<1>0. OutboxTypes /\ OneHolder /\ Handed /\ Accounted
  BY DEF OutboxInv
<1>1. /\ delivery' = [delivery EXCEPT ![t] = "sending"] /\ Holds(t) /\ delivery[t] = "saved"
      /\ marker' = <<>>
      /\ UNCHANGED <<saved, paths, running, owed, raced, requests, sends, unsure, faults>>
  BY DEF Outbox!Unlink, Outbox!histories, Holds
<1>2. "sending" \in Steps /\ {"sending", "sent"} \subseteq Steps \ {"idle", "queued"}
  BY DEF Steps
<1>3. /\ delivery' \in [Deliveries -> Steps] /\ OneHolder'
      /\ \A j \in Steps \ {"idle", "queued"} : At(j) <=> j = "saved"
      /\ \A j \in Steps \ {"idle", "queued"} : At(j)' <=> j = "sending"
  BY <1>0, <1>1, <1>2, HolderMoved
<1>4. At("sending")' /\ ~At("sending") /\ ~At("sent")
  BY <1>2, <1>3
<1>5. OutboxTypes'
  <2>1. marker' \in Seq(Files)
    BY <1>1
  <2>2. QED
    BY <1>0, <1>1, <1>3, <2>1 DEF OutboxTypes
<1>6. Handed'
  <2>1. paths[t] # <<>> /\ Distinct(paths[t]) /\ saved = paths[t]
    BY <1>0, <1>1 DEF Handed
  <2>2. QED
    BY <1>0, <1>1, <1>2, <2>1, HandedOn
<1>7. Lines(marker)' = {} /\ Lines(saved)' = Lines(saved)
  BY <1>1 DEF Lines
<1>8. ASSUME NEW f \in Files PROVE (sends[f] + Waiting(f) <= requests[f] + unsure[f])'
  <2>1. Waiting(f)' <= Waiting(f)
    BY <1>4, <1>7 DEF Waiting, In
  <2>2. Waiting(f) \in Nat /\ Waiting(f)' \in Nat
    BY WaitingNow
  <2>3. sends'[f] = sends[f] + 0 /\ requests'[f] = requests[f] + 0 /\ unsure'[f] = unsure[f] + 0
    BY <1>0, <1>1 DEF OutboxTypes
  <2>4. Waiting(f)' + 0 <= Waiting(f) + 0 + 0
    BY <2>1, <2>2
  <2>5. QED
    BY <1>0, <1>5, <2>3, <2>4, StillAccounted
<1>9. QED
  BY <1>3, <1>5, <1>6, <1>8 DEF OutboxInv, Accounted

LEMMA SendStep ==
    ASSUME OutboxInv, NEW t \in Deliveries, Outbox!Send(t) PROVE OutboxInv'
<1>0. OutboxTypes /\ OneHolder /\ Handed /\ Accounted
  BY DEF OutboxInv
<1> DEFINE h == Head(paths[t])
<1>1. /\ delivery' = [delivery EXCEPT ![t] = "sent"] /\ Holds(t) /\ delivery[t] = "sending"
      /\ sends' = [sends EXCEPT ![h] = @ + 1] /\ owed' = owed \ {h}
      /\ UNCHANGED <<marker, saved, paths, running, raced, requests, unsure, faults>>
  BY DEF Outbox!Send, Outbox!Head1, Holds
<1>2. "sent" \in Steps /\ {"sending", "sent"} \subseteq Steps \ {"idle", "queued"}
  BY DEF Steps
<1>3. /\ delivery' \in [Deliveries -> Steps] /\ OneHolder'
      /\ \A j \in Steps \ {"idle", "queued"} : At(j) <=> j = "sending"
      /\ \A j \in Steps \ {"idle", "queued"} : At(j)' <=> j = "sent"
  BY <1>0, <1>1, <1>2, HolderMoved
<1>4. At("sending") /\ ~At("sending")' /\ At("sent")'
  BY <1>2, <1>3
<1>5. paths[t] # <<>> /\ Distinct(paths[t]) /\ saved = paths[t] /\ paths[t] \in Seq(Files)
  BY <1>0, <1>1 DEF Handed, OutboxTypes
<1>6. h \in Files /\ Lines(saved) = {h} \cup Lines(Tail(saved)) /\ h \notin Lines(Tail(saved))
  BY <1>5, TailLines
<1> HIDE DEF h
<1>7. OutboxTypes'
  <2>1. sends \in [Files -> Nat]
    BY <1>0 DEF OutboxTypes
  <2>2. sends' \in [Files -> Nat]
    BY <1>1, <1>6, <2>1
  <2>3. QED
    BY <1>0, <1>1, <1>3, <2>2 DEF OutboxTypes
<1>8. Handed'
  BY <1>0, <1>1, <1>2, <1>5, HandedOn
<1>9. ASSUME NEW f \in Files PROVE (sends[f] + Waiting(f) <= requests[f] + unsure[f])'
  <2>1. Lines(marker)' = Lines(marker) /\ Lines(Tail(saved))' = Lines(Tail(saved))
    BY <1>1 DEF Lines
  <2>2. Waiting(f)' + In(f, {h}) = Waiting(f)
    BY <1>4, <1>6, <2>1 DEF Waiting, In
  <2>3. Waiting(f) \in Nat /\ Waiting(f)' \in Nat /\ In(f, {h}) \in Nat
    BY WaitingNow DEF In
  <2>4. sends'[f] = sends[f] + In(f, {h})
    BY <1>0, <1>1, <1>6 DEF OutboxTypes, In
  <2>5. requests'[f] = requests[f] + 0 /\ unsure'[f] = unsure[f] + 0
    BY <1>0, <1>1 DEF OutboxTypes
  <2>6. Waiting(f)' + In(f, {h}) <= Waiting(f) + 0 + 0
    BY <2>2, <2>3
  <2>7. QED
    BY <1>0, <1>7, <2>3, <2>4, <2>5, <2>6, StillAccounted
<1>10. QED
  BY <1>3, <1>7, <1>8, <1>9 DEF OutboxInv, Accounted

LEMMA StrikeStep ==
    ASSUME OutboxInv, NEW t \in Deliveries, Outbox!Strike(t) PROVE OutboxInv'
<1>0. OutboxTypes /\ OneHolder /\ Handed /\ Accounted
  BY DEF OutboxInv
<1> DEFINE k == IF Len(paths[t]) = 1 THEN "idle" ELSE "sending"
<1>1. /\ delivery' = [delivery EXCEPT ![t] = k] /\ Holds(t) /\ delivery[t] = "sent"
      /\ saved' = Tail(paths[t]) /\ paths' = [paths EXCEPT ![t] = Tail(@)]
      /\ UNCHANGED <<marker, running, owed, raced, requests, sends, unsure, faults>>
  BY DEF Outbox!Strike, Outbox!histories, Holds
<1>2. k \in Steps /\ {"sending", "sent"} \subseteq Steps \ {"idle", "queued"}
  BY DEF Steps
<1>3. /\ paths[t] # <<>> /\ Distinct(paths[t]) /\ saved = paths[t] /\ paths[t] \in Seq(Files)
      /\ paths \in [Deliveries -> Seq(Files)]
  BY <1>0, <1>1 DEF Handed, OutboxTypes
<1>4. /\ Tail(saved) \in Seq(Files) /\ Distinct(Tail(saved))
      /\ Tail(saved) = <<>> <=> k = "idle"
  BY <1>3, TailLines
<1>5. k \in {"idle", "sending"}
  OBVIOUS
<1> HIDE DEF k
<1>6. /\ delivery' \in [Deliveries -> Steps] /\ OneHolder'
      /\ \A j \in Steps \ {"idle", "queued"} : At(j) <=> j = "sent"
      /\ \A j \in Steps \ {"idle", "queued"} : At(j)' <=> j = k
  BY <1>0, <1>1, <1>2, HolderMoved
<1>7. ~At("sending") /\ At("sent") /\ ~At("sent")' /\ (At("sending")' <=> k = "sending")
  BY <1>2, <1>5, <1>6
<1>8. /\ paths' \in [Deliveries -> Seq(Files)] /\ paths'[t] = Tail(saved)
      /\ \A u \in Deliveries : u # t => paths'[u] = paths[u]
  BY <1>1, <1>3, <1>4
<1>9. OutboxTypes'
  BY <1>0, <1>1, <1>3, <1>4, <1>6, <1>8 DEF OutboxTypes
<1>10. Handed'
  BY <1>0, <1>1, <1>2, <1>3, <1>4, <1>5, <1>8, HandedOn
<1>11. ASSUME NEW f \in Files PROVE (sends[f] + Waiting(f) <= requests[f] + unsure[f])'
  <2>1. Lines(marker)' = Lines(marker) /\ Lines(saved)' = Lines(Tail(saved))
    BY <1>1, <1>3 DEF Lines
  <2>2. k = "idle" => Lines(Tail(saved)) = {}
    <3>1. Lines(<<>>) = {}
      BY DEF Lines
    <3>2. QED
      BY <1>4, <3>1
  <2>3. Waiting(f)' = Waiting(f)
    <3>1. Waiting(f) = In(f, Lines(marker)) + In(f, Lines(Tail(saved)))
      BY <1>7 DEF Waiting
    <3>2. CASE k = "idle"
      BY <1>7, <2>1, <2>2, <3>1, <3>2 DEF Waiting, In
    <3>3. CASE k = "sending"
      BY <1>7, <2>1, <3>1, <3>3 DEF Waiting, In
    <3>4. QED
      BY <1>5, <3>2, <3>3
  <2>4. QED
    BY <1>0, <1>1, <2>3 DEF Accounted
<1>12. QED
  BY <1>6, <1>9, <1>10, <1>11 DEF OutboxInv, Accounted

LEMMA FailsStep ==
    ASSUME OutboxInv, NEW t \in Deliveries, Outbox!Fails(t), Outbox!ConstantsType PROVE OutboxInv'
<1>0. OutboxTypes /\ OneHolder /\ Handed /\ Accounted
  BY DEF OutboxInv
<1> DEFINE h == Head(paths[t])
<1>1. /\ delivery' = [delivery EXCEPT ![t] = "idle"] /\ Holds(t)
      /\ delivery[t] \in {"read", "saved", "sending", "sent"}
      /\ paths' = [paths EXCEPT ![t] = <<>>]
      /\ UNCHANGED <<marker, saved, running, raced, requests>>
      /\ faults' \in 0..MaxFaults /\ owed' \subseteq owed
  <2>1. MaxFaults \in Nat /\ faults \in 0..MaxFaults
    BY <1>0 DEF OutboxTypes, Outbox!ConstantsType
  <2>2. (UNCHANGED <<owed, faults>>) \/ (faults < MaxFaults /\ faults' = faults + 1 /\ owed' \subseteq owed)
    BY DEF Outbox!Fails
  <2>3. QED
    BY <2>1, <2>2 DEF Outbox!Fails, Holds
<1>2. PICK posted \in BOOLEAN :
        /\ delivery[t] = "sent" => posted
        /\ delivery[t] \in {"read", "saved"} => ~posted
        /\ unsure' = [f \in Files |-> IF posted /\ f = h THEN unsure[f] + 1 ELSE unsure[f]]
        /\ sends' = IF posted /\ delivery[t] = "sending" THEN [sends EXCEPT ![h] = @ + 1] ELSE sends
  <2>1. CASE delivery[t] = "sending" /\ h \in Unreadable
    <3>1. UNCHANGED <<sends, unsure>> /\ unsure = [f \in Files |-> unsure[f]]
      BY <1>0, <2>1 DEF Outbox!Fails, Outbox!Head1, OutboxTypes
    <3>2. QED
      BY <2>1, <3>1
  <2>2. CASE ~(delivery[t] = "sending" /\ h \in Unreadable)
    BY <1>1, <2>2 DEF Outbox!Fails, Outbox!Head1
  <2>3. QED
    BY <2>1, <2>2
<1>3. {"sending", "sent"} \subseteq Steps \ {"idle", "queued"} /\ "idle" \in Steps
  BY DEF Steps
<1>4. /\ delivery' \in [Deliveries -> Steps] /\ OneHolder'
      /\ \A j \in Steps \ {"idle", "queued"} : At(j) <=> j = delivery[t]
      /\ \A j \in Steps \ {"idle", "queued"} : At(j)' <=> j = "idle"
  BY <1>0, <1>1, <1>3, HolderMoved
<1>5. /\ ~At("sending")' /\ ~At("sent")'
      /\ At("sending") <=> delivery[t] = "sending"
      /\ At("sent") <=> delivery[t] = "sent"
  BY <1>3, <1>4
<1>6. /\ paths[t] # <<>> /\ paths[t] \in Seq(Files) /\ paths \in [Deliveries -> Seq(Files)]
      /\ delivery[t] \in {"sending", "sent"} => saved = paths[t]
  BY <1>0, <1>1 DEF Handed, OutboxTypes
<1>7. h \in Files /\ (delivery[t] = "sent" => Lines(saved) = {h} \cup Lines(Tail(saved)))
  BY <1>6, TailLines
<1> HIDE DEF h
<1>8. /\ paths' \in [Deliveries -> Seq(Files)]
      /\ \A u \in Deliveries : u # t => paths'[u] = paths[u]
  BY <1>1, <1>6
<1>9. OutboxTypes'
  <2>1. sends \in [Files -> Nat] /\ unsure \in [Files -> Nat]
    BY <1>0 DEF OutboxTypes
  <2>2. sends' \in [Files -> Nat] /\ unsure' \in [Files -> Nat]
    BY <1>2, <1>7, <2>1
  <2>3. QED
    BY <1>0, <1>1, <1>4, <1>8, <2>2 DEF OutboxTypes
<1>10. Handed'
  <2>1. "idle" \notin {"read", "saved", "sending", "sent"}
    OBVIOUS
  <2>2. QED
    BY <1>0, <1>1, <1>3, <1>8, <2>1, HandedOn
<1>11. Lines(marker)' = Lines(marker) /\ Lines(saved)' = Lines(saved)
  BY <1>1 DEF Lines
<1>12. ASSUME NEW f \in Files PROVE (sends[f] + Waiting(f) <= requests[f] + unsure[f])'
  <2> DEFINE given == IF posted /\ delivery[t] = "sending" THEN In(f, {h}) ELSE 0
             lost == IF posted THEN In(f, {h}) ELSE 0
             all == In(f, Lines(marker) \cup Lines(saved))
  <2>1. sends'[f] = sends[f] + given /\ requests'[f] = requests[f] + 0 /\ unsure'[f] = unsure[f] + lost
    BY <1>0, <1>1, <1>2, <1>7 DEF OutboxTypes, In
  <2>2. Waiting(f)' <= all
    BY <1>5, <1>11, Settled
  <2>3. given <= lost /\ given \in Nat /\ lost \in Nat /\ all \in Nat
    BY DEF In
  <2>4. Waiting(f) \in Nat /\ Waiting(f)' \in Nat
    BY WaitingNow
  <2>5. all + given <= Waiting(f) + lost
    <3>1. CASE delivery[t] = "sent"
      <4>1. Waiting(f) = In(f, Lines(marker)) + In(f, Lines(Tail(saved)))
        BY <1>5, <3>1 DEF Waiting
      <4>2. given = 0 /\ lost = In(f, {h})
        BY <1>2, <3>1
      <4>3. all <= In(f, Lines(marker)) + In(f, Lines(Tail(saved))) + In(f, {h})
        BY <1>7, <3>1 DEF In
      <4>4. QED
        BY <2>3, <4>1, <4>2, <4>3
    <3>2. CASE delivery[t] # "sent"
      <4>1. all <= Waiting(f)
        BY <1>5, <3>2 DEF Waiting, In
      <4> HIDE DEF all, given, lost
      <4>2. QED
        BY <2>3, <2>4, <4>1
    <3>3. QED
      BY <3>1, <3>2
  <2> HIDE DEF all, given, lost
  <2>6. Waiting(f)' + given <= Waiting(f) + 0 + lost
    BY <2>2, <2>3, <2>4, <2>5
  <2>7. QED
    BY <1>0, <1>9, <2>1, <2>3, <2>6, StillAccounted
<1>13. QED
  BY <1>4, <1>9, <1>10, <1>12 DEF OutboxInv, Accounted

LEMMA CrashStep ==
    ASSUME OutboxInv, Outbox!Crash, Outbox!ConstantsType PROVE OutboxInv'
<1>0. OutboxTypes /\ OneHolder /\ Handed /\ Accounted
  BY DEF OutboxInv
<1> DEFINE stopped(f) == {t \in Deliveries : delivery[t] = "sent" /\ Head(paths[t]) = f}
<1>1. /\ delivery' = [t \in Deliveries |-> "idle"] /\ paths' = [t \in Deliveries |-> <<>>]
      /\ unsure' = [f \in Files |-> unsure[f] + Cardinality(stopped(f))]
      /\ running' = FALSE /\ faults' \in 0..MaxFaults
      /\ UNCHANGED <<marker, saved, owed, raced, requests, sends>>
  <2>1. unsure' = [f \in Files |-> unsure[f] + Outbox!Cardinality(stopped(f))]
    BY DEF Outbox!Crash, Outbox!Head1
  <2> HIDE DEF stopped
  <2>2. unsure' = [f \in Files |-> unsure[f] + Cardinality(stopped(f))]
    BY <2>1, SameCardinality
  <2>3. QED
    BY <1>0, <2>2 DEF Outbox!Crash, OutboxTypes, Outbox!ConstantsType
<1>2. ASSUME NEW f \in Files
      PROVE  /\ Cardinality(stopped(f)) \in Nat
             /\ At("sent") /\ f \in Lines(saved) =>
                   f \in Lines(Tail(saved)) \/ Cardinality(stopped(f)) = 1
  <2>1. CASE stopped(f) = {}
    <3>1. ASSUME NEW t \in Deliveries, delivery[t] = "sent", f \in Lines(saved)
          PROVE  f \in Lines(Tail(saved))
      <4>1. saved = paths[t] /\ paths[t] # <<>> /\ paths[t] \in Seq(Files)
        BY <1>0, <3>1 DEF Handed, Holds, OutboxTypes
      <4>2. Lines(saved) = {Head(saved)} \cup Lines(Tail(saved))
        BY <4>1, TailLines
      <4>3. Head(saved) # f
        BY <2>1, <3>1, <4>1
      <4>4. QED
        BY <3>1, <4>2, <4>3
    <3>2. QED
      <4>1. At("sent") /\ f \in Lines(saved) => f \in Lines(Tail(saved))
        BY <3>1 DEF At
      <4>2. Cardinality(stopped(f)) = 0
        BY <2>1, FS_EmptySet
      <4>3. QED
        BY <4>1, <4>2
  <2>2. CASE stopped(f) # {}
    <3>1. PICK t \in stopped(f) : TRUE
      BY <2>2
    <3>2. stopped(f) = {t}
      BY <1>0, <3>1 DEF OneHolder, Holds
    <3>3. Cardinality(stopped(f)) = 1
      BY <3>2, FS_Singleton
    <3>4. QED
      BY <3>3
  <2>3. QED
    BY <2>1, <2>2
<1> HIDE DEF stopped
<1>3. ~At("sending")' /\ ~At("sent")' /\ OneHolder' /\ Handed'
  BY <1>1 DEF At, OneHolder, Handed, Holds
<1>4. OutboxTypes'
  <2>1. unsure \in [Files -> Nat]
    BY <1>0 DEF OutboxTypes
  <2>2. unsure' \in [Files -> Nat]
    BY <1>1, <1>2, <2>1
  <2>3. delivery' \in [Deliveries -> Steps] /\ paths' \in [Deliveries -> Seq(Files)]
    BY <1>1 DEF Steps
  <2>4. QED
    BY <1>0, <1>1, <2>2, <2>3 DEF OutboxTypes
<1>5. Lines(marker)' = Lines(marker) /\ Lines(saved)' = Lines(saved)
  BY <1>1 DEF Lines
<1>6. ASSUME NEW f \in Files PROVE (sends[f] + Waiting(f) <= requests[f] + unsure[f])'
  <2> DEFINE lost == Cardinality(stopped(f))
             all == In(f, Lines(marker) \cup Lines(saved))
  <2>1. sends'[f] = sends[f] + 0 /\ requests'[f] = requests[f] + 0 /\ unsure'[f] = unsure[f] + lost
    BY <1>0, <1>1 DEF OutboxTypes
  <2>2. Waiting(f)' <= all
    BY <1>3, <1>5, Settled
  <2>3. lost \in Nat /\ all \in Nat /\ Waiting(f) \in Nat /\ Waiting(f)' \in Nat
    BY <1>2, WaitingNow DEF In
  <2>4. all <= Waiting(f) + lost
    <3>1. CASE At("sent")
      <4>1. f \in Lines(saved) /\ f \notin Lines(Tail(saved)) => lost = 1
        BY <1>2, <3>1
      <4> HIDE DEF lost
      <4>2. QED
        BY <2>3, <3>1, <4>1 DEF Waiting, In
    <3>2. CASE ~At("sent")
      <4>1. all <= Waiting(f)
        BY <3>2 DEF Waiting, In
      <4> HIDE DEF all, lost
      <4>2. QED
        BY <2>3, <4>1
    <3>3. QED
      BY <3>1, <3>2
  <2> HIDE DEF all, lost
  <2>5. Waiting(f)' + 0 <= Waiting(f) + 0 + lost
    BY <2>2, <2>3, <2>4
  <2>6. QED
    BY <1>0, <1>4, <2>1, <2>3, <2>5, StillAccounted
<1>7. QED
  BY <1>3, <1>4, <1>6 DEF OutboxInv, Accounted

LEMMA OutboxStep ==
    ASSUME Outbox!ConstantsType, OutboxInv, [Outbox!Next]_(Outbox!vars) PROVE OutboxInv'
<1>1. ASSUME NEW t \in Deliveries, Outbox!Deliver(t) \/ Outbox!Fails(t) PROVE OutboxInv'
  BY <1>1, ReadStep, SaveStep, UnlinkStep, SendStep, StrikeStep, FailsStep DEF Outbox!Deliver
<1>2. CASE Outbox!Boot \/ UNCHANGED Outbox!vars
  <2>1. /\ UNCHANGED <<marker, saved, paths, delivery, owed, raced, requests, sends, unsure, faults>>
        /\ running' \in {TRUE, running}
    BY <1>2 DEF Outbox!Boot, Outbox!vars, Outbox!histories
  <2>2. OutboxTypes /\ OneHolder /\ Handed /\ Accounted
    BY DEF OutboxInv
  <2>3. OutboxTypes'
    BY <2>1, <2>2 DEF OutboxTypes
  <2>4. OneHolder' /\ Handed'
    <3>1. OneHolder' <=> OneHolder
      BY <2>1 DEF OneHolder, Holds
    <3>2. /\ \A t : Lines(paths[t])' = Lines(paths[t]) /\ (Distinct(paths[t])' <=> Distinct(paths[t]))
          /\ Lines(marker)' = Lines(marker) /\ Lines(saved)' = Lines(saved)
      BY <2>1 DEF Lines, Distinct
    <3>3. Handed' <=> Handed
      BY <2>1, <3>2 DEF Handed, Holds
    <3>4. QED
      BY <2>2, <3>1, <3>3
  <2>5. \A f : Waiting(f)' = Waiting(f)
    BY <2>1 DEF Waiting, At, In, Lines
  <2>6. QED
    BY <2>1, <2>2, <2>3, <2>4, <2>5 DEF OutboxInv, Accounted
<1>4. QED
  BY <1>1, <1>2, RequestStep, CompleteStep, CrashStep DEF Outbox!Next

LEMMA OutboxFacts ==
    ASSUME OutboxInv PROVE Outbox!TypeOK /\ Outbox!SentOncePerRequest
<1>0. OutboxTypes /\ OneHolder /\ Accounted
  BY DEF OutboxInv
<1>1. Cardinality(Outbox!Holder) <= 1
  <2>1. Outbox!Holder = {t \in Deliveries : Holds(t)}
    BY DEF Outbox!Holder, Holds
  <2>2. CASE Outbox!Holder = {}
    BY <2>2, FS_EmptySet
  <2>3. CASE Outbox!Holder # {}
    <3>1. PICK t \in Outbox!Holder : TRUE
      BY <2>3
    <3>2. Outbox!Holder = {t}
      BY <1>0, <2>1, <3>1 DEF OneHolder
    <3>3. Cardinality({t}) = 1
      BY FS_Singleton
    <3>4. QED
      BY <3>2, <3>3
  <2>4. QED
    BY <2>2, <2>3
<1>2. Outbox!Cardinality(Outbox!Holder) <= 1
  BY <1>1, SameCardinality
<1>3. Outbox!TypeOK
  BY <1>0, <1>2 DEF OutboxTypes, Steps, Outbox!TypeOK
<1>4. Outbox!SentOncePerRequest
  <2>1. ASSUME NEW f \in Files PROVE sends[f] <= requests[f] + unsure[f]
    <3>1. sends[f] \in Nat /\ requests[f] \in Nat /\ unsure[f] \in Nat
      BY <1>0 DEF OutboxTypes
    <3>4. Waiting(f) \in Nat
      BY WaitingNow
    <3>2. sends[f] + Waiting(f) <= requests[f] + unsure[f]
      BY <1>0 DEF Accounted
    <3>3. QED
      BY <3>1, <3>2, <3>4
  <2>2. QED
    BY <2>1 DEF Outbox!SentOncePerRequest
<1>5. QED
  BY <1>3, <1>4

(* What is owed is in one of the two files; a line of the marker is only   *)
(* removed when it was read into the other file, or came after the read.   *)
Survives ==
    /\ owed \ raced \subseteq Lines(marker) \cup Lines(saved)
    /\ \A t \in Deliveries :
         /\ delivery[t] = "read" =>
               (Lines(marker) \cup Lines(saved)) \ raced \subseteq Lines(paths[t])
         /\ delivery[t] = "saved" => Lines(marker) \ raced \subseteq Lines(saved)
         /\ delivery[t] = "sent" /\ Head(saved) \in owed => Head(saved) \in Lines(marker)

LEMMA SurvivesInit == Outbox!Init => Survives
BY DEF Outbox!Init, Survives

LEMMA SurvivesRequest ==
    ASSUME OutboxInv, Survives, NEW f \in Files, Outbox!Request(f) PROVE Survives'
<1>1. /\ marker' = Append(marker, f) /\ owed' = owed \cup {f}
      /\ raced' = IF \E t \in Deliveries : delivery[t] \in {"read", "saved"}
                    THEN raced \cup {f} ELSE raced
      /\ UNCHANGED <<saved, paths, delivery>>
  BY DEF Outbox!Request
<1>2. Lines(marker') = Lines(marker) \cup {f}
  BY <1>1, AppendLines DEF OutboxInv, OutboxTypes
<1>3. QED
  BY <1>1, <1>2 DEF Survives

(* A step of the delivery that holds the lock, or takes it. *)
LEMMA SurvivesDelivery ==
    ASSUME OutboxInv, Survives, NEW t \in Deliveries,
           Outbox!Complete(t) \/ Outbox!Deliver(t) \/ Outbox!Fails(t)
    PROVE  Survives'
<1>0. /\ marker \in Seq(Files) /\ saved \in Seq(Files) /\ paths \in [Deliveries -> Seq(Files)]
      /\ delivery \in [Deliveries -> Steps] /\ OneHolder
  BY DEF OutboxInv, OutboxTypes
<1>1. /\ delivery[t] \in {"saved", "sending", "sent"} => saved = paths[t] /\ paths[t] # <<>>
      /\ \A u \in Deliveries : u # t /\ delivery[t] \in {"read", "saved", "sending", "sent"}
                               => delivery[u] \in {"idle", "queued"}
  BY <1>0 DEF OutboxInv, Handed, OneHolder, Holds, Steps
<1>2. CASE Outbox!Complete(t)
  <2>1. /\ UNCHANGED <<marker, saved, paths, owed, raced>>
        /\ delivery' = [delivery EXCEPT ![t] = "queued"]
    BY <1>2 DEF Outbox!Complete, Outbox!histories
  <2>2. \A u \in Deliveries : delivery'[u] = delivery[u] \/ delivery'[u] = "queued"
    BY <1>0, <2>1
  <2>3. QED
    BY <2>1, <2>2 DEF Survives
<1>3. CASE Outbox!Read(t)
  <2> DEFINE merged == Outbox!Merge(saved, marker)
  <2>1. /\ UNCHANGED <<marker, saved, owed, raced>> /\ paths' = [paths EXCEPT ![t] = merged]
        /\ \E k \in {"idle", "read"} : delivery' = [delivery EXCEPT ![t] = k]
        /\ \A u \in Deliveries : delivery[u] \in {"idle", "queued"}
    BY <1>3 DEF Outbox!Read, Outbox!histories, Outbox!Holder
  <2>2. Lines(marker) \cup Lines(saved) \subseteq Lines(merged)
    BY <1>0, MergeKeeps
  <2> HIDE DEF merged
  <2>3. paths'[t] = merged /\ \A u \in Deliveries : u # t => delivery'[u] = delivery[u]
    BY <1>0, <2>1
  <2>4. delivery'[t] \in {"idle", "read"}
    BY <1>0, <2>1
  <2>5. QED
    BY <2>1, <2>2, <2>3, <2>4 DEF Survives
<1>4. CASE Outbox!Save(t)
  <2>1. /\ UNCHANGED <<marker, paths, owed, raced>> /\ saved' = paths[t] /\ delivery[t] = "read"
        /\ delivery' = [delivery EXCEPT ![t] = "saved"]
    BY <1>4 DEF Outbox!Save, Outbox!histories
  <2>2. delivery'[t] = "saved" /\ \A u \in Deliveries : u # t => delivery'[u] \in {"idle", "queued"}
    BY <1>0, <1>1, <2>1
  <2>3. (Lines(marker) \cup Lines(saved)) \ raced \subseteq Lines(saved')
    BY <2>1 DEF Survives
  <2>4. QED
    BY <2>1, <2>2, <2>3 DEF Survives
<1>5. CASE Outbox!Unlink(t)
  <2>1. /\ UNCHANGED <<saved, paths, owed, raced>> /\ delivery[t] = "saved"
        /\ delivery' = [delivery EXCEPT ![t] = "sending"]
    BY <1>5 DEF Outbox!Unlink, Outbox!histories
  <2>2. delivery'[t] = "sending" /\ \A u \in Deliveries : u # t => delivery'[u] \in {"idle", "queued"}
    BY <1>0, <1>1, <2>1
  <2>3. owed \ raced \subseteq Lines(saved)
    BY <2>1 DEF Survives
  <2>4. QED
    BY <2>1, <2>2, <2>3 DEF Survives
<1>6. CASE Outbox!Send(t)
  <2>1. /\ UNCHANGED <<marker, saved, paths, raced>> /\ delivery[t] = "sending"
        /\ delivery' = [delivery EXCEPT ![t] = "sent"] /\ owed' = owed \ {Head(paths[t])}
    BY <1>6 DEF Outbox!Send, Outbox!Head1
  <2>2. delivery'[t] = "sent" /\ \A u \in Deliveries : u # t => delivery'[u] \in {"idle", "queued"}
    BY <1>0, <1>1, <2>1
  <2>3. Head(saved') \notin owed'
    BY <1>1, <2>1
  <2>4. QED
    BY <2>1, <2>2, <2>3 DEF Survives
<1>7. CASE Outbox!Strike(t)
  <2>1. /\ UNCHANGED <<marker, owed, raced>> /\ delivery[t] = "sent" /\ saved' = Tail(paths[t])
        /\ \E k \in {"idle", "sending"} : delivery' = [delivery EXCEPT ![t] = k]
    BY <1>7 DEF Outbox!Strike, Outbox!histories
  <2>2. /\ delivery'[t] \in {"idle", "sending"}
        /\ \A u \in Deliveries : u # t => delivery'[u] \in {"idle", "queued"}
    BY <1>0, <1>1, <2>1
  <2>3. Lines(saved) = {Head(saved)} \cup Lines(saved')
    BY <1>0, <1>1, <2>1, TailLines
  <2>4. Head(saved) \in owed => Head(saved) \in Lines(marker)
    BY <2>1 DEF Survives
  <2>5. owed' \ raced' \subseteq Lines(marker') \cup Lines(saved')
    BY <2>1, <2>3, <2>4 DEF Survives
  <2>6. QED
    BY <2>2, <2>5 DEF Survives
<1>8. CASE Outbox!Fails(t)
  <2>1. /\ UNCHANGED <<marker, saved, raced>> /\ delivery[t] \in {"read", "saved", "sending", "sent"}
        /\ delivery' = [delivery EXCEPT ![t] = "idle"] /\ owed' \subseteq owed
    BY <1>8 DEF Outbox!Fails
  <2>2. \A u \in Deliveries : delivery'[u] \in {"idle", "queued"}
    BY <1>0, <1>1, <2>1
  <2>3. QED
    BY <2>1, <2>2 DEF Survives
<1>9. QED
  BY <1>2, <1>3, <1>4, <1>5, <1>6, <1>7, <1>8 DEF Outbox!Deliver

LEMMA SurvivesStep ==
    ASSUME OutboxInv, Survives, [Outbox!Next]_(Outbox!vars) PROVE Survives'
<1>1. CASE Outbox!Crash
  <2>1. UNCHANGED <<marker, saved, owed, raced>> /\ delivery' = [t \in Deliveries |-> "idle"]
    BY <1>1 DEF Outbox!Crash
  <2>2. QED
    BY <2>1 DEF Survives
<1>2. CASE Outbox!Boot \/ UNCHANGED Outbox!vars
  <2>1. UNCHANGED <<marker, saved, paths, delivery, owed, raced>>
    BY <1>2 DEF Outbox!Boot, Outbox!vars, Outbox!histories
  <2>2. QED
    BY <2>1 DEF Survives
<1>3. QED
  BY <1>1, <1>2, SurvivesRequest, SurvivesDelivery DEF Outbox!Next

LEMMA SurvivesFacts == ASSUME OutboxInv, Survives PROVE Outbox!RequestsSurvive
<1>1. marker \in Seq(Files) /\ saved \in Seq(Files)
  BY DEF OutboxInv, OutboxTypes
<1>2. \A i \in 1..Len(marker) : i \in DOMAIN (marker \o saved) /\ (marker \o saved)[i] = marker[i]
  BY <1>1
<1>3. \A i \in 1..Len(saved) : Len(marker) + i \in DOMAIN (marker \o saved)
                                /\ (marker \o saved)[Len(marker) + i] = saved[i]
  BY <1>1
<1>4. Lines(marker) \cup Lines(saved) \subseteq Outbox!ToSet(marker \o saved)
  BY <1>2, <1>3 DEF Lines, Outbox!ToSet
<1>5. QED
  BY <1>4 DEF Survives, Outbox!RequestsSurvive

-----------------------------------------------------------------------------
(* The answer stream.  Pieces of what is said, and messages. *)
Pieces == 1..MaxSaid
Text == Seq(Pieces)
Shortest(s) == IF Len(s) < Limit THEN Len(s) ELSE Limit

(* s starts as b does, with k pieces. *)
Starts(s, b, k) == s \in Text /\ Len(s) = k /\ k <= Len(b) /\ \A i \in 1..k : s[i] = b[i]

LEMMA Taken ==
    ASSUME Limit \in Nat \ {0}, NEW b \in Text, b # <<>>
    PROVE  /\ Shortest(b) \in 1..Limit /\ Shortest(b) <= Len(b)
           /\ Stream!Take(b) \in Text /\ Stream!Take(b) # <<>>
           /\ Starts(Stream!Take(b), b, Shortest(b))
<1>1. Stream!Take(b) = SubSeq(b, 1, Shortest(b))
  BY DEF Stream!Take, Shortest
<1>2. Len(b) \in Nat /\ Len(b) > 0 /\ \A i \in 1..Len(b) : b[i] \in Pieces
  BY DEF Text
<1>3. Shortest(b) \in 1..Limit /\ Shortest(b) <= Len(b)
  BY <1>2 DEF Shortest
<1>4. /\ SubSeq(b, 1, Shortest(b)) \in Seq(Pieces) /\ Len(SubSeq(b, 1, Shortest(b))) = Shortest(b)
      /\ \A i \in 1..Shortest(b) : SubSeq(b, 1, Shortest(b))[i] = b[i]
  <2>1. \A i \in 1..Shortest(b) : b[i] \in Pieces
    BY <1>2, <1>3
  <2>2. Shortest(b) \in Int /\ 1 <= Shortest(b)
    BY <1>3
  <2> HIDE DEF Shortest
  <2>3. QED
    BY <2>1, <2>2, SubSeqProperties
<1>5. QED
  BY <1>1, <1>3, <1>4 DEF Starts, Text

LEMMA Dropped ==
    ASSUME NEW b \in Text, NEW n \in Nat, n < Len(b)
    PROVE  /\ Stream!Drop(b, n) \in Text /\ Stream!Drop(b, n) # <<>>
           /\ Len(Stream!Drop(b, n)) = Len(b) - n
           /\ \A i \in 1..(Len(b) - n) : Stream!Drop(b, n)[i] = b[n + i]
<1>1. Len(b) \in Nat /\ \A i \in (n + 1)..Len(b) : b[i] \in Pieces
  BY DEF Text
<1>2. /\ SubSeq(b, n + 1, Len(b)) \in Seq(Pieces)
      /\ Len(SubSeq(b, n + 1, Len(b))) = Len(b) - n
      /\ \A i \in 1..(Len(b) - n) : SubSeq(b, n + 1, Len(b))[i] = b[n + i]
  BY <1>1, SubSeqProperties
<1>3. QED
  BY <1>1, <1>2 DEF Stream!Drop, Text

LEMMA Joined ==
    ASSUME NEW b \in Text, NEW c \in Text, c # <<>>
    PROVE  /\ b \o c \in Text /\ b \o c # <<>> /\ Len(b \o c) = Len(b) + Len(c)
           /\ \A i \in 1..Len(b) : (b \o c)[i] = b[i]
           /\ \A i \in 1..Len(c) : (b \o c)[Len(b) + i] = c[i]
           /\ \A s, k : Starts(s, b, k) => Starts(s, b \o c, k)
<1>1. /\ b \o c \in Text /\ b \o c # <<>> /\ Len(b \o c) = Len(b) + Len(c)
      /\ \A i \in 1..Len(b) : (b \o c)[i] = b[i]
      /\ \A i \in 1..Len(c) : (b \o c)[Len(b) + i] = c[i]
      /\ Len(b) \in Nat /\ Len(c) \in Nat
  BY DEF Text
<1>2. QED
  BY <1>1 DEF Starts, Text

-----------------------------------------------------------------------------
(* Every message of th stands in ch too, perhaps longer. *)
Covers(th, ch) ==
    Len(th) <= Len(ch) /\ \A i \in 1..Len(th) : \A j \in 1..Len(th[i]) :
        \E l \in 1..Len(ch[i]) : ch[i][l] = th[i][j]

LEMMA CoversShown ==
    ASSUME NEW th \in Seq(Text), NEW ch \in Seq(Text), NEW dh \in Seq(Text)
    PROVE  /\ Covers(th, th)
           /\ Covers(th, ch) /\ Covers(ch, dh) => Covers(th, dh)
           /\ \A s \in Text : Covers(th, Append(th, s))
<1>1. Covers(th, th)
  BY DEF Covers
<1>2. ASSUME Covers(th, ch), Covers(ch, dh) PROVE Covers(th, dh)
  <2>1. Len(th) \in Nat /\ Len(ch) \in Nat /\ Len(dh) \in Nat /\ Len(th) <= Len(ch) /\ Len(ch) <= Len(dh)
    BY <1>2 DEF Covers
  <2>2. ASSUME NEW i \in 1..Len(th), NEW j \in 1..Len(th[i])
        PROVE  \E l \in 1..Len(dh[i]) : dh[i][l] = th[i][j]
    <3>1. PICK k \in 1..Len(ch[i]) : ch[i][k] = th[i][j]
      BY <1>2 DEF Covers
    <3>2. i \in 1..Len(ch)
      BY <2>1
    <3>3. PICK l \in 1..Len(dh[i]) : dh[i][l] = ch[i][k]
      BY <1>2, <3>2 DEF Covers
    <3>4. QED
      BY <3>1, <3>3
  <2>3. QED
    BY <2>1, <2>2 DEF Covers
<1>3. ASSUME NEW s \in Text PROVE Covers(th, Append(th, s))
  <2>1. Len(Append(th, s)) = Len(th) + 1 /\ Len(th) \in Nat /\ \A i \in 1..Len(th) : Append(th, s)[i] = th[i]
    OBVIOUS
  <2>2. QED
    BY <2>1 DEF Covers
<1>4. QED
  BY <1>1, <1>2, <1>3

(* What a request leaves. *)
LEMMA AppliedTypes ==
    ASSUME NEW th \in Seq(Text), NEW r, r.text \in Text, r.at \in 0..Len(th)
    PROVE  /\ Stream!Applied(th, r) \in Seq(Text)
           /\ Len(th) <= Len(Stream!Applied(th, r))
           /\ Len(Stream!Applied(th, r)) = IF r.at = 0 THEN Len(th) + 1 ELSE Len(th)
           /\ Stream!Applied(th, r)[IF r.at = 0 THEN Len(th) + 1 ELSE r.at] = r.text
           /\ \A i \in 1..Len(th) : i # r.at => Stream!Applied(th, r)[i] = th[i]
<1>1. CASE r.at = 0
  BY <1>1 DEF Stream!Applied
<1>2. CASE r.at # 0
  BY <1>2 DEF Stream!Applied
<1>3. QED
  BY <1>1, <1>2

LEMMA AppliedCovers ==
    ASSUME NEW th \in Seq(Text), NEW r, r.text \in Text, r.at \in 0..Len(th), NEW k \in Nat,
           NEW b \in Text, Starts(r.text, b, k),
           r.at # 0 => Starts(th[r.at], b, Len(th[r.at])) /\ Len(th[r.at]) <= k
    PROVE  Covers(th, Stream!Applied(th, r))
<1> DEFINE ch == Stream!Applied(th, r)
<1>1. /\ Len(th) \in Nat /\ Len(ch) \in Nat /\ Len(th) <= Len(ch)
      /\ r.at # 0 => ch[r.at] = r.text
      /\ \A i \in 1..Len(th) : i # r.at => ch[i] = th[i]
  BY AppliedTypes
<1> HIDE DEF ch
<1>2. ASSUME NEW i \in 1..Len(th), NEW j \in 1..Len(th[i])
      PROVE  \E l \in 1..Len(ch[i]) : ch[i][l] = th[i][j]
  <2>1. CASE i # r.at
    BY <1>1, <2>1
  <2>2. CASE i = r.at
    <3>1. r.at # 0 /\ ch[i] = r.text /\ Len(th[i]) \in Nat /\ Len(th[i]) <= k
      BY <1>1, <2>2
    <3>2. j \in 1..k /\ Len(ch[i]) = k /\ ch[i][j] = b[j] /\ th[i][j] = b[j]
      BY <2>2, <3>1 DEF Starts
    <3>3. QED
      BY <3>2
  <2>3. QED
    BY <2>1, <2>2
<1>3. QED
  BY <1>1, <1>2 DEF Covers, ch

-----------------------------------------------------------------------------
(* The stream and its requests. *)
Requests == [text : Text, at : Nat]
Delays == {"none", "sleeping", "ready", "flushing"}
Nexts == {"nothing", "complete", "tool", "echo", "result"}
StreamTypes ==
    /\ messages \in Seq(Text) /\ buffer \in Text /\ msg \in 0..Len(messages)
    /\ delayed \in Delays /\ crossed \in BOOLEAN
    /\ job \in [step : {"idle", "overflow", "flush", "last", "post"}, next : Nexts]
    /\ request \in [main : Requests, delayed : Requests]
    /\ request.main.at <= Len(messages) /\ request.delayed.at <= Len(messages)
StreamBusy ==
    /\ request.main = Stream!Idle <=> job.step = "idle"
    /\ request.delayed = Stream!Idle <=> delayed # "flushing"
    /\ job.step = "idle" => job.next = "nothing"
    /\ job.step = "last" => job.next # "nothing" /\ delayed = "none"
    /\ job.step = "post" => /\ request.main.at = 0 /\ request.main.text # <<>> /\ buffer = <<>>
                            /\ job.next \in {"complete", "result"}
    /\ job.step \in {"overflow", "flush", "last"} => buffer # <<>>
    /\ job.step = "overflow" => Limit < Len(buffer)
    /\ buffer = <<>> => delayed = "none" /\ msg = 0

(* Until two flushes meet, the message of the stream shows how the buffer  *)
(* starts, and a request shows no less of it.                              *)
Keeps(th, b, m) ==
    /\ m # 0 => Starts(th[m], b, Len(th[m])) /\ Len(th[m]) <= Limit
    /\ request.delayed # Stream!Idle =>
         /\ request.delayed.at = m
         /\ \E k \in Nat : /\ Starts(request.delayed.text, b, k) /\ k <= Limit
                           /\ m # 0 => Len(th[m]) <= k
Kept ==
    ~crossed => /\ Keeps(messages, buffer, msg)
                /\ job.step # "idle" => request.delayed = Stream!Idle
                /\ job.step \in {"overflow", "flush"} =>
                     request.main = [text |-> Stream!Take(buffer), at |-> msg]
                /\ job.step = "last" => request.main = [text |-> buffer, at |-> msg]

(* The stream goes on with b in message m of th, and then with next. *)
Held(th, b, m) == th \in Seq(Text) /\ Len(messages) <= Len(th) /\ b \in Text /\ m \in 0..Len(th)
GoesOn(th, b, m, next) ==
    /\ StreamTypes' /\ StreamBusy' /\ (crossed => crossed')
    /\ buffer' = b /\ msg' = m /\ job'.next = next /\ job'.step # "post"
    /\ ~crossed' => messages' = th
    /\ ~crossed' /\ Keeps(th, b, m) => Kept'

LEMMA IdleType == Stream!Idle \in Requests /\ Stream!Idle.at = 0 /\ Stream!Idle.text = <<>>
BY DEF Stream!Idle, Requests, Text

LEMMA FinalizeOn ==
    ASSUME Stream!ConstantsType, StreamTypes, StreamBusy, NEW th, NEW b, NEW m,
           NEW next \in Nexts \ {"nothing"}, Held(th, b, m), b # <<>>, Stream!Finalize(th, b, m, next)
    PROVE  GoesOn(th, b, m, next) /\ job'.step = "last"
<1>1. /\ buffer' = b /\ msg' = m /\ delayed' = "none"
      /\ messages' = th \/ messages' = Stream!Applied(th, request.delayed)
      /\ job' = [step |-> "last", next |-> next]
      /\ request' = [main |-> [text |-> b, at |-> m], delayed |-> Stream!Idle]
      /\ crossed' = (crossed \/ request.delayed # Stream!Idle)
      /\ request.delayed = Stream!Idle => messages' = th
  BY DEF Stream!Finalize
<1>2. request.delayed \in Requests /\ request.delayed.at \in 0..Len(th)
  BY DEF Held, StreamTypes, Requests
<1>3. messages' \in Seq(Text) /\ Len(th) <= Len(messages') /\ Len(th) \in Nat
  BY <1>1, <1>2, AppliedTypes DEF Held, Requests
<1>4. m \in 0..Len(messages') /\ m \in Nat /\ b \in Text
  BY <1>3 DEF Held
<1>5. StreamTypes'
  <2>1. request' \in [main : Requests, delayed : Requests]
    BY <1>1, <1>4, IdleType DEF Requests
  <2>2. request'.main.at <= Len(messages') /\ request'.delayed.at <= Len(messages')
    BY <1>1, <1>3, <1>4, IdleType
  <2>3. QED
    BY <1>1, <1>3, <1>4, <2>1, <2>2 DEF StreamTypes, Delays
<1>6. StreamBusy'
  BY <1>1 DEF StreamBusy, Stream!Idle
<1>7. ~crossed' /\ Keeps(th, b, m) => Kept'
  BY <1>1 DEF Keeps, Kept
<1>8. QED
  BY <1>1, <1>5, <1>6, <1>7 DEF GoesOn

LEMMA FlushOn ==
    ASSUME Stream!ConstantsType, StreamTypes, StreamBusy, NEW th, NEW b, NEW m,
           NEW next \in Nexts, Held(th, b, m), b # <<>>, NEW how \in {"overflow", "flush"},
           how = "overflow" => Limit < Len(b), Stream!Flush(th, b, m, how, next)
    PROVE  GoesOn(th, b, m, next) /\ job'.step = how
<1>1. /\ buffer' = b /\ msg' = m /\ messages' = th /\ UNCHANGED delayed
      /\ job' = [step |-> how, next |-> next]
      /\ request' = [request EXCEPT !.main = [text |-> Stream!Take(b), at |-> m]]
      /\ crossed' = (crossed \/ Stream!Meet)
  BY DEF Stream!Flush
<1>2. Stream!Take(b) \in Text /\ Stream!Take(b) # <<>>
  BY Taken DEF Stream!ConstantsType, Held
<1>3. request \in [main : Requests, delayed : Requests] /\ request.delayed.at <= Len(messages)
  BY DEF StreamTypes
<1>4. /\ request' = [main |-> [text |-> Stream!Take(b), at |-> m], delayed |-> request.delayed]
      /\ request'.main # Stream!Idle
      /\ crossed' = (crossed \/ request.delayed # Stream!Idle)
  BY <1>1, <1>2, <1>3 DEF Stream!Meet, Stream!Idle
<1>5. /\ m \in Nat /\ m \in 0..Len(th) /\ b \in Text /\ th \in Seq(Text) /\ Len(messages) \in Nat
      /\ Len(messages) <= Len(th) /\ Len(th) \in Nat
  BY DEF Held, StreamTypes
<1>6. StreamTypes'
  <2>1. request' \in [main : Requests, delayed : Requests]
    BY <1>2, <1>3, <1>4, <1>5 DEF Requests
  <2>2. request'.main.at <= Len(messages') /\ request'.delayed.at <= Len(messages')
    BY <1>1, <1>3, <1>4, <1>5 DEF Requests
  <2>3. QED
    BY <1>1, <1>4, <1>5, <2>1, <2>2 DEF StreamTypes
<1>7. StreamBusy'
  BY <1>1, <1>4 DEF StreamBusy
<1>8. ~crossed' /\ Keeps(th, b, m) => Kept'
  BY <1>1, <1>4 DEF Keeps, Kept
<1>9. QED
  BY <1>1, <1>4, <1>6, <1>7, <1>8 DEF GoesOn

LEMMA ProceedOn ==
    ASSUME Stream!ConstantsType, StreamTypes, StreamBusy, NEW th, NEW b, NEW m,
           NEW d \in Delays, NEW next \in Nexts, Held(th, b, m),
           b = <<>> => d = "none" /\ m = 0 /\ next = "nothing",
           d = "flushing" <=> delayed = "flushing", Stream!Proceed(th, b, m, d, next)
    PROVE  GoesOn(th, b, m, next) /\ job'.step = IF next = "nothing" THEN "idle" ELSE "last"
<1>1. CASE next # "nothing"
  <2>1. Stream!Finalize(th, b, m, next)
    BY <1>1 DEF Stream!Proceed
  <2>2. QED
    BY <1>1, <2>1, FinalizeOn
<1>2. CASE next = "nothing"
  <2>1. /\ buffer' = b /\ msg' = m /\ delayed' = d /\ messages' = th
        /\ job' = [step |-> "idle", next |-> "nothing"]
        /\ request' = [request EXCEPT !.main = Stream!Idle] /\ crossed' = crossed
    BY <1>2 DEF Stream!Proceed, Stream!Ready
  <2>2. request \in [main : Requests, delayed : Requests] /\ request.delayed.at <= Len(messages)
    BY DEF StreamTypes
  <2>3. request' = [main |-> Stream!Idle, delayed |-> request.delayed]
    BY <2>1, <2>2
  <2>4. /\ m \in 0..Len(th) /\ b \in Text /\ th \in Seq(Text) /\ Len(messages) \in Nat
        /\ Len(messages) <= Len(th) /\ Len(th) \in Nat
    BY DEF Held, StreamTypes
  <2>5. StreamTypes'
    <3>1. request' \in [main : Requests, delayed : Requests]
      BY <2>2, <2>3, IdleType
    <3>2. request'.main.at <= Len(messages') /\ request'.delayed.at <= Len(messages')
      BY <2>1, <2>2, <2>3, <2>4, IdleType DEF Requests
    <3>3. QED
      BY <2>1, <2>4, <3>1, <3>2 DEF StreamTypes, Nexts
  <2>6. StreamBusy'
    BY <1>2, <2>1, <2>3 DEF StreamBusy
  <2>7. ~crossed' /\ Keeps(th, b, m) => Kept'
    BY <2>1, <2>3 DEF Keeps, Kept
  <2>8. QED
    BY <1>2, <2>1, <2>5, <2>6, <2>7 DEF GoesOn
<1>3. QED
  BY <1>1, <1>2

LEMMA DebounceOn ==
    ASSUME Stream!ConstantsType, StreamTypes, StreamBusy, NEW th, NEW b, NEW m, NEW rec,
           NEW next \in Nexts, Held(th, b, m), b # <<>>, Stream!Debounce(th, b, m, rec, next)
    PROVE  GoesOn(th, b, m, next)
<1>1. CASE ~rec
  BY <1>1, FlushOn DEF Stream!Debounce
<1>2. CASE rec
  <2> DEFINE d == IF delayed = "none" THEN "sleeping" ELSE delayed
  <2>1. d \in Delays /\ (d = "flushing" <=> delayed = "flushing")
    BY DEF Delays, StreamTypes
  <2>2. Stream!Proceed(th, b, m, d, next)
    BY <1>2 DEF Stream!Debounce
  <2> HIDE DEF d
  <2>3. QED
    BY <2>1, <2>2, ProceedOn
<1>3. QED
  BY <1>1, <1>2

LEMMA AppendOn ==
    ASSUME Stream!ConstantsType, StreamTypes, StreamBusy, NEW c \in Text, c # <<>>,
           NEW next \in Nexts, Stream!AppendTo(c, next)
    PROVE  GoesOn(messages, buffer \o c, msg, next)
<1>1. Held(messages, buffer \o c, msg) /\ buffer \o c # <<>>
  BY Joined DEF Held, StreamTypes
<1>2. CASE Len(buffer \o c) > Limit
  <2>1. Stream!Flush(messages, buffer \o c, msg, "overflow", next)
    BY <1>2 DEF Stream!AppendTo
  <2>2. Len(buffer \o c) \in Nat /\ Limit \in Nat
    BY <1>1 DEF Held, Text, Stream!ConstantsType
  <2>3. QED
    BY <1>1, <1>2, <2>1, <2>2, FlushOn
<1>3. CASE ~(Len(buffer \o c) > Limit)
  <2>1. Stream!Debounce(messages, buffer \o c, msg, recent, next)
    BY <1>3 DEF Stream!AppendTo
  <2>2. QED
    BY <1>1, <2>1, DebounceOn
<1>4. QED
  BY <1>2, <1>3

-----------------------------------------------------------------------------
(* The agent's texts.  An agent whose texts have ends streams the growing  *)
(* one, and what it said before stands complete.                           *)
SaidTypes ==
    /\ compact \in Styles /\ said \in 0..MaxSaid /\ block \in Text /\ Len(block) <= said
    /\ text \in Text /\ accumulated \in Text /\ partial \in 0..MaxSaid /\ sent \in BOOLEAN
    /\ recent \in BOOLEAN /\ refusals \in 0..MaxStreamFailures
    /\ job.next \in {"tool", "echo"} => said > 0
Blocks ==
    ~compact =>
        /\ block # <<>> => buffer # <<>>
        /\ job.next = "nothing" \/ job.step = "post" => partial = Len(block)
        /\ job.next \in {"complete", "tool", "echo"} => block = <<>>
Answers ==
    ~compact /\ refusals = 0 =>
        /\ reported.text = reported.of
        /\ block = <<>> /\ job.next # "complete" /\ job.step # "post" =>
             accumulated = text /\ (text # <<>> => sent)

(* The pieces after a up to b, and messages that hold those up to base.    *)
Span(a, b) == [i \in 1..(b - a) |-> a + i]
Chain(th, u) ==
    /\ u \in [0..Len(th) -> Nat] /\ u[0] = 0
    /\ \A i \in 1..Len(th) : u[i - 1] <= u[i] /\ th[i] = Span(u[i - 1], u[i])
Chained(th, m, base) ==
    /\ m \in {0, Len(th)}
    /\ \E u : Chain(th, u) /\ u[IF m = 0 THEN Len(th) ELSE m - 1] = base
Order(base) ==
    /\ Chained(messages, msg, base) /\ buffer = Span(base, base + Len(buffer))
    /\ IF job.step = "post" THEN base <= said /\ request.main.text = Span(base, said)
       ELSE said = base + Len(buffer) + (IF job.next \in {"tool", "echo"} THEN 1 ELSE 0)
Ordered == ~compact /\ refusals = 0 /\ ~crossed => \E base \in Nat : Order(base)

StreamInv == /\ StreamTypes /\ StreamBusy /\ SaidTypes /\ Blocks /\ Answers /\ Kept /\ Ordered

LEMMA EmptyText == <<>> \in Text /\ <<>> \in Seq(Text) /\ Len(<<>>) = 0
BY DEF Text

LEMMA StreamInit == Stream!ConstantsType /\ Stream!Init => StreamInv
<1> SUFFICES ASSUME Stream!ConstantsType, Stream!Init PROVE StreamInv
  OBVIOUS
<1>1. StreamTypes
  <2>1. /\ messages = <<>> /\ buffer = <<>> /\ msg = 0 /\ delayed = "none" /\ crossed = FALSE
        /\ job = [step |-> "idle", next |-> "nothing"]
        /\ request = [main |-> Stream!Idle, delayed |-> Stream!Idle]
    BY DEF Stream!Init, Stream!Ready
  <2>4. messages \in Seq(Text) /\ buffer \in Text /\ msg \in 0..Len(messages) /\ Len(messages) = 0
    BY <2>1, EmptyText
  <2>5. crossed \in BOOLEAN
    BY Zenon, <2>1
  <2>2. request \in [main : Requests, delayed : Requests] /\ request.main.at = 0 /\ request.delayed.at = 0
    BY <2>1, IdleType
  <2>3. QED
    BY <2>1, <2>2, <2>4, <2>5 DEF StreamTypes, Delays, Nexts
<1>2. StreamBusy
  BY DEF StreamBusy, Stream!Init, Stream!Ready
<1>3. SaidTypes /\ Blocks /\ Answers
  <2>1. /\ compact \in Styles /\ said = 0 /\ block = <<>> /\ text = <<>> /\ accumulated = <<>>
        /\ partial = 0 /\ sent = FALSE /\ recent = FALSE /\ refusals = 0
        /\ job = [step |-> "idle", next |-> "nothing"] /\ reported.text = reported.of
    BY DEF Stream!Init, Stream!Ready
  <2>2. MaxSaid \in Nat /\ MaxStreamFailures \in Nat
    BY DEF Stream!ConstantsType
  <2>6. sent \in BOOLEAN /\ recent \in BOOLEAN
    BY Zenon, <2>1
  <2>7. block \in Text /\ text \in Text /\ accumulated \in Text /\ Len(block) = 0
    BY <2>1, EmptyText
  <2>3. SaidTypes
    BY <2>1, <2>2, <2>6, <2>7 DEF SaidTypes
  <2>4. Blocks /\ Answers
    BY <2>1 DEF Blocks, Answers
  <2>5. QED
    BY <2>3, <2>4
<1>4. Kept
  BY DEF Kept, Keeps, Stream!Init, Stream!Ready
<1>5. Ordered
  <2>1. Len(messages) = 0 /\ Len(buffer) = 0 /\ buffer = <<>> /\ msg = 0 /\ said = 0
        /\ job.step # "post" /\ job.next = "nothing"
    BY DEF Stream!Init, Stream!Ready
  <2>2. Chain(messages, [i \in {0} |-> 0])
    BY <2>1 DEF Chain
  <2>3. Chained(messages, msg, 0)
    BY <2>1, <2>2 DEF Chained
  <2>4. buffer = Span(0, 0 + Len(buffer))
    BY <2>1 DEF Span
  <2>5. Order(0)
    BY <2>1, <2>3, <2>4 DEF Order
  <2>6. QED
    BY <2>5 DEF Ordered
<1>6. QED
  BY <1>1, <1>2, <1>3, <1>4, <1>5 DEF StreamInv

(* A request leaves the messages in their order, up to what it shows.      *)
LEMMA ChainedOn ==
    ASSUME NEW th \in Seq(Text), NEW m \in 0..Len(th), NEW base \in Nat, Chained(th, m, base),
           NEW r, r.text \in Text, r.at = m, NEW end \in Nat, base <= end, r.text = Span(base, end)
    PROVE  /\ Chained(Stream!Applied(th, r), IF m = 0 THEN Len(Stream!Applied(th, r)) ELSE m, base)
           /\ Chained(Stream!Applied(th, r), 0, end)
<1> DEFINE ch == Stream!Applied(th, r)
           n == Len(ch)
<1>1. PICK u : Chain(th, u) /\ u[IF m = 0 THEN Len(th) ELSE m - 1] = base
  BY DEF Chained
<1>2. /\ m \in {0, Len(th)} /\ Len(th) \in Nat /\ n = IF m = 0 THEN Len(th) + 1 ELSE Len(th)
      /\ ch[n] = r.text /\ \A i \in 1..(n - 1) : ch[i] = th[i]
  <2>1. m \in {0, Len(th)} /\ Len(th) \in Nat
    BY DEF Chained
  <2>2. QED
    BY <2>1, AppliedTypes
<1> HIDE DEF ch
<1>3. n \in Nat \ {0} /\ n - 1 <= Len(th) /\ u[n - 1] = base
  BY <1>1, <1>2
<1> DEFINE v == [i \in 0..n |-> IF i = n THEN end ELSE u[i]]
<1>4. Chain(ch, v)
  <2>1. u \in [0..Len(th) -> Nat] /\ u[0] = 0
    BY <1>1 DEF Chain
  <2>2. v \in [0..n -> Nat] /\ v[0] = 0 /\ v[n] = end /\ \A i \in 0..(n - 1) : v[i] = u[i]
    BY <1>2, <1>3, <2>1
  <2> HIDE DEF v, n
  <2>3. ASSUME NEW i \in 1..n PROVE v[i - 1] <= v[i] /\ ch[i] = Span(v[i - 1], v[i])
    <3>1. CASE i = n
      BY <1>2, <1>3, <2>2, <3>1
    <3>2. CASE i # n
      <4>1. i \in 1..Len(th) /\ i \in 1..(n - 1) /\ i - 1 \in 0..(n - 1) /\ i \in 0..(n - 1)
        BY <1>2, <1>3, <3>2
      <4>2. u[i - 1] <= u[i] /\ th[i] = Span(u[i - 1], u[i])
        BY <1>1, <4>1 DEF Chain
      <4>3. QED
        BY <1>2, <2>2, <4>1, <4>2
    <3>3. QED
      BY <3>1, <3>2
  <2>4. QED
    BY <2>2, <2>3 DEF Chain, n
<1>5. v[n - 1] = base /\ v[n] = end
  BY <1>3
<1> HIDE DEF v
<1>6. Chained(ch, n, base)
  BY <1>3, <1>4, <1>5 DEF Chained
<1>7. Chained(ch, 0, end)
  BY <1>4, <1>5 DEF Chained
<1>8. n = IF m = 0 THEN n ELSE m
  BY <1>2
<1>9. QED
  BY <1>6, <1>7, <1>8 DEF ch

LEMMA Spans ==
    ASSUME NEW a \in Nat, NEW b \in Nat, a <= b
    PROVE  /\ Span(a, b) \in Seq(Nat) /\ Len(Span(a, b)) = b - a
           /\ \A i \in 1..(b - a) : Span(a, b)[i] = a + i
           /\ Span(b, b) = <<>>
           /\ Span(a, b) \o <<b + 1>> = Span(a, b + 1) /\ Span(b, b + 1) = <<b + 1>>
<1>1. /\ Span(a, b) \in Seq(Nat) /\ Len(Span(a, b)) = b - a
      /\ \A i \in 1..(b - a) : Span(a, b)[i] = a + i
  BY DEF Span
<1>2. Span(b, b) = <<>>
  BY DEF Span
<1>3. Span(b, b + 1) = <<b + 1>>
  BY DEF Span
<1>4. Span(a, b) \o <<b + 1>> = Span(a, b + 1)
  <2>1. Span(a, b + 1) \in Seq(Nat) /\ Len(Span(a, b + 1)) = b + 1 - a
        /\ \A i \in 1..(b + 1 - a) : Span(a, b + 1)[i] = a + i
    BY DEF Span
  <2>2. Span(a, b) \o <<b + 1>> \in Seq(Nat) /\ Len(Span(a, b) \o <<b + 1>>) = b + 1 - a
    BY <1>1
  <2>3. ASSUME NEW i \in 1..(b + 1 - a) PROVE (Span(a, b) \o <<b + 1>>)[i] = a + i
    <3>1. CASE i = b + 1 - a
      BY <1>1, <3>1
    <3>2. CASE i # b + 1 - a
      <4>1. i \in 1..(b - a)
        BY <3>2
      <4>2. QED
        BY <1>1, <4>1
    <3>3. QED
      BY <3>1, <3>2
  <2>4. QED
    BY <2>1, <2>2, <2>3, SeqEqual
<1>5. QED
  BY <1>1, <1>2, <1>3, <1>4

-----------------------------------------------------------------------------
(* The steps of the stream. *)
After == StreamInv' /\ (~crossed' => Covers(messages, messages'))

LEMMA SameStream ==
    ASSUME StreamTypes, StreamBusy, Kept,
           UNCHANGED <<messages, buffer, msg, delayed, job, request, crossed>>
    PROVE  StreamTypes' /\ StreamBusy' /\ Kept' /\ Covers(messages, messages')
<1>1. Covers(messages, messages')
  BY CoversShown DEF StreamTypes
<1>2. StreamTypes' /\ StreamBusy' /\ Kept'
  BY DEF StreamTypes, StreamBusy, Kept, Keeps
<1>3. QED
  BY <1>1, <1>2

LEMMA SameOrder ==
    ASSUME Ordered, UNCHANGED <<compact, crossed, messages, buffer, msg, said, request>>,
           refusals' = 0 => refusals = 0,
           job.step # "post" /\ job'.step # "post",
           job.next \notin {"tool", "echo"} /\ job'.next \notin {"tool", "echo"}
    PROVE  Ordered'
<1> SUFFICES ASSUME ~compact', refusals' = 0, ~crossed' PROVE (\E base \in Nat : Order(base))'
  BY DEF Ordered
<1>1. PICK base \in Nat : Order(base)
  BY DEF Ordered
<1>2. Chained(messages, msg, base)'
  BY <1>1 DEF Order, Chained, Chain, Span
<1>3. Order(base)'
  BY <1>1, <1>2 DEF Order, Span
<1>4. QED
  BY <1>3

LEMMA SaidMore ==
    ASSUME Stream!ConstantsType, SaidTypes, said < MaxSaid
    PROVE  /\ said + 1 \in Pieces /\ said + 1 \in 0..MaxSaid /\ said \in Nat
           /\ <<said + 1>> \in Text /\ <<said + 1>> # <<>>
BY DEF Stream!ConstantsType, SaidTypes, Pieces, Text

LEMMA KeepsMore ==
    ASSUME StreamTypes, Kept, ~crossed, NEW c \in Text, c # <<>>
    PROVE  Keeps(messages, buffer \o c, msg)
<1>1. buffer \in Text
  BY DEF StreamTypes
<1>2. \A s, k : Starts(s, buffer, k) => Starts(s, buffer \o c, k)
  BY <1>1, Joined
<1>3. Keeps(messages, buffer, msg)
  BY DEF Kept
<1>4. QED
  BY <1>2, <1>3 DEF Keeps

LEMMA OrderNow ==
    ASSUME NEW base \in Nat, NEW th, NEW b, NEW m, messages' = th, buffer' = b, msg' = m,
           Chained(th, m, base), b = Span(base, base + Len(b)), job'.step # "post",
           said' = base + Len(b) + (IF job'.next \in {"tool", "echo"} THEN 1 ELSE 0)
    PROVE  Order(base)'
<1>1. Chained(messages, msg, base)'
  BY DEF Chained, Chain, Span
<1>2. (buffer = Span(base, base + Len(buffer)))'
  BY DEF Span
<1>3. (said = base + Len(buffer) + (IF job.next \in {"tool", "echo"} THEN 1 ELSE 0))' /\ ~(job.step = "post")'
  OBVIOUS
<1>4. QED
  BY <1>1, <1>2, <1>3 DEF Order

LEMMA SpanLength == ASSUME NEW a \in Nat, NEW b \in Nat, a <= b PROVE Len(Span(a, b)) = b - a
BY DEF Span

LEMMA SpanOne == ASSUME NEW b \in Nat PROVE Span(b, b) = <<>> /\ Span(b, b + 1) = <<b + 1>>
<1>1. b <= b /\ Len(Span(b, b)) = 0
  BY SpanLength
<1>2. QED
  BY <1>1, Spans

LEMMA One == ASSUME NEW c \in Text, Len(c) = 1 PROVE c = <<c[1]>>
<1>1. c \in Seq(Pieces) /\ <<c[1]>> \in Seq(Pieces) /\ Len(<<c[1]>>) = 1 /\ <<c[1]>>[1] = c[1]
  BY DEF Text
<1>2. \A i \in 1..Len(c) : c[i] = <<c[1]>>[i]
  BY <1>1
<1>3. QED
  BY <1>1, <1>2, SeqEqual

LEMMA OrderMore ==
    ASSUME StreamTypes, StreamBusy, SaidTypes, Ordered, job.step = "idle", said' = said + 1,
           NEW next \in {"nothing", "complete"}, GoesOn(messages, buffer \o <<said + 1>>, msg, next),
           UNCHANGED <<compact, refusals>>
    PROVE  Ordered'
<1> SUFFICES ASSUME ~compact', refusals' = 0, ~crossed' PROVE (\E base \in Nat : Order(base))'
  BY DEF Ordered
<1>1. ~crossed /\ messages' = messages /\ buffer' = buffer \o <<said + 1>> /\ msg' = msg
      /\ job'.step # "post" /\ job'.next = next
  BY DEF GoesOn
<1>2. PICK base \in Nat : Order(base)
  BY <1>1 DEF Ordered
<1>3. said = base + Len(buffer) /\ Chained(messages, msg, base) /\ buffer = Span(base, base + Len(buffer))
  BY <1>2 DEF Order, StreamBusy
<1>4. said \in Nat /\ Len(buffer) \in Nat
  BY DEF SaidTypes, StreamTypes, Text
<1>5. base <= said /\ base <= said + 1 /\ said + 1 \in Nat /\ buffer = Span(base, said)
  BY <1>3, <1>4
<1>6. Span(base, said) \o <<said + 1>> = Span(base, said + 1)
  BY <1>4, <1>5, Spans
<1>7. Len(Span(base, said + 1)) = said + 1 - base
  BY <1>2, <1>4, <1>5, SpanLength
<1>8. buffer' = Span(base, said + 1) /\ Len(buffer') = said + 1 - base
  BY <1>1, <1>5, <1>6, <1>7
<1>9. base + Len(buffer') = said + 1
  BY <1>4, <1>8
<1>10. Order(base)'
  <2>1. said' = base + Len(buffer') + (IF job'.next \in {"tool", "echo"} THEN 1 ELSE 0)
    BY <1>1, <1>4, <1>9
  <2>2. buffer' = Span(base, base + Len(buffer'))
    BY <1>8, <1>9
  <2>3. QED
    BY <1>1, <1>3, <2>1, <2>2, OrderNow
<1>11. QED
  BY <1>10

LEMMA TextGrowsStep ==
    ASSUME Stream!ConstantsType, StreamInv, compact' = compact, Stream!TextGrows PROVE After
<1>0. StreamTypes /\ StreamBusy /\ SaidTypes /\ Blocks /\ Answers /\ Kept /\ Ordered
  BY DEF StreamInv
<1>1. /\ job.step = "idle" /\ said < MaxSaid /\ said' = said + 1
      /\ block' = Append(block, said + 1) /\ text' = block' /\ partial' = Len(block')
      /\ UNCHANGED <<sent, accumulated, reported, recent, refusals>>
      /\ IF Len(block') > partial THEN Stream!AppendTo(Stream!Drop(block', partial), "nothing")
         ELSE UNCHANGED <<messages, buffer, msg, delayed, job, request, crossed>>
  BY DEF Stream!TextGrows, Stream!Says
<1>2. said + 1 \in Pieces /\ said \in Nat /\ said' \in 0..MaxSaid /\ MaxSaid \in Nat
      /\ block \in Text /\ Len(block) <= said /\ partial \in Nat
  BY <1>0, <1>1, SaidMore DEF SaidTypes, Stream!ConstantsType
<1>3. /\ block' \in Text /\ Len(block') = Len(block) + 1 /\ block'[Len(block) + 1] = said + 1
      /\ Len(block) \in Nat /\ block' # <<>>
  BY <1>1, <1>2 DEF Text
<1>4. job.next = "nothing"
  BY <1>0, <1>1 DEF StreamBusy
<1>5. ASSUME job'.next = "nothing" PROVE SaidTypes'
  <2>1. Len(block') <= said' /\ partial' \in 0..MaxSaid
    BY <1>1, <1>2, <1>3
  <2>2. QED
    BY <1>0, <1>1, <1>2, <1>3, <1>5, <2>1 DEF SaidTypes
<1>6. ASSUME job'.next = "nothing", buffer' # <<>> \/ compact PROVE Blocks' /\ Answers'
  BY <1>0, <1>1, <1>3, <1>6 DEF Blocks, Answers
<1>7. CASE Len(block') > partial
  <2> DEFINE c == Stream!Drop(block', partial)
  <2>1. c \in Text /\ c # <<>> /\ Len(c) = Len(block') - partial
        /\ \A i \in 1..(Len(block') - partial) : c[i] = block'[partial + i]
    BY <1>2, <1>3, <1>7, Dropped
  <2>2. Stream!AppendTo(c, "nothing")
    BY <1>1, <1>7
  <2> HIDE DEF c
  <2>3. GoesOn(messages, buffer \o c, msg, "nothing")
    BY <1>0, <2>1, <2>2, AppendOn DEF Nexts
  <2>4. /\ StreamTypes' /\ StreamBusy' /\ job'.next = "nothing" /\ buffer' = buffer \o c
        /\ ~crossed' => messages' = messages /\ ~crossed
        /\ ~crossed' /\ Keeps(messages, buffer \o c, msg) => Kept'
    BY <2>3 DEF GoesOn
  <2>5. buffer \in Text /\ messages \in Seq(Text)
    BY <1>0 DEF StreamTypes
  <2>6. buffer' # <<>>
    BY <2>1, <2>4, <2>5, Joined
  <2>7. Kept'
    <3>1. CASE crossed'
      BY <3>1 DEF Kept
    <3>2. CASE ~crossed'
      BY <1>0, <2>1, <2>4, <3>2, KeepsMore
    <3>3. QED
      BY <3>1, <3>2
  <2>8. Ordered'
    <3>1. CASE compact
      BY <3>1 DEF Ordered
    <3>2. CASE ~compact
      <4>1. partial = Len(block)
        BY <1>0, <1>4, <3>2 DEF Blocks
      <4>2. Len(c) = 1 /\ c[1] = said + 1
        BY <1>2, <1>3, <2>1, <4>1
      <4>3. c = <<said + 1>>
        BY <2>1, <4>2, One
      <4>4. QED
        BY <1>0, <1>1, <2>3, <4>3, OrderMore
    <3>3. QED
      BY <3>1, <3>2
  <2>9. ~crossed' => Covers(messages, messages')
    BY <2>4, <2>5, CoversShown
  <2>10. QED
    BY <1>5, <1>6, <2>4, <2>6, <2>7, <2>8, <2>9 DEF After, StreamInv
<1>8. CASE ~(Len(block') > partial)
  <2>1. UNCHANGED <<messages, buffer, msg, delayed, job, request, crossed>>
    BY <1>1, <1>8
  <2>2. compact
    BY <1>0, <1>2, <1>3, <1>4, <1>8 DEF Blocks
  <2>3. StreamTypes' /\ StreamBusy' /\ Kept' /\ Covers(messages, messages')
    BY <1>0, <2>1, SameStream
  <2>4. Ordered'
    BY <2>2 DEF Ordered
  <2>5. QED
    BY <1>4, <1>5, <1>6, <2>1, <2>2, <2>3, <2>4 DEF After, StreamInv
<1>9. QED
  BY <1>7, <1>8

LEMMA NextChunkedStep ==
    ASSUME StreamInv, compact' = compact, Stream!NextChunked PROVE After
<1>0. StreamTypes /\ StreamBusy /\ SaidTypes /\ Blocks /\ Answers /\ Kept
  BY DEF StreamInv
<1>1. /\ compact /\ block' = <<>>
      /\ UNCHANGED <<said, text, partial, sent, accumulated, reported, recent, refusals>>
      /\ UNCHANGED <<messages, buffer, msg, delayed, job, request, crossed>>
  BY DEF Stream!NextChunked, Stream!answer
<1>2. SaidTypes'
  <2>1. block' \in Text /\ Len(block') = 0 /\ 0 <= said
    BY <1>0, <1>1, EmptyText DEF SaidTypes
  <2>2. QED
    BY <1>0, <1>1, <2>1 DEF SaidTypes
<1>3. Blocks' /\ Answers' /\ Ordered'
  BY <1>1 DEF Blocks, Answers, Ordered
<1>4. QED
  BY <1>0, <1>1, <1>2, <1>3, SameStream DEF After, StreamInv

LEMMA FinalizeNow ==
    ASSUME Stream!ConstantsType, StreamTypes, StreamBusy, Kept, NEW next \in Nexts \ {"nothing"},
           buffer # <<>>, Stream!Finalize(messages, buffer, msg, next)
    PROVE  /\ GoesOn(messages, buffer, msg, next) /\ StreamTypes' /\ StreamBusy' /\ Kept'
           /\ job'.step = "last" /\ job'.next = next /\ buffer' = buffer
           /\ ~crossed' => Covers(messages, messages')
<1>1. Held(messages, buffer, msg) /\ messages \in Seq(Text)
  BY DEF Held, StreamTypes
<1>2. GoesOn(messages, buffer, msg, next) /\ job'.step = "last"
  BY <1>1, FinalizeOn
<1>3. /\ StreamTypes' /\ StreamBusy' /\ job'.next = next /\ buffer' = buffer
      /\ ~crossed' => ~crossed /\ messages' = messages
      /\ ~crossed' /\ Keeps(messages, buffer, msg) => Kept'
  BY <1>2 DEF GoesOn
<1>4. Kept'
  BY <1>3 DEF Kept
<1>5. ~crossed' => Covers(messages, messages')
  BY <1>1, <1>3, CoversShown
<1>6. QED
  BY <1>2, <1>3, <1>4, <1>5

LEMMA OrderStays ==
    ASSUME StreamTypes, StreamBusy, Ordered, job.step = "idle", NEW next \in Nexts,
           GoesOn(messages, buffer, msg, next), UNCHANGED <<compact, refusals>>, said \in Nat,
           said' = IF next \in {"tool", "echo"} THEN said + 1 ELSE said
    PROVE  Ordered'
<1> SUFFICES ASSUME ~compact', refusals' = 0, ~crossed' PROVE (\E base \in Nat : Order(base))'
  BY DEF Ordered
<1>1. ~crossed /\ messages' = messages /\ buffer' = buffer /\ msg' = msg
      /\ job'.step # "post" /\ job'.next = next
  BY DEF GoesOn
<1>2. PICK base \in Nat : Order(base)
  BY <1>1 DEF Ordered
<1>3. said = base + Len(buffer) /\ Chained(messages, msg, base) /\ buffer = Span(base, base + Len(buffer))
  BY <1>2 DEF Order, StreamBusy
<1>4. Len(buffer) \in Nat
  BY DEF StreamTypes, Text
<1>5. said' = base + Len(buffer) + (IF job'.next \in {"tool", "echo"} THEN 1 ELSE 0)
  BY <1>1, <1>2, <1>3, <1>4
<1>6. Order(base)'
  BY <1>1, <1>2, <1>3, <1>5, OrderNow
<1>7. QED
  BY <1>2, <1>6

LEMMA PostNow ==
    ASSUME StreamTypes, StreamBusy, Kept, job.step = "idle", buffer = <<>>,
           NEW next \in {"complete", "result"}, NEW c \in Text, c # <<>>, Stream!Post(c, next)
    PROVE  /\ StreamTypes' /\ StreamBusy' /\ Kept' /\ Covers(messages, messages')
           /\ job'.step = "post" /\ job'.next = next
           /\ request'.main = [text |-> c, at |-> 0]
           /\ UNCHANGED <<messages, buffer, msg, crossed>>
<1>1. /\ job' = [step |-> "post", next |-> next]
      /\ request' = [request EXCEPT !.main = [text |-> c, at |-> 0]]
      /\ UNCHANGED <<messages, buffer, msg, delayed, crossed>>
  BY DEF Stream!Post
<1>2. /\ request \in [main : Requests, delayed : Requests] /\ messages \in Seq(Text)
      /\ Len(messages) \in Nat /\ request.delayed.at <= Len(messages)
  BY DEF StreamTypes
<1>3. request' = [main |-> [text |-> c, at |-> 0], delayed |-> request.delayed]
  BY <1>1, <1>2
<1>4. delayed = "none" /\ msg = 0 /\ request.delayed = Stream!Idle
  BY DEF StreamBusy
<1>5. StreamTypes'
  <2>1. request' \in [main : Requests, delayed : Requests]
    BY <1>2, <1>3 DEF Requests
  <2>2. request'.main.at <= Len(messages') /\ request'.delayed.at <= Len(messages')
    BY <1>1, <1>2, <1>3
  <2>3. job' \in [step : {"idle", "overflow", "flush", "last", "post"}, next : Nexts]
    BY <1>1 DEF Nexts
  <2>4. QED
    BY <1>1, <2>1, <2>2, <2>3 DEF StreamTypes
<1>6. StreamBusy'
  BY <1>1, <1>3, <1>4 DEF StreamBusy, Stream!Idle
<1>7. Kept'
  BY <1>1, <1>3, <1>4 DEF Kept, Keeps
<1>8. QED
  BY <1>1, <1>2, <1>3, <1>5, <1>6, <1>7, CoversShown

LEMMA OrderPost ==
    ASSUME StreamTypes, StreamBusy, Ordered, job.step = "idle", buffer = <<>>, said \in Nat,
           job'.step = "post", request'.main = [text |-> <<said + 1>>, at |-> 0], said' = said + 1,
           UNCHANGED <<compact, refusals, messages, buffer, msg, crossed>>
    PROVE  Ordered'
<1> SUFFICES ASSUME ~compact', refusals' = 0, ~crossed' PROVE (\E base \in Nat : Order(base))'
  BY DEF Ordered
<1>1. PICK base \in Nat : Order(base)
  BY DEF Ordered
<1>2. said = base + Len(buffer) /\ Chained(messages, msg, base) /\ buffer = Span(base, base + Len(buffer))
  BY <1>1 DEF Order, StreamBusy
<1>3. Len(buffer) = 0 /\ said = base
  BY <1>1, <1>2, EmptyText
<1>4. request'.main.text = Span(base, said')
  BY <1>3, Spans
<1>5. Chained(messages, msg, base)' /\ (buffer = Span(base, base + Len(buffer)))'
  BY <1>2 DEF Chained, Chain, Span
<1>6. (IF job.step = "post" THEN base <= said /\ request.main.text = Span(base, said) ELSE FALSE)'
  BY <1>3, <1>4 DEF Span
<1>7. Order(base)'
  BY <1>5, <1>6 DEF Order
<1>8. QED
  BY <1>1, <1>7

LEMMA TextEndsStep ==
    ASSUME Stream!ConstantsType, StreamInv, compact' = compact, Stream!TextEnds PROVE After
<1>0. StreamTypes /\ StreamBusy /\ SaidTypes /\ Blocks /\ Answers /\ Kept /\ Ordered
  BY DEF StreamInv
<1>1. /\ ~compact /\ job.step = "idle" /\ block # <<>> /\ block' = <<>>
      /\ UNCHANGED <<partial, sent, accumulated, reported, recent, refusals>>
      /\ \/ Stream!Finalize(messages, buffer, msg, "complete") /\ UNCHANGED <<said, text>>
         \/ /\ said < MaxSaid /\ said' = said + 1 /\ text' = Append(block, said + 1)
            /\ Stream!AppendTo(<<said + 1>>, "complete")
  BY DEF Stream!TextEnds, Stream!Says
<1>2. buffer # <<>> /\ said \in Nat /\ block' \in Text /\ Len(block') = 0
  BY <1>0, <1>1, EmptyText DEF Blocks, SaidTypes
<1>3. ASSUME job'.next = "complete", text' \in Text, said' \in 0..MaxSaid PROVE SaidTypes'
  BY <1>0, <1>1, <1>2, <1>3 DEF SaidTypes
<1>4. ASSUME job'.next = "complete", job'.step # "post" PROVE Blocks' /\ Answers'
  BY <1>0, <1>1, <1>4 DEF Blocks, Answers
<1>5. CASE Stream!Finalize(messages, buffer, msg, "complete") /\ UNCHANGED <<said, text>>
  <2>1. /\ GoesOn(messages, buffer, msg, "complete") /\ StreamTypes' /\ StreamBusy' /\ Kept'
        /\ job'.step = "last" /\ job'.next = "complete"
        /\ ~crossed' => Covers(messages, messages')
    BY <1>0, <1>2, <1>5, FinalizeNow DEF Nexts
  <2>2. Ordered'
    BY <1>0, <1>1, <1>2, <1>5, <2>1, OrderStays DEF Nexts
  <2>3. text' \in Text /\ said' \in 0..MaxSaid
    BY <1>0, <1>5 DEF SaidTypes
  <2>4. QED
    BY <1>3, <1>4, <2>1, <2>2, <2>3 DEF After, StreamInv
<1>6. CASE /\ said < MaxSaid /\ said' = said + 1 /\ text' = Append(block, said + 1)
           /\ Stream!AppendTo(<<said + 1>>, "complete")
  <2>1. said + 1 \in Pieces /\ said' \in 0..MaxSaid /\ <<said + 1>> \in Text /\ <<said + 1>> # <<>>
    BY <1>0, <1>6, SaidMore
  <2>2. GoesOn(messages, buffer \o <<said + 1>>, msg, "complete")
    BY <1>0, <1>6, <2>1, AppendOn DEF Nexts
  <2>3. /\ StreamTypes' /\ StreamBusy' /\ job'.next = "complete" /\ job'.step # "post"
        /\ ~crossed' => messages' = messages /\ ~crossed
        /\ ~crossed' /\ Keeps(messages, buffer \o <<said + 1>>, msg) => Kept'
    BY <2>2 DEF GoesOn
  <2>4. Kept'
    <3>1. CASE crossed'
      BY <3>1 DEF Kept
    <3>2. CASE ~crossed'
      BY <1>0, <2>1, <2>3, <3>2, KeepsMore
    <3>3. QED
      BY <3>1, <3>2
  <2>5. Ordered'
    BY <1>0, <1>1, <1>6, <2>2, OrderMore
  <2>6. ~crossed' => Covers(messages, messages')
    BY <1>0, <2>3, CoversShown DEF StreamTypes
  <2>7. text' \in Text
    BY <1>0, <1>6, <2>1 DEF SaidTypes, Text
  <2>8. QED
    BY <1>3, <1>4, <2>1, <2>3, <2>4, <2>5, <2>6, <2>7 DEF After, StreamInv
<1>7. QED
  BY <1>1, <1>5, <1>6

LEMMA WholeTextStep ==
    ASSUME Stream!ConstantsType, StreamInv, compact' = compact, Stream!WholeText PROVE After
<1>0. StreamTypes /\ StreamBusy /\ SaidTypes /\ Blocks /\ Answers /\ Kept /\ Ordered
  BY DEF StreamInv
<1>1. /\ job.step = "idle" /\ said < MaxSaid /\ said' = said + 1 /\ buffer = <<>>
      /\ ~compact => block = <<>>
      /\ text' = <<said + 1>> /\ block' = <<>> /\ Stream!Post(<<said + 1>>, "complete")
      /\ UNCHANGED <<partial, sent, accumulated, reported, recent, refusals>>
  BY DEF Stream!WholeText, Stream!Says, Stream!BetweenTexts
<1>2. said \in Nat /\ said' \in 0..MaxSaid /\ <<said + 1>> \in Text /\ <<said + 1>> # <<>>
  BY <1>0, <1>1, SaidMore
<1>3. /\ StreamTypes' /\ StreamBusy' /\ Kept' /\ Covers(messages, messages')
      /\ job'.step = "post" /\ job'.next = "complete"
      /\ request'.main = [text |-> <<said + 1>>, at |-> 0]
      /\ UNCHANGED <<messages, buffer, msg, crossed>>
  BY <1>0, <1>1, <1>2, PostNow
<1>4. Ordered'
  BY <1>0, <1>1, <1>2, <1>3, OrderPost
<1>5. SaidTypes'
  <2>1. block' \in Text /\ Len(block') = 0
    BY <1>1, EmptyText
  <2>2. QED
    BY <1>0, <1>1, <1>2, <1>3, <2>1 DEF SaidTypes
<1>6. Blocks' /\ Answers'
  <2>1. job.next = "nothing"
    BY <1>0, <1>1 DEF StreamBusy
  <2>2. QED
    BY <1>0, <1>1, <1>3, <2>1 DEF Blocks, Answers
<1>7. QED
  BY <1>3, <1>4, <1>5, <1>6 DEF After, StreamInv

(* The messages up to base, and one with the next piece. *)
LEMMA ChainedOne ==
    ASSUME NEW th \in Seq(Text), NEW base \in Nat, Chained(th, 0, base), <<base + 1>> \in Text
    PROVE  Chained(Append(th, <<base + 1>>), 0, base + 1)
<1> DEFINE r == [text |-> <<base + 1>>, at |-> 0]
<1>1. r.text = Span(base, base + 1) /\ r.at = 0 /\ r.text \in Text
  <2>1. Span(base, base + 1) = <<base + 1>>
    BY SpanOne
  <2>2. QED
    BY <2>1
<1>2. Stream!Applied(th, r) = Append(th, <<base + 1>>)
  BY DEF Stream!Applied
<1> HIDE DEF r
<1>3. base + 1 \in Nat /\ base <= base + 1 /\ 0 \in 0..Len(th)
  OBVIOUS
<1>4. Chained(Stream!Applied(th, r), 0, base + 1)
  BY <1>1, <1>3, ChainedOn
<1>5. QED
  BY <1>2, <1>4

(* Nothing waits to be shown: all that was said stands in th. *)
LEMMA OrderAll ==
    ASSUME NEW base \in Nat, NEW th, messages' = th, Chained(th, 0, base), msg' = 0,
           buffer' = <<>>, said' = base, job'.step = "idle", job'.next = "nothing"
    PROVE  (\E e \in Nat : Order(e))'
<1>1. <<>> = Span(base, base + Len(<<>>)) /\ said' = base + Len(<<>>)
  <2>1. base + Len(<<>>) = base /\ Span(base, base) = <<>>
    BY SpanOne, EmptyText
  <2>2. QED
    BY <2>1
<1>2. Order(base)'
  BY <1>1, OrderNow
<1>3. QED
  BY <1>2

LEMMA InterruptsStep ==
    ASSUME Stream!ConstantsType, StreamInv, compact' = compact, NEW next \in {"tool", "echo"},
           Stream!Interrupts(next)
    PROVE  After
<1>0. StreamTypes /\ StreamBusy /\ SaidTypes /\ Blocks /\ Answers /\ Kept /\ Ordered
  BY DEF StreamInv
<1>1. /\ job.step = "idle" /\ said < MaxSaid /\ said' = said + 1 /\ block' = <<>>
      /\ ~compact => block = <<>>
      /\ UNCHANGED <<text, sent, accumulated, reported, recent, refusals>>
      /\ IF buffer # <<>> THEN Stream!Finalize(messages, buffer, msg, next) /\ UNCHANGED partial
         ELSE /\ partial' = 0 /\ messages' = Append(messages, <<said + 1>>)
              /\ UNCHANGED <<buffer, msg, delayed, job, request, crossed>>
  BY DEF Stream!Interrupts, Stream!Says, Stream!BetweenTexts
<1>2. /\ said \in Nat /\ said' \in 0..MaxSaid /\ <<said + 1>> \in Text /\ said' > 0
      /\ block' \in Text /\ Len(block') = 0 /\ 0 \in 0..MaxSaid
  BY <1>0, <1>1, SaidMore, EmptyText DEF Stream!ConstantsType
<1>3. partial' \in 0..MaxSaid
  BY <1>0, <1>1, <1>2 DEF SaidTypes
<1>4. SaidTypes'
  BY <1>0, <1>1, <1>2, <1>3 DEF SaidTypes
<1>5. job.next = "nothing"
  BY <1>0, <1>1 DEF StreamBusy
<1>6. Answers'
  BY <1>0, <1>1, <1>5 DEF Answers
<1>7. CASE buffer # <<>>
  <2>1. /\ GoesOn(messages, buffer, msg, next) /\ StreamTypes' /\ StreamBusy' /\ Kept'
        /\ job'.step = "last" /\ job'.next = next
        /\ ~crossed' => Covers(messages, messages')
    BY <1>0, <1>1, <1>7, FinalizeNow DEF Nexts
  <2>2. Ordered'
    BY <1>0, <1>1, <1>2, <2>1, OrderStays DEF Nexts
  <2>3. Blocks'
    BY <1>1, <2>1 DEF Blocks
  <2>4. QED
    BY <1>4, <1>6, <2>1, <2>2, <2>3 DEF After, StreamInv
<1>8. CASE buffer = <<>>
  <2>1. /\ partial' = 0 /\ messages' = Append(messages, <<said + 1>>)
        /\ UNCHANGED <<buffer, msg, delayed, job, request, crossed>>
    BY <1>1, <1>8
  <2>2. msg = 0 /\ delayed = "none" /\ request.delayed = Stream!Idle
    BY <1>0, <1>8 DEF StreamBusy
  <2>3. messages \in Seq(Text) /\ messages' \in Seq(Text) /\ Len(messages') = Len(messages) + 1
        /\ Len(messages) \in Nat
    BY <1>0, <1>2, <2>1 DEF StreamTypes
  <2>4. StreamTypes'
    <3>1. /\ request \in [main : Requests, delayed : Requests]
          /\ request.main.at <= Len(messages) /\ request.delayed.at <= Len(messages)
      BY <1>0 DEF StreamTypes
    <3>2. request'.main.at <= Len(messages') /\ request'.delayed.at <= Len(messages')
      BY <2>1, <2>3, <3>1 DEF Requests
    <3>3. QED
      BY <1>0, <2>1, <2>2, <2>3, <3>1, <3>2 DEF StreamTypes
  <2>5. StreamBusy' /\ Blocks'
    BY <1>0, <1>1, <1>5, <1>2, <2>1 DEF StreamBusy, Blocks
  <2>6. Kept'
    BY <1>0, <1>1, <2>1, <2>2 DEF Kept, Keeps
  <2>7. Covers(messages, messages')
    BY <1>2, <2>1, <2>3, CoversShown
  <2>8. Ordered'
    <3> SUFFICES ASSUME ~compact', refusals' = 0, ~crossed' PROVE (\E base \in Nat : Order(base))'
      BY DEF Ordered
    <3>1. PICK base \in Nat : Order(base)
      BY <1>0, <1>1, <2>1 DEF Ordered
    <3>2. said = base + Len(buffer) /\ Chained(messages, msg, base)
      BY <1>0, <1>1, <1>5, <3>1 DEF Order
    <3>3. said = base /\ Chained(messages, 0, said)
      BY <1>8, <2>2, <3>1, <3>2, EmptyText
    <3>4. base + 1 \in Nat /\ said' = base + 1 /\ Chained(messages', 0, base + 1)
      BY <1>1, <1>2, <2>1, <2>3, <3>1, <3>3, ChainedOne
    <3>5. job'.step = "idle" /\ job'.next = "nothing" /\ buffer' = <<>> /\ msg' = 0
      BY <1>1, <1>5, <1>8, <2>1, <2>2
    <3>6. QED
      BY <3>4, <3>5, OrderAll
  <2>9. QED
    BY <1>4, <1>6, <2>4, <2>5, <2>6, <2>7, <2>8 DEF After, StreamInv
<1>9. QED
  BY <1>7, <1>8

LEMMA OnCompleteStep ==
    ASSUME Stream!ConstantsType, StreamInv, compact' = compact, Stream!OnComplete PROVE After
<1>0. StreamTypes /\ StreamBusy /\ SaidTypes /\ Blocks /\ Answers /\ Kept /\ Ordered
  BY DEF StreamInv
<1>1. job.step = "idle" /\ job.next = "nothing" /\ UNCHANGED <<recent, refusals>> /\ said \in Nat
  BY <1>0 DEF Stream!OnComplete, StreamBusy, SaidTypes
<1>2. CASE /\ buffer # <<>> /\ Stream!Finalize(messages, buffer, msg, "result")
           /\ UNCHANGED <<said, block, text, partial, sent, accumulated, reported>>
  <2>1. /\ GoesOn(messages, buffer, msg, "result") /\ StreamTypes' /\ StreamBusy' /\ Kept'
        /\ job'.step = "last" /\ job'.next = "result" /\ buffer' = buffer
        /\ ~crossed' => Covers(messages, messages')
    BY <1>0, <1>2, FinalizeNow DEF Nexts
  <2>2. Ordered'
    BY <1>0, <1>1, <1>2, <2>1, OrderStays DEF Nexts
  <2>3. SaidTypes'
    BY <1>0, <1>1, <1>2, <2>1 DEF SaidTypes
  <2>4. Blocks' /\ Answers'
    BY <1>0, <1>1, <1>2, <2>1 DEF Blocks, Answers
  <2>5. QED
    BY <2>1, <2>2, <2>3, <2>4 DEF After, StreamInv
<1>3. CASE /\ buffer = <<>> /\ Stream!TurnEnds(accumulated)
           /\ UNCHANGED <<said, messages, buffer, msg, delayed, job, request, crossed>>
  <2>1. /\ reported' = IF ~compact /\ block # <<>> THEN reported ELSE [text |-> accumulated, of |-> text]
        /\ partial' = 0 /\ text' = <<>> /\ block' = <<>> /\ sent' = FALSE /\ accumulated' = <<>>
    BY <1>3 DEF Stream!TurnEnds
  <2>2. StreamTypes' /\ StreamBusy' /\ Kept' /\ Covers(messages, messages')
    BY <1>0, <1>3, SameStream
  <2>3. Ordered'
    BY <1>0, <1>1, <1>3, SameOrder
  <2>4. SaidTypes'
    <3>1. sent' \in BOOLEAN
      BY Zenon, <2>1
    <3>2. <<>> \in Text /\ Len(<<>>) = 0 /\ 0 \in 0..MaxSaid
      BY EmptyText DEF Stream!ConstantsType
    <3>3. QED
      BY <1>0, <1>1, <1>3, <2>1, <3>1, <3>2 DEF SaidTypes
  <2>5. Blocks'
    BY <1>0, <1>1, <1>3, <2>1, EmptyText DEF Blocks
  <2>6. Answers'
    <3>1. ~compact => block = <<>>
      BY <1>0, <1>3 DEF Blocks
    <3>2. QED
      BY <1>0, <1>1, <1>3, <2>1, <3>1 DEF Answers
  <2>7. QED
    BY <2>2, <2>3, <2>4, <2>5, <2>6 DEF After, StreamInv
<1>4. CASE /\ buffer = <<>> /\ ~sent /\ ~compact
           /\ IF text # <<>> THEN UNCHANGED <<said, text>>
              ELSE said < MaxSaid /\ said' = said + 1 /\ text' = <<said'>>
           /\ Stream!Post(text', "result")
           /\ UNCHANGED <<block, partial, sent, accumulated, reported>>
  <2>1. said' \in 0..MaxSaid /\ text' \in Text /\ text' # <<>>
    <3>1. CASE text # <<>>
      BY <1>0, <1>4, <3>1 DEF SaidTypes
    <3>2. CASE text = <<>>
      BY <1>0, <1>4, <3>2, SaidMore
    <3>3. QED
      BY <3>1, <3>2
  <2>2. /\ StreamTypes' /\ StreamBusy' /\ Kept' /\ Covers(messages, messages')
        /\ job'.step = "post" /\ job'.next = "result"
        /\ request'.main = [text |-> text', at |-> 0]
        /\ UNCHANGED <<messages, buffer, msg, crossed>>
    <3>1. ASSUME NEW c, c = text' PROVE c \in Text /\ c # <<>> /\ Stream!Post(c, "result")
      BY <1>4, <2>1, <3>1
    <3>2. PICK c : c = text'
      OBVIOUS
    <3>3. c \in Text /\ c # <<>> /\ Stream!Post(c, "result")
      BY <3>1, <3>2
    <3>4. QED
      BY <1>0, <1>1, <1>4, <3>2, <3>3, PostNow
  <2>3. Ordered'
    <3>1. CASE text # <<>>
      <4>1. block = <<>>
        BY <1>0, <1>4 DEF Blocks
      <4>2. refusals # 0
        BY <1>0, <1>1, <1>4, <3>1, <4>1 DEF Answers
      <4>3. QED
        BY <1>1, <4>2 DEF Ordered
    <3>2. CASE text = <<>>
      <4>1. said' = said + 1 /\ request'.main = [text |-> <<said + 1>>, at |-> 0]
        BY <1>4, <2>2, <3>2
      <4>2. QED
        BY <1>0, <1>1, <1>4, <2>2, <4>1, OrderPost
    <3>3. QED
      BY <3>1, <3>2
  <2>4. SaidTypes'
    <3>1. Len(block) <= said'
      BY <1>0, <1>1, <1>4 DEF SaidTypes, Text
    <3>2. QED
      BY <1>0, <1>1, <1>4, <2>1, <2>2, <3>1 DEF SaidTypes
  <2>5. Blocks' /\ Answers'
    BY <1>0, <1>1, <1>4, <2>2 DEF Blocks, Answers
  <2>6. QED
    BY <2>2, <2>3, <2>4, <2>5 DEF After, StreamInv
<1>5. QED
  BY <1>2, <1>3, <1>4 DEF Stream!OnComplete, Stream!Says, Stream!answer

(* The messages, and the message of the stream, that the request of the    *)
(* processor leaves.                                                       *)
Left(th, m, ok) ==
    IF ok THEN /\ th = Stream!Applied(messages, request.main)
               /\ m = IF request.main.at = 0 THEN Len(th) ELSE msg
    ELSE th \in {messages, Stream!Applied(messages, request.main)} /\ m = msg

LEMMA LeftTypes ==
    ASSUME StreamTypes, NEW th, NEW m, NEW ok \in BOOLEAN, Left(th, m, ok)
    PROVE  /\ th \in Seq(Text) /\ Len(messages) \in Nat /\ Len(th) \in Nat
           /\ Len(messages) <= Len(th) /\ m \in 0..Len(th) /\ msg \in 0..Len(messages)
           /\ request.main \in Requests /\ request.main.text \in Text
           /\ request.main.at \in 0..Len(messages)
<1>1. /\ messages \in Seq(Text) /\ request.main \in Requests /\ request.main.text \in Text
      /\ request.main.at \in 0..Len(messages) /\ msg \in 0..Len(messages) /\ Len(messages) \in Nat
  BY DEF StreamTypes, Requests
<1>2. /\ Stream!Applied(messages, request.main) \in Seq(Text)
      /\ Len(messages) <= Len(Stream!Applied(messages, request.main))
      /\ request.main.at = 0 => Len(Stream!Applied(messages, request.main)) = Len(messages) + 1
  BY <1>1, AppliedTypes
<1>3. th \in Seq(Text) /\ Len(messages) <= Len(th) /\ Len(th) \in Nat
  <2>1. th \in {messages, Stream!Applied(messages, request.main)}
    BY DEF Left
  <2>2. QED
    BY <1>1, <1>2, <2>1
<1>4. m \in 0..Len(th)
  BY <1>1, <1>3 DEF Left
<1>5. QED
  BY <1>1, <1>3, <1>4

LEMMA LeftCovers ==
    ASSUME Stream!ConstantsType, StreamTypes, StreamBusy, Kept, ~crossed, job.step # "idle",
           NEW th, NEW m, NEW ok \in BOOLEAN, Left(th, m, ok)
    PROVE  Covers(messages, th)
<1>1. /\ messages \in Seq(Text) /\ buffer \in Text /\ request.main.text \in Text
      /\ request.main.at \in 0..Len(messages)
      /\ th = messages \/ th = Stream!Applied(messages, request.main)
      /\ job.step \in {"overflow", "flush", "last", "post"}
  BY LeftTypes DEF StreamTypes, Left
<1>2. CASE th = messages
  BY <1>1, <1>2, CoversShown
<1>3. CASE th = Stream!Applied(messages, request.main) /\ job.step = "post"
  <2>1. request.main.at = 0 /\ Len(request.main.text) \in Nat
        /\ Starts(request.main.text, request.main.text, Len(request.main.text))
    BY <1>1, <1>3 DEF StreamBusy, Starts, Text
  <2>2. QED
    BY <1>1, <1>3, <2>1, AppliedCovers
<1>4. CASE th = Stream!Applied(messages, request.main) /\ job.step = "last"
  <2>1. request.main = [text |-> buffer, at |-> msg] /\ Keeps(messages, buffer, msg)
    BY <1>4 DEF Kept
  <2>2. request.main.text = buffer /\ request.main.at = msg
    BY <2>1
  <2>3. Len(buffer) \in Nat /\ Starts(buffer, buffer, Len(buffer))
    BY <1>1 DEF Starts, Text
  <2>4. msg # 0 => /\ Starts(messages[msg], buffer, Len(messages[msg]))
                   /\ Len(messages[msg]) <= Len(buffer)
    BY <2>1 DEF Keeps, Starts
  <2>5. QED
    BY <1>1, <1>4, <2>2, <2>3, <2>4, AppliedCovers
<1>5. CASE th = Stream!Applied(messages, request.main) /\ job.step \in {"overflow", "flush"}
  <2>1. request.main = [text |-> Stream!Take(buffer), at |-> msg] /\ Keeps(messages, buffer, msg)
    BY <1>5 DEF Kept
  <2>2. request.main.text = Stream!Take(buffer) /\ request.main.at = msg
    BY <2>1
  <2>3. buffer # <<>> /\ Limit \in Nat \ {0}
    BY <1>5 DEF StreamBusy, Stream!ConstantsType
  <2>4. Shortest(buffer) \in Nat /\ Starts(Stream!Take(buffer), buffer, Shortest(buffer))
    BY <1>1, <2>3, Taken
  <2>5. msg # 0 => /\ Starts(messages[msg], buffer, Len(messages[msg]))
                   /\ Len(messages[msg]) <= Shortest(buffer)
    BY <2>1 DEF Keeps, Starts, Shortest
  <2>6. QED
    BY <1>1, <1>5, <2>2, <2>4, <2>5, AppliedCovers
<1>6. QED
  BY <1>1, <1>2, <1>3, <1>4, <1>5

LEMMA LeftKeeps ==
    ASSUME Stream!ConstantsType, StreamTypes, StreamBusy, Kept, ~crossed,
           job.step \in {"overflow", "flush"},
           NEW th, NEW m, NEW ok \in BOOLEAN, Left(th, m, ok)
    PROVE  Keeps(th, buffer, m)
<1>1. /\ messages \in Seq(Text) /\ buffer \in Text /\ request.main.text \in Text
      /\ request.main.at \in 0..Len(messages) /\ Len(messages) \in Nat
  BY LeftTypes DEF StreamTypes
<1>2. /\ request.main = [text |-> Stream!Take(buffer), at |-> msg] /\ Keeps(messages, buffer, msg)
      /\ request.delayed = Stream!Idle
  BY DEF Kept
<1>3. request.main.text = Stream!Take(buffer) /\ request.main.at = msg
  BY <1>2
<1>4. buffer # <<>> /\ Limit \in Nat \ {0}
  BY DEF StreamBusy, Stream!ConstantsType
<1>5. /\ Shortest(buffer) \in 1..Limit /\ Starts(Stream!Take(buffer), buffer, Shortest(buffer))
      /\ Len(Stream!Take(buffer)) = Shortest(buffer)
  BY <1>1, <1>4, Taken DEF Starts
<1>6. /\ Stream!Applied(messages, request.main)[IF msg = 0 THEN Len(messages) + 1 ELSE msg] = Stream!Take(buffer)
      /\ msg = 0 => Len(Stream!Applied(messages, request.main)) = Len(messages) + 1
  BY <1>1, <1>3, AppliedTypes
<1>7. m # 0 => Starts(th[m], buffer, Len(th[m])) /\ Len(th[m]) <= Limit
  <2>1. CASE m = 0
    BY <2>1
  <2>2. CASE th = messages /\ m = msg
    BY <1>2, <2>2 DEF Keeps
  <2>3. CASE m # 0 /\ th[m] = Stream!Take(buffer)
    BY <1>4, <1>5, <2>3
  <2>4. m = 0 \/ (th = messages /\ m = msg) \/ (m # 0 /\ th[m] = Stream!Take(buffer))
    BY <1>1, <1>3, <1>6 DEF Left
  <2>5. QED
    BY <2>1, <2>2, <2>3, <2>4
<1>8. QED
  BY <1>2, <1>7 DEF Keeps

LEMMA TextNat == ASSUME Stream!ConstantsType, NEW s \in Text PROVE s \in Seq(Nat)
<1>1. Pieces \subseteq Nat
  BY DEF Pieces, Stream!ConstantsType
<1>2. s \in Seq(Pieces)
  BY DEF Text
<1>3. QED
  BY <1>1, <1>2, SeqMonotonic

LEMMA SpanOf ==
    ASSUME NEW a \in Nat, NEW n \in Nat
    PROVE  /\ Span(a, a + n) \in Seq(Nat) /\ Len(Span(a, a + n)) = n
           /\ \A i \in 1..n : Span(a, a + n)[i] = a + i
<1>1. a + n \in Nat /\ (a + n) - a = n
  OBVIOUS
<1>2. Span(a, a + n) = [i \in 1..n |-> a + i]
  BY <1>1 DEF Span
<1>3. [i \in 1..n |-> a + i] \in Seq(Nat) /\ Len([i \in 1..n |-> a + i]) = n
  OBVIOUS
<1>4. QED
  BY <1>2, <1>3

(* How a span starts, and what is left of it. *)
LEMMA SpanParts ==
    ASSUME Stream!ConstantsType, NEW b \in Text, NEW base \in Nat, b = Span(base, base + Len(b))
    PROVE  /\ \A s, k : k \in Nat /\ Starts(s, b, k) => s = Span(base, base + k)
           /\ \A k \in Nat : k < Len(b) =>
                Stream!Drop(b, k) = Span(base + k, base + k + Len(Stream!Drop(b, k)))
<1>1. Len(b) \in Nat /\ \A i \in 1..Len(b) : b[i] = base + i
  <2>1. Len(b) \in Nat
    BY DEF Text
  <2>2. \A i \in 1..Len(b) : Span(base, base + Len(b))[i] = base + i
    BY <2>1, SpanOf
  <2>3. QED
    BY <2>1, <2>2
<1>2. ASSUME NEW s, NEW k \in Nat, Starts(s, b, k) PROVE s = Span(base, base + k)
  <2>1. s \in Text /\ Len(s) = k /\ k <= Len(b) /\ \A i \in 1..k : s[i] = base + i
    <3>1. s \in Text /\ Len(s) = k /\ k <= Len(b) /\ \A i \in 1..k : s[i] = b[i]
      BY <1>2 DEF Starts
    <3>2. \A i \in 1..k : i \in 1..Len(b)
      BY <1>1, <3>1
    <3>3. QED
      BY <1>1, <3>1, <3>2
  <2>2. s \in Seq(Nat)
    BY <2>1, TextNat
  <2>3. /\ Span(base, base + k) \in Seq(Nat) /\ Len(Span(base, base + k)) = k
        /\ \A i \in 1..k : Span(base, base + k)[i] = base + i
    BY SpanOf
  <2>4. QED
    BY <2>1, <2>2, <2>3, SeqEqual
<1>3. ASSUME NEW k \in Nat, k < Len(b)
      PROVE  Stream!Drop(b, k) = Span(base + k, base + k + Len(Stream!Drop(b, k)))
  <2> DEFINE d == Stream!Drop(b, k)
  <2>1. d \in Text /\ Len(d) = Len(b) - k /\ \A i \in 1..(Len(b) - k) : d[i] = b[k + i]
    BY <1>3, Dropped
  <2> HIDE DEF d
  <2>2. d \in Seq(Nat) /\ Len(d) \in Nat /\ \A i \in 1..Len(d) : d[i] = base + k + i
    <3>1. d \in Seq(Nat) /\ Len(d) \in Nat
      BY <1>1, <1>3, <2>1, TextNat
    <3>2. ASSUME NEW i \in 1..Len(d) PROVE d[i] = base + k + i
      <4>1. d[i] = b[k + i] /\ k + i \in 1..Len(b)
        BY <1>1, <1>3, <2>1
      <4>2. QED
        BY <1>1, <4>1
    <3>3. QED
      BY <3>1, <3>2
  <2>3. base + k \in Nat
    OBVIOUS
  <2>4. /\ Span(base + k, base + k + Len(d)) \in Seq(Nat) /\ Len(Span(base + k, base + k + Len(d))) = Len(d)
        /\ \A i \in 1..Len(d) : Span(base + k, base + k + Len(d))[i] = base + k + i
    BY <2>2, <2>3, SpanOf
  <2>5. d = Span(base + k, base + k + Len(d))
    BY <2>2, <2>4, SeqEqual
  <2>6. QED
    BY <2>5 DEF d
<1>4. QED
  BY <1>2, <1>3

(* The messages that an answered request leaves hold the pieces up to the   *)
(* last one that it shows.                                                  *)
LEMMA LeftOrder ==
    ASSUME Stream!ConstantsType, StreamTypes, StreamBusy, SaidTypes, Kept, ~crossed,
           job.step # "idle", NEW th, NEW m, Left(th, m, TRUE), NEW base \in Nat, Order(base)
    PROVE  /\ job.step = "overflow" =>
                Chained(th, 0, base + Limit) /\ said = base + Limit + Len(Stream!Drop(buffer, Limit))
                                                + (IF job.next \in {"tool", "echo"} THEN 1 ELSE 0)
           /\ job.step = "flush" => Chained(th, m, base)
           /\ job.step = "last" => Chained(th, 0, base + Len(buffer))
           /\ job.step = "post" => Chained(th, 0, said)
<1>1. /\ messages \in Seq(Text) /\ buffer \in Text /\ msg \in 0..Len(messages)
      /\ request.main.text \in Text /\ request.main.at \in 0..Len(messages)
      /\ th = Stream!Applied(messages, request.main)
      /\ m = IF request.main.at = 0 THEN Len(th) ELSE msg
      /\ Len(buffer) \in Nat /\ said \in Nat /\ Limit \in Nat \ {0} /\ Len(messages) \in Nat
  BY LeftTypes DEF StreamTypes, Left, SaidTypes, Text, Stream!ConstantsType
<1>2. Chained(messages, msg, base) /\ buffer = Span(base, base + Len(buffer))
  BY DEF Order
<1>3. CASE job.step = "post"
  <2>1. /\ request.main.at = 0 /\ msg = 0 /\ base <= said /\ request.main.text = Span(base, said)
    BY <1>3 DEF StreamBusy, Order
  <2>2. Chained(th, 0, said)
    BY <1>1, <1>2, <2>1, ChainedOn
  <2>3. QED
    BY <1>3, <2>2
<1>4. CASE job.step = "last"
  <2>1. request.main = [text |-> buffer, at |-> msg]
    BY <1>4 DEF Kept
  <2>2. base + Len(buffer) \in Nat /\ base <= base + Len(buffer) /\ request.main.at = msg
        /\ request.main.text = Span(base, base + Len(buffer))
    BY <1>1, <1>2, <2>1
  <2>3. Chained(th, 0, base + Len(buffer))
    BY <1>1, <1>2, <2>2, ChainedOn
  <2>4. QED
    BY <1>4, <2>3
<1>5. CASE job.step \in {"overflow", "flush"}
  <2>1. request.main = [text |-> Stream!Take(buffer), at |-> msg]
    BY <1>5 DEF Kept
  <2>2. buffer # <<>> /\ request.main.text = Stream!Take(buffer) /\ request.main.at = msg
    BY <1>5, <2>1 DEF StreamBusy
  <2>3. Shortest(buffer) \in 1..Limit /\ Starts(Stream!Take(buffer), buffer, Shortest(buffer))
    BY <1>1, <2>2, Taken
  <2>4. request.main.text = Span(base, base + Shortest(buffer))
    <3>1. \A s, k : k \in Nat /\ Starts(s, buffer, k) => s = Span(base, base + k)
      BY <1>1, <1>2, SpanParts
    <3>2. Shortest(buffer) \in Nat
      BY <1>1, <2>3
    <3>3. QED
      BY <2>2, <2>3, <3>1, <3>2
  <2>5. base + Shortest(buffer) \in Nat /\ base <= base + Shortest(buffer)
    BY <1>1, <2>3
  <2>6. Chained(th, IF msg = 0 THEN Len(th) ELSE msg, base) /\ Chained(th, 0, base + Shortest(buffer))
    BY <1>1, <1>2, <2>2, <2>4, <2>5, ChainedOn
  <2>7. job.step = "overflow" => Limit < Len(buffer) /\ Shortest(buffer) = Limit
    BY <1>1 DEF StreamBusy, Shortest
  <2>8. job.step = "overflow" =>
          said = base + Limit + Len(Stream!Drop(buffer, Limit))
                 + (IF job.next \in {"tool", "echo"} THEN 1 ELSE 0)
    <3>1. job.step = "overflow" => Len(Stream!Drop(buffer, Limit)) = Len(buffer) - Limit
      BY <1>1, <2>7, Dropped
    <3>2. job.step = "overflow" => said = base + Len(buffer) + (IF job.next \in {"tool", "echo"} THEN 1 ELSE 0)
      BY DEF Order
    <3>3. QED
      BY <1>1, <3>1, <3>2
  <2>9. QED
    BY <1>1, <1>5, <2>2, <2>6, <2>7, <2>8
<1>6. QED
  BY <1>3, <1>4, <1>5 DEF StreamTypes

(* The processor goes on, its request answered (ok) or failed. *)
Resumes(th, m, ok) ==
    /\ StreamInv /\ Left(th, m, ok) /\ job.step # "idle" /\ compact' = compact /\ said' = said
    /\ refusals' \in 0..MaxStreamFailures /\ (refusals' = 0 => ok /\ refusals = 0)

(* The stream goes on, and what the turn has said so far is as it was.     *)
LEMMA GoesOnStep ==
    ASSUME Stream!ConstantsType, NEW th, NEW m, NEW ok \in BOOLEAN, Resumes(th, m, ok),
           job.step \in {"overflow", "flush"}, NEW b, b # <<>>, NEW k, GoesOn(th, b, k, job.next),
           recent' \in BOOLEAN, UNCHANGED <<block, text, partial, sent, accumulated, reported>>,
           ~crossed => Keeps(th, b, k),
           \A base \in Nat : ~crossed /\ ok /\ Order(base) =>
             \E e \in Nat : /\ Chained(th, k, e) /\ b = Span(e, e + Len(b))
                            /\ said = e + Len(b) + (IF job.next \in {"tool", "echo"} THEN 1 ELSE 0)
    PROVE  After
<1>0. StreamTypes /\ StreamBusy /\ SaidTypes /\ Blocks /\ Answers /\ Kept /\ Ordered
  BY DEF StreamInv, Resumes
<1>1. /\ Left(th, m, ok) /\ compact' = compact /\ said' = said
      /\ refusals' \in 0..MaxStreamFailures /\ (refusals' = 0 => ok /\ refusals = 0)
  BY DEF Resumes
<1>2. /\ StreamTypes' /\ StreamBusy' /\ (crossed => crossed') /\ buffer' = b /\ msg' = k
      /\ job'.next = job.next /\ job'.step # "post" /\ (~crossed' => messages' = th)
      /\ ~crossed' /\ Keeps(th, b, k) => Kept'
  BY DEF GoesOn
<1>3. Kept'
  BY <1>2 DEF Kept
<1>4. SaidTypes'
  BY <1>0, <1>1, <1>2 DEF SaidTypes
<1>5. Blocks' /\ Answers'
  BY <1>0, <1>1, <1>2 DEF Blocks, Answers
<1>6. ~crossed' => Covers(messages, messages')
  <2>1. ~crossed' => ~crossed /\ messages' = th
    BY <1>2
  <2>2. job.step # "idle"
    OBVIOUS
  <2>3. QED
    BY <1>0, <1>1, <2>1, <2>2, LeftCovers
<1>7. Ordered'
  <2> SUFFICES ASSUME ~compact', refusals' = 0, ~crossed' PROVE (\E base \in Nat : Order(base))'
    BY DEF Ordered
  <2>1. ok /\ ~crossed /\ messages' = th /\ ~compact /\ refusals = 0
    BY <1>1, <1>2
  <2>2. PICK base \in Nat : Order(base)
    BY <1>0, <2>1 DEF Ordered
  <2>3. PICK e \in Nat : /\ Chained(th, k, e) /\ b = Span(e, e + Len(b))
                         /\ said = e + Len(b) + (IF job.next \in {"tool", "echo"} THEN 1 ELSE 0)
    BY <2>1, <2>2
  <2>4. said' = e + Len(b) + (IF job'.next \in {"tool", "echo"} THEN 1 ELSE 0)
    BY <1>1, <1>2, <2>3
  <2>5. Order(e)'
    BY <1>2, <2>1, <2>3, <2>4, OrderNow
  <2>6. QED
    BY <2>3, <2>5
<1>8. QED
  BY <1>2, <1>3, <1>4, <1>5, <1>6, <1>7 DEF After, StreamInv

LEMMA OverflowStep ==
    ASSUME Stream!ConstantsType, NEW th, NEW m, NEW ok \in BOOLEAN, Resumes(th, m, ok),
           job.step = "overflow", NEW rec \in BOOLEAN, recent' = rec,
           Stream!Debounce(th, Stream!Drop(buffer, Limit), 0, rec, job.next),
           UNCHANGED <<block, text, partial, sent, accumulated, reported>>
    PROVE  After
<1> DEFINE b == Stream!Drop(buffer, Limit)
<1>0. StreamTypes /\ StreamBusy /\ SaidTypes /\ Kept /\ Left(th, m, ok)
  BY DEF StreamInv, Resumes
<1>1. buffer \in Text /\ Limit \in Nat /\ Limit < Len(buffer)
  BY <1>0 DEF StreamTypes, StreamBusy, Stream!ConstantsType
<1>2. b \in Text /\ b # <<>>
  BY <1>1, Dropped
<1>3. th \in Seq(Text) /\ Len(messages) <= Len(th) /\ 0 \in 0..Len(th)
  BY <1>0, LeftTypes
<1>4. job.next \in Nexts
  BY <1>0 DEF StreamTypes
<1> HIDE DEF b
<1>5. GoesOn(th, b, 0, job.next)
  <2>1. Held(th, b, 0)
    BY <1>2, <1>3 DEF Held
  <2>2. Stream!Debounce(th, b, 0, rec, job.next)
    BY DEF b
  <2>3. QED
    BY <1>0, <1>2, <1>4, <2>1, <2>2, DebounceOn
<1>6. ~crossed => Keeps(th, b, 0)
  BY <1>0 DEF Kept, Keeps
<1>7. ASSUME NEW base \in Nat, ~crossed, ok, Order(base)
      PROVE  \E e \in Nat : /\ Chained(th, 0, e) /\ b = Span(e, e + Len(b))
                            /\ said = e + Len(b) + (IF job.next \in {"tool", "echo"} THEN 1 ELSE 0)
  <2>1. Left(th, m, TRUE) /\ job.step # "idle"
    BY <1>0, <1>7 DEF Left
  <2>2. /\ Chained(th, 0, base + Limit)
        /\ said = base + Limit + Len(b) + (IF job.next \in {"tool", "echo"} THEN 1 ELSE 0)
    BY <1>0, <1>7, <2>1, LeftOrder DEF b
  <2>3. buffer = Span(base, base + Len(buffer))
    BY <1>7 DEF Order
  <2>4. b = Span(base + Limit, base + Limit + Len(b))
    BY <1>1, <2>3, SpanParts DEF b
  <2>5. base + Limit \in Nat
    BY <1>1
  <2>6. QED
    BY <2>2, <2>4, <2>5
<1>8. QED
  BY <1>2, <1>5, <1>6, <1>7, GoesOnStep

LEMMA FlushStep ==
    ASSUME Stream!ConstantsType, NEW th, NEW m, NEW ok \in BOOLEAN, Resumes(th, m, ok),
           job.step = "flush", NEW rec \in BOOLEAN, recent' = rec,
           Stream!Proceed(th, buffer, m, delayed, job.next),
           UNCHANGED <<block, text, partial, sent, accumulated, reported>>
    PROVE  After
<1>0. StreamTypes /\ StreamBusy /\ SaidTypes /\ Kept /\ Left(th, m, ok)
  BY DEF StreamInv, Resumes
<1>1. buffer \in Text /\ buffer # <<>> /\ job.next \in Nexts /\ delayed \in Delays
  BY <1>0 DEF StreamTypes, StreamBusy
<1>2. GoesOn(th, buffer, m, job.next)
  <2>1. Held(th, buffer, m)
    BY <1>0, <1>1, LeftTypes DEF Held
  <2>2. QED
    BY <1>0, <1>1, <2>1, ProceedOn
<1>3. ~crossed => Keeps(th, buffer, m)
  BY <1>0, LeftKeeps
<1>4. ASSUME NEW base \in Nat, ~crossed, ok, Order(base)
      PROVE  \E e \in Nat : /\ Chained(th, m, e) /\ buffer = Span(e, e + Len(buffer))
                            /\ said = e + Len(buffer) + (IF job.next \in {"tool", "echo"} THEN 1 ELSE 0)
  <2>1. Left(th, m, TRUE) /\ job.step # "idle"
    BY <1>0, <1>4 DEF Left
  <2>2. Chained(th, m, base)
    BY <1>0, <1>4, <2>1, LeftOrder
  <2>3. /\ buffer = Span(base, base + Len(buffer))
        /\ said = base + Len(buffer) + (IF job.next \in {"tool", "echo"} THEN 1 ELSE 0)
    BY <1>4 DEF Order
  <2>4. QED
    BY <2>2, <2>3
<1>5. QED
  BY <1>1, <1>2, <1>3, <1>4, GoesOnStep

(* A text that could not be posted: its turn goes on as if it had not been  *)
(* said.                                                                    *)
LEMMA RefusedStep ==
    ASSUME Stream!ConstantsType, NEW th, NEW m, Resumes(th, m, FALSE),
           job.step = "post", job.next = "complete",
           Stream!Proceed(th, buffer, m, delayed, "nothing"),
           UNCHANGED <<recent, block, text, partial, sent, accumulated, reported>>
    PROVE  After
<1>0. StreamTypes /\ StreamBusy /\ SaidTypes /\ Blocks /\ Answers /\ Kept /\ Left(th, m, FALSE)
  BY DEF StreamInv, Resumes
<1>1. /\ compact' = compact /\ said' = said
      /\ refusals' \in 0..MaxStreamFailures /\ refusals' # 0
  BY DEF Resumes
<1>2. buffer = <<>> /\ buffer \in Text /\ m = 0 /\ delayed = "none" /\ request.delayed = Stream!Idle
  BY <1>0 DEF StreamTypes, StreamBusy, Left
<1>3. GoesOn(th, buffer, m, "nothing")
  <2>1. Held(th, buffer, m)
    BY <1>0, <1>2, LeftTypes DEF Held
  <2>2. QED
    BY <1>0, <1>2, <2>1, ProceedOn DEF Delays, Nexts
<1>4. /\ StreamTypes' /\ StreamBusy' /\ (crossed => crossed') /\ buffer' = buffer /\ msg' = m
      /\ job'.next = "nothing" /\ job'.step # "post" /\ (~crossed' => messages' = th)
      /\ ~crossed' /\ Keeps(th, buffer, m) => Kept'
  BY <1>3 DEF GoesOn
<1>5. Kept'
  BY <1>2, <1>4 DEF Kept, Keeps
<1>6. SaidTypes'
  BY <1>0, <1>1, <1>4 DEF SaidTypes
<1>7. Blocks' /\ Answers' /\ Ordered'
  BY <1>0, <1>1, <1>4 DEF Blocks, Answers, Ordered
<1>8. ~crossed' => Covers(messages, messages')
  BY <1>0, <1>4, LeftCovers
<1>9. QED
  BY <1>4, <1>5, <1>6, <1>7, <1>8 DEF After, StreamInv

(* The last request of an event: its stream is over. *)
LEMMA FinishStep ==
    ASSUME Stream!ConstantsType, NEW th, NEW m, NEW ok \in BOOLEAN, Resumes(th, m, ok),
           job.step \in {"last", "post"}, Stream!Finish(th)
    PROVE  After
<1>0. StreamTypes /\ StreamBusy /\ SaidTypes /\ Blocks /\ Answers /\ Kept /\ Ordered /\ Left(th, m, ok)
  BY DEF StreamInv, Resumes
<1>1. /\ compact' = compact /\ said' = said
      /\ refusals' \in 0..MaxStreamFailures /\ (refusals' = 0 => ok /\ refusals = 0)
  BY DEF Resumes
<1>2. /\ buffer' = <<>> /\ msg' = 0 /\ recent' = FALSE /\ delayed' = "none"
      /\ job' = [step |-> "idle", next |-> "nothing"] /\ crossed' = crossed
      /\ request' = [request EXCEPT !.main = Stream!Idle]
      /\ messages' = IF job.next \in {"tool", "echo"} THEN Append(th, <<said>>) ELSE th
  BY DEF Stream!Finish, Stream!NewStream, Stream!Ready
<1>3. /\ job.next \in {"complete", "tool", "echo", "result"} /\ request.delayed = Stream!Idle
      /\ delayed = "none" /\ (job.step = "post" => job.next \in {"complete", "result"})
  BY <1>0 DEF StreamBusy, StreamTypes, Nexts
<1>4. /\ th \in Seq(Text) /\ Len(messages) \in Nat /\ Len(th) \in Nat /\ Len(messages) <= Len(th)
      /\ messages \in Seq(Text)
  BY <1>0, LeftTypes DEF StreamTypes
<1>5. job.next \in {"tool", "echo"} => <<said>> \in Text /\ said > 0
  BY <1>0 DEF SaidTypes, Text, Pieces
<1>6. messages' \in Seq(Text) /\ Len(messages) <= Len(messages') /\ Len(messages') \in Nat
  <2>1. CASE job.next \in {"tool", "echo"}
    BY <1>2, <1>4, <1>5, <2>1
  <2>2. CASE job.next \notin {"tool", "echo"}
    BY <1>2, <1>4, <2>2
  <2>3. QED
    BY <2>1, <2>2
<1>7. request' = [main |-> Stream!Idle, delayed |-> Stream!Idle]
  BY <1>0, <1>2, <1>3 DEF StreamTypes
<1>8. StreamTypes'
  <2>1. /\ request' \in [main : Requests, delayed : Requests]
        /\ request'.main.at <= Len(messages') /\ request'.delayed.at <= Len(messages')
    BY <1>6, <1>7, IdleType
  <2>2. crossed' \in BOOLEAN
    BY Zenon, <1>0, <1>2 DEF StreamTypes
  <2>3. buffer' \in Text /\ msg' \in 0..Len(messages')
    BY <1>2, <1>6, EmptyText
  <2>4. QED
    BY <1>2, <1>6, <2>1, <2>2, <2>3 DEF StreamTypes, Delays, Nexts
<1>9. StreamBusy' /\ Kept'
  BY <1>2, <1>7 DEF StreamBusy, Kept, Keeps
<1>10. ~crossed' => Covers(messages, messages')
  <2>1. SUFFICES ASSUME ~crossed PROVE Covers(messages, messages')
    BY <1>2
  <2>2. Covers(messages, th)
    BY <1>0, <2>1, LeftCovers
  <2>3. CASE job.next \in {"tool", "echo"}
    <3>1. Covers(th, messages')
      BY <1>2, <1>4, <1>5, <2>3, CoversShown
    <3>2. QED
      BY <1>4, <1>6, <2>2, <3>1, CoversShown
  <2>4. CASE job.next \notin {"tool", "echo"}
    BY <1>2, <2>2, <2>4
  <2>5. QED
    BY <2>3, <2>4
<1>11. /\ job.next = "complete" => /\ sent' = TRUE /\ accumulated' = text /\ partial' = 0
                                   /\ UNCHANGED <<text, reported, block>>
       /\ job.next = "result" =>
            /\ reported' = IF ~compact /\ block # <<>> THEN reported
                           ELSE [text |-> IF job.step = "post" THEN text ELSE accumulated, of |-> text]
            /\ partial' = 0 /\ text' = <<>> /\ block' = <<>> /\ sent' = FALSE /\ accumulated' = <<>>
       /\ job.next \in {"tool", "echo"} => /\ sent' = (sent \/ job.next = "echo") /\ partial' = 0
                                           /\ UNCHANGED <<text, accumulated, reported, block>>
  BY DEF Stream!Finish, Stream!TextDone, Stream!TurnEnds
<1>12. SaidTypes'
  <2>1. sent' \in BOOLEAN /\ recent' \in BOOLEAN
    <3>1. recent' \in BOOLEAN
      BY Zenon, <1>2
    <3>2. CASE job.next = "complete"
      BY Zenon, <1>11, <3>1, <3>2
    <3>3. CASE job.next = "result"
      BY Zenon, <1>11, <3>1, <3>3
    <3>4. CASE job.next \in {"tool", "echo"}
      BY Zenon, <1>11, <3>1, <3>4
    <3>5. QED
      BY <1>3, <3>2, <3>3, <3>4
  <2>2. block' \in Text /\ Len(block') <= said /\ text' \in Text /\ accumulated' \in Text
    <3>1. /\ block \in Text /\ Len(block) <= said /\ text \in Text /\ accumulated \in Text /\ said >= 0
      BY <1>0 DEF SaidTypes
    <3>2. QED
      BY <1>3, <1>11, <3>1, EmptyText
  <2>3. partial' = 0 /\ 0 \in 0..MaxSaid /\ job'.next = "nothing"
    BY <1>2, <1>3, <1>11 DEF Stream!ConstantsType
  <2>4. QED
    BY <1>0, <1>1, <2>1, <2>2, <2>3 DEF SaidTypes
<1>13. Blocks'
  <2>1. ~compact => block' = <<>>
    BY <1>0, <1>3, <1>11 DEF Blocks
  <2>2. partial' = 0 /\ Len(<<>>) = 0
    BY <1>3, <1>11, EmptyText
  <2>3. QED
    BY <1>1, <1>2, <2>1, <2>2 DEF Blocks
<1>14. Answers'
  <2>1. SUFFICES ASSUME ~compact, refusals = 0
                 PROVE  reported'.text = reported'.of /\ accumulated' = text' /\ (text' # <<>> => sent')
    BY <1>1 DEF Answers
  <2>2. reported.text = reported.of
    BY <1>0, <2>1 DEF Answers
  <2>3. CASE job.next = "complete"
    BY <1>11, <2>2, <2>3
  <2>4. CASE job.next = "result"
    <3>1. job.step = "last" /\ block = <<>> => accumulated = text
      BY <1>0, <2>1, <2>4 DEF Answers
    <3>2. QED
      BY <1>11, <2>1, <2>2, <2>4, <3>1
  <2>5. CASE job.next \in {"tool", "echo"}
    <3>1. block = <<>>
      BY <1>0, <2>1, <2>5 DEF Blocks
    <3>2. job.step = "last" /\ accumulated = text /\ (text # <<>> => sent)
      BY <1>0, <1>3, <2>1, <2>5, <3>1 DEF Answers
    <3>3. QED
      BY <1>11, <2>2, <2>5, <3>2
  <2>6. QED
    BY <1>3, <2>3, <2>4, <2>5
<1>15. Ordered'
  <2> SUFFICES ASSUME ~compact', refusals' = 0, ~crossed' PROVE (\E base \in Nat : Order(base))'
    BY DEF Ordered
  <2>1. ok /\ ~crossed /\ ~compact /\ refusals = 0 /\ Left(th, m, TRUE) /\ job.step # "idle"
    BY <1>0, <1>1, <1>2 DEF Left
  <2>2. PICK base \in Nat : Order(base)
    BY <1>0, <2>1 DEF Ordered
  <2>3. Len(buffer) \in Nat /\ said \in Nat
    BY <1>0 DEF StreamTypes, SaidTypes, Text
  <2>4. buffer' = <<>> /\ msg' = 0 /\ job'.step = "idle" /\ job'.next = "nothing"
    BY <1>2
  <2>5. CASE job.step = "post"
    <3>1. Chained(th, 0, said) /\ messages' = th
      BY <1>0, <1>2, <1>3, <2>1, <2>2, <2>5, LeftOrder
    <3>2. QED
      <4>1. PICK e \in Nat : e = said
        BY <2>3
      <4>2. Chained(th, 0, e) /\ said' = e
        BY <1>1, <3>1, <4>1
      <4>3. QED
        BY <2>4, <3>1, <4>1, <4>2, OrderAll
  <2>6. CASE job.step = "last"
    <3>1. Chained(th, 0, base + Len(buffer))
      BY <1>0, <2>1, <2>2, <2>6, LeftOrder
    <3>2. said = base + Len(buffer) + (IF job.next \in {"tool", "echo"} THEN 1 ELSE 0)
      BY <2>2, <2>6 DEF Order
    <3>3. PICK e \in Nat : e = base + Len(buffer)
      BY <2>2, <2>3
    <3>4. CASE job.next \notin {"tool", "echo"}
      <4>1. Chained(th, 0, e) /\ said' = e /\ messages' = th
        BY <1>1, <1>2, <2>3, <3>1, <3>2, <3>3, <3>4
      <4>2. QED
        BY <2>4, <3>3, <4>1, OrderAll
    <3>5. CASE job.next \in {"tool", "echo"}
      <4>1. said = e + 1 /\ Chained(th, 0, e) /\ <<e + 1>> \in Text
        BY <1>5, <3>1, <3>2, <3>3, <3>5
      <4>2. messages' = Append(th, <<e + 1>>) /\ said' = e + 1
        BY <1>1, <1>2, <3>5, <4>1
      <4>3. Chained(Append(th, <<e + 1>>), 0, e + 1)
        BY <1>4, <3>3, <4>1, ChainedOne
      <4>4. PICK f \in Nat : f = e + 1
        BY <3>3
      <4>5. Chained(Append(th, <<e + 1>>), 0, f) /\ said' = f
        BY <4>2, <4>3, <4>4
      <4>6. QED
        BY <2>4, <4>2, <4>4, <4>5, OrderAll
    <3>6. QED
      BY <3>4, <3>5
  <2>7. QED
    BY <2>5, <2>6
<1>16. QED
  BY <1>8, <1>9, <1>10, <1>12, <1>13, <1>14, <1>15 DEF After, StreamInv

LEMMA MainGoesOnStep ==
    ASSUME Stream!ConstantsType, NEW th, NEW m, NEW ok \in BOOLEAN, NEW rec \in BOOLEAN,
           Resumes(th, m, ok), Stream!MainGoesOn(th, m, rec, ok)
    PROVE  After
<1>1. job.step \in {"overflow", "flush", "last", "post"}
  BY DEF Resumes, StreamInv, StreamTypes
<1>2. CASE job.step = "overflow"
  BY <1>2, OverflowStep DEF Stream!MainGoesOn, Stream!answer
<1>3. CASE job.step = "flush"
  BY <1>3, FlushStep DEF Stream!MainGoesOn, Stream!answer
<1>4. CASE job.step = "post" /\ ~ok /\ job.next = "complete"
  BY <1>4, RefusedStep DEF Stream!MainGoesOn, Stream!answer
<1>5. CASE job.step \in {"last", "post"} /\ ~(job.step = "post" /\ ~ok /\ job.next = "complete")
  BY <1>5, FinishStep DEF Stream!MainGoesOn
<1>6. QED
  BY <1>1, <1>2, <1>3, <1>4, <1>5

LEMMA OrderUnmoved ==
    ASSUME Ordered, UNCHANGED <<compact, messages, buffer, msg, said, job, request.main>>,
           crossed => crossed', refusals' = 0 => refusals = 0
    PROVE  Ordered'
<1> SUFFICES ASSUME ~compact', refusals' = 0, ~crossed' PROVE (\E base \in Nat : Order(base))'
  BY DEF Ordered
<1>1. PICK base \in Nat : Order(base)
  BY DEF Ordered
<1>2. Chained(messages, msg, base)' /\ (buffer = Span(base, base + Len(buffer)))'
  BY <1>1 DEF Order, Chained, Chain, Span
<1>3. (IF job.step = "post" THEN base <= said /\ request.main.text = Span(base, said)
       ELSE said = base + Len(buffer) + (IF job.next \in {"tool", "echo"} THEN 1 ELSE 0))'
  BY <1>1 DEF Order, Span
<1>4. Order(base)'
  BY <1>2, <1>3 DEF Order
<1>5. QED
  BY <1>1, <1>4

LEMMA MainStep ==
    ASSUME Stream!ConstantsType, StreamInv, compact' = compact,
           Stream!MainAnswered \/ Stream!MainFails
    PROVE  After
<1>0. StreamTypes /\ StreamBusy /\ SaidTypes
  BY DEF StreamInv
<1>1. request.main # Stream!Idle /\ job.step # "idle" /\ said' = said
  BY <1>0 DEF Stream!MainAnswered, Stream!MainFails, StreamBusy
<1>2. refusals \in 0..MaxStreamFailures /\ MaxStreamFailures \in Nat /\ recent \in BOOLEAN
  BY <1>0 DEF SaidTypes, Stream!ConstantsType
<1>3. CASE Stream!MainAnswered
  <2> DEFINE th == Stream!Applied(messages, request.main)
             m == IF request.main.at = 0 THEN Len(th) ELSE msg
  <2>1. Stream!MainGoesOn(th, m, TRUE, TRUE) /\ refusals' = refusals
    BY <1>3 DEF Stream!MainAnswered
  <2>2. Left(th, m, TRUE)
    BY DEF Left
  <2> HIDE DEF th, m
  <2>3. Resumes(th, m, TRUE)
    BY <1>1, <1>2, <2>1, <2>2 DEF Resumes
  <2>4. QED
    BY <2>1, <2>3, MainGoesOnStep
<1>4. CASE Stream!MainFails
  <2>1. refusals < MaxStreamFailures /\ refusals' = refusals + 1
    BY <1>4 DEF Stream!MainFails
  <2>2. PICK th \in {messages, Stream!Applied(messages, request.main)} : Stream!MainGoesOn(th, msg, recent, FALSE)
    BY <1>4 DEF Stream!MainFails
  <2>3. Left(th, msg, FALSE)
    BY <2>2 DEF Left
  <2>4. Resumes(th, msg, FALSE)
    <3>1. refusals' \in 0..MaxStreamFailures /\ refusals' # 0
      BY <1>2, <2>1
    <3>2. QED
      BY <1>1, <2>3, <3>1 DEF Resumes
  <2>5. QED
    BY <1>2, <2>2, <2>4, MainGoesOnStep
<1>5. QED
  BY <1>3, <1>4

(* What has been said and reported stays. *)
LEMMA SaidStays ==
    ASSUME SaidTypes, Blocks, Answers, recent' \in BOOLEAN, refusals' \in 0..MaxStreamFailures,
           refusals' = 0 => refusals = 0,
           UNCHANGED <<compact, said, block, text, partial, sent, accumulated, reported, buffer, job>>
    PROVE  SaidTypes' /\ Blocks' /\ Answers'
<1>1. SaidTypes'
  BY DEF SaidTypes
<1>2. Blocks' /\ Answers'
  BY DEF Blocks, Answers
<1>3. QED
  BY <1>1, <1>2

LEMMA IntervalPassesStep ==
    ASSUME StreamInv, compact' = compact, Stream!IntervalPasses PROVE After
<1>0. StreamTypes /\ StreamBusy /\ SaidTypes /\ Blocks /\ Answers /\ Kept /\ Ordered
  BY DEF StreamInv
<1>1. /\ recent' = FALSE /\ delayed' = IF delayed = "sleeping" THEN "ready" ELSE delayed
      /\ UNCHANGED <<said, block, text, partial, sent, accumulated, reported, messages, buffer,
                     msg, job, request, crossed, refusals>>
  BY DEF Stream!IntervalPasses, Stream!answer
<1>2. recent' \in BOOLEAN
  BY Zenon, <1>1
<1>3. SaidTypes' /\ Blocks' /\ Answers'
  <2>1. refusals' \in 0..MaxStreamFailures /\ (refusals' = 0 => refusals = 0)
    BY <1>0, <1>1 DEF SaidTypes
  <2>2. QED
    BY <1>0, <1>1, <1>2, <2>1, SaidStays
<1>4. StreamTypes'
  BY <1>0, <1>1 DEF StreamTypes, Delays
<1>5. StreamBusy'
  BY <1>0, <1>1 DEF StreamBusy
<1>6. Kept'
  BY <1>0, <1>1 DEF Kept, Keeps
<1>7. Ordered'
  BY <1>0, <1>1, OrderUnmoved
<1>8. ~crossed' => Covers(messages, messages')
  BY <1>0, <1>1, CoversShown DEF StreamTypes
<1>9. QED
  BY <1>3, <1>4, <1>5, <1>6, <1>7, <1>8 DEF After, StreamInv

LEMMA DelayedFlushStep ==
    ASSUME Stream!ConstantsType, StreamInv, compact' = compact, Stream!DelayedFlush PROVE After
<1>0. StreamTypes /\ StreamBusy /\ SaidTypes /\ Blocks /\ Answers /\ Kept /\ Ordered
  BY DEF StreamInv
<1>1. /\ delayed = "ready" /\ delayed' = "flushing"
      /\ request' = [request EXCEPT !.delayed = [text |-> Stream!Take(buffer), at |-> msg]]
      /\ crossed' = (crossed \/ Stream!Meet)
      /\ UNCHANGED <<said, block, text, partial, sent, accumulated, reported, messages, buffer,
                     msg, recent, job, refusals>>
  BY DEF Stream!DelayedFlush, Stream!answer
<1>2. /\ request \in [main : Requests, delayed : Requests] /\ request.main.at <= Len(messages)
      /\ msg \in 0..Len(messages) /\ Len(messages) \in Nat /\ buffer \in Text /\ buffer # <<>>
      /\ job.step # "last" /\ job.step # "post"
  BY <1>0, <1>1 DEF StreamTypes, StreamBusy
<1>3. /\ Shortest(buffer) \in Nat /\ Shortest(buffer) <= Limit
      /\ Stream!Take(buffer) \in Text /\ Stream!Take(buffer) # <<>>
      /\ Starts(Stream!Take(buffer), buffer, Shortest(buffer))
  BY <1>2, Taken DEF Stream!ConstantsType
<1>4. /\ request' = [main |-> request.main, delayed |-> [text |-> Stream!Take(buffer), at |-> msg]]
      /\ request'.delayed # Stream!Idle
  BY <1>1, <1>2, <1>3 DEF Stream!Idle
<1>5. crossed' = (crossed \/ request.main # Stream!Idle)
  BY <1>1, <1>4 DEF Stream!Meet
<1>6. SaidTypes' /\ Blocks' /\ Answers'
  <2>1. recent' \in BOOLEAN /\ refusals' \in 0..MaxStreamFailures /\ (refusals' = 0 => refusals = 0)
    BY <1>0, <1>1 DEF SaidTypes
  <2>2. QED
    BY <1>0, <1>1, <2>1, SaidStays
<1>7. StreamTypes'
  <2>1. request' \in [main : Requests, delayed : Requests]
    BY <1>2, <1>3, <1>4 DEF Requests
  <2>2. request'.main.at <= Len(messages') /\ request'.delayed.at <= Len(messages')
    BY <1>1, <1>2, <1>4
  <2>3. crossed' \in BOOLEAN
    BY <1>5
  <2>4. QED
    BY <1>0, <1>1, <2>1, <2>2, <2>3 DEF StreamTypes, Delays
<1>8. StreamBusy'
  BY <1>0, <1>1, <1>2, <1>4 DEF StreamBusy
<1>9. Kept'
  <2> SUFFICES ASSUME ~crossed' PROVE Kept'
    BY DEF Kept
  <2>1. ~crossed /\ request.main = Stream!Idle /\ job.step = "idle"
    BY <1>0, <1>5 DEF StreamBusy
  <2>2. Keeps(messages, buffer, msg)
    BY <1>0, <2>1 DEF Kept
  <2>3. msg # 0 => /\ Starts(messages[msg], buffer, Len(messages[msg])) /\ Len(messages[msg]) <= Limit
                   /\ Len(messages[msg]) <= Shortest(buffer)
    BY <2>2 DEF Keeps, Starts, Shortest
  <2>4. Keeps(messages, buffer, msg)'
    BY <1>1, <1>3, <1>4, <2>3 DEF Keeps, Starts, Text, Pieces
  <2>5. QED
    BY <1>1, <2>1, <2>4 DEF Kept
<1>10. Ordered'
  <2>1. UNCHANGED request.main /\ (crossed => crossed')
    BY <1>4, <1>5
  <2>2. QED
    BY <1>0, <1>1, <2>1, OrderUnmoved
<1>11. ~crossed' => Covers(messages, messages')
  BY <1>0, <1>1, CoversShown DEF StreamTypes
<1>12. QED
  BY <1>6, <1>7, <1>8, <1>9, <1>10, <1>11 DEF After, StreamInv

(* The delayed flush is answered (ok) or fails. *)
LEMMA DelayedEndsStep ==
    ASSUME Stream!ConstantsType, StreamInv, compact' = compact, NEW th, NEW m, NEW ok \in BOOLEAN,
           NEW rec \in BOOLEAN, request.delayed # Stream!Idle, Stream!DelayedEnds(th, m, rec),
           IF ok THEN /\ th = Stream!Applied(messages, request.delayed)
                      /\ m = IF request.delayed.at = 0 THEN Len(th) ELSE msg
           ELSE th \in {messages, Stream!Applied(messages, request.delayed)} /\ m = msg,
           refusals' \in 0..MaxStreamFailures, refusals' = 0 => ok /\ refusals = 0
    PROVE  After
<1>0. StreamTypes /\ StreamBusy /\ SaidTypes /\ Blocks /\ Answers /\ Kept /\ Ordered
  BY DEF StreamInv
<1>1. /\ messages' = th /\ msg' = m /\ recent' = rec /\ delayed' = "none"
      /\ request' = [request EXCEPT !.delayed = Stream!Idle]
      /\ UNCHANGED <<said, block, text, partial, sent, accumulated, reported, buffer, job, crossed>>
  BY DEF Stream!DelayedEnds, Stream!answer
<1>2. /\ request \in [main : Requests, delayed : Requests] /\ messages \in Seq(Text)
      /\ request.main.at <= Len(messages) /\ request.main.at \in Nat
      /\ request.delayed.at \in 0..Len(messages) /\ request.delayed.text \in Text
      /\ msg \in 0..Len(messages) /\ Len(messages) \in Nat /\ buffer \in Text /\ buffer # <<>>
      /\ job.step # "last" /\ job.step # "post" /\ Limit \in Nat
  BY <1>0 DEF StreamTypes, StreamBusy, Requests, Stream!ConstantsType
<1> DEFINE ch == Stream!Applied(messages, request.delayed)
<1>3. /\ ch \in Seq(Text) /\ Len(ch) \in Nat /\ Len(messages) <= Len(ch)
      /\ request.delayed.at = 0 => Len(ch) = Len(messages) + 1
      /\ ch[IF request.delayed.at = 0 THEN Len(messages) + 1 ELSE request.delayed.at] = request.delayed.text
  BY <1>2, AppliedTypes
<1>4. th \in {messages, ch} /\ (ok => th = ch)
  OBVIOUS
<1> HIDE DEF ch
<1>5. th \in Seq(Text) /\ Len(th) \in Nat /\ Len(messages) <= Len(th)
  BY <1>2, <1>3, <1>4
<1>6. m \in 0..Len(th)
  BY <1>2, <1>3, <1>4, <1>5
<1>7. request' = [main |-> request.main, delayed |-> Stream!Idle]
  BY <1>1, <1>2
<1>8. SaidTypes' /\ Blocks' /\ Answers'
  <2>1. recent' \in BOOLEAN /\ refusals' \in 0..MaxStreamFailures /\ (refusals' = 0 => refusals = 0)
    BY <1>1
  <2>2. QED
    BY <1>0, <1>1, <2>1, SaidStays
<1>9. StreamTypes'
  <2>1. request' \in [main : Requests, delayed : Requests]
    BY <1>2, <1>7, IdleType
  <2>2. request'.main.at <= Len(messages') /\ request'.delayed.at <= Len(messages')
    BY <1>1, <1>2, <1>5, <1>7, IdleType
  <2>3. QED
    BY <1>0, <1>1, <1>2, <1>5, <1>6, <2>1, <2>2 DEF StreamTypes, Delays
<1>10. StreamBusy'
  BY <1>0, <1>1, <1>2, <1>7 DEF StreamBusy
(* While no flushes meet, the request is of how the buffer starts. *)
<1>11. ASSUME ~crossed
       PROVE  /\ request.delayed.at = msg /\ job.step = "idle"
              /\ msg # 0 => Starts(messages[msg], buffer, Len(messages[msg])) /\ Len(messages[msg]) <= Limit
              /\ \E k \in Nat : /\ Starts(request.delayed.text, buffer, k) /\ k <= Limit
                                /\ msg # 0 => Len(messages[msg]) <= k
  BY <1>0, <1>11 DEF Kept, Keeps
<1>12. Kept'
  <2> SUFFICES ASSUME ~crossed PROVE Kept'
    BY <1>1 DEF Kept
  <2>1. PICK k \in Nat : /\ Starts(request.delayed.text, buffer, k) /\ k <= Limit
                         /\ msg # 0 => Len(messages[msg]) <= k
    BY <1>11
  <2>2. Len(request.delayed.text) = k /\ Len(request.delayed.text) <= Limit
        /\ Starts(request.delayed.text, buffer, Len(request.delayed.text))
    BY <2>1 DEF Starts
  <2>3. m = 0 \/ (th = messages /\ m = msg) \/ th[m] = request.delayed.text
    BY <1>2, <1>3, <1>4, <1>11
  <2>4. m # 0 => Starts(th[m], buffer, Len(th[m])) /\ Len(th[m]) <= Limit
    BY <1>11, <2>2, <2>3
  <2>5. Keeps(messages, buffer, msg)'
    BY <1>1, <1>7, <2>4 DEF Keeps, Starts, Text, Pieces
  <2>6. QED
    BY <1>1, <1>7, <1>11, <2>5 DEF Kept
<1>13. ~crossed' => Covers(messages, messages')
  <2> SUFFICES ASSUME ~crossed PROVE Covers(messages, th)
    BY <1>1
  <2>1. CASE th = messages
    BY <1>2, <2>1, CoversShown
  <2>2. CASE th = ch
    <3>1. PICK k \in Nat : /\ Starts(request.delayed.text, buffer, k) /\ k <= Limit
                           /\ msg # 0 => Len(messages[msg]) <= k
      BY <1>11
    <3>2. request.delayed.at # 0 => /\ Starts(messages[request.delayed.at], buffer, Len(messages[request.delayed.at]))
                                    /\ Len(messages[request.delayed.at]) <= k
      BY <1>11, <3>1
    <3>3. QED
      BY <1>2, <2>2, <3>1, <3>2, AppliedCovers DEF ch
  <2>3. QED
    BY <1>4, <2>1, <2>2
<1>14. Ordered'
  <2> SUFFICES ASSUME ~compact', refusals' = 0, ~crossed' PROVE (\E base \in Nat : Order(base))'
    BY DEF Ordered
  <2>1. ok /\ ~crossed /\ ~compact /\ refusals = 0
    BY <1>1
  <2>2. PICK base \in Nat : Order(base)
    BY <1>0, <2>1 DEF Ordered
  <2>3. /\ Chained(messages, msg, base) /\ buffer = Span(base, base + Len(buffer))
        /\ said = base + Len(buffer) + (IF job.next \in {"tool", "echo"} THEN 1 ELSE 0)
    BY <1>2, <2>2 DEF Order
  <2>4. PICK k \in Nat : Starts(request.delayed.text, buffer, k)
    BY <1>11, <2>1
  <2>5. request.delayed.text = Span(base, base + k)
    <3>1. \A s, l : l \in Nat /\ Starts(s, buffer, l) => s = Span(base, base + l)
      BY <1>2, <2>2, <2>3, SpanParts
    <3>2. QED
      BY <2>4, <3>1
  <2>6. request.delayed.at = msg /\ base + k \in Nat /\ base <= base + k
    BY <1>11, <2>1
  <2>7. Chained(ch, IF msg = 0 THEN Len(ch) ELSE msg, base)
    BY <1>2, <2>2, <2>3, <2>5, <2>6, ChainedOn DEF ch
  <2>8. th = ch /\ Chained(th, m, base)
    BY <1>4, <2>1, <2>6, <2>7
  <2>9. said' = base + Len(buffer) + (IF job'.next \in {"tool", "echo"} THEN 1 ELSE 0) /\ job'.step # "post"
    BY <1>1, <1>2, <2>3
  <2>10. Order(base)'
    BY <1>1, <2>3, <2>8, <2>9, OrderNow
  <2>11. QED
    BY <2>10
<1>15. QED
  BY <1>8, <1>9, <1>10, <1>12, <1>13, <1>14 DEF After, StreamInv

LEMMA DelayedStep ==
    ASSUME Stream!ConstantsType, StreamInv, compact' = compact,
           Stream!DelayedAnswered \/ Stream!DelayedFails
    PROVE  After
<1>1. refusals \in 0..MaxStreamFailures /\ MaxStreamFailures \in Nat /\ recent \in BOOLEAN
  BY DEF StreamInv, SaidTypes, Stream!ConstantsType
<1>2. CASE Stream!DelayedAnswered
  <2> DEFINE th == Stream!Applied(messages, request.delayed)
             m == IF request.delayed.at = 0 THEN Len(th) ELSE msg
  <2>1. request.delayed # Stream!Idle /\ Stream!DelayedEnds(th, m, TRUE) /\ refusals' = refusals
    BY <1>2 DEF Stream!DelayedAnswered
  <2>2. th = Stream!Applied(messages, request.delayed) /\ m = IF request.delayed.at = 0 THEN Len(th) ELSE msg
    OBVIOUS
  <2> HIDE DEF th, m
  <2>3. refusals' \in 0..MaxStreamFailures /\ (refusals' = 0 => refusals = 0)
    BY <1>1, <2>1
  <2>4. QED
    BY <2>1, <2>2, <2>3, DelayedEndsStep
<1>3. CASE Stream!DelayedFails
  <2>1. request.delayed # Stream!Idle /\ refusals < MaxStreamFailures /\ refusals' = refusals + 1
    BY <1>3 DEF Stream!DelayedFails
  <2>2. PICK th \in {messages, Stream!Applied(messages, request.delayed)} : Stream!DelayedEnds(th, msg, recent)
    BY <1>3 DEF Stream!DelayedFails
  <2>3. refusals' \in 0..MaxStreamFailures /\ refusals' # 0
    BY <1>1, <2>1
  <2>4. QED
    BY <1>1, <2>1, <2>2, <2>3, DelayedEndsStep
<1>4. QED
  BY <1>2, <1>3

LEMMA StreamStep ==
    ASSUME Stream!ConstantsType, StreamInv, [Stream!Next]_(Stream!vars) PROVE After
<1>1. CASE Stream!Next
  <2>1. compact' = compact
    BY <1>1 DEF Stream!Next
  <2>2. CASE Stream!TextGrows
    BY <2>1, <2>2, TextGrowsStep
  <2>3. CASE Stream!NextChunked
    BY <2>1, <2>3, NextChunkedStep
  <2>4. CASE Stream!TextEnds
    BY <2>1, <2>4, TextEndsStep
  <2>5. CASE Stream!WholeText
    BY <2>1, <2>5, WholeTextStep
  <2>6. CASE Stream!HandleToolUse \/ Stream!OnInjectedRead
    BY <2>1, <2>6, InterruptsStep DEF Stream!HandleToolUse, Stream!OnInjectedRead
  <2>7. CASE Stream!OnComplete
    BY <2>1, <2>7, OnCompleteStep
  <2>8. CASE Stream!MainAnswered \/ Stream!MainFails
    BY <2>1, <2>8, MainStep
  <2>9. CASE Stream!IntervalPasses
    BY <2>1, <2>9, IntervalPassesStep
  <2>10. CASE Stream!DelayedFlush
    BY <2>1, <2>10, DelayedFlushStep
  <2>11. CASE Stream!DelayedAnswered \/ Stream!DelayedFails
    BY <2>1, <2>11, DelayedStep
  <2>12. QED
    BY <1>1, <2>2, <2>3, <2>4, <2>5, <2>6, <2>7, <2>8, <2>9, <2>10, <2>11 DEF Stream!Next
<1>2. CASE UNCHANGED Stream!vars
  <2>1. UNCHANGED <<compact, said, block, text, partial, sent, accumulated, reported, messages,
                    buffer, msg, recent, delayed, job, request, crossed, refusals>>
    BY <1>2 DEF Stream!vars, Stream!answer
  <2>2. StreamTypes' /\ StreamBusy' /\ SaidTypes' /\ Blocks' /\ Answers'
    BY <2>1 DEF StreamInv, StreamTypes, StreamBusy, SaidTypes, Blocks, Answers
  <2>3. Kept'
    BY <2>1 DEF StreamInv, Kept, Keeps
  <2>4. Ordered'
    BY <2>1, OrderUnmoved DEF StreamInv
  <2>5. Covers(messages, messages')
    BY <2>1, CoversShown DEF StreamInv, StreamTypes
  <2>6. QED
    BY <2>2, <2>3, <2>4, <2>5 DEF After, StreamInv
<1>3. QED
  BY <1>1, <1>2

LEMMA SpanJoin ==
    ASSUME NEW a \in Nat, NEW b \in Nat, NEW c \in Nat, a <= b, b <= c
    PROVE  Span(a, b) \o Span(b, c) = Span(a, c)
<1> DEFINE s == Span(a, b)
           t == Span(b, c)
<1>1. /\ s \in Seq(Nat) /\ Len(s) = b - a /\ \A i \in 1..(b - a) : s[i] = a + i
      /\ t \in Seq(Nat) /\ Len(t) = c - b /\ \A i \in 1..(c - b) : t[i] = b + i
      /\ Span(a, c) \in Seq(Nat) /\ Len(Span(a, c)) = c - a /\ \A i \in 1..(c - a) : Span(a, c)[i] = a + i
  <2>1. /\ Span(a, b) \in Seq(Nat) /\ Len(Span(a, b)) = b - a /\ \A i \in 1..(b - a) : Span(a, b)[i] = a + i
    BY DEF Span
  <2>2. /\ Span(b, c) \in Seq(Nat) /\ Len(Span(b, c)) = c - b /\ \A i \in 1..(c - b) : Span(b, c)[i] = b + i
    BY DEF Span
  <2>3. /\ Span(a, c) \in Seq(Nat) /\ Len(Span(a, c)) = c - a /\ \A i \in 1..(c - a) : Span(a, c)[i] = a + i
    BY DEF Span
  <2>4. QED
    BY <2>1, <2>2, <2>3
<1> HIDE DEF s, t
<1>2. /\ s \o t \in Seq(Nat) /\ Len(s \o t) = Len(s) + Len(t)
      /\ \A i \in 1..Len(s) + Len(t) : (s \o t)[i] = IF i <= Len(s) THEN s[i] ELSE t[i - Len(s)]
  BY <1>1, ConcatProperties
<1>3. ASSUME NEW i \in 1..(c - a) PROVE (s \o t)[i] = a + i
  <2>1. CASE i <= b - a
    <3>1. i \in 1..Len(s) + Len(t) /\ i <= Len(s) /\ i \in 1..(b - a)
      BY <1>1, <2>1
    <3>2. QED
      BY <1>1, <1>2, <3>1
  <2>2. CASE ~(i <= b - a)
    <3>1. i \in 1..Len(s) + Len(t) /\ ~(i <= Len(s)) /\ i - Len(s) \in 1..(c - b)
          /\ b + (i - Len(s)) = a + i
      BY <1>1, <2>2
    <3>2. (s \o t)[i] = t[i - Len(s)]
      BY <1>2, <3>1
    <3>3. QED
      BY <1>1, <3>1, <3>2
  <2>3. QED
    BY <2>1, <2>2
<1>4. s \o t = Span(a, c)
  <2>1. Len(s \o t) = c - a
    BY <1>1, <1>2
  <2>2. \A i \in 1..Len(s \o t) : (s \o t)[i] = Span(a, c)[i]
    BY <1>1, <1>3, <2>1
  <2>3. QED
    BY <1>1, <1>2, <2>1, <2>2, SeqEqual
<1>5. QED
  BY <1>4 DEF s, t

(* Messages up to base, one after the other, are all pieces in their order. *)
LEMMA Flattened ==
    ASSUME NEW th \in Seq(Text), NEW base \in Nat, Chained(th, 0, base)
    PROVE  Stream!FlattenSeq(th) = [i \in 1..base |-> i]
<1> DEFINE n == Len(th)
           Grows(g) == g = [i \in 1..n |-> IF i = 1 THEN th[i] ELSE g[i - 1] \o th[i]]
           f == CHOOSE g : Grows(g)
<1>1. PICK u : Chain(th, u) /\ u[n] = base
  BY DEF Chained
<1>2. n \in Nat /\ u \in [0..n -> Nat] /\ u[0] = 0
  BY <1>1 DEF Chain
<1>3. \A i \in 1..n : u[i - 1] <= u[i] /\ th[i] = Span(u[i - 1], u[i])
  BY <1>1 DEF Chain
<1>4. Stream!FlattenSeq(th) = IF n = 0 THEN th ELSE f[n]
  BY DEF Stream!FlattenSeq
<1>5. Span(0, base) = [i \in 1..base |-> i]
  BY DEF Span
<1> HIDE DEF n
<1>6. CASE n = 0
  <2>1. base = 0 /\ th = <<>>
    BY <1>1, <1>2, <1>6 DEF n
  <2>2. Span(0, 0) = <<>>
    BY SpanOne
  <2>3. QED
    BY <1>4, <1>5, <1>6, <2>1, <2>2
<1>7. CASE n # 0
  <2>1. ASSUME NEW i \in 1..n PROVE i # 1 => Span(0, u[i - 1]) \o th[i] = Span(0, u[i])
    <3>1. u[i] \in Nat /\ u[i - 1] \in Nat /\ u[i - 1] <= u[i] /\ th[i] = Span(u[i - 1], u[i])
      <4>1. i - 1 \in 0..n /\ i \in 0..n
        BY <1>2
      <4>2. QED
        BY <1>2, <1>3, <4>1
    <3>2. \A x, y \in Nat : x <= y => Span(0, x) \o Span(x, y) = Span(0, y)
      <4>1. 0 \in Nat /\ \A x \in Nat : 0 <= x
        OBVIOUS
      <4>2. QED
        BY ZenonT(20), <4>1, SpanJoin
    <3>3. QED
      BY <3>1, <3>2
  <2>2. th[1] = Span(0, u[1])
    <3>1. 1 \in 1..n /\ 1 - 1 = 0
      BY <1>2, <1>7
    <3>2. QED
      BY <1>2, <1>3, <3>1
  <2>3. Grows([i \in 1..n |-> Span(0, u[i])])
    <3> DEFINE w == [i \in 1..n |-> Span(0, u[i])]
    <3>1. ASSUME NEW i \in 1..n PROVE w[i] = IF i = 1 THEN th[i] ELSE w[i - 1] \o th[i]
      <4>1. CASE i = 1
        BY <2>2, <4>1
      <4>2. CASE i # 1
        <5>1. i - 1 \in 1..n
          BY <1>2, <4>2
        <5>2. w[i] = Span(0, u[i]) /\ w[i - 1] = Span(0, u[i - 1])
          BY <5>1
        <5>3. QED
          BY <2>1, <4>2, <5>2
      <4>3. QED
        BY <4>1, <4>2
    <3>2. w = [i \in 1..n |-> w[i]]
      OBVIOUS
    <3> HIDE DEF w
    <3>3. w = [i \in 1..n |-> IF i = 1 THEN th[i] ELSE w[i - 1] \o th[i]]
      BY <3>1, <3>2
    <3>4. QED
      BY <3>3 DEF w
  <2>4. Grows(f)
    <3> HIDE DEF Grows
    <3>1. QED
      BY <2>3
  <2>5. \A i \in 1..n : f[i] = IF i = 1 THEN th[i] ELSE f[i - 1] \o th[i]
    <3> HIDE DEF f
    <3>1. QED
      BY <2>4
  <2> HIDE DEF f, Grows
  <2>6. \A i \in 1..n : f[i] = Span(0, u[i])
    <3> DEFINE Wrong == {i \in 1..n : f[i] # Span(0, u[i])}
    <3> SUFFICES ASSUME Wrong # {} PROVE FALSE
      OBVIOUS
    <3>1. Wrong \in SUBSET Nat
      BY <1>2
    <3>2. PICK i \in Wrong : \A j \in Wrong : i <= j
      BY <3>1, LeastOf
    <3>3. i \in 1..n /\ f[i] # Span(0, u[i])
      BY <3>2
    <3>4. CASE i = 1
      BY <2>2, <2>5, <3>3, <3>4
    <3>5. CASE i # 1
      <4>1. i - 1 \in 1..n /\ ~(i <= i - 1)
        BY <1>2, <3>3, <3>5
      <4>2. f[i - 1] = Span(0, u[i - 1])
        BY <3>2, <4>1
      <4>3. QED
        BY <2>1, <2>5, <3>3, <3>5, <4>2
    <3>6. QED
      BY <3>4, <3>5
  <2>7. n \in 1..n
    BY <1>2, <1>7
  <2>8. QED
    BY <1>1, <1>4, <1>5, <1>7, <2>6, <2>7
<1>8. QED
  BY <1>6, <1>7

LEMMA CoversAll ==
    ASSUME NEW th \in Seq(Text), NEW ch \in Seq(Text), Covers(th, ch)
    PROVE  UNION {Stream!Range(th[i]) : i \in DOMAIN th} \subseteq UNION {Stream!Range(ch[i]) : i \in DOMAIN ch}
<1>1. DOMAIN th = 1..Len(th) /\ DOMAIN ch = 1..Len(ch) /\ Len(th) \in Nat /\ Len(ch) \in Nat
  OBVIOUS
<1>2. /\ \A i \in 1..Len(th) : DOMAIN th[i] = 1..Len(th[i])
      /\ \A i \in 1..Len(ch) : DOMAIN ch[i] = 1..Len(ch[i])
  BY DEF Text
<1>3. ASSUME NEW p, NEW i \in DOMAIN th, p \in Stream!Range(th[i])
      PROVE  \E l \in DOMAIN ch : p \in Stream!Range(ch[l])
  <2>1. i \in 1..Len(th) /\ i \in 1..Len(ch)
    BY <1>1 DEF Covers
  <2>2. PICK j \in 1..Len(th[i]) : p = th[i][j]
    BY <1>2, <1>3, <2>1 DEF Stream!Range
  <2>3. PICK l \in 1..Len(ch[i]) : ch[i][l] = p
    BY <2>1, <2>2 DEF Covers
  <2>4. p \in Stream!Range(ch[i])
    BY <1>2, <2>1, <2>3 DEF Stream!Range
  <2>5. QED
    BY <1>1, <2>1, <2>4
<1>4. QED
  BY <1>3

LEMMA StreamFacts ==
    ASSUME Stream!ConstantsType, StreamInv PROVE Stream!TypeOK /\ Stream!AnswerInOrder
<1>0. StreamTypes /\ StreamBusy /\ SaidTypes /\ Answers /\ Ordered
  BY DEF StreamInv
<1>1. Stream!TypeOK
  <2>1. \A s \in {block, text, accumulated, buffer} \cup Stream!Range(messages) : s \in Seq(1..MaxSaid)
    <3>1. block \in Text /\ text \in Text /\ accumulated \in Text /\ buffer \in Text
      BY <1>0 DEF SaidTypes, StreamTypes
    <3>2. \A s \in Stream!Range(messages) : s \in Text
      BY <1>0 DEF StreamTypes, Stream!Range
    <3>3. QED
      BY <3>1, <3>2 DEF Text, Pieces
  <2>2. /\ (request.main = Stream!Idle) = (job.step = "idle")
        /\ (request.delayed = Stream!Idle) = (delayed # "flushing")
    BY <1>0 DEF StreamBusy
  <2>3. QED
    BY <1>0, <2>1, <2>2 DEF Stream!TypeOK, SaidTypes, StreamTypes, Delays, Nexts
<1>2. ASSUME ~compact PROVE Stream!ReportsAnswer
  BY <1>0, <1>2 DEF Answers, Stream!ReportsAnswer
<1>3. ASSUME ~compact PROVE Stream!InOrder
  <2> SUFFICES ASSUME job.step = "idle", buffer = <<>>, refusals = 0, ~crossed
               PROVE  Stream!FlattenSeq(messages) = [i \in 1..said |-> i]
    BY DEF Stream!InOrder
  <2>1. PICK base \in Nat : Order(base)
    BY <1>0, <1>3 DEF Ordered
  <2>2. said = base + Len(buffer) /\ Chained(messages, msg, base) /\ msg = 0 /\ messages \in Seq(Text)
    BY <1>0, <2>1 DEF Order, StreamBusy, StreamTypes
  <2>3. said = base
    BY <2>1, <2>2, EmptyText
  <2>4. QED
    BY <2>1, <2>2, <2>3, Flattened
<1>4. QED
  BY <1>1, <1>2, <1>3 DEF Stream!AnswerInOrder

-----------------------------------------------------------------------------
(* The four parts.  Each takes its own steps, or none. *)
LEMMA Parts ==
    ASSUME [AllNext]_<<part, vars, accountVars, streamVars, outboxVars>>
    PROVE  /\ [Next]_vars /\ [Accounts!Next]_(Accounts!vars) /\ [Stream!Next]_(Stream!vars)
           /\ [Outbox!Next]_(Outbox!vars)
<1>1. accountVars' = accountVars => Accounts!vars' = Accounts!vars
  BY DEF accountVars, Accounts!vars, Accounts!router, Accounts!history
<1>2. streamVars' = streamVars => Stream!vars' = Stream!vars
  BY DEF streamVars, Stream!vars, Stream!answer
<1>3. outboxVars' = outboxVars => Outbox!vars' = Outbox!vars
  BY DEF outboxVars, Outbox!vars, Outbox!histories
<1>4. QED
  BY <1>1, <1>2, <1>3 DEF AllNext

TurnsInv == AccountInv /\ StreamInv /\ OutboxInv /\ Survives

LEMMA TurnsInduction == AllSpec => []TurnsInv
<1>1. AllInit => TurnsInv
  BY TurnsConstants, AccountInit, StreamInit, OutboxInit, SurvivesInit DEF AllInit, TurnsInv
<1>2. TurnsInv /\ [AllNext]_<<part, vars, accountVars, streamVars, outboxVars>> => TurnsInv'
  BY Parts, TurnsConstants, AccountStep, StreamStep, OutboxStep, SurvivesStep DEF TurnsInv, After
<1>3. QED
  BY <1>1, <1>2, PTL DEF AllSpec

(* The rows of waits, the pool and the plans, the messages and requests of *)
(* a stream, the lines of the outbox: each is of its type, one thread at   *)
(* most holds the pool's lock and one delivery at most the outbox's.       *)
THEOREM TurnsTypeCorrect == AllSpec => []TypesOK
<1>1. AllSpec => []TypeOK
  <2>1. AllInit => Init
    BY DEF AllInit
  <2>2. [AllNext]_<<part, vars, accountVars, streamVars, outboxVars>> => [Next]_vars
    BY Parts
  <2>3. AllSpec => Spec
    BY <2>1, <2>2, PTL DEF AllSpec, Spec
  <2>4. QED
    BY <2>3, WaitsTypeCorrect, PTL
<1>2. TurnsInv /\ TypeOK => TypesOK
  BY TurnsConstants, AccountFacts, StreamFacts, OutboxFacts DEF TurnsInv, TypesOK
<1>3. QED
  BY <1>1, <1>2, TurnsInduction, PTL

(* A turn that resumes finds every earlier turn in its profile, unless a   *)
(* plan failed, or a copy did before a fresh session could open            *)
(* (account_router.py, plan_turn).                                         *)
THEOREM SessionsMoveWhole == AllSpec => []ResumesWhole
<1>1. TurnsInv => ResumesWhole
  BY AccountFacts DEF TurnsInv, ResumesWhole
<1>2. QED
  BY <1>1, TurnsInduction, PTL

(* The rotation gives out no profile twice in a row while another is free, *)
(* however the plans of several threads interleave (account_pool_repo.py). *)
THEOREM RotationTakesTurns == AllSpec => RotationTurns
<1>1. ASSUME TurnsInv, [AllNext]_<<part, vars, accountVars, streamVars, outboxVars>>
      PROVE  [\A t \in AccountThreads :
                (/\ config.strategy = "round_robin" /\ Len(Pool) > 1
                 /\ step[t] = "selecting" /\ step'[t] = "moving"
                 /\ Accounts!ByStrategy(seen[t].until, Accounts!Current(t))
                 /\ Accounts!Available(seen[t].until) = Accounts!Profiles)
                => plan'[t].profile # last]_(Accounts!vars)
  BY <1>1, Parts, TurnsConstants, RotationFollows DEF TurnsInv
<1>2. QED
  BY <1>1, TurnsInduction, PTL DEF AllSpec, RotationTurns, Accounts!RotationTurns

(* Between two streams all that was said stands in the thread, once and in *)
(* its order, and is what the turn reports as its answer, while no request *)
(* fails and no two flushes meet (event_processor.py, streaming_manager.py)*)
(* - whatever the answers' lengths, and wherever edits, overflows, cards   *)
(* and mid-turn messages come between the pieces.                          *)
THEOREM AnswersStandInOrder == AllSpec => []AnswerInOrder
<1>1. TurnsInv => AnswerInOrder
  BY TurnsConstants, StreamFacts DEF TurnsInv, AnswerInOrder
<1>2. QED
  BY <1>1, TurnsInduction, PTL

(* What stands in the thread stays there, whatever request fails, until    *)
(* two flushes of a stream meet (streaming_manager.py, _flush).            *)
THEOREM ShownTextStays == AllSpec => ShownStays
<1>1. ASSUME TurnsInv, [AllNext]_<<part, vars, accountVars, streamVars, outboxVars>>
      PROVE  [~crossed' => Stream!Shown \subseteq Stream!Shown']_(Stream!vars)
  <2>1. After
    BY <1>1, Parts, TurnsConstants, StreamStep DEF TurnsInv
  <2>2. messages \in Seq(Text) /\ messages' \in Seq(Text)
    BY <1>1, <2>1 DEF TurnsInv, After, StreamInv, StreamTypes
  <2>3. ASSUME ~crossed' PROVE Stream!Shown \subseteq Stream!Shown'
    <3>1. Covers(messages, messages')
      BY <2>1, <2>3 DEF After
    <3>2. QED
      BY <2>2, <3>1, CoversAll DEF Stream!Shown, Stream!Range
  <2>4. QED
    BY <2>3
<1>2. QED
  BY <1>1, TurnsInduction, PTL DEF AllSpec, ShownStays, Stream!ShownStays

(* "Completed checkpoints are never replayed after a later send fails"     *)
(* (docs/runtime-reliability.md): over crashes and failing sends, a file   *)
(* is sent at most once for each request, except once more for each time   *)
(* that the process or the network stopped before its checkpoint.          *)
THEOREM FilesSentOnce == AllSpec => []SentOncePerRequest
<1>1. TurnsInv => SentOncePerRequest
  BY OutboxFacts DEF TurnsInv, SentOncePerRequest
<1>2. QED
  BY <1>1, TurnsInduction, PTL

(* "A crash between these operations is harmless" (attachment_outbox.py):  *)
(* over crashes and failing writes and sends, a requested file is named by *)
(* the marker or by its .pending file until it is sent, unless the agent   *)
(* asked for it between the read of the marker and its removal.            *)
THEOREM RequestsAreKept == AllSpec => []RequestsSurvive
<1>1. TurnsInv => RequestsSurvive
  BY SurvivesFacts DEF TurnsInv, RequestsSurvive
<1>2. QED
  BY <1>1, TurnsInduction, PTL
==============================================================================
