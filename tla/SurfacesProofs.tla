--------------------------- MODULE SurfacesProofs ---------------------------
(***************************************************************************)
(* Safety of what users see and press and of what runs on a clock, for     *)
(* every number of requests, tasks, sessions, changes and faults.  As in   *)
(* Surfaces the components share no variable, and each theorem is about  *)
(* the behaviours of one of them.                                          *)
(***************************************************************************)
EXTENDS Surfaces, FiniteSetTheorems, SequenceTheorems, TLAPS

-----------------------------------------------------------------------------
(* Each component takes its own steps, or none. *)
LEMMA Parts ==
    ASSUME [AllNext]_<<part, vars, promptVars, emojiVars, taskVars, upgradeVars>>
    PROVE  /\ [Next]_vars /\ [Prompt!Next]_(Prompt!vars) /\ [Emoji!Next]_(Emoji!vars)
           /\ [Scheduled!Next]_(Scheduled!vars) /\ [Upgrading!Next]_(Upgrading!vars)
<1>1. promptVars' = promptVars => Prompt!vars' = Prompt!vars
  BY DEF promptVars, Prompt!vars
<1>2. emojiVars' = emojiVars => Emoji!vars' = Emoji!vars
  BY DEF emojiVars, Emoji!vars
<1>3. taskVars' = taskVars => Scheduled!vars' = Scheduled!vars
  BY DEF taskVars, Scheduled!vars
<1>4. upgradeVars' = upgradeVars => Upgrading!vars' = Upgrading!vars
  BY DEF upgradeVars, Upgrading!vars, Upgrading!asking, Upgrading!drain, Upgrading!counters
<1>5. QED
  BY <1>1, <1>2, <1>3, <1>4 DEF AllNext

LEMMA Behaviours ==
    AllSpec => Spec /\ Prompt!Spec /\ Emoji!Spec /\ Scheduled!Spec /\ Upgrading!Spec
<1>1. AllInit => Init /\ Prompt!Init /\ Emoji!Init /\ Scheduled!Init /\ Upgrading!Init
  BY DEF AllInit
<1>2. QED
  BY <1>1, Parts, PTL DEF AllSpec, Spec, Prompt!Spec, Emoji!Spec, Scheduled!Spec, Upgrading!Spec

-----------------------------------------------------------------------------
(* The Teams surface and its pacer.  The invariant says that there is one  *)
(* timer and one request in flight, that nothing waits twice, and that the *)
(* last paint of the answer and of the card is owed, in flight or done; it *)
(* holds until a request fails or a flush cuts one off.                    *)

(* The queues of the pacer: no key waits twice.                            *)
Has(q, k) == \E i \in DOMAIN q : q[i] = k
Queues == {<<>>, <<Card>>, <<Stream>>, <<Card, Stream>>, <<Stream, Card>>}
Requests == [key : Keys \cup {None}, version : Nat, at : {0, 1}]

SurfaceTypes ==
    /\ state \in [Keys -> Nat] /\ final \in BOOLEAN /\ shown \in Nat /\ id \in [Keys -> {0, 1}]
    /\ screen \in [Keys -> Seq(Nat)]
    /\ pending \in Queues /\ then \in [keys : Queues, next : {"nothing", "flush", "paint"}]
    /\ timer \in Timers \cup {NoTimer}
    /\ task \in [Timers -> {"free", "new", "sleeping", "painting", "cancelled"}]
    /\ due \in BOOLEAN /\ request \in [Painters -> Requests] /\ closed \in Nat

(* One timer task is alive, it waits for what is pending, and the session  *)
(* paints only while there is none.                                        *)
OneTimer ==
    /\ \A t \in Timers :
         /\ task[t] \in {"new", "sleeping", "painting"} <=> t = timer
         /\ task[t] = "painting" <=> request[t] # Idle
         /\ task[t] \in {"new", "sleeping"} => pending # <<>>
         /\ task[t] = "cancelled" => timer = NoTimer
         /\ task[t] = "cancelled" => request[Session] # Idle \/ then.keys # <<>>
    /\ pending # <<>> => timer # NoTimer
    /\ request[Session] # Idle \/ then.keys # <<>> \/ then.next = "paint" => timer = NoTimer

(* The message of a key is posted once, and _shown is what it shows or     *)
(* will when the request is answered.                                      *)
Messages ==
    /\ \A p \in Painters : request[p] # Idle => request[p].key \in Keys
    /\ \A k \in Keys :
         /\ Len(screen[k]) = id[k]
         /\ \A p \in Painters : request[p].key = k =>
              request[p].at = id[k] /\ request[p].version <= state[k]
    /\ shown <= state[Stream] /\ (id[Stream] = 0 <=> shown = 0)
    /\ \A p \in Painters : request[p].key = Stream => request[p].version > 0
    /\ id[Stream] = 1 =>
         /\ (\A p \in Painters : request[p].key # Stream) => screen[Stream][1] = shown
         /\ \A p \in Painters : request[p].key = Stream => request[p].version = shown

(* An answer that waits has text that was not painted.                     *)
WaitingIsNew ==
    Has(pending, Stream) \/ Has(then.keys, Stream) =>
        /\ shown < state[Stream]
        /\ \A p \in Painters : request[p].key = Stream => request[p].version < state[Stream]

(* The last paint of the answer and of the card is owed, in flight or done. *)
AnswerEnds ==
    /\ final => state[Stream] > 0
    /\ final /\ then.next # "paint" =>
         /\ ~Has(pending, Stream) /\ ~Has(then.keys, Stream)
         /\ \A t \in Timers : request[t].key # Stream
         /\ \/ request[Session].key = Stream /\ request[Session].version = state[Stream]
            \/ request[Session].key # Stream /\ id[Stream] = 1 /\ shown = state[Stream]
CardEnds ==
    closed # 0 =>
        /\ closed <= state[Card]
        /\ \/ /\ then.next = "flush" /\ then.keys = <<>> /\ request[Session] = Idle
              /\ Has(pending, Card)
           \/ Has(then.keys, Card)
           \/ request[Session].key = Card /\ request[Session].version >= closed
           \/ /\ id[Card] = 1 /\ screen[Card][1] >= closed
              /\ \A p \in Painters : request[p].key = Card => request[p].version >= closed

SurfaceCore ==
    SurfaceTypes /\ OneTimer /\ Messages /\ WaitingIsNew /\ AnswerEnds /\ CardEnds
SurfaceInv ==
    /\ failures \in Nat /\ cut \in BOOLEAN
    /\ failures = 0 /\ ~cut => SurfaceCore
LEMMA Names ==
    /\ Keys = {Card, Stream} /\ Card # Stream /\ None \notin Keys
    /\ Painters = Timers \cup {Session} /\ Session \notin Timers /\ NoTimer \notin Timers
    /\ Idle \in Requests /\ Idle.key = None
    /\ Done \in [keys : Queues, next : {"nothing", "flush", "paint"}]
    /\ Done.keys = <<>> /\ Done.next = "nothing"
BY DEF Keys, Card, Stream, None, Painters, Timers, Session, NoTimer, Idle, Requests, Done,
       Queues

LEMMA QueueFacts ==
    /\ \A q \in Queues : q # <<>> =>
         /\ Head(q) \in Keys /\ Tail(q) \in Queues /\ Has(q, Head(q))
         /\ \A k \in Keys : Has(Tail(q), k) <=> Has(q, k) /\ k # Head(q)
    /\ <<>> \in Queues /\ \A k \in Keys : ~Has(<<>>, k)
    /\ \A k \in Keys : /\ <<k>> \in Queues /\ <<k>> # <<>>
                       /\ \A j \in Keys : Has(<<k>>, j) <=> j = k
BY DEF Queues, Has, Keys, Card, Stream

LEMMA PairsEqual ==
    ASSUME NEW S, NEW s \in Seq(S), NEW t \in Seq(S), Len(s) = 2, Len(t) = 2,
           s[1] = t[1], s[2] = t[2]
    PROVE  s = t
<1>1. \A i \in 1..Len(s) : s[i] = t[i]
  OBVIOUS
<1>2. QED
  BY <1>1, SeqEqual

LEMMA AddFacts ==
    ASSUME pending \in Queues, NEW k \in Keys
    PROVE  /\ Add(k) \in Queues /\ Add(k) # <<>>
           /\ \A j \in Keys : Has(Add(k), j) <=> Has(pending, j) \/ j = k
<1>1. CASE pending = <<>>
  <2>1. Add(k) = <<k>>
    BY <1>1 DEF Add
  <2>2. QED
    BY <1>1, <2>1, QueueFacts
<1>2. CASE Has(pending, k)
  <2>1. Add(k) = pending
    BY <1>2 DEF Add, Has
  <2>2. QED
    BY <1>2, <2>1, QueueFacts
<1>3. CASE pending # <<>> /\ ~Has(pending, k)
  <2>1. PICK j \in Keys : pending = <<j>> /\ j # k
    BY <1>3 DEF Queues, Has, Keys
  <2>2. Add(k) = <<j, k>>
    <3>1. Add(k) = Append(pending, k)
      BY <1>3 DEF Add, Has
    <3>2. /\ <<j>> \in Seq(Keys) /\ Append(<<j>>, k) \in Seq(Keys)
          /\ Len(Append(<<j>>, k)) = 2 /\ Append(<<j>>, k)[1] = j /\ Append(<<j>>, k)[2] = k
      OBVIOUS
    <3>3. <<j, k>> \in Seq(Keys) /\ Len(<<j, k>>) = 2 /\ <<j, k>>[1] = j /\ <<j, k>>[2] = k
      OBVIOUS
    <3>4. Append(<<j>>, k) = <<j, k>>
      BY <3>2, <3>3, PairsEqual
    <3>5. QED
      BY <2>1, <3>1, <3>4
  <2>3. <<j, k>> \in Queues
    BY <2>1 DEF Queues, Keys
  <2>4. \A i \in Keys : Has(<<j, k>>, i) <=> i = j \/ i = k
    BY DEF Has
  <2>5. QED
    BY <2>1, <2>2, <2>3, <2>4, QueueFacts
<1>4. QED
  BY <1>1, <1>2, <1>3

(* One request is in flight at a time. *)
LEMMA OneInFlight ==
    ASSUME SurfaceCore, NEW p \in Painters, request[p] # Idle
    PROVE  \A q \in Painters : q # p => request[q] = Idle
BY Names DEF SurfaceCore, OneTimer

(* submit paints nothing yet: the key waits for the session or the timer. *)
LEMMA Submits ==
    ASSUME SurfaceCore, SessionMayAct, NEW k \in Keys, NEW next \in {"nothing", "flush"},
           Submit(k, next), UNCHANGED request
    PROVE  /\ pending' \in Queues /\ then' \in [keys : Queues, next : {"nothing", "flush", "paint"}]
           /\ timer' \in Timers \cup {NoTimer}
           /\ task' \in [Timers -> {"free", "new", "sleeping", "painting", "cancelled"}]
           /\ OneTimer' /\ then'.next = next
           /\ \A j \in Keys :
                Has(pending', j) \/ Has(then'.keys, j) <=> Has(pending, j) \/ j = k
           /\ Has(then'.keys, k) \/ (then'.keys = <<>> /\ Has(pending', k))
<1> USE Names DEF SurfaceCore, SurfaceTypes
<1>1. request[Session] = Idle /\ then.keys = <<>> /\ then.next = "nothing"
  BY DEF SessionMayAct
<1>2. CASE due /\ pending = <<>> /\ timer = NoTimer
  <2>1. /\ then' = [keys |-> <<k>>, next |-> next]
        /\ UNCHANGED <<pending, timer, task>>
    BY <1>2 DEF Submit
  <2>2. then'.keys = <<k>> /\ then'.next = next
    BY <2>1
  <2>3. OneTimer'
    BY <1>1, <1>2, <2>1, <2>2, QueueFacts DEF OneTimer
  <2>4. QED
    BY <1>2, <2>1, <2>2, <2>3, QueueFacts
<1>3. CASE ~(due /\ pending = <<>> /\ timer = NoTimer)
  <2>1. /\ pending' = Add(k) /\ EnsureTimer(timer, task)
        /\ then' = [keys |-> <<>>, next |-> next]
    BY <1>3 DEF Submit
  <2>2. then'.keys = <<>> /\ then'.next = next
    BY <2>1
  <2>3. \/ timer # NoTimer /\ timer' = timer /\ task' = task
        \/ /\ timer = NoTimer
           /\ \E t \in Timers : task[t] = "free" /\ timer' = t /\ task' = [task EXCEPT ![t] = "new"]
    BY <2>1 DEF EnsureTimer
  <2>4. /\ timer' \in Timers
        /\ task' \in [Timers -> {"free", "new", "sleeping", "painting", "cancelled"}]
    BY <2>3
  <2>5. pending' \in Queues /\ pending' # <<>>
        /\ \A j \in Keys : Has(pending', j) <=> Has(pending, j) \/ j = k
    BY <2>1, AddFacts
  <2>6. \A t \in Timers : task[t] # "cancelled"
    BY <1>1 DEF OneTimer
  <2>7. OneTimer'
    BY <1>1, <2>2, <2>3, <2>4, <2>5, <2>6 DEF OneTimer
  <2>8. QED
    BY <2>1, <2>2, <2>4, <2>5, <2>7, QueueFacts
<1>4. QED
  BY <1>2, <1>3

(* flush takes what is pending to the session and stops the timer, which   *)
(* is not painting.                                                        *)
LEMMA Flushes ==
    ASSUME SurfaceCore, request[Session] = Idle, then.keys = <<>>, then.next # "paint",
           NEW next \in {"nothing", "paint"}, Flush(next), ~cut'
    PROVE  /\ UNCHANGED <<request, screen>>
           /\ then' = [keys |-> pending, next |-> next] /\ pending' = <<>> /\ timer' = NoTimer
           /\ task' \in [Timers -> {"free", "new", "sleeping", "painting", "cancelled"}]
           /\ OneTimer'
           /\ \A p \in Painters : request[p] = Idle
<1> USE Names DEF SurfaceCore, SurfaceTypes
<1>1. /\ then' = [keys |-> pending, next |-> next] /\ pending' = <<>> /\ timer' = NoTimer
      /\ (timer # NoTimer => task[timer] # "painting")
  BY DEF Flush
<1>2. then'.keys = pending /\ then'.next = next
  BY <1>1
<1>3. \A t \in Timers : request[t] = Idle /\ task[t] \notin {"painting", "cancelled"}
  BY <1>1 DEF OneTimer
<1>4. CASE timer = NoTimer
  <2>1. UNCHANGED <<task, request, screen>>
    BY <1>4 DEF Flush
  <2>2. QED
    BY <1>1, <1>2, <1>3, <1>4, <2>1 DEF OneTimer
<1>5. CASE timer # NoTimer
  <2>1. /\ task' = [task EXCEPT ![timer] = IF @ = "new" THEN "free" ELSE "cancelled"]
        /\ request' = [request EXCEPT ![timer] = Idle] /\ UNCHANGED screen
    BY <1>1, <1>5 DEF Flush
  <2>2. timer \in Timers /\ request' = request
    BY <1>3, <1>5, <2>1
  <2>3. /\ task' \in [Timers -> {"free", "new", "sleeping", "painting", "cancelled"}]
        /\ \A t \in Timers : task'[t] \in {"free", "cancelled"}
        /\ pending # <<>>
    BY <1>3, <1>5, <2>1, <2>2 DEF OneTimer
  <2>4. OneTimer'
    BY <1>1, <1>2, <1>3, <2>2, <2>3 DEF OneTimer
  <2>5. QED
    BY <1>1, <1>3, <2>1, <2>2, <2>3, <2>4
<1>6. QED
  BY <1>4, <1>5

(* Painting sends the one request that is in flight. *)
LEMMA Paints ==
    ASSUME SurfaceCore, NEW p \in Painters, NEW k \in Keys, Paint(p, k), Sends(k),
           \A q \in Painters : request[q] = Idle,
           UNCHANGED <<state, id, screen>>
    PROVE  /\ request' \in [Painters -> Requests] /\ request'[p] # Idle
           /\ request'[p].key = k /\ request'[p].version = state[k]
           /\ \A q \in Painters : q # p => request'[q] = Idle
           /\ shown' \in Nat /\ (k # Stream => shown' = shown)
           /\ Messages'
<1> USE Names DEF SurfaceCore, SurfaceTypes
<1> DEFINE r == [key |-> k, version |-> state[k], at |-> id[k]]
<1>1. r \in Requests /\ r.key = k /\ r.version = state[k] /\ r.at = id[k] /\ r # Idle
  BY DEF Requests
<1>2. /\ request' = [request EXCEPT ![p] = r]
      /\ shown' = IF k = Stream /\ shown # 0 THEN state[Stream] ELSE shown
  BY DEF Paint
<1> HIDE DEF r
<1>3. request'[p] = r /\ \A q \in Painters : q # p => request'[q] = Idle
  BY <1>2
<1>4. /\ shown' \in Nat /\ shown' <= state[Stream] /\ (k # Stream => shown' = shown)
      /\ (k = Stream /\ id[Stream] = 1 => shown' = state[Stream])
      /\ (id[Stream] = 0 <=> shown' = 0) /\ (k = Stream => state[Stream] > 0)
  BY <1>2 DEF Messages, Sends
<1>5. request' \in [Painters -> Requests]
  BY <1>1, <1>2
<1>6. \A q \in Painters : request'[q].key \in Keys => q = p
  BY <1>3
<1>7. Messages'
  <2>1. \A q \in Painters : request'[q] # Idle => request'[q].key \in Keys
    BY <1>1, <1>3
  <2>2. ASSUME NEW j \in Keys
        PROVE  /\ Len(screen'[j]) = id'[j]
               /\ \A q \in Painters : request'[q].key = j =>
                    request'[q].at = id'[j] /\ request'[q].version <= state'[j]
    BY <1>1, <1>3, <1>6 DEF Messages
  <2>3. ASSUME id'[Stream] = 1
        PROVE  /\ (\A q \in Painters : request'[q].key # Stream) => screen'[Stream][1] = shown'
               /\ \A q \in Painters : request'[q].key = Stream => request'[q].version = shown'
    <3>1. CASE k = Stream
      BY <1>1, <1>3, <1>4, <1>6, <2>3, <3>1
    <3>2. CASE k # Stream
      BY <1>1, <1>3, <1>4, <1>6, <2>3, <3>2 DEF Messages
    <3>3. QED
      BY <3>1, <3>2
  <2>4. \A q \in Painters : request'[q].key = Stream => request'[q].version > 0
    BY <1>1, <1>3, <1>4, <1>6
  <2>5. QED
    BY <1>4, <2>1, <2>2, <2>3, <2>4 DEF Messages
<1>8. QED
  BY <1>1, <1>3, <1>4, <1>5, <1>7

(* A timer task ends, for the next of what is pending if there is any. *)
LEMMA TimerTaskEnds ==
    ASSUME SurfaceCore, NEW t \in Timers, task[t] \in {"painting", "cancelled"},
           TimerEnds(t, pending), \A u \in Timers : u # t => request'[u] = request[u],
           request'[t] = Idle, UNCHANGED <<then, request[Session]>>
    PROVE  /\ UNCHANGED pending /\ timer' \in Timers \cup {NoTimer}
           /\ task' \in [Timers -> {"free", "new", "sleeping", "painting", "cancelled"}]
           /\ OneTimer'
<1> USE Names DEF SurfaceCore, SurfaceTypes
<1> DEFINE tk == [task EXCEPT ![t] = "free"]
<1>1. /\ tk \in [Timers -> {"free", "new", "sleeping", "painting", "cancelled"}]
      /\ tk[t] = "free" /\ \A u \in Timers : u # t => tk[u] = task[u]
      /\ \A u \in Timers : tk[u] \notin {"new", "sleeping", "painting"}
  BY DEF OneTimer
<1>2. UNCHANGED pending
  BY DEF TimerEnds
<1>3. CASE pending = <<>>
  <2>1. timer' = NoTimer /\ task' = tk
    BY <1>3 DEF TimerEnds
  <2>2. QED
    BY <1>1, <1>2, <1>3, <2>1 DEF OneTimer
<1>4. CASE pending # <<>>
  <2>1. PICK u \in Timers : tk[u] = "free" /\ timer' = u /\ task' = [tk EXCEPT ![u] = "new"]
    BY <1>4 DEF TimerEnds, EnsureTimer
  <2>2. \A x \in Timers : task[x] # "cancelled"
    BY <1>4 DEF OneTimer
  <2>3. QED
    BY <1>1, <1>2, <1>4, <2>1, <2>2 DEF OneTimer
<1>5. QED
  BY <1>3, <1>4

LEMMA AppendsFirst ==
    \A s \in Seq(Nat), n \in Nat : Len(s) = 0 =>
        Append(s, n) \in Seq(Nat) /\ Len(Append(s, n)) = 1 /\ Append(s, n)[1] = n
BY AppendProperties

LEMMA RequestTypes ==
    ASSUME SurfaceTypes
    PROVE  \A p \in Painters : request[p].version \in Nat /\ request[p].at \in {0, 1}
BY DEF SurfaceTypes, Requests

(* An answered request is what the message of its key shows from now on.   *)
LEMMA Answers ==
    ASSUME SurfaceCore, NEW p \in Painters, NEW k \in Keys, request[p].key = k, Answer(p)
    PROVE  /\ id' = [id EXCEPT ![k] = 1] /\ id' \in [Keys -> {0, 1}]
           /\ screen' \in [Keys -> Seq(Nat)]
           /\ Len(screen'[k]) = 1 /\ screen'[k][1] = request[p].version
           /\ \A j \in Keys : j # k => screen'[j] = screen[j]
           /\ shown' = IF k = Stream THEN request[p].version ELSE shown
<1> USE Names DEF SurfaceCore, SurfaceTypes
<1> DEFINE r == request[p]
           v == request[p].version
<1>1. /\ r.at = id[k] /\ r.at \in {0, 1} /\ v \in Nat
      /\ Len(screen[k]) = id[k] /\ screen[k] \in Seq(Nat)
      /\ (k = Stream /\ id[Stream] = 1 => v = shown)
  BY DEF Messages, Requests
<1>2. screen' = IF r.at = 0 THEN [screen EXCEPT ![k] = Append(@, v)]
                ELSE [screen EXCEPT ![k][r.at] = v]
  BY DEF Answer, Applied
<1>3. id[k] = 0 =>
        /\ Append(screen[k], v) \in Seq(Nat) /\ Len(Append(screen[k], v)) = 1
        /\ Append(screen[k], v)[1] = v
  BY <1>1, AppendsFirst
<1>4. id[k] = 1 =>
        [screen[k] EXCEPT ![1] = v] \in Seq(Nat) /\ Len([screen[k] EXCEPT ![1] = v]) = 1
        /\ [screen[k] EXCEPT ![1] = v][1] = v
  BY <1>1, ExceptSeq
<1>5. /\ screen' \in [Keys -> Seq(Nat)] /\ Len(screen'[k]) = 1 /\ screen'[k][1] = v
      /\ \A j \in Keys : j # k => screen'[j] = screen[j]
  <2>1. CASE r.at = 0
    BY <1>1, <1>2, <1>3, <2>1
  <2>2. CASE r.at = 1
    BY <1>1, <1>2, <1>4, <2>2
  <2>3. QED
    BY <1>1, <2>1, <2>2
<1>6. IF r.at # 0 \/ (k = Stream /\ id[Stream] # 0) THEN UNCHANGED <<id, shown>>
      ELSE /\ id' = [id EXCEPT ![k] = Len(screen'[k])]
           /\ shown' = IF k = Stream /\ shown = 0 THEN v ELSE shown
  BY DEF Answer
<1>7. id' = [id EXCEPT ![k] = 1] /\ shown' = IF k = Stream THEN v ELSE shown
  <2>1. CASE id[k] = 0
    BY <1>1, <1>5, <1>6, <2>1 DEF Messages
  <2>2. CASE id[k] = 1
    BY <1>1, <1>6, <2>2
  <2>3. QED
    BY <1>1, <2>1, <2>2
<1>8. QED
  BY <1>5, <1>7

LEMMA ChangeCardStep ==
    ASSUME SurfaceCore, ChangeCard, ~cut'
    PROVE  SurfaceCore'
<1> USE Names DEF SurfaceCore, SurfaceTypes
<1>1. /\ SessionMayAct /\ state' = [state EXCEPT ![Card] = @ + 1] /\ Submit(Card, "nothing")
      /\ UNCHANGED <<final, shown, id, screen, due, request, closed>>
  BY DEF ChangeCard
<1>2. request[Session] = Idle /\ then.keys = <<>> /\ then.next = "nothing"
  BY <1>1 DEF SessionMayAct
<1>3. /\ pending' \in Queues /\ then' \in [keys : Queues, next : {"nothing", "flush", "paint"}]
      /\ timer' \in Timers \cup {NoTimer}
      /\ task' \in [Timers -> {"free", "new", "sleeping", "painting", "cancelled"}]
      /\ OneTimer' /\ then'.next = "nothing"
      /\ \A j \in Keys : Has(pending', j) \/ Has(then'.keys, j) <=> Has(pending, j) \/ j = Card
      /\ Has(then'.keys, Card) \/ (then'.keys = <<>> /\ Has(pending', Card))
  BY <1>1, Submits
<1>4. SurfaceTypes'
  BY <1>1, <1>2, <1>3, QueueFacts
<1>5. OneTimer'
  BY <1>1, <1>2, <1>3, QueueFacts
<1>6. Messages'
  BY <1>1, <1>2, <1>3, QueueFacts, RequestTypes DEF Messages
<1>7. WaitingIsNew'
  BY <1>1, <1>2, <1>3, QueueFacts, RequestTypes DEF WaitingIsNew, Messages
<1>8. AnswerEnds'
  BY <1>1, <1>2, <1>3, QueueFacts DEF AnswerEnds
<1>9. CardEnds'
  BY <1>1, <1>2, <1>3, QueueFacts DEF CardEnds
<1>10. QED
  BY <1>4, <1>5, <1>6, <1>7, <1>8, <1>9

LEMMA AppendTextStep ==
    ASSUME SurfaceCore, AppendText, ~cut'
    PROVE  SurfaceCore'
<1> USE Names DEF SurfaceCore, SurfaceTypes
<1>1. /\ SessionMayAct /\ state' = [state EXCEPT ![Stream] = @ + 1] /\ Submit(Stream, "nothing")
      /\ ~final /\ UNCHANGED <<final, shown, id, screen, due, request, closed>>
  BY DEF AppendText
<1>2. request[Session] = Idle /\ then.keys = <<>> /\ then.next = "nothing"
  BY <1>1 DEF SessionMayAct
<1>3. /\ pending' \in Queues /\ then' \in [keys : Queues, next : {"nothing", "flush", "paint"}]
      /\ timer' \in Timers \cup {NoTimer}
      /\ task' \in [Timers -> {"free", "new", "sleeping", "painting", "cancelled"}]
      /\ OneTimer' /\ then'.next = "nothing"
      /\ \A j \in Keys : Has(pending', j) \/ Has(then'.keys, j) <=> Has(pending, j) \/ j = Stream
      /\ Has(then'.keys, Stream) \/ (then'.keys = <<>> /\ Has(pending', Stream))
  BY <1>1, Submits
<1>4. SurfaceTypes'
  BY <1>1, <1>2, <1>3, QueueFacts
<1>5. OneTimer'
  BY <1>1, <1>2, <1>3, QueueFacts
<1>6. Messages'
  BY <1>1, <1>2, <1>3, QueueFacts, RequestTypes DEF Messages
<1>7. WaitingIsNew'
  BY <1>1, <1>2, <1>3, QueueFacts, RequestTypes DEF WaitingIsNew, Messages
<1>8. AnswerEnds'
  BY <1>1, <1>2, <1>3, QueueFacts DEF AnswerEnds
<1>9. CardEnds'
  BY <1>1, <1>2, <1>3, QueueFacts DEF CardEnds
<1>10. QED
  BY <1>4, <1>5, <1>6, <1>7, <1>8, <1>9

LEMMA DisableStep ==
    ASSUME SurfaceCore, Disable, ~cut'
    PROVE  SurfaceCore'
<1> USE Names DEF SurfaceCore, SurfaceTypes
<1>1. /\ SessionMayAct /\ state' = [state EXCEPT ![Card] = @ + 1] /\ Submit(Card, "flush")
      /\ closed' = state'[Card]
      /\ UNCHANGED <<final, shown, id, screen, due, request>>
  BY DEF Disable
<1>2. request[Session] = Idle /\ then.keys = <<>> /\ then.next = "nothing"
  BY <1>1 DEF SessionMayAct
<1>3. /\ pending' \in Queues /\ then' \in [keys : Queues, next : {"nothing", "flush", "paint"}]
      /\ timer' \in Timers \cup {NoTimer}
      /\ task' \in [Timers -> {"free", "new", "sleeping", "painting", "cancelled"}]
      /\ OneTimer' /\ then'.next = "flush"
      /\ \A j \in Keys : Has(pending', j) \/ Has(then'.keys, j) <=> Has(pending, j) \/ j = Card
      /\ Has(then'.keys, Card) \/ (then'.keys = <<>> /\ Has(pending', Card))
  BY <1>1, Submits
<1>4. SurfaceTypes'
  BY <1>1, <1>2, <1>3, QueueFacts
<1>5. OneTimer'
  BY <1>1, <1>2, <1>3, QueueFacts
<1>6. Messages'
  BY <1>1, <1>2, <1>3, QueueFacts, RequestTypes DEF Messages
<1>7. WaitingIsNew'
  BY <1>1, <1>2, <1>3, QueueFacts, RequestTypes DEF WaitingIsNew, Messages
<1>8. AnswerEnds'
  BY <1>1, <1>2, <1>3, QueueFacts DEF AnswerEnds
<1>9. CardEnds'
  BY <1>1, <1>2, <1>3, QueueFacts DEF CardEnds
<1>10. QED
  BY <1>4, <1>5, <1>6, <1>7, <1>8, <1>9

LEMMA FinalizeStep ==
    ASSUME SurfaceCore, Finalize, ~cut'
    PROVE  SurfaceCore'
<1> USE Names DEF SurfaceCore, SurfaceTypes
<1>1. /\ SessionMayAct /\ state[Stream] > 0 /\ final' = TRUE /\ Flush("paint")
      /\ UNCHANGED <<state, shown, id, due, closed>>
  BY DEF Finalize
<1>2. request[Session] = Idle /\ then.keys = <<>> /\ then.next = "nothing"
  BY <1>1 DEF SessionMayAct
<1>3. /\ UNCHANGED <<request, screen>>
      /\ then' = [keys |-> pending, next |-> "paint"] /\ pending' = <<>> /\ timer' = NoTimer
      /\ task' \in [Timers -> {"free", "new", "sleeping", "painting", "cancelled"}]
      /\ OneTimer'
      /\ \A p \in Painters : request[p] = Idle
  BY <1>1, <1>2, Flushes
<1>4. then'.keys = pending /\ then'.next = "paint"
  BY <1>3
<1>5. SurfaceTypes'
  BY <1>1, <1>2, <1>3, <1>4, QueueFacts
<1>6. OneTimer'
  BY <1>1, <1>2, <1>3, <1>4, QueueFacts
<1>7. Messages'
  BY <1>1, <1>2, <1>3, <1>4, QueueFacts, RequestTypes DEF Messages
<1>8. WaitingIsNew'
  BY <1>1, <1>2, <1>3, <1>4, QueueFacts, RequestTypes DEF WaitingIsNew, Messages
<1>9. AnswerEnds'
  BY <1>1, <1>2, <1>3, <1>4, QueueFacts DEF AnswerEnds
<1>10. CardEnds'
  BY <1>1, <1>2, <1>3, <1>4, QueueFacts DEF CardEnds
<1>11. QED
  BY <1>5, <1>6, <1>7, <1>8, <1>9, <1>10

LEMMA AnswerStep ==
    ASSUME SurfaceCore, NEW p \in Painters, Answer(p), ~cut'
    PROVE  SurfaceCore'
<1> USE Names DEF SurfaceCore, SurfaceTypes
<1>1. PICK k \in Keys : request[p].key = k /\ request[p] # Idle
  BY DEF Answer, Messages
<1>2. /\ id' = [id EXCEPT ![k] = 1] /\ id' \in [Keys -> {0, 1}]
      /\ screen' \in [Keys -> Seq(Nat)]
      /\ Len(screen'[k]) = 1 /\ screen'[k][1] = request[p].version
      /\ \A j \in Keys : j # k => screen'[j] = screen[j]
      /\ shown' = IF k = Stream THEN request[p].version ELSE shown
  BY <1>1, Answers
<1>3. /\ request' = [request EXCEPT ![p] = Idle] /\ UNCHANGED <<state, final, due, then, closed>>
      /\ \A t \in Timers : task[t] # "cancelled"
  BY DEF Answer, Settled
<1>4. \A q \in Painters : request'[q] = Idle
  BY <1>1, <1>3, OneInFlight
<1>5. /\ UNCHANGED pending /\ timer' \in Timers \cup {NoTimer}
      /\ task' \in [Timers -> {"free", "new", "sleeping", "painting", "cancelled"}]
      /\ OneTimer'
  <2>1. CASE p = Session
    <3>1. UNCHANGED <<pending, timer, task>>
      BY <2>1 DEF Answer
    <3>2. QED
      BY <1>1, <1>3, <1>4, <2>1, <3>1 DEF OneTimer
  <2>2. CASE p \in Timers
    <3>1. TimerEnds(p, pending) /\ task[p] = "painting"
      BY <1>1, <2>2 DEF Answer, OneTimer
    <3>2. QED
      BY <1>3, <1>4, <2>2, <3>1, TimerTaskEnds
  <2>3. QED
    BY <2>1, <2>2
<1>6. request[p].version \in Nat /\ request[p].version <= state[k]
  BY <1>1 DEF Messages, Requests
<1>7. SurfaceTypes'
  BY <1>1, <1>2, <1>3, <1>4, <1>5, <1>6, QueueFacts
<1>8. OneTimer'
  BY <1>1, <1>2, <1>3, <1>4, <1>5, <1>6, QueueFacts
<1>9. Messages'
  BY <1>1, <1>2, <1>3, <1>4, <1>5, <1>6, QueueFacts, RequestTypes DEF Messages
<1>10. WaitingIsNew'
  BY <1>1, <1>2, <1>3, <1>4, <1>5, <1>6, QueueFacts, RequestTypes DEF WaitingIsNew, Messages
<1>11. AnswerEnds'
  BY <1>1, <1>2, <1>3, <1>4, <1>5, <1>6, QueueFacts DEF AnswerEnds
<1>12. CardEnds'
  BY <1>1, <1>2, <1>3, <1>4, <1>5, <1>6, QueueFacts DEF CardEnds
<1>13. QED
  BY <1>7, <1>8, <1>9, <1>10, <1>11, <1>12

LEMMA RunsNextStep ==
    ASSUME SurfaceCore, SessionGoesOn, then.keys # <<>>, ~cut'
    PROVE  SurfaceCore'
<1> USE Names DEF SurfaceCore, SurfaceTypes
<1>1. /\ then.keys # <<>> /\ request[Session] = Idle /\ timer = NoTimer /\ pending = <<>>
      /\ \A p \in Painters : request[p] = Idle
  BY DEF SessionGoesOn, SessionAwaits, OneTimer
<1>2. PICK k \in Keys : /\ k = Head(then.keys) /\ Has(then.keys, k) /\ Tail(then.keys) \in Queues
                       /\ \A j \in Keys : Has(Tail(then.keys), j) <=> Has(then.keys, j) /\ j # k
  BY <1>1, QueueFacts
<1>3. Sends(k)
  BY <1>2 DEF Sends, WaitingIsNew
<1>4. /\ then' = [then EXCEPT !.keys = Tail(@)] /\ Paint(Session, k)
      /\ UNCHANGED <<screen, pending, timer, task, state, final, id, closed>> /\ due' = FALSE
  BY <1>1, <1>2, <1>3 DEF SessionGoesOn
<1>5. then' \in [keys : Queues, next : {"nothing", "flush", "paint"}]
      /\ then'.keys = Tail(then.keys) /\ then'.next = then.next
  BY <1>2, <1>4
<1>6. /\ request' \in [Painters -> Requests] /\ request'[Session] # Idle
      /\ request'[Session].key = k /\ request'[Session].version = state[k]
      /\ \A q \in Painters : q # Session => request'[q] = Idle
      /\ shown' \in Nat /\ (k # Stream => shown' = shown)
      /\ Messages'
  BY <1>1, <1>3, <1>4, Paints
<1>7. SurfaceTypes'
  BY <1>1, <1>2, <1>3, <1>4, <1>5, <1>6, QueueFacts
<1>8. OneTimer'
  BY <1>1, <1>2, <1>3, <1>4, <1>5, <1>6, QueueFacts DEF OneTimer
<1>9. Messages'
  BY <1>1, <1>2, <1>3, <1>4, <1>5, <1>6, QueueFacts, RequestTypes DEF Messages
<1>10. WaitingIsNew'
  BY <1>1, <1>2, <1>3, <1>4, <1>5, <1>6, QueueFacts, RequestTypes DEF WaitingIsNew, Messages
<1>11. AnswerEnds'
  <2>1. UNCHANGED <<final, state, id, pending>>
    BY <1>4
  <2>2. ASSUME final, then'.next # "paint"
        PROVE  /\ ~Has(pending', Stream) /\ ~Has(then'.keys, Stream) /\ k # Stream
               /\ id[Stream] = 1 /\ shown = state[Stream]
    <3>1. /\ ~Has(pending, Stream) /\ ~Has(then.keys, Stream)
          /\ request[Session].key # Stream /\ id[Stream] = 1 /\ shown = state[Stream]
      BY <1>1, <1>5, <2>2 DEF AnswerEnds
    <3>2. QED
      BY <1>2, <1>5, <2>1, <3>1
  <2>3. \A t \in Timers : request'[t].key # Stream
    BY <1>6
  <2>4. final' => state'[Stream] > 0
    BY <2>1 DEF AnswerEnds
  <2>5. QED
    BY <1>6, <2>1, <2>2, <2>3, <2>4 DEF AnswerEnds
<1>12. CardEnds'
  BY <1>1, <1>2, <1>3, <1>4, <1>5, <1>6, QueueFacts DEF CardEnds
<1>13. QED
  BY <1>7, <1>8, <1>9, <1>10, <1>11, <1>12

LEMMA FlushesAgainStep ==
    ASSUME SurfaceCore, SessionGoesOn, then.keys = <<>>, then.next = "flush", ~cut'
    PROVE  SurfaceCore'
<1> USE Names DEF SurfaceCore, SurfaceTypes
<1>1. /\ then.keys = <<>> /\ then.next = "flush" /\ request[Session] = Idle
      /\ Flush("nothing") /\ UNCHANGED <<state, final, id, closed, due, shown>>
  BY DEF SessionGoesOn, SessionAwaits
<1>2. /\ UNCHANGED <<request, screen>>
      /\ then' = [keys |-> pending, next |-> "nothing"] /\ pending' = <<>> /\ timer' = NoTimer
      /\ task' \in [Timers -> {"free", "new", "sleeping", "painting", "cancelled"}]
      /\ OneTimer'
      /\ \A p \in Painters : request[p] = Idle
  BY <1>1, Flushes
<1>3. then'.keys = pending /\ then'.next = "nothing"
  BY <1>2
<1>4. SurfaceTypes'
  BY <1>1, <1>2, <1>3, QueueFacts
<1>5. OneTimer'
  BY <1>1, <1>2, <1>3, QueueFacts
<1>6. Messages'
  BY <1>1, <1>2, <1>3, QueueFacts, RequestTypes DEF Messages
<1>7. WaitingIsNew'
  BY <1>1, <1>2, <1>3, QueueFacts, RequestTypes DEF WaitingIsNew, Messages
<1>8. AnswerEnds'
  BY <1>1, <1>2, <1>3, QueueFacts DEF AnswerEnds
<1>9. CardEnds'
  BY <1>1, <1>2, <1>3, QueueFacts DEF CardEnds
<1>10. QED
  BY <1>4, <1>5, <1>6, <1>7, <1>8, <1>9

LEMMA PaintsAnswerStep ==
    ASSUME SurfaceCore, SessionGoesOn, then.keys = <<>>, then.next # "flush", ~cut'
    PROVE  SurfaceCore'
<1> USE Names DEF SurfaceCore, SurfaceTypes
<1>1. /\ then.keys = <<>> /\ then.next = "paint" /\ request[Session] = Idle
      /\ timer = NoTimer /\ pending = <<>> /\ \A p \in Painters : request[p] = Idle
  <2>1. then.keys = <<>> /\ then.next = "nothing" => then = Done
    BY DEF Done
  <2>2. request[Session] = Idle /\ then # Done
    BY DEF SessionGoesOn, SessionAwaits
  <2>3. then.next = "paint"
    BY <2>1, <2>2
  <2>4. QED
    BY <2>2, <2>3 DEF OneTimer
<1>2. /\ then' = Done /\ UNCHANGED <<screen, pending, timer, task, due, state, final, id, closed>>
      /\ IF Sends(Stream) THEN Paint(Session, Stream) ELSE UNCHANGED <<request, shown>>
  BY <1>1 DEF SessionGoesOn
<1>3. then'.keys = <<>> /\ then'.next = "nothing"
  BY <1>2
<1>4. \/ UNCHANGED <<request, shown>> /\ (final => id[Stream] = 1 /\ shown = state[Stream])
      \/ /\ request' \in [Painters -> Requests] /\ request'[Session] # Idle
         /\ request'[Session].key = Stream /\ request'[Session].version = state[Stream]
         /\ \A q \in Painters : q # Session => request'[q] = Idle
         /\ shown' \in Nat
         /\ Messages'
  <2>1. CASE Sends(Stream)
    BY <1>1, <1>2, <2>1, Paints
  <2>2. CASE ~Sends(Stream)
    BY <1>2, <2>2 DEF Sends, AnswerEnds, Messages
  <2>3. QED
    BY <2>1, <2>2
<1>5. SurfaceTypes'
  BY <1>1, <1>2, <1>3, <1>4, QueueFacts
<1>6. OneTimer'
  BY <1>1, <1>2, <1>3, <1>4, QueueFacts DEF OneTimer
<1>7. Messages'
  BY <1>1, <1>2, <1>3, <1>4, QueueFacts, RequestTypes DEF Messages
<1>8. WaitingIsNew'
  BY <1>1, <1>2, <1>3, <1>4, QueueFacts, RequestTypes DEF WaitingIsNew, Messages
<1>9. AnswerEnds'
  <2>1. ~Has(pending', Stream) /\ ~Has(then'.keys, Stream)
    BY <1>1, <1>2, <1>3, QueueFacts
  <2>2. CASE UNCHANGED <<request, shown>> /\ (final => id[Stream] = 1 /\ shown = state[Stream])
    BY <1>1, <1>2, <2>1, <2>2 DEF AnswerEnds
  <2>3. CASE /\ request'[Session].key = Stream /\ request'[Session].version = state[Stream]
             /\ \A q \in Painters : q # Session => request'[q] = Idle
    BY <1>2, <2>1, <2>3 DEF AnswerEnds
  <2>4. QED
    BY <1>4, <2>2, <2>3
<1>10. CardEnds'
  BY <1>1, <1>2, <1>3, <1>4, QueueFacts DEF CardEnds
<1>11. QED
  BY <1>5, <1>6, <1>7, <1>8, <1>9, <1>10

LEMMA TimerStartsStep ==
    ASSUME SurfaceCore, NEW t \in Timers, TimerStarts(t), ~cut'
    PROVE  SurfaceCore'
<1> USE Names DEF SurfaceCore, SurfaceTypes
<1>1. /\ task[t] = "new" /\ task' = [task EXCEPT ![t] = "sleeping"]
      /\ UNCHANGED <<state, final, shown, id, screen, pending, timer, due, then, request, closed>>
  BY DEF TimerStarts
<1>2. SurfaceTypes'
  BY <1>1, QueueFacts
<1>3. OneTimer'
  BY <1>1, QueueFacts DEF OneTimer
<1>4. Messages'
  BY <1>1, QueueFacts, RequestTypes DEF Messages
<1>5. WaitingIsNew'
  BY <1>1, QueueFacts, RequestTypes DEF WaitingIsNew, Messages
<1>6. AnswerEnds'
  BY <1>1, QueueFacts DEF AnswerEnds
<1>7. CardEnds'
  BY <1>1, QueueFacts DEF CardEnds
<1>8. QED
  BY <1>2, <1>3, <1>4, <1>5, <1>6, <1>7

LEMMA CancelledTimerEndsStep ==
    ASSUME SurfaceCore, NEW t \in Timers, CancelledTimerEnds(t), ~cut'
    PROVE  SurfaceCore'
<1> USE Names DEF SurfaceCore, SurfaceTypes
<1>1. /\ task[t] = "cancelled" /\ TimerEnds(t, pending)
      /\ UNCHANGED <<state, final, shown, id, screen, due, then, request, closed>>
  BY DEF CancelledTimerEnds
<1>2. request[t] = Idle
  BY <1>1 DEF OneTimer
<1>3. /\ UNCHANGED pending /\ timer' \in Timers \cup {NoTimer}
      /\ task' \in [Timers -> {"free", "new", "sleeping", "painting", "cancelled"}]
      /\ OneTimer'
  BY <1>1, <1>2, TimerTaskEnds
<1>4. SurfaceTypes'
  BY <1>1, <1>2, <1>3, QueueFacts
<1>5. OneTimer'
  BY <1>1, <1>2, <1>3, QueueFacts
<1>6. Messages'
  BY <1>1, <1>2, <1>3, QueueFacts, RequestTypes DEF Messages
<1>7. WaitingIsNew'
  BY <1>1, <1>2, <1>3, QueueFacts, RequestTypes DEF WaitingIsNew, Messages
<1>8. AnswerEnds'
  BY <1>1, <1>2, <1>3, QueueFacts DEF AnswerEnds
<1>9. CardEnds'
  BY <1>1, <1>2, <1>3, QueueFacts DEF CardEnds
<1>10. QED
  BY <1>4, <1>5, <1>6, <1>7, <1>8, <1>9

LEMMA TimerWakesStep ==
    ASSUME SurfaceCore, NEW t \in Timers, TimerWakes(t), ~cut'
    PROVE  SurfaceCore'
<1> USE Names DEF SurfaceCore, SurfaceTypes
<1>1. /\ task[t] = "sleeping" /\ t = timer /\ pending # <<>>
      /\ SessionAwaits /\ (due \/ timer # t)
  BY DEF TimerWakes, Settled, OneTimer
<1>2. /\ \A p \in Painters : request[p] = Idle
      /\ then.keys = <<>> /\ then.next # "paint" /\ then.next # "flush"
  BY <1>1 DEF OneTimer, SessionAwaits
<1>3. PICK k \in Keys : /\ k = Head(pending) /\ Has(pending, k) /\ Tail(pending) \in Queues
                       /\ \A j \in Keys : Has(Tail(pending), j) <=> Has(pending, j) /\ j # k
  BY <1>1, QueueFacts
<1>4. Sends(k)
  BY <1>3 DEF Sends, WaitingIsNew
<1>5. /\ Paint(t, k) /\ task' = [task EXCEPT ![t] = "painting"]
      /\ pending' = Tail(pending) /\ UNCHANGED timer
      /\ due' \in BOOLEAN /\ UNCHANGED <<state, final, id, screen, then, closed>>
  BY <1>1, <1>3, <1>4 DEF TimerWakes
<1>6. /\ request' \in [Painters -> Requests] /\ request'[t] # Idle
      /\ request'[t].key = k /\ request'[t].version = state[k]
      /\ \A q \in Painters : q # t => request'[q] = Idle
      /\ shown' \in Nat /\ (k # Stream => shown' = shown)
      /\ Messages'
  BY <1>2, <1>4, <1>5, Paints
<1>7. SurfaceTypes'
  BY <1>1, <1>2, <1>3, <1>4, <1>5, <1>6, QueueFacts
<1>8. OneTimer'
  BY <1>1, <1>2, <1>3, <1>4, <1>5, <1>6, QueueFacts DEF OneTimer
<1>9. Messages'
  BY <1>1, <1>2, <1>3, <1>4, <1>5, <1>6, QueueFacts, RequestTypes DEF Messages
<1>10. WaitingIsNew'
  <2>1. CASE k = Stream
    BY <1>2, <1>3, <1>5, <2>1, QueueFacts DEF WaitingIsNew
  <2>2. CASE k = Card
    <3>1. \A p \in Painters : request'[p].key # Stream
      BY <1>6, <2>2
    <3>2. QED
      BY <1>2, <1>3, <1>5, <1>6, <2>2, <3>1, QueueFacts DEF WaitingIsNew
  <2>3. QED
    BY <2>1, <2>2
<1>11. AnswerEnds'
  <2>1. request'[Session] = Idle /\ request[Session] = Idle
    BY <1>2, <1>6
  <2>2. CASE final
    <3>1. k = Card /\ id[Stream] = 1 /\ shown = state[Stream]
      BY <1>2, <1>3, <2>1, <2>2 DEF AnswerEnds
    <3>2. \A u \in Timers : request'[u].key # Stream
      BY <1>6, <3>1
    <3>3. QED
      BY <1>2, <1>3, <1>5, <1>6, <2>1, <2>2, <3>1, <3>2, QueueFacts DEF AnswerEnds
  <2>3. CASE ~final
    BY <1>5, <2>3 DEF AnswerEnds
  <2>4. QED
    BY <2>2, <2>3
<1>12. CardEnds'
  BY <1>1, <1>2, <1>3, <1>4, <1>5, <1>6, QueueFacts DEF CardEnds
<1>13. QED
  BY <1>7, <1>8, <1>9, <1>10, <1>11, <1>12
LEMMA QuietStep ==
    ASSUME SurfaceCore, IntervalPasses \/ UNCHANGED vars
    PROVE  SurfaceCore'
<1>1. /\ UNCHANGED <<state, final, shown, id, screen, pending, timer, task, then, request, closed>>
      /\ due' \in BOOLEAN
  BY DEF IntervalPasses, vars, pacer, SurfaceCore, SurfaceTypes
<1>2. SurfaceTypes' /\ OneTimer' /\ Messages' /\ WaitingIsNew' /\ AnswerEnds' /\ CardEnds'
  BY <1>1 DEF SurfaceCore, SurfaceTypes, OneTimer, Messages, WaitingIsNew, AnswerEnds, CardEnds
<1>3. QED
  BY <1>2 DEF SurfaceCore

LEMMA SurfaceInit == Init => SurfaceInv
<1> SUFFICES ASSUME Init PROVE SurfaceInv
  OBVIOUS
<1> USE Names DEF Init
<1>1. \A k \in Keys : screen[k] \in Seq(Nat) /\ Len(screen[k]) = 0
  BY EmptySeq
<1>2. SurfaceTypes
  BY <1>1, QueueFacts DEF SurfaceTypes
<1>3. OneTimer /\ Messages
  BY <1>1 DEF OneTimer, Messages
<1>4. WaitingIsNew /\ AnswerEnds /\ CardEnds
  BY QueueFacts DEF WaitingIsNew, AnswerEnds, CardEnds
<1>5. QED
  BY <1>2, <1>3, <1>4 DEF SurfaceInv, SurfaceCore

LEMMA SurfaceStep == SurfaceInv /\ [Next]_vars => SurfaceInv'
<1> SUFFICES ASSUME SurfaceInv, [Next]_vars PROVE SurfaceInv'
  OBVIOUS
<1> USE DEF SurfaceInv
<1>1. CASE \E p \in Painters : AnswerUnnamed(p) \/ Fail(p)
  BY <1>1 DEF AnswerUnnamed, Fail
<1>2. CASE [Next]_vars /\ ~\E p \in Painters : AnswerUnnamed(p) \/ Fail(p)
  <2>1. failures' = failures /\ cut' \in BOOLEAN /\ (cut => cut')
    BY <1>2 DEF Next, vars, pacer, ChangeCard, AppendText, Finalize, Disable, SessionGoesOn,
                Flush,
                IntervalPasses, TimerStarts, CancelledTimerEnds, TimerWakes, Answer
  <2>2. SUFFICES ASSUME failures = 0, ~cut, ~cut' PROVE SurfaceCore'
    BY <2>1
  <2>3. SurfaceCore
    BY <2>2
  <2>4. CASE SessionGoesOn
    <3>1. then.keys # <<>> \/ (then.keys = <<>> /\ then.next = "flush")
          \/ (then.keys = <<>> /\ then.next # "flush")
      OBVIOUS
    <3>2. QED
      BY <2>2, <2>3, <2>4, <3>1, RunsNextStep, FlushesAgainStep, PaintsAnswerStep
  <2>5. ASSUME NEW t \in Timers, TimerStarts(t) \/ CancelledTimerEnds(t) \/ TimerWakes(t)
        PROVE  SurfaceCore'
    BY <2>2, <2>3, <2>5, TimerStartsStep, CancelledTimerEndsStep, TimerWakesStep
  <2>6. ASSUME NEW p \in Painters, Answer(p) PROVE SurfaceCore'
    BY <2>2, <2>3, <2>6, AnswerStep
  <2>7. CASE ChangeCard \/ AppendText \/ Finalize \/ Disable
    BY <2>2, <2>3, <2>7, ChangeCardStep, AppendTextStep, FinalizeStep, DisableStep
  <2>8. CASE IntervalPasses \/ UNCHANGED vars
    BY <2>3, <2>8, QuietStep
  <2>9. QED
    BY <1>2, <2>4, <2>5, <2>6, <2>7, <2>8 DEF Next
<1>3. QED
  BY <1>1, <1>2

LEMMA SurfaceImplies == SurfaceInv => FinalIsShown
<1> SUFFICES ASSUME SurfaceInv, failures = 0, ~cut
             PROVE  /\ \A k \in Keys : Len(screen[k]) <= 1
                    /\ final /\ SessionMayAct => Visible(Stream) = state[Stream]
                    /\ closed # 0 /\ SessionMayAct => Visible(Card) >= closed
  BY DEF FinalIsShown, OneMessage, AnswerShown, CardFinal
<1> USE Names DEF SurfaceInv, SurfaceCore, SurfaceTypes
<1>1. \A k \in Keys : Len(screen[k]) <= 1
  BY DEF Messages
<1>2. ASSUME SessionMayAct
      PROVE  request[Session] = Idle /\ then.keys = <<>> /\ then.next = "nothing"
  BY <1>2 DEF SessionMayAct
<1>3. ASSUME final, SessionMayAct PROVE Visible(Stream) = state[Stream]
  BY <1>2, <1>3 DEF AnswerEnds, Messages, Visible
<1>4. ASSUME closed # 0, SessionMayAct PROVE Visible(Card) >= closed
  BY <1>2, <1>4, QueueFacts DEF CardEnds, Visible
<1>5. QED
  BY <1>1, <1>3, <1>4

(* A session leaves one card and one answer, the answer whole and the card *)
(* without its Stop control, whatever the pacer held back: disable and     *)
(* finalize of claude_teams/surface.py, flush of pacer.py.                 *)
THEOREM SessionsLeaveFinalMessages == AllSpec => []FinalIsShown
BY Behaviours, SurfaceInit, SurfaceStep, SurfaceImplies, PTL DEF Spec

-----------------------------------------------------------------------------
(* Types of the Teams surface, also after failures: an edit names a message *)
(* that was posted, and _timer a task that is alive.                       *)
Edits == {Idle} \cup [key : Keys, version : Nat, at : Nat]
Views ==
    /\ state \in [Keys -> Nat] /\ screen \in [Keys -> Seq(Nat)] /\ id \in [Keys -> Nat]
    /\ \A k \in Keys : state[k] <= MaxOf(k) /\ id[k] <= Len(screen[k])
    /\ request \in [Painters -> Edits]
    /\ \A p \in Painters :
         request[p] # Idle => request[p].at <= Len(screen[request[p].key])
    /\ final \in BOOLEAN /\ shown \in Nat
    /\ closed \in 0..MaxCard /\ cut \in BOOLEAN /\ failures \in 0..MaxFailures
Work == [keys : Seq(Keys), next : {"nothing", "flush", "paint"}]
TaskSteps == {"free", "new", "sleeping", "painting", "cancelled"}
Alive == {"new", "sleeping", "painting"}
Clock ==
    /\ timer \in Timers \cup {NoTimer} /\ task \in [Timers -> TaskSteps]
    /\ timer # NoTimer => task[timer] \in Alive
Paced == pending \in Seq(Keys) /\ Clock /\ due \in BOOLEAN /\ then \in Work

LEMMA PartsOfTypes == (TypeOK <=> Views /\ Paced) /\ (TypeOK' <=> Views' /\ Paced')
BY DEF TypeOK, Views, Paced, Clock, Edits, Work, TaskSteps, Alive

LEMMA SurfaceNames ==
    /\ Keys = {Card, Stream} /\ Card # Stream /\ None \notin Keys
    /\ Painters = Timers \cup {Session} /\ Session \notin Timers /\ NoTimer \notin Timers
    /\ Idle.key = None /\ Idle.at = 0 /\ Idle \in Edits
    /\ Done \in Work /\ <<>> \in Seq(Keys)
    /\ \A e \in Edits : e = Idle \/ (e.key \in Keys /\ e.version \in Nat /\ e.at \in Nat)
    /\ MaxOf(Card) = MaxCard /\ MaxOf(Stream) = MaxText
BY DEF Keys, Card, Stream, None, Painters, Timers, Session, NoTimer, Idle, Edits, Done, Work,
       MaxOf

LEMMA Longer ==
    ASSUME NEW s \in Seq(Nat), NEW n \in Nat
    PROVE  /\ Append(s, n) \in Seq(Nat) /\ Len(Append(s, n)) = Len(s) + 1 /\ Len(s) \in Nat
           /\ \A i \in Nat : [s EXCEPT ![i] = n] \in Seq(Nat) /\ Len([s EXCEPT ![i] = n]) = Len(s)
<1>1. ASSUME NEW i \in Nat
      PROVE  [s EXCEPT ![i] = n] \in Seq(Nat) /\ Len([s EXCEPT ![i] = n]) = Len(s)
  <2>1. CASE i \in 1..Len(s)
    BY <2>1, ExceptSeq
  <2>2. CASE i \notin 1..Len(s)
    <3>1. [s EXCEPT ![i] = n] = s
      BY <2>2
    <3>2. QED
      BY <3>1
  <2>3. QED
    BY <2>1, <2>2
<1>2. QED
  BY <1>1, AppendProperties

(* No request makes a list of versions shorter. *)
LEMMA AppliedTypes ==
    ASSUME Views, NEW r \in Edits
    PROVE  /\ Applied(r) \in [Keys -> Seq(Nat)]
           /\ \A k \in Keys : Len(Applied(r)[k]) >= Len(screen[k])
           /\ \A k \in Keys : Len(screen[k]) \in Nat /\ Len(Applied(r)[k]) \in Nat
<1> USE SurfaceNames DEF Views
<1>1. \A k \in Keys : screen[k] \in Seq(Nat) /\ Len(screen[k]) \in Nat
  OBVIOUS
<1>2. CASE r = Idle
  <2>1. Applied(r) = screen
    BY <1>2 DEF Applied
  <2>2. QED
    BY <1>1, <2>1
<1>3. CASE r # Idle /\ r.at = 0
  <2> DEFINE s == Append(screen[r.key], r.version)
  <2>1. Applied(r) = [screen EXCEPT ![r.key] = s]
    BY <1>3 DEF Applied
  <2>2. s \in Seq(Nat) /\ Len(s) = Len(screen[r.key]) + 1
    BY <1>1, <1>3, Longer
  <2> HIDE DEF s
  <2>3. QED
    BY <1>1, <1>3, <2>1, <2>2
<1>4. CASE r # Idle /\ r.at # 0
  <2> DEFINE s == [screen[r.key] EXCEPT ![r.at] = r.version]
  <2>1. Applied(r) = [screen EXCEPT ![r.key] = s]
    BY <1>4 DEF Applied
  <2>2. s \in Seq(Nat) /\ Len(s) = Len(screen[r.key])
    BY <1>1, <1>4, Longer
  <2> HIDE DEF s
  <2>3. QED
    BY <1>1, <1>4, <2>1, <2>2
<1>5. QED
  BY <1>2, <1>3, <1>4

(* A step that ends requests, and lets one be applied. *)
LEMMA EndsRequests ==
    ASSUME Views, NEW r \in Edits, screen' \in {screen, Applied(r)}, id' = id, state' = state,
           request' \in [Painters -> Edits],
           \A p \in Painters : request'[p] \in {Idle, request[p]}
    PROVE  /\ screen' \in [Keys -> Seq(Nat)]
           /\ \A k \in Keys : id'[k] <= Len(screen'[k])
           /\ \A p \in Painters :
                request'[p] # Idle => request'[p].at <= Len(screen'[request'[p].key])
<1>1. /\ screen' \in [Keys -> Seq(Nat)]
      /\ \A k \in Keys : /\ Len(screen'[k]) >= Len(screen[k])
                         /\ Len(screen[k]) \in Nat /\ Len(screen'[k]) \in Nat
  <2>1. \A k \in Keys : Len(screen[k]) \in Nat
    BY DEF Views
  <2>2. QED
    BY <2>1, AppliedTypes DEF Views
<1>2. \A k \in Keys : id[k] \in Nat /\ id[k] <= Len(screen[k])
  BY DEF Views
<1>3. ASSUME NEW p \in Painters, request'[p] # Idle
      PROVE  request'[p].at <= Len(screen'[request'[p].key])
  <2>1. request'[p] = request[p] /\ request[p].key \in Keys /\ request[p].at \in Nat
        /\ request[p].at <= Len(screen[request[p].key])
    BY <1>3, SurfaceNames DEF Views
  <2>2. QED
    BY <1>1, <2>1
<1>4. QED
  BY <1>1, <1>2, <1>3

(* Painting names the message that is known. *)
LEMMA PaintTypes ==
    ASSUME Views, NEW p \in Painters, NEW k \in Keys, Paint(p, k),
           UNCHANGED <<state, final, id, screen, closed, cut, failures>>
    PROVE  Views'
<1> USE DEF Views
<1> DEFINE r == [key |-> k, version |-> state[k], at |-> id[k]]
<1>1. r \in Edits /\ r.key = k /\ r.at = id[k] /\ id[k] <= Len(screen[k])
  BY DEF Edits
<1>2. request' = [request EXCEPT ![p] = r]
  BY DEF Paint
<1>3. shown' \in Nat
  BY SurfaceNames DEF Paint
<1> HIDE DEF r
<1>4. request' \in [Painters -> Edits] /\ \A q \in Painters : request'[q] = IF q = p THEN r ELSE request[q]
  BY <1>1, <1>2
<1>5. QED
  BY <1>1, <1>3, <1>4

LEMMA ClockStarts ==
    ASSUME NEW tm \in Timers \cup {NoTimer}, NEW tk \in [Timers -> TaskSteps],
           tm # NoTimer => tk[tm] \in Alive, EnsureTimer(tm, tk)
    PROVE  Clock'
<1>1. CASE tm # NoTimer
  BY <1>1 DEF EnsureTimer, Clock
<1>2. CASE tm = NoTimer
  <2>1. PICK t \in Timers : timer' = t /\ task' = [tk EXCEPT ![t] = "new"]
    BY <1>2 DEF EnsureTimer
  <2>2. QED
    BY <2>1 DEF Clock, TaskSteps, Alive
<1>3. QED
  BY <1>1, <1>2

LEMMA ClockEnds ==
    ASSUME Clock, NEW t \in Timers, NEW keys \in Seq(Keys), TimerEnds(t, keys)
    PROVE  Clock' /\ pending' \in Seq(Keys)
<1> DEFINE tk == [task EXCEPT ![t] = "free"]
<1>1. tk \in [Timers -> TaskSteps]
  BY DEF Clock, TaskSteps
<1> HIDE DEF tk
<1>2. pending' = keys /\ (EnsureTimer(NoTimer, tk) \/ (timer' = NoTimer /\ task' = tk))
  BY DEF TimerEnds, tk
<1>3. QED
  BY <1>1, <1>2, ClockStarts, SurfaceNames DEF Clock

LEMMA SubmitTypes ==
    ASSUME Paced, NEW k \in Keys, NEW next \in {"nothing", "flush"}, Submit(k, next),
           due' \in BOOLEAN
    PROVE  Paced'
<1>1. <<k>> \in Seq(Keys) /\ <<>> \in Seq(Keys)
  OBVIOUS
<1>2. then' \in Work
  <2>1. PICK keys \in {<<k>>, <<>>} : then' = [keys |-> keys, next |-> next]
    BY DEF Submit
  <2>2. QED
    BY <1>1, <2>1 DEF Work
<1>3. Add(k) \in Seq(Keys)
  BY DEF Add, Paced
<1>4. pending' \in Seq(Keys) /\ Clock'
  BY <1>3, ClockStarts DEF Submit, Paced, Clock
<1>5. QED
  BY <1>2, <1>4 DEF Paced

LEMMA FlushTypes ==
    ASSUME TypeOK, NEW next \in {"nothing", "paint"}, Flush(next),
           UNCHANGED <<state, shown, id, closed, failures>>, final' \in BOOLEAN, due' = due
    PROVE  TypeOK'
<1>0. Views /\ Paced
  BY PartsOfTypes
<1>1. /\ then' = [keys |-> pending, next |-> next] /\ pending' = <<>> /\ timer' = NoTimer
      /\ cut' \in BOOLEAN
  BY <1>0 DEF Flush, Views
<1>2. CASE timer = NoTimer
  <2>1. UNCHANGED <<task, request, screen>>
    BY <1>2 DEF Flush
  <2>2. Views'
    BY <1>0, <1>1, <2>1 DEF Views
  <2>3. Paced'
    BY <1>0, <1>1, <2>1, SurfaceNames DEF Paced, Clock, Work
  <2>4. QED
    BY <2>2, <2>3, PartsOfTypes
<1>3. CASE timer # NoTimer
  <2>1. /\ task' = [task EXCEPT ![timer] = IF @ = "new" THEN "free" ELSE "cancelled"]
        /\ request' = [request EXCEPT ![timer] = Idle]
        /\ screen' \in {screen, Applied(request[timer])}
    BY <1>3 DEF Flush
  <2>2. timer \in Timers /\ timer \in Painters
    BY <1>0, <1>3, SurfaceNames DEF Paced, Clock
  <2>3. /\ request[timer] \in Edits /\ request' \in [Painters -> Edits]
        /\ \A p \in Painters : request'[p] \in {Idle, request[p]}
    BY <1>0, <2>1, <2>2, SurfaceNames DEF Views
  <2>4. /\ screen' \in [Keys -> Seq(Nat)]
        /\ \A k \in Keys : id'[k] <= Len(screen'[k])
        /\ \A p \in Painters :
                request'[p] # Idle => request'[p].at <= Len(screen'[request'[p].key])
    BY <1>0, <2>1, <2>3, EndsRequests
  <2>5. Views'
    BY <1>0, <1>1, <2>3, <2>4 DEF Views
  <2>6. task' \in [Timers -> TaskSteps]
    BY <1>0, <2>1, <2>2 DEF Paced, Clock, TaskSteps
  <2>7. Paced'
    BY <1>0, <1>1, <2>6, SurfaceNames DEF Paced, Clock, Work
  <2>8. QED
    BY <2>5, <2>7, PartsOfTypes
<1>4. QED
  BY <1>2, <1>3

LEMMA SurfaceTypesInit == Init => TypeOK
<1> SUFFICES ASSUME Init PROVE TypeOK
  OBVIOUS
<1>1. Views
  <2>1. \A k \in Keys : screen[k] = <<>> /\ screen[k] \in Seq(Nat) /\ Len(screen[k]) = 0
    BY DEF Init
  <2>2. \A k \in Keys : 0 <= MaxOf(k) /\ 0 <= Len(screen[k])
    BY <2>1, SurfaceBounds DEF MaxOf
  <2>3. \A p \in Painters : request[p] = Idle
    BY DEF Init
  <2>4. screen \in [Keys -> Seq(Nat)] /\ request \in [Painters -> Edits]
    BY <2>1, <2>3, SurfaceNames DEF Init
  <2>5. \A k \in Keys : state[k] = 0 /\ id[k] = 0
    BY DEF Init
  <2>6. state \in [Keys -> Nat] /\ id \in [Keys -> Nat]
    BY DEF Init
  <2>7. /\ final = FALSE /\ cut = FALSE /\ shown \in Nat
        /\ closed \in 0..MaxCard /\ failures \in 0..MaxFailures
    <3>1. 0 \in 0..MaxCard /\ 0 \in 0..MaxFailures
      BY SurfaceBounds
    <3>2. QED
      BY <3>1 DEF Init
  <2>8. \A k \in Keys : state[k] <= MaxOf(k) /\ id[k] <= Len(screen[k])
    BY <2>2, <2>5
  <2>9. QED
    BY <2>3, <2>4, <2>6, <2>7, <2>8 DEF Views
<1>2. Paced
  BY SurfaceNames DEF Init, Paced, Clock, TaskSteps, Work
<1>3. QED
  BY <1>1, <1>2, PartsOfTypes

LEMMA SessionTypes ==
    ASSUME TypeOK, ChangeCard \/ AppendText \/ Finalize \/ Disable \/ SessionGoesOn
    PROVE  TypeOK'
<1>0. Views /\ Paced
  BY PartsOfTypes
<1> USE SurfaceNames, SurfaceBounds
<1>1. CASE ChangeCard \/ AppendText \/ Disable
  <2>1. PICK k \in Keys : /\ state[k] < MaxOf(k) /\ state' = [state EXCEPT ![k] = @ + 1]
                          /\ \E next \in {"nothing", "flush"} : Submit(k, next)
    BY <1>1 DEF ChangeCard, AppendText, Disable
  <2>2. UNCHANGED <<final, shown, id, screen, due, request, cut, failures>>
    BY <1>1 DEF ChangeCard, AppendText, Disable
  <2>3. state' \in [Keys -> Nat] /\ \A j \in Keys : state'[j] <= MaxOf(j)
    BY <1>0, <2>1 DEF Views
  <2>4. closed' \in 0..MaxCard
    BY <1>0, <1>1, <2>3 DEF ChangeCard, AppendText, Disable, Views
  <2>5. Views'
    BY <1>0, <2>2, <2>3, <2>4 DEF Views
  <2>6. Paced'
    BY <1>0, <2>1, <2>2, SubmitTypes DEF Paced
  <2>7. QED
    BY <2>5, <2>6, PartsOfTypes
<1>2. CASE Finalize
  BY <1>2, FlushTypes DEF Finalize
<1>3. CASE SessionGoesOn /\ then.keys # <<>>
  <2>1. /\ then' = [then EXCEPT !.keys = Tail(@)] /\ due' = FALSE
        /\ UNCHANGED <<screen, pending, timer, task, cut, state, final, id, closed, failures>>
        /\ Paint(Session, Head(then.keys)) \/ UNCHANGED <<request, shown>>
    BY <1>3 DEF SessionGoesOn
  <2>2. Head(then.keys) \in Keys /\ Tail(then.keys) \in Seq(Keys)
    BY <1>0, <1>3 DEF Paced, Work
  <2>3. Views'
    <3>1. CASE UNCHANGED <<request, shown>>
      BY <1>0, <2>1, <3>1 DEF Views
    <3>2. CASE Paint(Session, Head(then.keys))
      BY <1>0, <2>1, <2>2, <3>2, PaintTypes
    <3>3. QED
      BY <2>1, <3>1, <3>2
  <2>4. then' \in Work
    BY <1>0, <2>1, <2>2 DEF Paced, Work
  <2>5. Paced'
    BY <1>0, <2>1, <2>4 DEF Paced, Clock
  <2>6. QED
    BY <2>3, <2>5, PartsOfTypes
<1>4. CASE SessionGoesOn /\ then.keys = <<>> /\ then.next = "flush"
  <2>1. Flush("nothing") /\ UNCHANGED <<due, shown, state, final, id, closed, failures>>
    BY <1>4 DEF SessionGoesOn
  <2>2. final' \in BOOLEAN
    BY <1>0, <2>1 DEF Views
  <2>3. QED
    BY <2>1, <2>2, FlushTypes
<1>5. CASE SessionGoesOn /\ then.keys = <<>> /\ then.next # "flush"
  <2>1. /\ then' = Done
        /\ UNCHANGED <<screen, pending, timer, task, due, cut, state, final, id, closed, failures>>
        /\ Paint(Session, Stream) \/ UNCHANGED <<request, shown>>
    BY <1>5 DEF SessionGoesOn
  <2>2. Views'
    <3>1. CASE UNCHANGED <<request, shown>>
      BY <1>0, <2>1, <3>1 DEF Views
    <3>2. CASE Paint(Session, Stream)
      BY <1>0, <2>1, <3>2, PaintTypes
    <3>3. QED
      BY <2>1, <3>1, <3>2
  <2>3. Paced'
    BY <1>0, <2>1 DEF Paced, Clock
  <2>4. QED
    BY <2>2, <2>3, PartsOfTypes
<1>6. QED
  BY <1>1, <1>2, <1>3, <1>4, <1>5

LEMMA TimerTypes ==
    ASSUME TypeOK, NEW t \in Timers, TimerStarts(t) \/ CancelledTimerEnds(t) \/ TimerWakes(t)
    PROVE  TypeOK'
<1>0. Views /\ Paced
  BY PartsOfTypes
<1> USE SurfaceNames
<1>1. CASE TimerStarts(t)
  <2>1. /\ task[t] = "new" /\ task' = [task EXCEPT ![t] = "sleeping"]
        /\ UNCHANGED <<state, final, shown, id, screen, pending, timer, due, then, request,
                       closed, cut, failures>>
    BY <1>1 DEF TimerStarts
  <2>2. Views'
    BY <1>0, <2>1 DEF Views
  <2>3. Clock'
    BY <1>0, <2>1 DEF Paced, Clock, TaskSteps, Alive
  <2>4. Paced'
    BY <1>0, <2>1, <2>3 DEF Paced
  <2>5. QED
    BY <2>2, <2>4, PartsOfTypes
<1>2. CASE CancelledTimerEnds(t)
  <2>1. /\ TimerEnds(t, pending)
        /\ UNCHANGED <<state, final, shown, id, screen, due, then, request, closed, cut, failures>>
    BY <1>2 DEF CancelledTimerEnds
  <2>2. Views'
    BY <1>0, <2>1 DEF Views
  <2>3. Paced'
    BY <1>0, <2>1, ClockEnds DEF Paced
  <2>4. QED
    BY <2>2, <2>3, PartsOfTypes
<1>3. CASE TimerWakes(t)
  <2>1. /\ due' \in BOOLEAN /\ UNCHANGED <<state, final, id, screen, then, closed, cut, failures>>
    BY <1>0, <1>3 DEF TimerWakes, Paced
  <2>2. pending # <<>> => Head(pending) \in Keys /\ Tail(pending) \in Seq(Keys)
    BY <1>0 DEF Paced
  <2>3. CASE pending # <<>> /\ Sends(Head(pending))
    <3>1. /\ Paint(t, Head(pending)) /\ task' = [task EXCEPT ![t] = "painting"]
          /\ pending' = Tail(pending) /\ UNCHANGED timer
      BY <1>3, <2>3 DEF TimerWakes
    <3>2. Views'
      BY <1>0, <2>1, <2>2, <2>3, <3>1, PaintTypes
    <3>3. Clock'
      BY <1>0, <3>1 DEF Paced, Clock, TaskSteps, Alive
    <3>4. Paced'
      BY <1>0, <2>1, <2>2, <2>3, <3>1, <3>3 DEF Paced
    <3>5. QED
      BY <3>2, <3>4, PartsOfTypes
  <2>4. CASE ~(pending # <<>> /\ Sends(Head(pending)))
    <3>1. /\ TimerEnds(t, IF pending = <<>> THEN <<>> ELSE Tail(pending))
          /\ UNCHANGED <<request, shown>>
      BY <1>3, <2>4 DEF TimerWakes
    <3>2. Views'
      BY <1>0, <2>1, <3>1 DEF Views
    <3>3. Clock' /\ pending' \in Seq(Keys)
      BY <1>0, <2>2, <3>1, ClockEnds DEF Paced
    <3>4. Paced'
      BY <1>0, <2>1, <3>3 DEF Paced
    <3>5. QED
      BY <3>2, <3>4, PartsOfTypes
  <2>5. QED
    BY <2>3, <2>4
<1>4. QED
  BY <1>1, <1>2, <1>3

LEMMA AnswerTypes ==
    ASSUME TypeOK, NEW p \in Painters, Answer(p) \/ AnswerUnnamed(p) \/ Fail(p)
    PROVE  TypeOK'
<1>0. Views /\ Paced
  BY PartsOfTypes
<1> USE SurfaceNames
<1> DEFINE r == request[p]
<1>1. /\ r # Idle /\ screen' \in {screen, Applied(r)} /\ UNCHANGED <<state, final, due, then, closed, cut>>
      /\ request' = [request EXCEPT ![p] = Idle]
      /\ \/ UNCHANGED <<pending, timer, task>>
         \/ p \in Timers /\ TimerEnds(p, pending)
      /\ failures' \in 0..MaxFailures
  <2>1. CASE Answer(p)
    BY <1>0, <2>1 DEF Answer, Views
  <2>2. CASE Fail(p)
    <3>1. failures' \in 0..MaxFailures
      BY <1>0, <2>2, SurfaceBounds DEF Fail, Views
    <3>2. QED
      BY <1>0, <2>2, <3>1 DEF Fail
  <2>3. CASE AnswerUnnamed(p)
    <3>1. failures' \in 0..MaxFailures
      BY <1>0, <2>3, SurfaceBounds DEF AnswerUnnamed, Views
    <3>2. QED
      BY <1>0, <2>3, <3>1 DEF AnswerUnnamed
  <2>4. QED
    BY <2>1, <2>2, <2>3
<1>2. /\ r \in Edits /\ r.key \in Keys /\ request' \in [Painters -> Edits]
      /\ \A q \in Painters : request'[q] \in {Idle, request[q]}
  BY <1>0, <1>1 DEF Views
<1>3. /\ screen' \in [Keys -> Seq(Nat)]
      /\ \A q \in Painters :
           request'[q] # Idle => request'[q].at <= Len(screen'[request'[q].key])
      /\ \A k \in Keys : id[k] <= Len(screen'[k]) /\ Len(screen'[k]) \in Nat
  <2>1. /\ \A k \in Keys : /\ Len(screen'[k]) >= Len(screen[k]) /\ Len(screen[k]) \in Nat
                           /\ Len(screen'[k]) \in Nat
        /\ screen' \in [Keys -> Seq(Nat)]
    <3>1. \A k \in Keys : Len(screen[k]) \in Nat
      BY <1>0 DEF Views
    <3>2. /\ Applied(r) \in [Keys -> Seq(Nat)] /\ screen \in [Keys -> Seq(Nat)]
          /\ \A k \in Keys : Len(Applied(r)[k]) >= Len(screen[k]) /\ Len(Applied(r)[k]) \in Nat
      BY <1>0, <1>2, AppliedTypes DEF Views
    <3> HIDE DEF r
    <3>3. QED
      BY <1>1, <3>1, <3>2
  <2>2. \A k \in Keys : id[k] \in Nat /\ id[k] <= Len(screen[k])
    BY <1>0 DEF Views
  <2>3. ASSUME NEW q \in Painters, request'[q] # Idle
        PROVE  request'[q].at <= Len(screen'[request'[q].key])
    <3>1. request'[q] = request[q] /\ request[q].key \in Keys /\ request[q].at \in Nat
          /\ request[q].at <= Len(screen[request[q].key])
      BY <1>0, <1>2, <2>3 DEF Views
    <3>2. QED
      BY <2>1, <3>1
  <2>4. QED
    BY <2>1, <2>2, <2>3
<1>4. /\ id' \in [Keys -> Nat] /\ \A k \in Keys : id'[k] <= Len(screen'[k])
      /\ shown' \in Nat
  <2>1. /\ UNCHANGED id \/ id' = [id EXCEPT ![r.key] = Len(screen'[r.key])]
        /\ shown' \in {shown, r.version}
    BY DEF Answer, AnswerUnnamed, Fail
  <2>2. r.version \in Nat /\ shown \in Nat /\ id \in [Keys -> Nat]
    BY <1>0, <1>1, <1>2 DEF Views
  <2>3. CASE UNCHANGED id
    BY <1>0, <1>3, <2>1, <2>2, <2>3 DEF Views
  <2>4. CASE id' = [id EXCEPT ![r.key] = Len(screen'[r.key])]
    <3>1. id' \in [Keys -> Nat] /\ \A k \in Keys : id'[k] = IF k = r.key THEN Len(screen'[k]) ELSE id[k]
      BY <1>2, <1>3, <2>2, <2>4
    <3>2. \A k \in Keys : id[k] <= Len(screen'[k])
      BY <1>3
    <3>3. QED
      BY <1>3, <2>1, <2>2, <3>1, <3>2
  <2>5. QED
    BY <2>1, <2>3, <2>4
<1>5. Views'
  BY <1>0, <1>1, <1>2, <1>3, <1>4 DEF Views
<1>6. Paced'
  BY <1>0, <1>1, ClockEnds DEF Paced, Clock
<1>7. QED
  BY <1>5, <1>6, PartsOfTypes

LEMMA SurfaceTypesStep == TypeOK /\ [Next]_vars => TypeOK'
<1> SUFFICES ASSUME TypeOK, [Next]_vars PROVE TypeOK'
  OBVIOUS
<1>1. CASE IntervalPasses \/ UNCHANGED vars
  <2>1. /\ UNCHANGED <<state, final, shown, id, screen, pending, timer, task, then, request,
                       closed, cut, failures>>
        /\ due' \in BOOLEAN
    BY <1>1 DEF IntervalPasses, vars, pacer, TypeOK
  <2>2. Views' /\ Paced'
    BY <2>1, PartsOfTypes DEF Views, Paced, Clock
  <2>3. QED
    BY <2>2, PartsOfTypes
<1>2. QED
  BY <1>1, SessionTypes, TimerTypes, AnswerTypes DEF Next

-----------------------------------------------------------------------------
(* Prompts. *)

(* A request has no answer while its prompt is open, a press is accepted   *)
(* once, and an answer of the future is one that was recorded.             *)
Pressed(r) == \E p \in recorded : p[1] = r
Allowed(r) == <<r, "allow", TRUE>> \in recorded
Explained(r) ==
    /\ prompt[r] # "over" => injected[r] = <<>>
    /\ prompt[r] \in {"none", "over"} => r \notin live
    /\ r \in live \/ prompt[r] = "none" => future[r] = "pending" /\ ~Pressed(r)
    /\ future[r] = "allow" => Allowed(r)
    /\ Len(injected[r]) <= 1
    /\ injected[r] = <<"allow">> => SkipPermissions \/ Allowed(r)
OnePress == \A p, q \in recorded : p[1] = q[1] => p = q
Functions == /\ injected \in [Questions -> Seq(Prompt!Answers)]
             /\ prompt \in [Questions -> {"none", "posting", "waiting", "expired", "over"}]
             /\ future \in [Questions -> Prompt!Answers \cup {"pending", "none"}]
PromptInv ==
    /\ Prompt!TypeOK /\ Functions /\ OnePress
    /\ \A r \in Questions : Explained(r)

LEMMA PromptInit == Prompt!Init => PromptInv
<1> SUFFICES ASSUME Prompt!Init PROVE PromptInv
  OBVIOUS
<1>1. \A r \in Questions : injected[r] \in Seq(Prompt!Answers) /\ Len(injected[r]) = 0
  BY EmptySeq DEF Prompt!Init
<1>2. Prompt!TypeOK
  BY <1>1 DEF Prompt!Init, Prompt!TypeOK
<1>3. Functions /\ OnePress
  BY <1>1 DEF Prompt!Init, Functions, OnePress
<1>4. QED
  BY <1>1, <1>2, <1>3 DEF Prompt!Init, PromptInv, Explained, Pressed, Allowed

(* What giving a request its first answer does to the answers. *)
LEMMA InjectsFirst ==
    ASSUME Functions, NEW r \in Questions, NEW answer \in Prompt!Answers,
           injected[r] = <<>>, Prompt!Inject(r, answer)
    PROVE  /\ injected' \in [Questions -> Seq(Prompt!Answers)]
           /\ \A q \in Questions : q # r => injected'[q] = injected[q]
           /\ Len(injected'[r]) <= 1
           /\ injected'[r] = <<"allow">> => answer = "allow"
<1>1. injected \in [Questions -> Seq(Prompt!Answers)]
  BY DEF Functions
<1>2. Append(<<>>, answer) = <<answer>> /\ <<answer>> \in Seq(Prompt!Answers)
      /\ Len(<<answer>>) = 1 /\ Len(<<>>) = 0 /\ (<<answer>> = <<"allow">> => answer = "allow")
  OBVIOUS
<1>3. <<>> # <<"allow">>
  OBVIOUS
<1>4. QED
  BY <1>1, <1>2, <1>3 DEF Prompt!Inject

LEMMA PromptTypeStep ==
    /\ Functions /\ Prompt!TypeOK /\ [Prompt!Next]_(Prompt!vars)
    /\ injected' \in [Questions -> Seq(Prompt!Answers)]
    => Functions' /\ Prompt!TypeOK'
<1> SUFFICES ASSUME Functions, Prompt!TypeOK, [Prompt!Next]_(Prompt!vars),
                    injected' \in [Questions -> Seq(Prompt!Answers)]
             PROVE  Functions' /\ Prompt!TypeOK'
  OBVIOUS
<1> USE DEF Functions, Prompt!TypeOK
<1>1. ASSUME NEW r \in Questions, Prompt!Ask(r) \/ Prompt!PostReturns(r) \/ Prompt!PostFails(r)
               \/ Prompt!TimeoutFires(r) \/ Prompt!Expires(r) \/ Prompt!Resumes(r)
      PROVE  Functions' /\ Prompt!TypeOK'
  <2>1. recorded' = recorded /\ up' = up
    BY <1>1 DEF Prompt!Ask, Prompt!PostReturns, Prompt!PostFails, Prompt!TimeoutFires,
                Prompt!Expires, Prompt!Resumes
  <2>2. live' \subseteq Questions
    BY <1>1 DEF Prompt!Ask, Prompt!PostReturns, Prompt!PostFails, Prompt!TimeoutFires,
                Prompt!Expires, Prompt!Resumes, Prompt!Withdraw
  <2>3. prompt' \in [Questions -> {"none", "posting", "waiting", "expired", "over"}]
    BY <1>1 DEF Prompt!Ask, Prompt!PostReturns, Prompt!PostFails, Prompt!TimeoutFires,
                Prompt!Expires, Prompt!Resumes
  <2>4. future' \in [Questions -> Prompt!Answers \cup {"pending", "none"}]
    BY <1>1 DEF Prompt!Ask, Prompt!PostReturns, Prompt!PostFails, Prompt!TimeoutFires,
                Prompt!Expires, Prompt!Resumes, Prompt!Withdraw
  <2>5. QED
    BY <2>1, <2>2, <2>3, <2>4
<1>2. ASSUME NEW r \in Questions, NEW v \in Prompt!Answers, NEW here \in BOOLEAN,
             Prompt!Press(r, v, here)
      PROVE  Functions' /\ Prompt!TypeOK'
  <2>1. /\ live' = live \ {r} /\ future' = [future EXCEPT ![r] = v]
        /\ recorded' = recorded \cup {<<r, v, here>>} /\ UNCHANGED <<prompt, up, injected>>
    BY <1>2 DEF Prompt!Press
  <2>2. <<r, v, here>> \in Questions \X Prompt!Answers \X BOOLEAN
    OBVIOUS
  <2>3. recorded' \subseteq Questions \X Prompt!Answers \X BOOLEAN
    BY <2>1, <2>2
  <2>4. QED
    BY <2>1, <2>3
<1>3. CASE Prompt!RunEnds \/ UNCHANGED Prompt!vars
  BY <1>3 DEF Prompt!RunEnds, Prompt!vars
<1>4. QED
  BY <1>1, <1>2, <1>3 DEF Prompt!Next

LEMMA PromptStep == PromptInv /\ [Prompt!Next]_(Prompt!vars) => PromptInv'
<1> SUFFICES ASSUME PromptInv, [Prompt!Next]_(Prompt!vars) PROVE PromptInv'
  OBVIOUS
<1> DEFINE Answered == injected' \in [Questions -> Seq(Prompt!Answers)]
           Kept == OnePress' /\ \A q \in Questions : Explained(q)'
<1> Functions /\ OnePress /\ \A q \in Questions : Explained(q)
  BY DEF PromptInv
<1>1. ASSUME NEW r \in Questions, Prompt!Ask(r) PROVE Answered /\ Kept
  <2>0. /\ prompt[r] = "none" /\ injected[r] = <<>> /\ r \notin live
        /\ UNCHANGED <<future, recorded>>
    BY <1>1 DEF Prompt!Ask, Explained
  <2>1. CASE SkipPermissions
    <3>1. /\ Prompt!Inject(r, "allow") /\ UNCHANGED live
          /\ prompt' = [prompt EXCEPT ![r] = "over"]
      BY <1>1, <2>1 DEF Prompt!Ask
    <3>2. "allow" \in Prompt!Answers
      BY DEF Prompt!Answers
    <3>3. /\ Answered
          /\ \A q \in Questions : q # r => injected'[q] = injected[q]
          /\ Len(injected'[r]) <= 1
      BY <2>0, <3>1, <3>2, InjectsFirst
    <3>4. QED
      BY <2>0, <2>1, <3>1, <3>3 DEF Explained, Pressed, Allowed, Functions, OnePress
  <2>2. CASE ~SkipPermissions
    <3>1. /\ UNCHANGED injected /\ live' = live \cup {r}
          /\ prompt' = [prompt EXCEPT ![r] = "posting"]
      BY <1>1, <2>2 DEF Prompt!Ask
    <3>2. QED
      BY <2>0, <3>1 DEF Explained, Pressed, Allowed, Functions, OnePress
  <2>3. QED
    BY <2>1, <2>2
<1>2. ASSUME NEW r \in Questions, Prompt!PostReturns(r) \/ Prompt!TimeoutFires(r)
      PROVE  Answered /\ Kept
  <2>1. /\ prompt[r] \in {"posting", "waiting"} /\ UNCHANGED <<live, future, injected, recorded>>
        /\ \E x \in {"waiting", "expired"} : prompt' = [prompt EXCEPT ![r] = x]
    BY <1>2 DEF Prompt!PostReturns, Prompt!TimeoutFires
  <2>2. QED
    BY <2>1 DEF Explained, Pressed, Allowed, Functions, OnePress
<1>3. ASSUME NEW r \in Questions, Prompt!PostFails(r) \/ Prompt!Expires(r)
      PROVE  Answered /\ Kept
  <2>1. /\ Prompt!Inject(r, "deny") /\ prompt[r] \in {"posting", "expired"}
        /\ prompt' = [prompt EXCEPT ![r] = "over"] /\ Prompt!Withdraw(r)
        /\ UNCHANGED recorded
    BY <1>3 DEF Prompt!PostFails, Prompt!Expires, Prompt!Refusal
  <2>2. "deny" \in Prompt!Answers /\ injected[r] = <<>>
    BY <2>1 DEF Prompt!Answers, Explained
  <2>3. /\ Answered
        /\ \A q \in Questions : q # r => injected'[q] = injected[q]
        /\ Len(injected'[r]) <= 1
        /\ injected'[r] # <<"allow">>
    BY <2>1, <2>2, InjectsFirst
  <2>4. /\ live' = live \ {r}
        /\ \A q \in Questions : future'[q] = future[q] \/ (q = r /\ future'[q] = "none")
    BY <2>1 DEF Prompt!Withdraw, Functions
  <2>5. QED
    BY <2>1, <2>3, <2>4 DEF Explained, Pressed, Allowed, Functions, OnePress
<1>4. ASSUME NEW r \in Questions, Prompt!Resumes(r) PROVE Answered /\ Kept
  <2>1. /\ prompt[r] = "waiting" /\ Prompt!Inject(r, future[r]) /\ future[r] \in Prompt!Answers
        /\ prompt' = [prompt EXCEPT ![r] = "over"] /\ UNCHANGED <<live, future, recorded>>
    BY <1>4 DEF Prompt!Resumes
  <2>2. injected[r] = <<>> /\ r \notin live
    BY <2>1 DEF Explained, Prompt!Answers
  <2>3. /\ Answered
        /\ \A q \in Questions : q # r => injected'[q] = injected[q]
        /\ Len(injected'[r]) <= 1
        /\ injected'[r] = <<"allow">> => future[r] = "allow"
    BY <2>1, <2>2, InjectsFirst
  <2>4. QED
    BY <2>1, <2>2, <2>3 DEF Explained, Pressed, Allowed, Functions, OnePress
<1>5. ASSUME NEW r \in Questions, NEW v \in Prompt!Answers, NEW here \in BOOLEAN,
             Prompt!Press(r, v, here)
      PROVE  Answered /\ Kept
  <2>1. PICK press : press = <<r, v, TRUE>>
    OBVIOUS
  <2>2. press[1] = r /\ (v = "allow" => press = <<r, "allow", TRUE>>)
    BY <2>1
  <2>3. /\ r \in live /\ live' = live \ {r} /\ future' = [future EXCEPT ![r] = v]
        /\ recorded' = recorded \cup {press} /\ UNCHANGED <<prompt, injected>>
    BY <1>5, <2>1 DEF Prompt!Press
  <2>4. ~Pressed(r) /\ prompt[r] \notin {"none", "over"} /\ injected[r] = <<>>
    BY <2>3 DEF Explained
  <2>5. OnePress'
    BY <2>2, <2>3, <2>4 DEF Pressed, OnePress
  <2>6. \A q \in Questions : q # r => (Pressed(q)' <=> Pressed(q))
    BY <2>2, <2>3 DEF Pressed
  <2>7. \A q \in Questions : Allowed(q) => Allowed(q)'
    BY <2>3 DEF Allowed
  <2>8. v = "allow" => Allowed(r)'
    BY <2>2, <2>3 DEF Allowed
  <2>9. \A q \in Questions : Explained(q)'
    BY <2>3, <2>4, <2>6, <2>7, <2>8 DEF Explained, Functions
  <2>10. QED
    BY <2>3, <2>5, <2>9 DEF Functions
<1>6. ASSUME Prompt!RunEnds \/ UNCHANGED Prompt!vars PROVE Answered /\ Kept
  BY <1>6 DEF Prompt!RunEnds, Prompt!vars, Explained, Pressed, Allowed, Functions, OnePress
<1>7. Answered /\ Kept
  BY <1>1, <1>2, <1>3, <1>4, <1>5, <1>6 DEF Prompt!Next
<1>8. QED
  BY <1>7, PromptTypeStep DEF PromptInv

LEMMA PromptImplies == PromptInv => OneAnswer /\ LiveHasTask
<1> SUFFICES ASSUME PromptInv PROVE OneAnswer /\ LiveHasTask
  OBVIOUS
<1>1. ASSUME NEW r \in Questions PROVE Cardinality({p \in recorded : p[1] = r}) <= 1
  <2>1. CASE Pressed(r)
    <3>1. PICK p \in recorded : p[1] = r
      BY <2>1 DEF Pressed
    <3>2. {q \in recorded : q[1] = r} = {p}
      BY <3>1 DEF PromptInv, OnePress
    <3>3. Cardinality({p}) = 1
      BY FS_Singleton
    <3>4. QED
      BY <3>2, <3>3
  <2>2. CASE ~Pressed(r)
    <3>1. {q \in recorded : q[1] = r} = {}
      BY <2>2 DEF Pressed
    <3>2. QED
      BY <3>1, FS_EmptySet
  <2>3. QED
    BY <2>1, <2>2
<1>2. \A S : Prompt!Cardinality(S) = Cardinality(S)
  BY DEF Prompt!Cardinality, Cardinality
<1>3. \A r \in Questions :
        /\ Len(injected[r]) <= 1
        /\ injected[r] = <<"allow">> /\ ~SkipPermissions => <<r, "allow", TRUE>> \in recorded
  BY DEF PromptInv, Explained, Allowed
<1>4. OneAnswer
  BY <1>1, <1>2, <1>3 DEF OneAnswer, Prompt!OneAnswer
<1>5. LiveHasTask
  BY DEF PromptInv, Explained, LiveHasTask, Functions, Prompt!LiveHasTask, Prompt!TypeOK
<1>6. QED
  BY <1>4, <1>5

(* A permission request is answered once and a tool is allowed only by a   *)
(* recorded press, whatever the presses and the timeout do.                *)
THEOREM RequestsAnsweredOnce == AllSpec => []OneAnswer
BY Behaviours, PromptInit, PromptStep, PromptImplies, PTL DEF Prompt!Spec

(* resolve accepts a press only while a prompt's task still waits for it.  *)
THEOREM PressesHaveATask == AllSpec => []LiveHasTask
BY Behaviours, PromptInit, PromptStep, PromptImplies, PTL DEF Prompt!Spec

-----------------------------------------------------------------------------
(* The status emoji. *)

(* While no request was lost, the message shows the emoji that the manager *)
(* takes it to show, or none in the middle of a change.                    *)
Shown == IF current = Emoji!None THEN {} ELSE {current}
EmojiInv ==
    /\ Emoji!TypeOK
    /\ lost = "no" => reactions = IF debounce = "adding" THEN {} ELSE Shown
    /\ debounce = "removing" => current # Emoji!None
    /\ debounce \in {"removing", "adding"} => target # Emoji!None
    /\ debounce = "sleeping" => target # Emoji!None
    /\ phase \in {"cleaning", "gone"} => debounce = "none"
    /\ phase = "gone" => current = Emoji!None

LEMMA EmojiInit == Emoji!Init => EmojiInv
BY DEF Emoji!Init, EmojiInv, Emoji!TypeOK, Shown

LEMMA EmojiStep ==
    ASSUME Emoji!ConstantsType
    PROVE  EmojiInv /\ [Emoji!Next]_(Emoji!vars) => EmojiInv'
<1> SUFFICES ASSUME EmojiInv, [Emoji!Next]_(Emoji!vars) PROVE EmojiInv'
  OBVIOUS
<1> USE DEF EmojiInv, Emoji!TypeOK, Shown, Emoji!ConstantsType
<1>1. ASSUME NEW e \in Emoji!All, Emoji!SetStatus(e) PROVE EmojiInv'
  BY <1>1 DEF Emoji!SetStatus, Emoji!Cancel, Emoji!Applied
<1>2. CASE Emoji!Wakes
  BY <1>2 DEF Emoji!Wakes
<1>3. CASE Emoji!Cleanup
  BY <1>3 DEF Emoji!Cleanup, Emoji!Cancel, Emoji!Applied
<1>4. ASSUME NEW ok \in BOOLEAN, Emoji!Answered(ok) PROVE EmojiInv'
  BY <1>4 DEF Emoji!Answered, Emoji!Applied
<1>5. ASSUME NEW ok \in BOOLEAN, Emoji!CleanupAnswered(ok) PROVE EmojiInv'
  BY <1>5 DEF Emoji!CleanupAnswered
<1>6. CASE UNCHANGED Emoji!vars
  BY <1>6 DEF Emoji!vars
<1>7. QED
  BY <1>1, <1>2, <1>3, <1>4, <1>5, <1>6 DEF Emoji!Next

LEMMA EmojiImplies == EmojiInv => OneEmoji
<1> SUFFICES ASSUME EmojiInv, lost = "no"
             PROVE  Emoji!Cardinality(reactions) <= 1 /\ (phase = "gone" => reactions = {})
  BY DEF OneEmoji, Emoji!OneEmoji
<1>1. reactions = {} \/ reactions = {current}
  BY DEF EmojiInv, Shown
<1>2. Cardinality({}) = 0 /\ Cardinality({current}) = 1
  BY FS_EmptySet, FS_Singleton
<1>3. \A S : Emoji!Cardinality(S) = Cardinality(S)
  BY DEF Emoji!Cardinality, Cardinality
<1>4. Emoji!Cardinality(reactions) <= 1
  BY <1>1, <1>2, <1>3
<1>5. QED
  BY <1>4 DEF EmojiInv, Shown

(* A message shows one status emoji at a time and none when the run is     *)
(* over, unless a request to change it was lost (discord_ui/status.py).    *)
THEOREM OneEmojiIsShown == AllSpec => []OneEmoji
BY Behaviours, SurfacesConstants, EmojiInit, EmojiStep, EmojiImplies, PTL DEF Emoji!Spec

-----------------------------------------------------------------------------
(* Scheduled tasks. *)

InBatch(t) == \E i \in 1..Len(batch) : batch[i] = t
BatchIsRead ==
    /\ batch \in Seq(Tasks)
    /\ \A i, j \in 1..Len(batch) : batch[i] = batch[j] => i = j
    /\ loop \in {"working", "writing"} <=> batch # <<>>

Running(t) == Scheduled!Active(t)
Spent(t) == executed[t] > 0 \/ Running(t) > 0

RunsOnceAtATime ==
    /\ \A t \in Tasks : Running(t) <= 1 /\ (Running(t) > 0 => t \in running)
    /\ loop = "writing" => Head(batch) \notin running
SpentIsOver ==
    \A t \in OneShots \ (broken \cup early) :
        /\ executed[t] <= 1 /\ (runs[t] > 0 => executed[t] = 0)
        /\ Spent(t) => ~InBatch(t)
        /\ InBatch(t) \/ Running(t) > 0 => row[t] # "new"
        /\ Running(t) > 0 => ~past[t]
        /\ Spent(t) /\ Running(t) = 0 => row[t] \in {"disabled", "deleted"}
Rows ==
    /\ row \in [Tasks -> {"new", "enabled", "disabled", "deleted"}]
    /\ past \in [Tasks -> BOOLEAN] /\ running \subseteq Tasks
    /\ loop \in {"asleep", "working", "writing", "stopped", "down"}
    /\ runs \in [Tasks -> Nat] /\ closing \in [OneShots -> Nat]
    /\ executed \in [OneShots -> 0..2]
    /\ broken \subseteq OneShots /\ early \subseteq OneShots
    /\ toggles \in 0..MaxToggles /\ faults \in 0..MaxFaults
ScheduleInv == Rows /\ BatchIsRead /\ RunsOnceAtATime /\ SpentIsOver

LEMMA ScheduleInit ==
    ASSUME Scheduled!ConstantsType
    PROVE  Scheduled!Init => ScheduleInv
<1> SUFFICES ASSUME Scheduled!Init PROVE ScheduleInv
  OBVIOUS
<1> USE DEF Scheduled!ConstantsType, Scheduled!Init
<1>1. Rows
  BY DEF Rows
<1>2. batch = <<>> /\ batch \in Seq(Tasks) /\ Len(batch) = 0
  BY EmptySeq
<1>3. BatchIsRead
  BY <1>2 DEF BatchIsRead
<1>4. RunsOnceAtATime /\ SpentIsOver
  BY <1>2 DEF RunsOnceAtATime, SpentIsOver, Running, Spent, InBatch, Scheduled!Active
<1>5. QED
  BY <1>1, <1>3, <1>4 DEF ScheduleInv

(* The loop goes on to the next row. *)
LEMMA BatchTakes ==
    ASSUME BatchIsRead, batch # <<>>, Scheduled!Take(Tail(batch))
    PROVE  /\ BatchIsRead' /\ loop' \in {"asleep", "working"}
           /\ Head(batch) \in Tasks /\ InBatch(Head(batch))
           /\ \A t \in Tasks : InBatch(t)' => InBatch(t) /\ t # Head(batch)
<1>1. /\ batch \in Seq(Tasks) /\ batch' = Tail(batch) /\ Len(batch) \in Nat
      /\ Tail(batch) \in Seq(Tasks) /\ Len(Tail(batch)) = Len(batch) - 1 /\ Len(batch) > 0
      /\ \A i \in 1..Len(Tail(batch)) : Tail(batch)[i] = batch[i + 1]
      /\ Head(batch) = batch[1] /\ Head(batch) \in Tasks
  BY HeadTailProperties DEF BatchIsRead, Scheduled!Take
<1>2. \A i \in 1..Len(batch') : i + 1 \in 1..Len(batch) /\ batch'[i] = batch[i + 1] /\ i + 1 # 1
  BY <1>1
<1>3. \A i, j \in 1..Len(batch') : batch'[i] = batch'[j] => i = j
  BY <1>1, <1>2 DEF BatchIsRead
<1>4. 1 \in 1..Len(batch)
  BY <1>1
<1>5. BatchIsRead'
  BY <1>1, <1>3 DEF BatchIsRead, Scheduled!Take
<1>6. InBatch(Head(batch))
  BY <1>1, <1>4 DEF InBatch
<1>7. ASSUME NEW t \in Tasks, InBatch(t)' PROVE InBatch(t) /\ t # Head(batch)
  <2>1. PICK i \in 1..Len(batch') : batch'[i] = t
    BY <1>7 DEF InBatch
  <2>2. i + 1 \in 1..Len(batch) /\ batch[i + 1] = t /\ i + 1 # 1
    BY <1>2, <2>1
  <2>3. QED
    BY <1>1, <1>4, <2>2 DEF InBatch, BatchIsRead
<1>8. QED
  BY <1>1, <1>5, <1>6, <1>7 DEF Scheduled!Take

(* get_due reads each due row once. *)
LEMMA BatchIsDue ==
    ASSUME Scheduled!ConstantsType, Rows, Scheduled!Tick
    PROVE  /\ BatchIsRead' /\ loop' \in {"asleep", "working"}
           /\ \A t \in Tasks : InBatch(t)' => row[t] = "enabled" /\ past[t]
<1> DEFINE Due == {t \in Tasks : row[t] = "enabled" /\ past[t]}
           N == Cardinality(Due)
<1>1. PICK order \in Scheduled!SetToSeqs(Due) :
         batch' = order /\ loop' = IF order = <<>> THEN "asleep" ELSE "working"
  BY DEF Scheduled!Tick
<1>2. Scheduled!Cardinality(Due) = N /\ N \in Nat
  <2>1. Scheduled!Cardinality(Due) = N
    BY DEF Scheduled!Cardinality, Cardinality
  <2>2. IsFiniteSet(Due)
    <3>1. \A S : Scheduled!IsFiniteSet(S) <=> IsFiniteSet(S)
      BY DEF Scheduled!IsFiniteSet, IsFiniteSet
    <3>2. IsFiniteSet(Tasks)
      BY <3>1 DEF Scheduled!ConstantsType
    <3>3. QED
      BY <3>2, FS_Subset
  <2>3. QED
    BY <2>1, <2>2, FS_CardinalityType
<1> HIDE DEF N
<1>3. /\ order \in [1..N -> Due] /\ \A i, j \in 1..N : i # j => order[i] # order[j]
  BY <1>1, <1>2 DEF Scheduled!SetToSeqs
<1>4. order \in Seq(Tasks) /\ Len(order) = N
  BY <1>2, <1>3, IsASeq
<1>5. BatchIsRead'
  BY <1>1, <1>3, <1>4 DEF BatchIsRead
<1>6. \A t \in Tasks : InBatch(t)' => row[t] = "enabled" /\ past[t]
  BY <1>1, <1>3, <1>4 DEF InBatch
<1>7. QED
  BY <1>1, <1>5, <1>6

LEMMA ScheduleStep ==
    ASSUME Scheduled!ConstantsType
    PROVE  ScheduleInv /\ [Scheduled!Next]_(Scheduled!vars) => ScheduleInv'
<1> SUFFICES ASSUME ScheduleInv, [Scheduled!Next]_(Scheduled!vars) PROVE ScheduleInv'
  OBVIOUS
<1> Rows /\ BatchIsRead /\ RunsOnceAtATime /\ SpentIsOver
  BY DEF ScheduleInv
<1> USE DEF Scheduled!ConstantsType, Rows
<1>1. ASSUME NEW t \in Tasks, Scheduled!Create(t) PROVE ScheduleInv'
  <2>1. Rows'
    BY <1>1 DEF Scheduled!Create
  <2>2. BatchIsRead'
    BY <1>1 DEF Scheduled!Create, BatchIsRead
  <2>3. RunsOnceAtATime'
    BY <1>1 DEF Scheduled!Create, RunsOnceAtATime, Running, Scheduled!Active
  <2>4. SpentIsOver'
    BY <1>1 DEF Scheduled!Create, SpentIsOver, RunsOnceAtATime, Spent, InBatch, Running,
                Scheduled!Active
  <2>5. QED
    BY <2>1, <2>2, <2>3, <2>4 DEF ScheduleInv
<1>2. ASSUME NEW t \in Tasks, Scheduled!SetEnabled(t) PROVE ScheduleInv'
  <2>1. Rows'
    BY <1>2 DEF Scheduled!SetEnabled
  <2>2. BatchIsRead'
    BY <1>2 DEF Scheduled!SetEnabled, BatchIsRead
  <2>3. RunsOnceAtATime'
    BY <1>2 DEF Scheduled!SetEnabled, RunsOnceAtATime, Running, Scheduled!Active
  <2>4. SpentIsOver'
    BY <1>2 DEF Scheduled!SetEnabled, SpentIsOver, RunsOnceAtATime, Spent, InBatch, Running,
                Scheduled!Active
  <2>5. QED
    BY <2>1, <2>2, <2>3, <2>4 DEF ScheduleInv
<1>3. ASSUME NEW t \in Tasks, Scheduled!Delete(t) PROVE ScheduleInv'
  <2>1. Rows'
    BY <1>3 DEF Scheduled!Delete
  <2>2. BatchIsRead'
    BY <1>3 DEF Scheduled!Delete, BatchIsRead
  <2>3. RunsOnceAtATime'
    BY <1>3 DEF Scheduled!Delete, RunsOnceAtATime, Running, Scheduled!Active
  <2>4. SpentIsOver'
    BY <1>3 DEF Scheduled!Delete, SpentIsOver, RunsOnceAtATime, Spent, InBatch, Running,
                Scheduled!Active
  <2>5. QED
    BY <2>1, <2>2, <2>3, <2>4 DEF ScheduleInv
<1>4. ASSUME NEW t \in Tasks, Scheduled!Elapse(t) PROVE ScheduleInv'
  <2>1. Rows'
    BY <1>4 DEF Scheduled!Elapse
  <2>2. BatchIsRead'
    BY <1>4 DEF Scheduled!Elapse, BatchIsRead
  <2>3. RunsOnceAtATime'
    BY <1>4 DEF Scheduled!Elapse, RunsOnceAtATime, Running, Scheduled!Active
  <2>4. SpentIsOver'
    BY <1>4 DEF Scheduled!Elapse, SpentIsOver, RunsOnceAtATime, Spent, InBatch, Running,
                Scheduled!Active
  <2>5. QED
    BY <2>1, <2>2, <2>3, <2>4 DEF ScheduleInv
<1>5. ASSUME Scheduled!Tick PROVE ScheduleInv'
  <2>0. /\ BatchIsRead' /\ loop' \in {"asleep", "working"}
        /\ \A t \in Tasks : InBatch(t)' => row[t] = "enabled" /\ past[t]
    BY <1>5, BatchIsDue
  <2>1. Rows'
    BY <1>5, <2>0 DEF Scheduled!Tick
  <2>2. BatchIsRead'
    BY <1>5, <2>0 DEF Scheduled!Tick, BatchIsRead
  <2>3. RunsOnceAtATime'
    BY <1>5, <2>0 DEF Scheduled!Tick, RunsOnceAtATime, Running, Scheduled!Active
  <2>4. SpentIsOver'
    BY <1>5, <2>0 DEF Scheduled!Tick, SpentIsOver, RunsOnceAtATime, Spent, Running,
                      Scheduled!Active
  <2>5. QED
    BY <2>1, <2>2, <2>3, <2>4 DEF ScheduleInv
<1>6. ASSUME Scheduled!Consider PROVE ScheduleInv'
  <2>0. \/ UNCHANGED batch /\ loop' = "writing" /\ Head(batch) \notin running /\ batch # <<>>
        \/ /\ BatchIsRead' /\ loop' \in {"asleep", "working"}
           /\ \A t \in Tasks : InBatch(t)' => InBatch(t) /\ t # Head(batch)
    BY <1>6, BatchTakes DEF Scheduled!Consider, BatchIsRead
  <2>1. Rows'
    BY <1>6, <2>0 DEF Scheduled!Consider
  <2>2. BatchIsRead'
    BY <1>6, <2>0 DEF Scheduled!Consider, BatchIsRead
  <2>3. RunsOnceAtATime'
    BY <1>6, <2>0 DEF Scheduled!Consider, RunsOnceAtATime, Running, Scheduled!Active
  <2>4. SpentIsOver'
    <3>1. \A x \in Tasks : InBatch(x)' => InBatch(x)
      BY <2>0 DEF InBatch
    <3>2. UNCHANGED <<row, past, runs, closing, executed, broken, early>>
      BY <1>6 DEF Scheduled!Consider
    <3>3. \A x \in OneShots : (Spent(x)' <=> Spent(x)) /\ Running(x)' = Running(x)
      BY <3>2 DEF Spent, Running, Scheduled!Active
    <3>4. QED
      BY <3>1, <3>2, <3>3 DEF SpentIsOver
  <2>5. QED
    BY <2>1, <2>2, <2>3, <2>4 DEF ScheduleInv
<1>7. ASSUME Scheduled!Spawn PROVE ScheduleInv'
  <2>0. /\ BatchIsRead' /\ loop' \in {"asleep", "working"}
        /\ Head(batch) \in Tasks /\ InBatch(Head(batch))
        /\ \A t \in Tasks : InBatch(t)' => InBatch(t) /\ t # Head(batch)
    BY <1>7, BatchTakes DEF Scheduled!Spawn, BatchIsRead
  <2>1. Rows'
    BY <1>7, <2>0 DEF Scheduled!Spawn
  <2>2. BatchIsRead'
    BY <1>7, <2>0 DEF Scheduled!Spawn, BatchIsRead
  <2>3. RunsOnceAtATime'
    BY <1>7, <2>0 DEF Scheduled!Spawn, RunsOnceAtATime, Running, Scheduled!Active
  <2>4. SpentIsOver'
    <3>1. PICK t \in Tasks : t = Head(batch)
      BY <2>0
    <3>2. /\ t \notin running /\ past' = [past EXCEPT ![t] = FALSE]
          /\ runs' = [runs EXCEPT ![t] = @ + 1]
          /\ UNCHANGED <<row, closing, executed, broken, early>>
      BY <1>7, <3>1 DEF Scheduled!Spawn, RunsOnceAtATime
    <3>3. ASSUME NEW x \in OneShots, x # t
          PROVE  /\ (Spent(x)' <=> Spent(x)) /\ Running(x)' = Running(x)
                 /\ runs'[x] = runs[x] /\ past'[x] = past[x]
      BY <3>2, <3>3 DEF Spent, Running, Scheduled!Active
    <3>4. ASSUME t \in OneShots
          PROVE  Running(t) = 0 /\ Running(t)' = 1 /\ runs[t] = 0 /\ runs'[t] = 1 /\ ~past'[t]
      BY <3>2, <3>4 DEF RunsOnceAtATime, Running, Scheduled!Active
    <3>5. ASSUME t \in OneShots \ (broken \cup early)
          PROVE  executed[t] = 0 /\ row[t] # "new"
      BY <2>0, <3>1, <3>5 DEF SpentIsOver, Spent
    <3>6. ~InBatch(t)' /\ \A x \in Tasks : InBatch(x)' => InBatch(x)
      BY <2>0, <3>1
    <3>7. QED
      BY <3>2, <3>3, <3>4, <3>5, <3>6 DEF SpentIsOver, Spent
  <2>5. QED
    BY <2>1, <2>2, <2>3, <2>4 DEF ScheduleInv
<1>8. ASSUME Scheduled!LoopFails PROVE ScheduleInv'
  <2>1. Rows'
    BY <1>8 DEF Scheduled!LoopFails
  <2>2. BatchIsRead'
    BY <1>8, EmptySeq DEF Scheduled!LoopFails, BatchIsRead
  <2>3. RunsOnceAtATime'
    BY <1>8 DEF Scheduled!LoopFails, RunsOnceAtATime, Running, Scheduled!Active
  <2>4. SpentIsOver'
    BY <1>8 DEF Scheduled!LoopFails, SpentIsOver, RunsOnceAtATime, Spent, InBatch, Running,
                Scheduled!Active
  <2>5. QED
    BY <2>1, <2>2, <2>3, <2>4 DEF ScheduleInv
<1>9. ASSUME NEW t \in Tasks, Scheduled!Executed(t) PROVE ScheduleInv'
  <2>1. Rows'
    BY <1>9 DEF Scheduled!Executed
  <2>2. BatchIsRead'
    BY <1>9 DEF Scheduled!Executed, BatchIsRead
  <2>3. RunsOnceAtATime'
    BY <1>9 DEF Scheduled!Executed, RunsOnceAtATime, Running, Scheduled!Active
  <2>4. SpentIsOver'
    BY <1>9 DEF Scheduled!Executed, SpentIsOver, RunsOnceAtATime, Spent, InBatch, Running,
                Scheduled!Active
  <2>5. QED
    BY <2>1, <2>2, <2>3, <2>4 DEF ScheduleInv
<1>10. ASSUME NEW t \in Tasks, Scheduled!RunFails(t) PROVE ScheduleInv'
  <2>1. Rows'
    BY <1>10 DEF Scheduled!RunFails, Scheduled!Active
  <2>2. BatchIsRead'
    BY <1>10 DEF Scheduled!RunFails, BatchIsRead
  <2>3. RunsOnceAtATime'
    BY <1>10 DEF Scheduled!RunFails, RunsOnceAtATime, Running, Scheduled!Active
  <2>4. SpentIsOver'
    BY <1>10 DEF Scheduled!RunFails, SpentIsOver, RunsOnceAtATime, Spent, InBatch, Running,
                 Scheduled!Active
  <2>5. QED
    BY <2>1, <2>2, <2>3, <2>4 DEF ScheduleInv
<1>11. ASSUME NEW t \in OneShots, Scheduled!Closed(t) PROVE ScheduleInv'
  <2>1. Rows'
    BY <1>11 DEF Scheduled!Closed
  <2>2. BatchIsRead'
    BY <1>11 DEF Scheduled!Closed, BatchIsRead
  <2>3. RunsOnceAtATime'
    BY <1>11 DEF Scheduled!Closed, RunsOnceAtATime, Running, Scheduled!Active
  <2>4. SpentIsOver'
    <3>1. /\ closing[t] > 0 /\ closing' = [closing EXCEPT ![t] = @ - 1]
          /\ row' = [row EXCEPT ![t] = IF @ = "enabled" THEN "disabled" ELSE @]
          /\ UNCHANGED <<past, batch, runs, executed, broken, early>>
      BY <1>11 DEF Scheduled!Closed
    <3>2. \A x \in Tasks : InBatch(x)' <=> InBatch(x)
      BY <3>1 DEF InBatch
    <3>3. ASSUME NEW x \in OneShots, x # t
          PROVE  /\ (Spent(x)' <=> Spent(x)) /\ Running(x)' = Running(x) /\ row'[x] = row[x]
      BY <3>1, <3>3 DEF Spent, Running, Scheduled!Active
    <3>4. Running(t) = 1 /\ Running(t)' = 0 /\ Spent(t)
      BY <3>1 DEF RunsOnceAtATime, Running, Scheduled!Active, Spent
    <3>5. t \notin broken \cup early => row[t] # "new" /\ row'[t] \in {"disabled", "deleted"}
      BY <3>1, <3>4 DEF SpentIsOver
    <3>6. \A x \in OneShots \ (broken' \cup early') :
            x = t => executed'[x] <= 1 /\ runs'[x] = 0 /\ ~InBatch(x)'
      BY <3>1, <3>2, <3>4 DEF SpentIsOver, Running, Scheduled!Active
    <3>7. QED
      BY <3>1, <3>2, <3>3, <3>4, <3>5, <3>6 DEF SpentIsOver
  <2>5. QED
    BY <2>1, <2>2, <2>3, <2>4 DEF ScheduleInv
<1>12. ASSUME Scheduled!Crash PROVE ScheduleInv'
  <2>1. Rows'
    BY <1>12 DEF Scheduled!Crash
  <2>2. BatchIsRead'
    BY <1>12, EmptySeq DEF Scheduled!Crash, BatchIsRead
  <2>3. RunsOnceAtATime'
    BY <1>12 DEF Scheduled!Crash, RunsOnceAtATime, Running, Scheduled!Active
  <2>4. SpentIsOver'
    BY <1>12 DEF Scheduled!Crash, SpentIsOver, RunsOnceAtATime, Spent, InBatch, Running,
                 Scheduled!Active
  <2>5. QED
    BY <2>1, <2>2, <2>3, <2>4 DEF ScheduleInv
<1>13. ASSUME Scheduled!Boot PROVE ScheduleInv'
  <2>1. Rows'
    BY <1>13 DEF Scheduled!Boot
  <2>2. BatchIsRead'
    BY <1>13 DEF Scheduled!Boot, BatchIsRead
  <2>3. RunsOnceAtATime'
    BY <1>13 DEF Scheduled!Boot, RunsOnceAtATime, Running, Scheduled!Active
  <2>4. SpentIsOver'
    BY <1>13 DEF Scheduled!Boot, SpentIsOver, RunsOnceAtATime, Spent, InBatch, Running,
                 Scheduled!Active
  <2>5. QED
    BY <2>1, <2>2, <2>3, <2>4 DEF ScheduleInv
<1>14. ASSUME UNCHANGED Scheduled!vars PROVE ScheduleInv'
  <2>1. Rows'
    BY <1>14 DEF Scheduled!vars
  <2>2. BatchIsRead'
    BY <1>14 DEF Scheduled!vars, BatchIsRead
  <2>3. RunsOnceAtATime'
    BY <1>14 DEF Scheduled!vars, RunsOnceAtATime, Running, Scheduled!Active
  <2>4. SpentIsOver'
    BY <1>14 DEF Scheduled!vars, SpentIsOver, RunsOnceAtATime, Spent, InBatch, Running,
                 Scheduled!Active
  <2>5. QED
    BY <2>1, <2>2, <2>3, <2>4 DEF ScheduleInv
<1>15. QED
  BY <1>1, <1>2, <1>3, <1>4, <1>5, <1>6, <1>7, <1>8, <1>9, <1>10, <1>11, <1>12, <1>13,
     <1>14 DEF Scheduled!Next

(* Type correctness of the scheduler; a task whose run is not over is in   *)
(* _running.                                                               *)
LEMMA ScheduleTypeCorrect == AllSpec => []Scheduled!TypeOK
<1>1. ScheduleInv => Scheduled!TypeOK
  BY DEF ScheduleInv, Rows, BatchIsRead, RunsOnceAtATime, Running, Scheduled!TypeOK
<1>2. QED
  BY <1>1, Behaviours, SurfacesConstants, ScheduleInit, ScheduleStep, PTL DEF Scheduled!Spec

(* A scheduled task has one run at a time and a one-shot executes once,    *)
(* unless a fault, a user or a short interval lets it run again            *)
(* (cogs/scheduler.py).                                                    *)
THEOREM TasksRunOnce == AllSpec => []NoDoubleRun
<1>1. ScheduleInv => NoDoubleRun
  BY DEF ScheduleInv, RunsOnceAtATime, SpentIsOver, Running, NoDoubleRun, Scheduled!NoDoubleRun,
         Scheduled!OneRunPerTask, Scheduled!OneShotOnce
<1>2. QED
  BY <1>1, Behaviours, SurfacesConstants, ScheduleInit, ScheduleStep, PTL DEF Scheduled!Spec

-----------------------------------------------------------------------------
(* The upgrade. *)

(* One pipeline holds the lock; a session of its snapshot has its row, is  *)
(* still to be marked, or its mark raised.                                 *)
OnePipeline ==
    \A q, r \in Upgrades : {stage[q], stage[r]} \subseteq Upgrading!Holding => q = r
Marked ==
    /\ since \subseteq toMark \cup rows \cup unmarked
    /\ host = "down" => since = {}
    /\ \A r \in Upgrades : /\ stage[r] = "restarting" => toMark = {}
                           /\ stage[r] = "draining" => polls < MaxPolls
UpgradeTypes ==
    /\ host \in {"running", "closing", "down"}
    /\ stage \in [Upgrades -> {"absent", "deferring", "queued"}
                            \cup Upgrading!Holding \cup Upgrading!Over]
    /\ gate \in [Upgrades -> {"none", "upgrade", "restart"}]
    /\ asked \in [Upgrades -> {"none", "shown", "over"}]
    /\ listens \subseteq {r \in Upgrades : stage[r] = "asking"}
    /\ approved \subseteq Upgrades /\ reacted \subseteq Upgrades
    /\ snapshot \subseteq Sessions /\ toMark \subseteq snapshot /\ since \subseteq snapshot
    /\ polls \in 0..MaxPolls /\ unmarked \subseteq Sessions
    /\ sessions \subseteq Sessions /\ rows \subseteq Sessions
    /\ toClose \subseteq Upgrades /\ clean \in BOOLEAN
    /\ begun \in 0..MaxSessions /\ refused \in 0..MaxRefusals /\ stops \in 0..MaxStops
UpgradeCore == UpgradeTypes /\ OnePipeline /\ Marked

LEMMA UpgradeInit ==
    ASSUME Upgrading!ConstantsType
    PROVE  Upgrading!Init => UpgradeCore
BY DEF Upgrading!ConstantsType, Upgrading!Init, UpgradeCore, UpgradeTypes, OnePipeline,
       Marked, Upgrading!Holding

LEMMA UpgradeStep ==
    ASSUME Upgrading!ConstantsType
    PROVE  UpgradeCore /\ [Upgrading!Next]_(Upgrading!vars) => UpgradeCore'
<1> SUFFICES ASSUME UpgradeCore, [Upgrading!Next]_(Upgrading!vars) PROVE UpgradeCore'
  OBVIOUS
<1> USE DEF Upgrading!ConstantsType, UpgradeCore, UpgradeTypes, OnePipeline, Marked,
        Upgrading!Holding, Upgrading!Over, Upgrading!asking, Upgrading!drain, Upgrading!counters
<1>1. ASSUME NEW r \in Upgrades, Upgrading!Trigger(r) PROVE UpgradeCore'
  BY <1>1 DEF Upgrading!Trigger, Upgrading!Goes, Upgrading!Alive, Upgrading!Entered,
              Upgrading!Locked
<1>2. ASSUME NEW r \in Upgrades, Upgrading!Defer(r) PROVE UpgradeCore'
  BY <1>2 DEF Upgrading!Defer, Upgrading!Goes, Upgrading!Alive, Upgrading!Entered,
              Upgrading!Locked
<1>3. ASSUME NEW r \in Upgrades, Upgrading!Enter(r) PROVE UpgradeCore'
  BY <1>3 DEF Upgrading!Enter, Upgrading!Goes, Upgrading!Alive, Upgrading!Locked
<1>4. ASSUME NEW r \in Upgrades, Upgrading!Open(r) PROVE UpgradeCore'
  BY <1>4 DEF Upgrading!Open, Upgrading!Goes
<1>5. ASSUME NEW r \in Upgrades, Upgrading!Post(r) PROVE UpgradeCore'
  BY <1>5 DEF Upgrading!Post, Upgrading!Goes
<1>6. ASSUME NEW r \in Upgrades, Upgrading!Listen(r) PROVE UpgradeCore'
  BY <1>6 DEF Upgrading!Listen, Upgrading!Goes, Upgrading!Alive
<1>7. ASSUME NEW r \in Upgrades, Upgrading!Remind(r) PROVE UpgradeCore'
  BY <1>7 DEF Upgrading!Remind, Upgrading!Alive
<1>8. ASSUME NEW r \in Upgrades, Upgrading!React(r) PROVE UpgradeCore'
  BY <1>8 DEF Upgrading!React, Upgrading!Alive
<1>9. ASSUME NEW r \in Upgrades, Upgrading!Press(r) PROVE UpgradeCore'
  BY <1>9 DEF Upgrading!Press, Upgrading!Alive
<1>10. ASSUME NEW r \in Upgrades, Upgrading!Proceed(r) PROVE UpgradeCore'
  BY <1>10 DEF Upgrading!Proceed, Upgrading!Goes
<1>11. ASSUME NEW r \in Upgrades, Upgrading!Upgrade(r) PROVE UpgradeCore'
  BY <1>11 DEF Upgrading!Upgrade, Upgrading!Goes
<1>12. ASSUME NEW r \in Upgrades, Upgrading!Snapshot(r) PROVE UpgradeCore'
  <2>1. /\ stage[r] = "approved" /\ host # "down"
        /\ \E x \in {"marking", "draining"} : stage' = [stage EXCEPT ![r] = x]
        /\ snapshot' = sessions /\ since' = sessions /\ toMark' = sessions
        /\ polls' = 0 /\ unmarked' = {}
        /\ UNCHANGED <<host, gate, asked, listens, approved, reacted, sessions, rows, toClose,
                       clean, begun, refused, stops>>
    BY <1>12 DEF Upgrading!Snapshot, Upgrading!Goes, Upgrading!Alive
  <2>2. 0 \in 0..MaxPolls /\ 0 < MaxPolls
    OBVIOUS
  <2>3. UpgradeTypes'
    BY <2>1, <2>2
  <2>4. OnePipeline'
    BY <2>1
  <2>5. Marked'
    BY <2>1, <2>2
  <2>6. QED
    BY <2>3, <2>4, <2>5
<1>13. ASSUME NEW r \in Upgrades, Upgrading!Poll(r) PROVE UpgradeCore'
  BY <1>13 DEF Upgrading!Poll, Upgrading!Goes
<1>14. ASSUME NEW r \in Upgrades, Upgrading!Announce(r) PROVE UpgradeCore'
  BY <1>14 DEF Upgrading!Announce, Upgrading!Goes
<1>15. ASSUME NEW r \in Upgrades, Upgrading!Restart(r) PROVE UpgradeCore'
  BY <1>15 DEF Upgrading!Restart, Upgrading!Goes, Upgrading!DrainOver
<1>16. ASSUME NEW r \in Upgrades, Upgrading!Fails(r) PROVE UpgradeCore'
  BY <1>16 DEF Upgrading!Fails, Upgrading!Alive, Upgrading!DrainOver
<1>17. ASSUME NEW r \in Upgrades, Upgrading!Close(r) PROVE UpgradeCore'
  BY <1>17 DEF Upgrading!Close
<1>18. ASSUME NEW r \in Upgrades, NEW t \in Sessions, Upgrading!Mark(r, t) PROVE UpgradeCore'
  BY <1>18 DEF Upgrading!Mark, Upgrading!Goes
<1>19. ASSUME NEW t \in Sessions, Upgrading!Begin(t) PROVE UpgradeCore'
  BY <1>19 DEF Upgrading!Begin, Upgrading!Alive
<1>20. ASSUME NEW t \in Sessions, Upgrading!End(t) PROVE UpgradeCore'
  BY <1>20 DEF Upgrading!End, Upgrading!Alive
<1>21. ASSUME Upgrading!Stop PROVE UpgradeCore'
  BY <1>21 DEF Upgrading!Stop
<1>22. ASSUME Upgrading!Die PROVE UpgradeCore'
  <2>1. /\ host' = "down" /\ listens' = {} /\ approved' = {} /\ reacted' = {} /\ toClose' = {}
        /\ sessions' = {} /\ snapshot' = {} /\ toMark' = {} /\ polls' = 0 /\ since' = {}
        /\ unmarked' = {} /\ UNCHANGED <<gate, asked, rows, begun, refused>>
    BY <1>22 DEF Upgrading!Die, Upgrading!DrainOver
  <2>2. stops' \in 0..MaxStops
    BY <1>22 DEF Upgrading!Die
  <2>3. clean' \in BOOLEAN
    BY <1>22 DEF Upgrading!Die
  <2>4. /\ stage' \in [Upgrades -> {"absent", "cut"} \cup Upgrading!Over]
        /\ "cut" \in Upgrading!Over
    BY <1>22 DEF Upgrading!Die
  <2>5. \A r \in Upgrades : stage'[r] \notin Upgrading!Holding
    BY <2>4
  <2>6. stage' \in [Upgrades -> {"absent", "deferring", "queued"}
                               \cup Upgrading!Holding \cup Upgrading!Over]
    BY <2>4
  <2>7. UpgradeTypes'
    BY <2>1, <2>6, <2>2, <2>3
  <2>8. OnePipeline' /\ Marked'
    BY <2>1, <2>5
  <2>9. QED
    BY <2>7, <2>8
<1>23. ASSUME Upgrading!Boot PROVE UpgradeCore'
  BY <1>23 DEF Upgrading!Boot
<1>24. ASSUME UNCHANGED Upgrading!vars PROVE UpgradeCore'
  BY <1>24 DEF Upgrading!vars
<1>25. QED
  BY <1>1, <1>2, <1>3, <1>4, <1>5, <1>6, <1>7, <1>8, <1>9, <1>10, <1>11, <1>12, <1>13, <1>14,
     <1>15, <1>16, <1>17, <1>18, <1>19, <1>20, <1>21, <1>22, <1>23, <1>24 DEF Upgrading!Next

LEMMA UpgradeImplies == UpgradeCore => Upgrading!TypeOK /\ CutOffIsMarked
<1> SUFFICES ASSUME UpgradeCore PROVE Upgrading!TypeOK /\ CutOffIsMarked
  OBVIOUS
<1> DEFINE Holders == {r \in Upgrades : stage[r] \in Upgrading!Holding}
<1>1. Cardinality(Holders) <= 1
  <2>1. Holders = {} \/ \E r \in Upgrades : Holders = {r}
    BY DEF UpgradeCore, OnePipeline
  <2>2. Cardinality({}) = 0 /\ \A r \in Upgrades : Cardinality({r}) = 1
    BY FS_EmptySet, FS_Singleton
  <2>3. QED
    BY <2>1, <2>2
<1>2. Upgrading!Cardinality(Holders) <= 1
  <2>1. \A S : Upgrading!Cardinality(S) = Cardinality(S)
    BY DEF Upgrading!Cardinality, Cardinality
  <2>2. QED
    BY <1>1, <2>1
<1>3. QED
  BY <1>2 DEF UpgradeCore, UpgradeTypes, Marked, CutOffIsMarked, Upgrading!TypeOK,
              Upgrading!CutOffIsMarked

(* Type correctness of the upgrade; one pipeline at a time holds the lock. *)
LEMMA UpgradeTypeCorrect == AllSpec => []Upgrading!TypeOK
BY Behaviours, SurfacesConstants, UpgradeInit, UpgradeStep, UpgradeImplies, PTL DEF Upgrading!Spec

(* When the restart is announced, every session that has run since the     *)
(* snapshot has its row or its mark raised (cogs/auto_upgrade.py).         *)
THEOREM CutOffSessionsAreMarked == AllSpec => []CutOffIsMarked
BY Behaviours, SurfacesConstants, UpgradeInit, UpgradeStep, UpgradeImplies, PTL DEF Upgrading!Spec

-----------------------------------------------------------------------------
(* The types of surface, prompts, emoji, scheduler and upgrade: an edit    *)
(* names a posted message, _timer a live task, a run that is not over is   *)
(* in _running, one pipeline holds the lock.                               *)
THEOREM SurfacesTypeCorrect == AllSpec => []TypesOK
<1>1. AllSpec => []TypeOK
  BY Behaviours, SurfaceTypesInit, SurfaceTypesStep, PTL DEF Spec
<1>2. AllSpec => []Prompt!TypeOK
  <2>1. PromptInv => Prompt!TypeOK
    BY DEF PromptInv
  <2>2. QED
    BY <2>1, Behaviours, PromptInit, PromptStep, PTL DEF Prompt!Spec
<1>3. AllSpec => []Emoji!TypeOK
  <2>1. EmojiInv => Emoji!TypeOK
    BY DEF EmojiInv
  <2>2. QED
    BY <2>1, Behaviours, SurfacesConstants, EmojiInit, EmojiStep, PTL DEF Emoji!Spec
<1>4. QED
  BY <1>1, <1>2, <1>3, ScheduleTypeCorrect, UpgradeTypeCorrect, PTL DEF TypesOK
=============================================================================
