------------------------- MODULE TeamsSurface -------------------------
(***************************************************************************)
(* What a Teams conversation shows of a session (claude_teams/surface.py)  *)
(* and the pacer that spends its update budget (claude_teams/pacer.py).    *)
(*                                                                         *)
(* One task drives the session: it changes the card and lets an answer     *)
(* grow.  Both are painted by requests, either by that task or by a timer  *)
(* task of the pacer.  A version number stands for the state of a card and *)
(* for the text of an answer.  A request that is cancelled in flight was   *)
(* applied by Teams or never is.  Tasks that are created or cancelled run  *)
(* before the event loop delivers anything else.                           *)
(***************************************************************************)
EXTENDS Integers, Sequences, FiniteSets

CONSTANTS MaxCard, MaxText,  \* bounds: changes of the card, growth of the answer
          MaxFailures        \* bound: requests that fail, posts that get no id

ASSUME SurfaceBounds == MaxCard \in Nat /\ MaxText \in Nat /\ MaxFailures \in Nat

Card == "card"      \* _CARD_KEY
Stream == "stream"  \* _STREAM_KEY
Keys == {Card, Stream}
None == "none"
Timers == 1..3      \* more tasks than are ever alive at once
NoTimer == 0
Session == 0
Painters == Timers \cup {Session}
MaxOf(k) == IF k = Card THEN MaxCard ELSE MaxText

VARIABLES
    state,     \* the version of the card's state and of the answer's text
    final,     \* whether the answer is finalized
    shown,     \* _shown of the answer: the version its message is taken to show, or
               \* 0 before it is posted
    id,        \* of each key: the message it paints (_card_id, _ids), 0 when unknown
    screen,    \* of each key: the versions that its messages show
    pending,   \* _pending: the keys that wait, longest first
    timer,     \* _timer: a task or NoTimer
    task,      \* of each timer task: "free", "new", "sleeping", "painting", "cancelled"
    due,       \* whether min_interval passed since _last_sent
    then,      \* what the session's task has to do: run the updates of keys, then
               \* "nothing", "flush" or "paint" (the answer, without the pacer)
    request,   \* of each painter: the key, version and message of its request, or Idle
    closed,    \* the version of the card that disable left, or 0
    cut,       \* history: a flush cancelled a timer task that was painting
    failures   \* counter of the bound

pacer == <<pending, timer, task, due>>
vars == <<state, final, shown, id, screen, pacer, then, request, closed, cut, failures>>

Idle == [key |-> None, version |-> 0, at |-> 0]
Done == [keys |-> <<>>, next |-> "nothing"]

TypeOK ==
    /\ state \in [Keys -> Nat] /\ screen \in [Keys -> Seq(Nat)] /\ id \in [Keys -> Nat]
    /\ \A k \in Keys : state[k] <= MaxOf(k) /\ id[k] <= Len(screen[k])
    /\ request \in [Painters -> {Idle} \cup [key : Keys, version : Nat, at : Nat]]
    /\ \A p \in Painters :
         request[p] # Idle => request[p].at <= Len(screen[request[p].key])
    /\ final \in BOOLEAN /\ shown \in Nat
    /\ closed \in 0..MaxCard /\ cut \in BOOLEAN /\ failures \in 0..MaxFailures
    /\ pending \in Seq(Keys) /\ timer \in Timers \cup {NoTimer}
    /\ task \in [Timers -> {"free", "new", "sleeping", "painting", "cancelled"}]
    /\ timer # NoTimer => task[timer] \in {"new", "sleeping", "painting"}
    /\ due \in BOOLEAN
    /\ then \in [keys : Seq(Keys), next : {"nothing", "flush", "paint"}]

Init ==
    /\ state = [k \in Keys |-> 0] /\ final = FALSE /\ shown = 0
    /\ id = [k \in Keys |-> 0] /\ screen = [k \in Keys |-> <<>>]
    /\ pending = <<>> /\ timer = NoTimer /\ task = [t \in Timers |-> "free"] /\ due = TRUE
    /\ then = Done /\ request = [p \in Painters |-> Idle]
    /\ closed = 0 /\ cut = FALSE /\ failures = 0

-----------------------------------------------------------------------------
(* The session's task runs until it awaits a request; then the tasks that  *)
(* were created or cancelled run; then something is delivered.             *)
SessionMayAct == request[Session] = Idle /\ then = Done
SessionAwaits == request[Session] # Idle \/ then = Done
Settled == SessionAwaits /\ \A t \in Timers : task[t] \notin {"new", "cancelled"}

(* Whether painting k sends a request: the answer only when its text is    *)
(* not what its message is taken to show.                                  *)
Sends(k) == k = Card \/ state[Stream] # shown

(* _paint_card, TeamsTextStream._paint: the answer's message is taken to   *)
(* show the text before the request that edits it, or that posts it again  *)
(* because its id is not known.                                            *)
Paint(p, k) ==
    /\ request' = [request EXCEPT ![p] = [key |-> k, version |-> state[k], at |-> id[k]]]
    /\ shown' = IF k = Stream /\ shown # 0 THEN state[Stream] ELSE shown

(* _ensure_timer with the timer and tasks given. *)
EnsureTimer(tm, tk) ==
    IF tm # NoTimer THEN timer' = tm /\ task' = tk
    ELSE \E t \in Timers : /\ tk[t] = "free" /\ \A u \in 1..(t - 1) : tk[u] # "free"
                           /\ timer' = t /\ task' = [tk EXCEPT ![t] = "new"]

Add(k) == IF \E i \in DOMAIN pending : pending[i] = k THEN pending ELSE Append(pending, k)

(* Mutant: the targets share one slot, so that one displaces the other. *)
SubmitMutant(k, next) ==
    IF due /\ pending = <<>> /\ timer = NoTimer
      THEN /\ then' = [keys |-> <<k>>, next |-> next]
           /\ UNCHANGED <<pending, timer, task>>
      ELSE /\ pending' = <<k>>
           /\ EnsureTimer(timer, task)
           /\ then' = [keys |-> <<>>, next |-> next]

(* submit: at once when the budget is free, as the next of its key else. *)
Submit(k, next) ==
    IF due /\ pending = <<>> /\ timer = NoTimer
      THEN /\ then' = [keys |-> <<k>>, next |-> next]
           /\ UNCHANGED <<pending, timer, task>>
      ELSE /\ pending' = Add(k)
           /\ EnsureTimer(timer, task)
           /\ then' = [keys |-> <<>>, next |-> next]

(* A request that is applied posts a message or edits the one it names. *)
Applied(r) ==
    IF r.at = 0 THEN [screen EXCEPT ![r.key] = Append(@, r.version)]
    ELSE [screen EXCEPT ![r.key][r.at] = r.version]

(* flush: the timer is cancelled, what is pending is run.  A task that has *)
(* not begun just ends.                                                    *)
Flush(next) ==
    /\ then' = [keys |-> pending, next |-> next]
    /\ pending' = <<>> /\ timer' = NoTimer
    /\ cut' = (cut \/ (timer # NoTimer /\ task[timer] = "painting"))
    /\ IF timer = NoTimer THEN UNCHANGED <<task, request, screen>>
       ELSE /\ task' = [task EXCEPT ![timer] = IF @ = "new" THEN "free" ELSE "cancelled"]
            /\ request' = [request EXCEPT ![timer] = Idle]
            /\ \/ UNCHANGED screen
               \/ task[timer] = "painting" /\ screen' = Applied(request[timer])

-----------------------------------------------------------------------------
(* set_status, open_activity, complete: the card changed. *)
ChangeCard ==
    /\ SessionMayAct /\ state[Card] < MaxCard
    /\ state' = [state EXCEPT ![Card] = @ + 1]
    /\ Submit(Card, "nothing")
    /\ UNCHANGED <<final, shown, id, screen, due, request, closed, cut, failures>>

(* TeamsTextStream.append *)
AppendText ==
    /\ SessionMayAct /\ ~final /\ state[Stream] < MaxText
    /\ state' = [state EXCEPT ![Stream] = @ + 1]
    /\ Submit(Stream, "nothing")
    /\ UNCHANGED <<final, shown, id, screen, due, request, closed, cut, failures>>

(* TeamsTextStream.finalize *)
Finalize ==
    /\ SessionMayAct /\ ~final /\ state[Stream] > 0
    /\ final' = TRUE
    /\ Flush("paint")
    /\ UNCHANGED <<state, shown, id, due, closed, failures>>

(* Mutant: the card without the control waits for the pacer. *)
DisableMutant ==
    /\ SessionMayAct /\ closed = 0 /\ state[Card] < MaxCard
    /\ state' = [state EXCEPT ![Card] = @ + 1]
    /\ closed' = state'[Card]
    /\ Submit(Card, "nothing")
    /\ UNCHANGED <<final, shown, id, screen, due, request, cut, failures>>

(* TeamsInterruptHandle.disable: the card loses its Stop control, the last *)
(* change is repainted and flushed.                                        *)
Disable ==
    /\ SessionMayAct /\ closed = 0 /\ state[Card] < MaxCard
    /\ state' = [state EXCEPT ![Card] = @ + 1]
    /\ closed' = state'[Card]
    /\ Submit(Card, "flush")
    /\ UNCHANGED <<final, shown, id, screen, due, request, cut, failures>>

(* The session's task goes on: the next update of submit or flush, a flush *)
(* of disable, the answer itself.                                          *)
SessionGoesOn ==
    /\ ~SessionAwaits
    /\ CASE then.keys # <<>> ->
              /\ then' = [then EXCEPT !.keys = Tail(@)]
              /\ due' = FALSE
              /\ IF Sends(Head(then.keys)) THEN Paint(Session, Head(then.keys))
                 ELSE UNCHANGED <<request, shown>>
              /\ UNCHANGED <<screen, pending, timer, task, cut>>
         [] then.keys = <<>> /\ then.next = "flush" ->
              Flush("nothing") /\ UNCHANGED <<due, shown>>
         [] OTHER ->
              /\ then' = Done
              /\ IF Sends(Stream) THEN Paint(Session, Stream) ELSE UNCHANGED <<request, shown>>
              /\ UNCHANGED <<screen, pending, timer, task, due, cut>>
    /\ UNCHANGED <<state, final, id, closed, failures>>

-----------------------------------------------------------------------------
(* A timer task begins to wait for the rest of the interval. *)
TimerStarts(t) ==
    /\ SessionAwaits /\ task[t] = "new"
    /\ task' = [task EXCEPT ![t] = "sleeping"]
    /\ UNCHANGED <<state, final, shown, id, screen, pending, timer, due, then, request,
                   closed, cut, failures>>

(* Mutant: the timer that ended is still taken to run. *)
TimerEndsKeptMutant(t, keys) ==
    /\ pending' = keys /\ task' = [task EXCEPT ![t] = "free"] /\ UNCHANGED timer

(* The finally clause of _wait_and_send, with the keys pending by then. *)
TimerEnds(t, keys) ==
    /\ pending' = keys
    /\ LET tk == [task EXCEPT ![t] = "free"] IN
       IF keys # <<>> THEN EnsureTimer(NoTimer, tk) ELSE timer' = NoTimer /\ task' = tk

CancelledTimerEnds(t) ==
    /\ SessionAwaits /\ task[t] = "cancelled"
    /\ TimerEnds(t, pending)
    /\ UNCHANGED <<state, final, shown, id, screen, due, then, request, closed, cut, failures>>

(* A timer task wakes and paints the key that waits longest.  One that     *)
(* _timer does not name any more may wake before the budget is free.       *)
TimerWakes(t) ==
    /\ Settled /\ task[t] = "sleeping" /\ (due \/ timer # t)
    /\ IF pending # <<>> /\ Sends(Head(pending))
         THEN /\ Paint(t, Head(pending))
              /\ task' = [task EXCEPT ![t] = "painting"]
              /\ pending' = Tail(pending) /\ UNCHANGED timer
         ELSE /\ TimerEnds(t, IF pending = <<>> THEN <<>> ELSE Tail(pending))
              /\ UNCHANGED <<request, shown>>
    /\ due' = (pending = <<>> /\ due)
    /\ UNCHANGED <<state, final, id, screen, then, closed, cut, failures>>

IntervalPasses ==
    /\ Settled /\ ~due /\ due' = TRUE
    /\ UNCHANGED <<state, final, shown, id, screen, pending, timer, task, then, request,
                   closed, cut, failures>>

(* Teams has applied a request; a message it posted has an id from now on. *)
Answer(p) ==
    LET r == request[p] IN
    /\ Settled /\ r # Idle
    /\ screen' = Applied(r)
    /\ IF r.at # 0 \/ (r.key = Stream /\ id[Stream] # 0) THEN UNCHANGED <<id, shown>>
       ELSE /\ id' = [id EXCEPT ![r.key] = Len(screen'[r.key])]
            /\ shown' = IF r.key = Stream /\ shown = 0 THEN r.version ELSE shown
    /\ request' = [request EXCEPT ![p] = Idle]
    /\ IF p = Session THEN UNCHANGED <<pending, timer, task>> ELSE TimerEnds(p, pending)
    /\ UNCHANGED <<state, final, due, then, closed, cut, failures>>

(* The service accepts a message without naming it: what it shows is known *)
(* and its id is not, so that the next paint posts another.                *)
AnswerUnnamed(p) ==
    LET r == request[p] IN
    /\ Settled /\ r # Idle /\ r.at = 0 /\ failures < MaxFailures
    /\ failures' = failures + 1
    /\ screen' = Applied(r)
    /\ shown' = IF r.key = Stream /\ shown = 0 THEN r.version ELSE shown
    /\ request' = [request EXCEPT ![p] = Idle]
    /\ IF p = Session THEN UNCHANGED <<pending, timer, task>> ELSE TimerEnds(p, pending)
    /\ UNCHANGED <<state, final, id, due, then, closed, cut>>

(* A request fails, applied or not: the pacer logs it and goes on. *)
Fail(p) ==
    /\ Settled /\ request[p] # Idle /\ failures < MaxFailures
    /\ failures' = failures + 1
    /\ screen' \in {screen, Applied(request[p])}
    /\ request' = [request EXCEPT ![p] = Idle]
    /\ IF p = Session THEN UNCHANGED <<pending, timer, task>> ELSE TimerEnds(p, pending)
    /\ UNCHANGED <<state, final, shown, id, due, then, closed, cut>>

Next ==
    \/ ChangeCard \/ AppendText \/ Finalize \/ Disable \/ SessionGoesOn \/ IntervalPasses
    \/ \E t \in Timers : TimerStarts(t) \/ CancelledTimerEnds(t) \/ TimerWakes(t)
    \/ \E p \in Painters : Answer(p) \/ AnswerUnnamed(p) \/ Fail(p)

(* Tasks run, time passes and requests are answered or fail; the session   *)
(* need not do anything.                                                   *)
Fairness ==
    /\ WF_vars(SessionGoesOn) /\ WF_vars(IntervalPasses)
    /\ \A t \in Timers : /\ WF_vars(TimerStarts(t)) /\ WF_vars(CancelledTimerEnds(t))
                         /\ WF_vars(TimerWakes(t))
    /\ \A p \in Painters : WF_vars(Answer(p) \/ AnswerUnnamed(p) \/ Fail(p))

Spec == Init /\ [][Next]_vars
FairSpec == Spec /\ Fairness

-----------------------------------------------------------------------------
(* What the known message of k shows; 0 when there is none. *)
Visible(k) == IF id[k] = 0 THEN 0 ELSE screen[k][id[k]]

(* The card and the answer are edited, never posted again, whichever of    *)
(* the session's task and the timer posted them.  (Not once a post failed  *)
(* or a flush cut it off, which may have been applied.)                    *)
OneMessage == (failures = 0 /\ ~cut) => \A k \in Keys : Len(screen[k]) <= 1

(* finalize leaves the whole answer in its message, whatever was painted   *)
(* or waited for the pacer before.                                         *)
AnswerShown ==
    (final /\ SessionMayAct /\ failures = 0 /\ ~cut) => Visible(Stream) = state[Stream]

(* "Session teardown must leave the card visibly final": after disable the *)
(* card shows the state without the Stop control, or a later one.          *)
CardFinal ==
    (closed # 0 /\ SessionMayAct /\ failures = 0 /\ ~cut) => Visible(Card) >= closed

(* What a session leaves behind: one card and one answer, both final. *)
FinalIsShown == OneMessage /\ AnswerShown /\ CardFinal

(* "Flush and stop. Returns the text that was shown": after finalize some  *)
(* message shows the whole answer.                                         *)
FinalTextWasShown ==
    (final /\ SessionMayAct /\ failures = 0) =>
        \E i \in DOMAIN screen[Stream] : screen[Stream][i] = state[Stream]

(* What the pacer holds back goes out, also when requests fail or a flush  *)
(* cancels the timer.                                                      *)
Waits(k) == \E i \in DOMAIN pending : pending[i] = k
EveryUpdateGoesOut == \A k \in Keys : Waits(k) ~> ~Waits(k)

(* Coalesced and reordered updates end with the card the session left.     *)
CardCatchesUp == <>[](Visible(Card) = state[Card] \/ failures > 0 \/ cut)
=======================================================================
