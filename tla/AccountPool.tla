-------------------------- MODULE AccountPool --------------------------
(***************************************************************************)
(* Which login serves a turn (claude_code_core/account_pool.py, the router *)
(* around it, and its callers: a Discord thread and a console conversation)*)
(*                                                                         *)
(* A session can be resumed only from the directory that holds its         *)
(* transcript; a turn that moves to another profile copies it first.       *)
(* Each database call and the copying let other threads' turns go on.      *)
(* Only the current session of a thread is modelled, on one backend.       *)
(***************************************************************************)
EXTENDS Integers, Sequences, SequencesExt, FiniteSets, FiniteSetsExt

CONSTANTS Threads,
          Pool,          \* the profiles, in the order of the pool file
          Ambient,       \* the profile that is the relay's own login
          Strategies,    \* of "priority", "sticky", "round_robin", "most_headroom"
          Assigns,       \* of "session", "turn"
          Retry,         \* retry_on_exhaustion
          Cooldown,      \* cooldown_seconds
          Resets,        \* times at which a rejection may say that it ends
          MaxTime, MaxTurns, MaxFailures  \* bounds: the clock, turns, failures

Profiles == ToSet(Pool)
None == "none"

ConstantsType ==
    /\ Pool \in Seq(Profiles) /\ \A i, j \in DOMAIN Pool : Pool[i] = Pool[j] => i = j
    /\ Ambient \in Profiles /\ None \notin Profiles \cup Threads
    /\ Retry \in BOOLEAN /\ Cooldown \in Nat /\ MaxTime \in Nat
    /\ Resets \subseteq 1..(MaxTime + Cooldown)
    /\ MaxTurns \in Nat /\ MaxFailures \in Nat

VARIABLES
    config,   \* the pool's strategy and assign
    now,      \* the clock
    blocked,  \* account_blocks: until when a profile is marked, 0 for never
    usage,    \* usage_stats: until when a rejected window of a profile lasts
    cursor,   \* account_pool_state: rr_next and the sticky profile
    lock,     \* the thread that holds _select_lock, or None
    seen,     \* of each thread: the marks and the cursor that plan_turn read
    pin,      \* account_threads: of each thread its profile, or None
    session,  \* whether the thread's record has a session
    kept,     \* of each thread and profile: its transcript is "none", "stale" or "full"
    step,     \* of each thread: "idle", "queued", "selecting", "moving", "pinning",
              \* "running", "opened" or "over"
    turn,     \* of each thread: the turn that is planned or runs
    last,     \* history: the profile that the rotation gave out last
    impaired, \* history: threads whose plan failed or whose transcript was not copied
    marks,    \* history: until when each profile was said to be exhausted
    turns, failures  \* counters of the bounds

router == <<blocked, usage, cursor, lock, seen>>
history == <<last, impaired, marks>>
vars == <<config, now, router, pin, session, kept, step, turn, history, turns, failures>>

Times == 0..(MaxTime + Cooldown)
Turn == [profile : Profiles \cup {None}, resume : BOOLEAN,
         try : {"first", "again", "unplanned"}, rejected : BOOLEAN, resets : Resets \cup {0}]
NoTurn == [profile |-> None, resume |-> FALSE, try |-> "first", rejected |-> FALSE, resets |-> 0]

TypeOK ==
    /\ now \in 0..MaxTime
    /\ blocked \in [Profiles -> Times] /\ usage \in [Profiles -> Times]
    /\ cursor.next \in 1..Len(Pool) /\ cursor.sticky \in Profiles \cup {None}
    /\ lock \in Threads \cup {None} /\ pin \in [Threads -> Profiles \cup {None}]
    /\ session \in [Threads -> BOOLEAN]
    /\ kept \in [Threads -> [Profiles -> {"none", "stale", "full"}]]
    /\ step \in [Threads -> {"idle", "queued", "selecting", "moving", "pinning",
                             "running", "opened", "over"}]
    /\ turn \in [Threads -> Turn]
    /\ \A t \in Threads : step[t] = "selecting" <=> lock = t
    /\ impaired \subseteq Threads /\ marks \in [Profiles -> Times]
    /\ turns \in 0..MaxTurns /\ failures \in 0..MaxFailures

Nothing == [until |-> [p \in Profiles |-> 0], cursor |-> [next |-> 1, sticky |-> None]]

Init ==
    /\ config \in [strategy : Strategies, assign : Assigns]
    /\ now = 0 /\ blocked = [p \in Profiles |-> 0] /\ usage = blocked
    /\ cursor = [next |-> 1, sticky |-> None] /\ lock = None
    /\ seen = [t \in Threads |-> Nothing]
    /\ pin = [t \in Threads |-> None]
    /\ \E old \in BOOLEAN :  \* a session from before the pool is in the relay's login
         /\ session = [t \in Threads |-> old]
         /\ kept = [t \in Threads |-> [p \in Profiles |->
                       IF old /\ p = Ambient THEN "full" ELSE "none"]]
    /\ step = [t \in Threads |-> "idle"] /\ turn = [t \in Threads |-> NoTurn]
    /\ last = None /\ impaired = {} /\ marks = [p \in Profiles |-> 0]
    /\ turns = 0 /\ failures = 0

-----------------------------------------------------------------------------
(* select_profile and its strategies. *)

Index(p) == CHOOSE i \in 1..Len(Pool) : Pool[i] = p
After(i) == (i % Len(Pool)) + 1

(* Of the profiles in S the first one in pool order from position i on.    *)
FirstFrom(i, S) ==
    CHOOSE p \in S : \A q \in S :
        (Index(p) - i + Len(Pool)) % Len(Pool) <= (Index(q) - i + Len(Pool)) % Len(Pool)

(* The picks a strategy may make, with the cursor it leaves.  Utilizations *)
(* are abstracted: most_headroom may find any profile the least used.      *)
Picks(available, c) ==
    CASE config.strategy = "priority" -> {[profile |-> FirstFrom(1, available), cursor |-> c]}
      [] config.strategy = "sticky" ->
           LET p == IF c.sticky \in available THEN c.sticky
                    ELSE FirstFrom(IF c.sticky = None THEN 1 ELSE After(Index(c.sticky)), available)
           IN {[profile |-> p, cursor |-> [c EXCEPT !.sticky = p]]}
      [] config.strategy = "round_robin" ->
           LET p == FirstFrom(c.next, available)
           IN {[profile |-> p, cursor |-> [c EXCEPT !.next = After(Index(p))]]}
      [] OTHER -> {[profile |-> p, cursor |-> c] : p \in available}

Soonest(until) ==
    CHOOSE p \in Profiles : \A q \in Profiles :
        \/ until[p] < until[q]
        \/ until[p] = until[q] /\ Index(p) <= Index(q)

Available(until) == {p \in Profiles : until[p] <= now}
Stays(until, current) == config.assign = "session" /\ current \in Available(until)
ByStrategy(until, current) == Available(until) # {} /\ ~Stays(until, current)

(* select_profile: the session's profile, the strategy's pick, or whichever *)
(* is free first.                                                           *)
Selections(until, c, current) ==
    IF Available(until) = {} THEN {[profile |-> Soonest(until), cursor |-> c]}
    ELSE IF Stays(until, current) THEN {[profile |-> current, cursor |-> c]}
    ELSE Picks(Available(until), c)

Until == [p \in Profiles |-> Max({blocked[p], usage[p]})]

(* Where the session of a thread is taken to be. *)
Home(t) == IF pin[t] # None THEN pin[t] ELSE Ambient
Current(t) == IF session[t] THEN Home(t) ELSE None

-----------------------------------------------------------------------------
(* plan_turn *)

(* A message of the thread; its session is known. *)
Begin(t) ==
    /\ step[t] = "idle" /\ turns < MaxTurns
    /\ turns' = turns + 1
    /\ step' = [step EXCEPT ![t] = "queued"]
    /\ turn' = [turn EXCEPT ![t] = [NoTurn EXCEPT !.resume = session[t]]]
    /\ UNCHANGED <<config, now, router, pin, session, kept, history, failures>>

(* Mutant: the lock is not awaited. *)
LookMutant(t) ==
    /\ step[t] = "queued"
    /\ seen' = [seen EXCEPT ![t] = [until |-> Until, cursor |-> cursor]]
    /\ step' = [step EXCEPT ![t] = "selecting"]
    /\ UNCHANGED <<config, now, blocked, usage, cursor, lock, pin, session, kept, turn, history,
                   turns, failures>>

(* Under _select_lock: usage, marks and cursor are read. *)
Look(t) ==
    /\ step[t] = "queued" /\ lock = None
    /\ lock' = t
    /\ seen' = [seen EXCEPT ![t] = [until |-> Until, cursor |-> cursor]]
    /\ step' = [step EXCEPT ![t] = "selecting"]
    /\ UNCHANGED <<config, now, blocked, usage, cursor, pin, session, kept, turn, history,
                   turns, failures>>

(* A profile is chosen and the cursor written. *)
Select(t) ==
    /\ step[t] = "selecting"
    /\ \E s \in Selections(seen[t].until, seen[t].cursor, Current(t)) :
         /\ turn' = [turn EXCEPT ![t].profile = s.profile]
         /\ cursor' = s.cursor
         /\ last' = IF ByStrategy(seen[t].until, Current(t)) THEN s.profile ELSE last
    /\ lock' = None /\ seen' = [seen EXCEPT ![t] = Nothing]
    /\ step' = [step EXCEPT ![t] = "moving"]
    /\ UNCHANGED <<config, now, blocked, usage, pin, session, kept, impaired, marks, turns, failures>>

Moves(t) == turn[t].resume /\ turn[t].profile # Home(t)

(* Mutant: a copy that is there is not overwritten. *)
CopyMutant(t) ==
    /\ step[t] = "moving"
    /\ step' = [step EXCEPT ![t] = "pinning"]
    /\ LET to == turn[t].profile  from == kept[t][Home(t)] IN
         IF ~Moves(t) THEN UNCHANGED <<kept, turn>>
         ELSE IF from = "none"
           THEN turn' = [turn EXCEPT ![t].resume = FALSE] /\ UNCHANGED kept
           ELSE /\ kept' = [kept EXCEPT ![t][to] = IF @ = "none" THEN from ELSE @]
                /\ UNCHANGED turn
    /\ UNCHANGED <<config, now, router, pin, session, history, turns, failures>>

(* copy_transcript, when the session moves; without a transcript the turn  *)
(* starts a fresh session with the text of the old one.                    *)
Copy(t) ==
    /\ step[t] = "moving"
    /\ step' = [step EXCEPT ![t] = "pinning"]
    /\ LET to == turn[t].profile  from == kept[t][Home(t)] IN
         IF ~Moves(t) THEN UNCHANGED <<kept, turn>>
         ELSE IF from = "none"
           THEN turn' = [turn EXCEPT ![t].resume = FALSE] /\ UNCHANGED kept
           ELSE kept' = [kept EXCEPT ![t][to] = from] /\ UNCHANGED turn
    /\ UNCHANGED <<config, now, router, pin, session, history, turns, failures>>

(* The copy fails and may leave part of the transcript. *)
CopyFails(t) ==
    /\ step[t] = "moving" /\ Moves(t) /\ kept[t][Home(t)] # "none" /\ failures < MaxFailures
    /\ step' = [step EXCEPT ![t] = "pinning"]
    /\ turn' = [turn EXCEPT ![t].resume = FALSE]
    /\ \E left \in {kept[t][turn[t].profile], "stale"} :
         kept' = [kept EXCEPT ![t][turn[t].profile] = left]
    /\ impaired' = impaired \cup {t}
    /\ failures' = failures + 1
    /\ UNCHANGED <<config, now, router, pin, session, last, marks, turns>>

SetPin(t) ==
    /\ step[t] = "pinning"
    /\ pin' = [pin EXCEPT ![t] = turn[t].profile]
    /\ step' = [step EXCEPT ![t] = "running"]
    /\ UNCHANGED <<config, now, router, session, kept, turn, history, turns, failures>>

(* "Never lose the user's turn to pool bookkeeping": after a database      *)
(* error the turn runs in the relay's own login, and is not recorded.      *)
PlanFails(t) ==
    /\ step[t] \in {"queued", "selecting", "pinning"} /\ failures < MaxFailures
    /\ lock' = IF lock = t THEN None ELSE lock
    /\ seen' = [seen EXCEPT ![t] = Nothing]
    /\ turn' = [turn EXCEPT ![t].profile = Ambient, ![t].resume = session[t], ![t].try = "unplanned"]
    /\ impaired' = IF Home(t) # Ambient THEN impaired \cup {t} ELSE impaired
    /\ step' = [step EXCEPT ![t] = "running"]
    /\ failures' = failures + 1
    /\ UNCHANGED <<config, now, blocked, usage, cursor, pin, session, kept, last, marks, turns>>

-----------------------------------------------------------------------------
(* The turn *)

(* The agent opens the session, which is recorded, and writes to it.       *)
Open(t) ==
    LET p == turn[t].profile IN
    /\ step[t] = "running" /\ (turn[t].resume => kept[t][p] # "none")
    /\ step' = [step EXCEPT ![t] = "opened"]
    /\ session' = [session EXCEPT ![t] = TRUE]
    /\ kept' = [kept EXCEPT ![t] = [q \in Profiles |->
                  IF ~turn[t].resume THEN IF q = p THEN "full" ELSE "none"
                  ELSE IF q # p /\ kept[t][q] = "full" THEN "stale" ELSE kept[t][q]]]
    /\ impaired' = IF turn[t].resume \/ p # Home(t) THEN impaired ELSE impaired \ {t}
    /\ UNCHANGED <<config, now, router, pin, turn, last, marks, turns, failures>>

(* The turn ends without being rejected, or before a session was opened:   *)
(* the session is not there, or the agent fails.                           *)
Ends(t) ==
    /\ \/ step[t] = "opened"
       \/ step[t] = "running" /\ turn[t].resume /\ kept[t][turn[t].profile] = "none"
       \/ step[t] = "running" /\ failures < MaxFailures
    /\ failures' = IF step[t] = "running" /\ failures < MaxFailures THEN failures + 1 ELSE failures
    /\ step' = [step EXCEPT ![t] = "over"]
    /\ UNCHANGED <<config, now, router, pin, session, kept, turn, history, turns>>

(* It is rejected for quota; a rate_limit_event writes the window's row.   *)
Rejected(t) ==
    /\ step[t] \in {"running", "opened"}
    /\ \E event \in BOOLEAN, r \in {0} \cup {u \in Resets : u > now} :
         /\ event => r # 0
         /\ turn' = [turn EXCEPT ![t].rejected = TRUE, ![t].resets = r]
         /\ usage' = [usage EXCEPT ![turn[t].profile] = IF event THEN Max({@, r}) ELSE @]
    /\ step' = [step EXCEPT ![t] = "over"]
    /\ UNCHANGED <<config, now, blocked, cursor, lock, seen, pin, session, kept, history, turns,
                   failures>>

(* finish_turn: the profile is marked; with Retry the message is planned   *)
(* once more when another profile is free.                                 *)
Finish(t) ==
    LET p == turn[t].profile
        until == IF turn[t].resets > now THEN turn[t].resets ELSE now + Cooldown
        marked == [blocked EXCEPT ![p] = until]
        then == [q \in Profiles |-> Max({marked[q], usage[q]})]
        counts == turn[t].rejected /\ turn[t].try # "unplanned"
        retries == /\ counts /\ Retry /\ turn[t].try = "first" /\ Available(then) # {}
                   /\ \E s \in Selections(then, cursor, None) : s.profile # p
    IN /\ step[t] = "over"
       /\ blocked' = IF counts THEN marked ELSE blocked
       /\ marks' = IF counts THEN [marks EXCEPT ![p] = Max({@, until})] ELSE marks
       /\ step' = [step EXCEPT ![t] = IF retries THEN "queued" ELSE "idle"]
       /\ turn' = [turn EXCEPT ![t] =
            IF retries THEN [NoTurn EXCEPT !.resume = session[t], !.try = "again"] ELSE NoTurn]
       /\ UNCHANGED <<config, now, usage, cursor, lock, seen, pin, session, kept, last, impaired,
                      turns, failures>>

Pass ==
    /\ now < MaxTime /\ now' = now + 1
    /\ UNCHANGED <<config, router, pin, session, kept, step, turn, history, turns, failures>>

(* The database and the profiles' directories outlive the process. *)
Crash ==
    /\ failures < MaxFailures /\ failures' = failures + 1
    /\ lock' = None /\ seen' = [t \in Threads |-> Nothing]
    /\ step' = [t \in Threads |-> "idle"] /\ turn' = [t \in Threads |-> NoTurn]
    /\ UNCHANGED <<config, now, blocked, usage, cursor, pin, session, kept, history, turns>>

Next ==
    \/ \E t \in Threads :
         \/ Begin(t) \/ Look(t) \/ Select(t) \/ Copy(t) \/ CopyFails(t) \/ SetPin(t)
         \/ PlanFails(t) \/ Open(t) \/ Ends(t) \/ Rejected(t) \/ Finish(t)
    \/ Pass \/ Crash

Spec == Init /\ [][Next]_vars

-----------------------------------------------------------------------------
(* "a thread that moves A -> B -> A resumes on A with the turns it took on *)
(* B": a turn that resumes finds every earlier turn, unless a plan failed  *)
(* or a copy did before a fresh session could open.                        *)
ResumesWhole ==
    \A t \in Threads \ impaired :
        (step[t] = "running" /\ turn[t].resume) => kept[t][turn[t].profile] = "full"

(* "two threads starting together would both take the same round-robin     *)
(* slot": the rotation never gives out a profile twice in a row while      *)
(* another is free.                                                        *)
RotationTurns ==
    [][\A t \in Threads :
         (/\ config.strategy = "round_robin" /\ Len(Pool) > 1
          /\ step[t] = "selecting" /\ step'[t] = "moving"
          /\ ByStrategy(seen[t].until, Current(t))
          /\ Available(seen[t].until) = Profiles) => turn'[t].profile # last]_vars

(* "On rejection the profile is marked exhausted until the window's reset  *)
(* time (or cooldown_seconds if none was reported)" (docs/account-pools.md *)
(* ): no later rejection takes the mark back.                              *)
MarkLasts == \A p \in Profiles : marks[p] > now => Until[p] >= marks[p]
========================================================================
