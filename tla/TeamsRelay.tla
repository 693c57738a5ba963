-------------------------- MODULE TeamsRelay --------------------------
(***************************************************************************)
(* The Teams relay (claude_teams/relay): Teams posts an activity to the    *)
(* receiver, which pushes it to a storage queue; the puller of the session *)
(* host takes batches under a lease and acknowledges each item once it is  *)
(* handled.  Teams offers an activity again when the receiver answers 503. *)
(* A copy is what one push stored; a copy's pop receipt is its dequeue     *)
(* count, which every delivery changes.                                    *)
(***************************************************************************)
EXTENDS Integers, Sequences, FiniteSets

CONSTANTS Activities,
          Oversized, Unreadable, \* activities no envelope holds, or no reader decodes
          MaxDeliveries,         \* max_deliveries of the puller
          SeenCapacity,          \* seen_capacity of the puller
          MaxBatch,              \* max_items of a pull
          Faults,                \* what may go wrong: "push", "pull", "ack" of the queue,
                                 \* "stop" of the host
          MaxFaults              \* bound: how often

ConstantsType == /\ IsFiniteSet(Activities)
                 /\ MaxDeliveries \in Nat /\ SeenCapacity \in Nat
                 /\ MaxBatch \in Nat /\ MaxFaults \in Nat

(* Each second copy of an activity is the fault of one lost answer. *)
Copies == Activities \X (0..MaxFaults)

VARIABLES
    teams,     \* of each activity: "unsent", "posting" (not answered 200 yet), "answered"
    rows,      \* of each copy: where it is ("none", "visible", "leased", "gone") and
               \* its dequeue count
    up,        \* whether the puller runs
    batch,     \* the items <<copy, receipt>> of the last pull that are left
    step,      \* what the puller does with the first: "idle", "handling", "acking"
    seen,      \* _seen, oldest first
    faults,    \* counter of the bound
    handled,   \* history: activities handled by this process, in order
    done,      \* history: activities ever handled
    tried      \* history: activities the handler was called for

vars == <<teams, rows, up, batch, step, seen, faults, handled, done, tried>>

MaxCount == MaxDeliveries + 1 + MaxFaults

TypeOK ==
    /\ teams \in [Activities -> {"unsent", "posting", "answered"}]
    /\ rows \in [Copies -> [at : {"none", "visible", "leased", "gone"}, count : 0..MaxCount]]
    /\ up \in BOOLEAN
    /\ Len(batch) <= MaxBatch /\ \A i \in DOMAIN batch : batch[i] \in Copies \X (1..MaxCount)
    /\ step \in {"idle", "handling", "acking"} /\ (batch = <<>> => step = "idle")
    /\ seen \in Seq(Activities) /\ Len(seen) <= SeenCapacity
    /\ faults \in 0..MaxFaults
    /\ handled \in Seq(Activities) /\ done \subseteq tried /\ tried \subseteq Activities

Init ==
    /\ teams = [a \in Activities |-> "unsent"]
    /\ rows = [c \in Copies |-> [at |-> "none", count |-> 0]]
    /\ up = TRUE /\ batch = <<>> /\ step = "idle" /\ seen = <<>>
    /\ faults = 0 /\ handled = <<>> /\ done = {} /\ tried = {}

-----------------------------------------------------------------------------
Fault(f) == f \in Faults /\ faults < MaxFaults /\ faults' = faults + 1
puller == <<up, batch, step, seen, handled, done, tried>>

Stored(a) ==
    \E n \in 0..MaxFaults :
        /\ rows[<<a, n>>].at = "none" /\ \A k \in 0..(n - 1) : rows[<<a, k>>].at # "none"
        /\ rows' = [rows EXCEPT ![<<a, n>>].at = "visible"]

(* A user writes. *)
Offer(a) ==
    /\ teams[a] = "unsent"
    /\ teams' = [teams EXCEPT ![a] = "posting"]
    /\ UNCHANGED <<rows, faults, puller>>

(* The push succeeds, or the envelope is too large and is dropped: Teams   *)
(* is answered 200.                                                        *)
Receive(a) ==
    /\ teams[a] = "posting"
    /\ teams' = [teams EXCEPT ![a] = "answered"]
    /\ IF a \in Oversized THEN UNCHANGED rows ELSE Stored(a)
    /\ UNCHANGED <<faults, puller>>

(* Mutant: a failed push is answered like an oversized one. *)
ReceiveFailsMutant(a) ==
    /\ teams[a] = "posting" /\ a \notin Oversized /\ Fault("push")
    /\ Stored(a) \/ UNCHANGED rows
    /\ teams' = [teams EXCEPT ![a] = "answered"]
    /\ UNCHANGED puller

(* The push raises, before or after the queue stored it: 503, and Teams    *)
(* posts the activity again.                                               *)
ReceiveFails(a) ==
    /\ teams[a] = "posting" /\ a \notin Oversized /\ Fault("push")
    /\ Stored(a) \/ UNCHANGED rows
    /\ UNCHANGED <<teams, puller>>

LeaseEnds(c) ==
    /\ rows[c].at = "leased"
    /\ rows' = [rows EXCEPT ![c].at = "visible"]
    /\ UNCHANGED <<teams, faults, puller>>

-----------------------------------------------------------------------------
Leased(items) ==
    [c \in Copies |-> IF c \in items THEN [at |-> "leased", count |-> rows[c].count + 1]
                      ELSE rows[c]]

Visible == {c \in Copies : rows[c].at = "visible"}
(* The batches of n visible copies; the queue promises no order. *)
Batches(n) == {items \in [1..n -> Visible] : \A i, j \in 1..n : items[i] = items[j] => i = j}

(* One round of run: the batch is handled before the next pull. *)
Pull ==
    /\ up /\ batch = <<>> /\ Visible # {}
    /\ \E items \in Batches(IF Cardinality(Visible) < MaxBatch THEN Cardinality(Visible)
                            ELSE MaxBatch) :
          /\ rows' = Leased({items[i] : i \in DOMAIN items})
          /\ batch' = [i \in DOMAIN items |-> <<items[i], rows[items[i]].count + 1>>]
    /\ UNCHANGED <<teams, faults, up, step, seen, handled, done, tried>>

(* The queue handed the items out but its answer was lost. *)
PullFails ==
    /\ up /\ batch = <<>> /\ Fault("pull")
    /\ \E c \in Visible : rows' = Leased({c})
    /\ UNCHANGED <<teams, puller>>

Current == batch[1][1]
Receipt == batch[1][2]
Activity == Current[1]
InSeen == \E i \in DOMAIN seen : seen[i] = Activity

(* handle_one: what cannot be read, was handled before or came too often   *)
(* is only acknowledged.                                                   *)
Begin ==
    /\ up /\ batch # <<>> /\ step = "idle"
    /\ IF Activity \in Unreadable \/ InSeen \/ Receipt > MaxDeliveries
         THEN step' = "acking" /\ UNCHANGED tried
         ELSE step' = "handling" /\ tried' = tried \cup {Activity}
    /\ UNCHANGED <<teams, rows, faults, up, batch, seen, handled, done>>

HandlerRaises ==
    /\ up /\ step = "handling"
    /\ step' = "idle" /\ batch' = Tail(batch)
    /\ UNCHANGED <<teams, rows, faults, up, seen, handled, done, tried>>

(* Mutant: the memory has no bound. *)
HandlerReturnsKeepsMutant ==
    /\ up /\ step = "handling"
    /\ step' = "acking"
    /\ handled' = Append(handled, Activity) /\ done' = done \cup {Activity}
    /\ seen' = Append(seen, Activity)
    /\ UNCHANGED <<teams, rows, faults, up, batch, tried>>

(* Mutant: the newest entry is forgotten. *)
HandlerReturnsMutant ==
    /\ up /\ step = "handling"
    /\ step' = "acking"
    /\ handled' = Append(handled, Activity) /\ done' = done \cup {Activity}
    /\ seen' = IF Len(seen) < SeenCapacity THEN Append(seen, Activity) ELSE seen
    /\ UNCHANGED <<teams, rows, faults, up, batch, tried>>

(* The handler returns and the activity is remembered. *)
HandlerReturns ==
    /\ up /\ step = "handling"
    /\ step' = "acking"
    /\ handled' = Append(handled, Activity) /\ done' = done \cup {Activity}
    /\ seen' = LET s == Append(seen, Activity)
               IN IF Len(s) > SeenCapacity THEN Tail(s) ELSE s
    /\ UNCHANGED <<teams, rows, faults, up, batch, tried>>

(* A copy that was delivered again has another receipt: 404, which is fine. *)
Ack ==
    /\ up /\ step = "acking"
    /\ step' = "idle" /\ batch' = Tail(batch)
    /\ rows' = IF rows[Current].count = Receipt THEN [rows EXCEPT ![Current].at = "gone"]
               ELSE rows
    /\ UNCHANGED <<teams, faults, up, seen, handled, done, tried>>

AckFails ==
    /\ up /\ step = "acking" /\ Fault("ack")
    /\ step' = "idle" /\ batch' = Tail(batch)
    /\ UNCHANGED <<teams, rows, up, seen, handled, done, tried>>

(* close in any of these steps, or the host dies. *)
Stop ==
    /\ up /\ Fault("stop")
    /\ up' = FALSE /\ batch' = <<>> /\ step' = "idle" /\ seen' = <<>> /\ handled' = <<>>
    /\ UNCHANGED <<teams, rows, done, tried>>

Start ==
    /\ ~up /\ up' = TRUE
    /\ UNCHANGED <<teams, rows, faults, batch, step, seen, handled, done, tried>>

Next ==
    \/ \E a \in Activities : Offer(a) \/ Receive(a) \/ ReceiveFails(a)
    \/ \E c \in Copies : LeaseEnds(c)
    \/ Pull \/ PullFails \/ Begin \/ HandlerRaises \/ HandlerReturns \/ Ack \/ AckFails
    \/ Stop \/ Start

(* Teams posts again until it is answered, leases end, the puller goes on  *)
(* and the supervisor starts the host again.                               *)
Fairness ==
    /\ \A a \in Activities : WF_vars(Receive(a))
    /\ \A c \in Copies : WF_vars(LeaseEnds(c))
    /\ WF_vars(Pull) /\ WF_vars(Begin) /\ WF_vars(HandlerRaises \/ HandlerReturns)
    /\ WF_vars(Ack) /\ WF_vars(Start)

Spec == Init /\ [][Next]_vars
FairSpec == Spec /\ Fairness

-----------------------------------------------------------------------------
CopiesOf(a) == {c \in Copies : c[1] = a}
Deliveries == [a \in Activities |->
                 CHOOSE n \in 0..MaxCount :
                    /\ \E c \in CopiesOf(a) : rows[c].count = n
                    /\ \A c \in CopiesOf(a) : rows[c].count <= n]
Fate == [a \in Activities |->
           CASE a \in done -> "handled"
             [] a \notin done /\ teams[a] # "answered" -> "absent"
             [] a \notin done /\ teams[a] = "answered"
                  /\ (\E c \in CopiesOf(a) : rows[c].at \in {"visible", "leased"}) -> "held"
             [] OTHER -> "dropped"]

Promise == INSTANCE RelayPromise
             WITH Hopeless <- Oversized \cup Unreadable, fate <- Fate, deliveries <- Deliveries

(* The relay keeps its promise: an activity Teams has been answered for is *)
(* handled, or it is hopeless, or it was delivered too often.              *)
KeepsPromise == Promise!Spec

(* "The host must be able to see one twice without acting twice": one      *)
(* process handles an activity again only when SeenCapacity others came in *)
(* between and pushed it out of its memory.                                *)
NotHandledTwice ==
    \A i, j \in DOMAIN handled :
        i < j /\ handled[i] = handled[j]
            => Cardinality({handled[k] : k \in (i + 1)..(j - 1)} \ {handled[i]}) >= SeenCapacity

(* "A shutdown must not silently consume a user's message": an activity is *)
(* not given up before the handler was called for it once.                 *)
TriedBeforeGivenUp ==
    \A a \in Activities \ (Oversized \cup Unreadable) :
        Fate[a] = "dropped" => a \in tried
=======================================================================
