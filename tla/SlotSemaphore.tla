---------------------------- MODULE SlotSemaphore ----------------------------
(***************************************************************************)
(* What the session slots (claude_discord/session_slots.py) promise their  *)
(* callers: "one limit, exactly as the semaphore did".  A counting         *)
(* semaphore with a limit that changes and a gate that a reserved restart  *)
(* closes.  Who of those that ask is admitted is left open: priorities,    *)
(* arrival order and pauses are SessionSlots', which implements this.      *)
(***************************************************************************)
EXTENDS Integers, FiniteSets

CONSTANTS Callers, MaxLimit

VARIABLES asking,   \* the callers that wait for a slot
          holders,  \* the callers that have one
          limit, closed
vars == <<asking, holders, limit, closed>>

Init == /\ asking = {} /\ holders = {}
        /\ limit \in 1..MaxLimit /\ closed = FALSE

(* Of those that ask, w, as many get a slot as the limit leaves beside the *)
(* holders h: not one more, and not one fewer.                             *)
Admit(w, h) ==
    \E new \in SUBSET w :
        /\ asking' = w \ new /\ holders' = h \cup new
        /\ new # {} => ~closed' /\ Cardinality(holders') <= limit'
        /\ closed' \/ asking' = {} \/ Cardinality(holders') >= limit'

Ask(r) == /\ r \notin asking \cup holders
          /\ Admit(asking \cup {r}, holders) /\ UNCHANGED <<limit, closed>>

(* A cancelled caller leaves with nothing, *)
GiveUp(r) == /\ r \in asking
             /\ asking' = asking \ {r} /\ UNCHANGED <<holders, limit, closed>>

(* one that has been admitted by then hands its slot on.                   *)
GiveBack(r) == /\ r \in holders
               /\ Admit(asking, holders \ {r}) /\ UNCHANGED <<limit, closed>>

(* A lower limit takes no slot away, a higher one is used at once. *)
SetLimit(v) == limit' = v /\ Admit(asking, holders) /\ UNCHANGED closed

Close == closed' = TRUE /\ UNCHANGED <<asking, holders, limit>>
Open == closed' = FALSE /\ Admit(asking, holders) /\ UNCHANGED limit

Next == \/ Close \/ Open
        \/ \E v \in 1..MaxLimit : SetLimit(v)
        \/ \E r \in Callers : Ask(r) \/ GiveUp(r) \/ GiveBack(r)

Spec == Init /\ [][Next]_vars
===============================================================================
