------------------------- MODULE RelayPromise -------------------------
(***************************************************************************)
(* What the Teams relay promises of an activity (the contract that         *)
(* claude_teams/relay/queue.py opens with): it is at-least-once.  An       *)
(* activity Teams offers is handled, however often it has to be delivered  *)
(* again, unless nothing could ever read it or it was delivered more often *)
(* than a poison message may be.  TeamsRelay implements this.              *)
(***************************************************************************)
EXTENDS Integers

CONSTANTS Activities, Hopeless,  \* Hopeless \subseteq Activities: oversized or unreadable
          MaxDeliveries          \* deliveries before an activity is poison

VARIABLES fate,        \* of each activity: "absent", "held", "handled" or "dropped"
          deliveries   \* how often a copy of it was handed out at most
vars == <<fate, deliveries>>

Init == /\ fate = [a \in Activities |-> "absent"]
        /\ deliveries = [a \in Activities |-> 0]

Hold(a) == /\ fate[a] = "absent" /\ fate' = [fate EXCEPT ![a] = "held"]
           /\ UNCHANGED deliveries

Deliver == /\ deliveries' \in [Activities -> Nat]
           /\ \A a \in Activities : deliveries'[a] \in {deliveries[a], deliveries[a] + 1}
           /\ UNCHANGED fate

Handle(a) == /\ fate[a] \in {"absent", "held"} /\ a \notin Hopeless
             /\ fate' = [fate EXCEPT ![a] = "handled"]
             /\ UNCHANGED deliveries

Drop(a) == /\ fate[a] \in {"absent", "held"}
           /\ a \in Hopeless \/ deliveries[a] > MaxDeliveries
           /\ fate' = [fate EXCEPT ![a] = "dropped"]
           /\ UNCHANGED deliveries

Settle(a) == Handle(a) \/ Drop(a)

Next == Deliver \/ \E a \in Activities : Hold(a) \/ Settle(a)

Settles == \A a \in Activities : fate[a] = "held" ~> fate[a] \in {"handled", "dropped"}

Spec == Init /\ [][Next]_vars /\ Settles
=======================================================================
