------------------------------ MODULE Frontends ------------------------------
(* How messages get in: messages sent mid-turn, and the Teams relay.  The   *)
(* two modules share no variable: each behaviour exercises one, the other   *)
(* stays as it starts, where no step that is owed is enabled.               *)
EXTENDS LiveInput

CONSTANTS Activities, Oversized, Unreadable, MaxDeliveries, SeenCapacity, MaxBatch,
          Faults, MaxFaults   \* TeamsRelay

VARIABLES part, teams, rows, up, batch, step, seen, faults, handled, done, tried

relayVars == <<teams, rows, up, batch, step, seen, faults, handled, done, tried>>

Relay == INSTANCE TeamsRelay

ASSUME RelayConstants == Relay!ConstantsType

AllInit == part \in {"input", "relay"} /\ Init /\ Relay!Init
AllNext ==
    \/ part = "input" /\ Next /\ UNCHANGED <<part, relayVars>>
    \/ part = "relay" /\ Relay!Next /\ UNCHANGED <<part, vars>>
AllSpec ==
    /\ AllInit /\ [][AllNext]_<<part, vars, relayVars>>
    /\ Fairness /\ Relay!Fairness

TypesOK == TypeOK /\ Relay!TypeOK
NotHandledTwice == Relay!NotHandledTwice
KeepsPromise == Relay!KeepsPromise
==============================================================================
