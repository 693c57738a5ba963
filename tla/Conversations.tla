---------------------------- MODULE Conversations ----------------------------
(* A thread's runs and the waits of conversations.  The two modules share   *)
(* no variable: each behaviour exercises one part, the other stays as it    *)
(* starts, where no step that is owed is enabled.                           *)
EXTENDS ThreadRuns

CONSTANTS Discord, Console, Probes, Rules, MaxRows, MaxCrashes, MaxWaitsPerThread,
          MaxActiveWaits, MaxConsecutiveErrors, MaxDeliveryFailures   \* of Waits

VARIABLES part, status, thread, argv, errors, dfail, outcome, expired, up, checking,
          verdict, resume, pending, turn, gone, crashes, woken, cut, promised

waitVars == <<status, thread, argv, errors, dfail, outcome, expired, up, checking,
              verdict, resume, pending, turn, gone, crashes, woken, cut, promised>>

Waits == INSTANCE Waits

ASSUME WaitConstants ==
    /\ Discord \cap Console = {} /\ Discord \cup Console # {} /\ Probes # {}
    /\ Rules \in [Probes -> (SUBSET {"exit_codes", "done_values"}) \ {{}}]
    /\ MaxRows \in Nat /\ MaxCrashes \in Nat
    /\ MaxWaitsPerThread \in Nat /\ MaxActiveWaits \in Nat
    /\ MaxConsecutiveErrors \in Nat \ {0} /\ MaxDeliveryFailures \in Nat \ {0}

\* Every probe is done when its output says so.
DoneValues == [p \in Probes |-> {"done_values"}]

AllInit == part \in {"runs", "waits"} /\ Init /\ Waits!Init
AllNext == \/ part = "runs" /\ Next /\ UNCHANGED <<part, waitVars>>
           \/ part = "waits" /\ Waits!Next /\ UNCHANGED <<part, vars>>
AllSpec == AllInit /\ [][AllNext]_<<part, vars, waitVars>>
AllFairSpec == AllSpec /\ Waits!Fairness

ResumedOnce == Waits!ResumedOnce
FinishedDiscordWaitHasRun == Waits!FinishedDiscordWaitHasRun
EveryWaitEnds == Waits!EveryWaitEnds
=============================================================================
