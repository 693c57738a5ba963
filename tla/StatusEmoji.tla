-------------------------- MODULE StatusEmoji --------------------------
(***************************************************************************)
(* The reaction on a user's message that shows what the agent does         *)
(* (claude_discord/discord_ui/status.py).  A new status cancels the task   *)
(* that was to show the one before, also in the middle of its requests.    *)
(* The event processor and the stall monitor set statuses.                 *)
(***************************************************************************)
EXTENDS Integers, FiniteSets

CONSTANTS Emojis,      \* the statuses of a running agent
          Done         \* EMOJI_DONE or EMOJI_ERROR

None == "none"
All == Emojis \cup {Done}
ConstantsType == None \notin All

VARIABLES
    target, current,  \* _target_emoji, _current_emoji
    task,             \* _debounce_task: "none", "sleeping", "removing" or "adding"
    reactions,        \* the emojis on the message
    phase,            \* "live", "holding" (set_done sleeps), "cleaning" or "gone"
    lost              \* history: a request was cancelled or failed

vars == <<target, current, task, reactions, phase, lost>>

TypeOK ==
    /\ target \in All \cup {None} /\ current \in All \cup {None}
    /\ task \in {"none", "sleeping", "removing", "adding"}
    /\ reactions \subseteq All
    /\ phase \in {"live", "holding", "cleaning", "gone"}
    /\ lost \in {"no", "cancelled", "failed"}

Init ==
    /\ target = None /\ current = None /\ task = "none" /\ reactions = {}
    /\ phase = "live" /\ lost = "no"

-----------------------------------------------------------------------------
(* What the request of the task does to the reactions. *)
Applied == CASE task = "removing" -> reactions \ {current}
             [] task = "adding" -> reactions \cup {target}
             [] OTHER -> reactions

(* A cancelled request was applied or never is. *)
Cancel(next) ==
    /\ task' = next
    /\ IF task \in {"removing", "adding"}
         THEN reactions' \in {reactions, Applied} /\ lost' = "cancelled"
         ELSE UNCHANGED <<reactions, lost>>

(* _set_status; set_done and set_error then wait. *)
SetStatus(e) ==
    /\ phase \in {"live", "gone"}
    /\ target' = e
    /\ Cancel("sleeping")
    /\ phase' = IF e = Done THEN "holding" ELSE "live"
    /\ UNCHANGED current

(* Mutant: the emoji before is left. *)
WakesMutant ==
    /\ task = "sleeping"
    /\ task' = IF target = current THEN "none" ELSE "adding"
    /\ UNCHANGED <<target, current, reactions, phase, lost>>

(* _apply_debounced wakes. *)
Wakes ==
    /\ task = "sleeping"
    /\ task' = IF target = current THEN "none"
               ELSE IF current # None THEN "removing" ELSE "adding"
    /\ UNCHANGED <<target, current, reactions, phase, lost>>

(* Its request is answered, or fails, which is ignored. *)
Answered(ok) ==
    /\ task \in {"removing", "adding"}
    /\ reactions' = IF ok THEN Applied ELSE reactions
    /\ lost' = IF ok THEN lost ELSE "failed"
    /\ task' = IF task = "removing" THEN "adding" ELSE "none"
    /\ current' = IF task = "adding" THEN target ELSE current
    /\ UNCHANGED <<target, phase>>

(* cleanup, when the hold is over (it is longer than the debounce) or when *)
(* the run ends.                                                           *)
Cleanup ==
    /\ phase \in {"live", "holding"} /\ (phase = "holding" => task # "sleeping")
    /\ Cancel("none")
    /\ phase' = IF current # None THEN "cleaning" ELSE "gone"
    /\ UNCHANGED <<target, current>>

CleanupAnswered(ok) ==
    /\ phase = "cleaning" /\ phase' = "gone"
    /\ reactions' = IF ok THEN reactions \ {current} ELSE reactions
    /\ lost' = IF ok THEN lost ELSE "failed"
    /\ current' = None
    /\ UNCHANGED <<target, task>>

Next ==
    \/ \E e \in All : SetStatus(e)
    \/ Wakes \/ Cleanup
    \/ \E ok \in BOOLEAN : Answered(ok) \/ CleanupAnswered(ok)

Fairness == WF_vars(Wakes) /\ WF_vars(\E ok \in BOOLEAN : Answered(ok))

Spec == Init /\ [][Next]_vars
FairSpec == Spec /\ Fairness

-----------------------------------------------------------------------------
(* "Only one status emoji is shown at a time", and "remove all status      *)
(* reactions": none is left when the run is over (while no request is      *)
(* lost).                                                                  *)
OneEmoji ==
    lost = "no" => Cardinality(reactions) <= 1 /\ (phase = "gone" => reactions = {})

(* The same whatever the debounce cancels.                                 *)
OnlyOneEmoji == lost # "failed" => Cardinality(reactions) <= 1

(* A status that stays is shown.                                           *)
StatusShown ==
    \A e \in All : (phase = "live" /\ target = e)
        ~> (phase # "live" \/ target # e \/ reactions = {e} \/ lost # "no")
=======================================================================
