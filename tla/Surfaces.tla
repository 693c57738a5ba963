------------------------------- MODULE Surfaces -------------------------------
(* What users see and press, and what runs on a clock: the Teams surface     *)
(* with its prompts, the status emoji, scheduled tasks, upgrades with their  *)
(* approval.  No two modules share a variable: each behaviour exercises one, *)
(* the others stay as they start, where no step that is owed is enabled.     *)
EXTENDS TeamsSurface

CONSTANTS
    Questions, SkipPermissions,                      \* Prompts
    Emojis, Finished,                                \* StatusEmoji
    Tasks, OneShots, MaxToggles, MaxFaults,          \* Scheduler
    Upgrades, Slash, Sessions, Gates,                \* AutoUpgrade
    MaxPolls, MaxRefusals, MaxSessions, MaxStops

VARIABLES
    part,
    prompt, live, future, up, injected, recorded,
    target, current, debounce, reactions, phase, lost,
    row, past, running, loop, batch, runs, closing, executed, broken, early, toggles, faults,
    host, stage, gate, asked, listens, approved, reacted, snapshot, toMark, polls, sessions,
    rows, toClose, since, unmarked, clean, begun, refused, stops

promptVars == <<prompt, live, future, up, injected, recorded>>
emojiVars == <<target, current, debounce, reactions, phase, lost>>
taskVars == <<row, past, running, loop, batch, runs, closing, executed, broken, early,
              toggles, faults>>
upgradeVars == <<host, stage, gate, asked, listens, approved, reacted, snapshot, toMark,
                 polls, sessions, rows, toClose, since, unmarked, clean, begun, refused, stops>>

Prompt == INSTANCE Prompts WITH Requests <- Questions
Emoji == INSTANCE StatusEmoji WITH task <- debounce, Done <- Finished
Scheduled == INSTANCE Scheduler WITH due <- past
Upgrading == INSTANCE AutoUpgrade
               WITH up <- host, prompt <- asked, faults <- refused,
                    Requests <- Upgrades, Threads <- Sessions, MaxFaults <- MaxRefusals

ASSUME SurfacesConstants ==
    Emoji!ConstantsType /\ Scheduled!ConstantsType /\ Upgrading!ConstantsType

AllInit ==
    /\ part \in {"surface", "prompts", "emoji", "scheduler", "upgrade"}
    /\ Init /\ Prompt!Init /\ Emoji!Init /\ Scheduled!Init /\ Upgrading!Init
AllNext ==
    /\ UNCHANGED part
    /\ \/ part = "surface" /\ Next
          /\ UNCHANGED <<promptVars, emojiVars, taskVars, upgradeVars>>
       \/ part = "prompts" /\ Prompt!Next
          /\ UNCHANGED <<vars, emojiVars, taskVars, upgradeVars>>
       \/ part = "emoji" /\ Emoji!Next
          /\ UNCHANGED <<vars, promptVars, taskVars, upgradeVars>>
       \/ part = "scheduler" /\ Scheduled!Next
          /\ UNCHANGED <<vars, promptVars, emojiVars, upgradeVars>>
       \/ part = "upgrade" /\ Upgrading!Next
          /\ UNCHANGED <<vars, promptVars, emojiVars, taskVars>>
AllSpec ==
    /\ AllInit /\ [][AllNext]_<<part, vars, promptVars, emojiVars, taskVars, upgradeVars>>
    /\ Fairness /\ Prompt!Fairness /\ Emoji!Fairness /\ Scheduled!Fairness

TypesOK == TypeOK /\ Prompt!TypeOK /\ Emoji!TypeOK /\ Scheduled!TypeOK
           /\ Upgrading!TypeOK
OneAnswer == Prompt!OneAnswer
LiveHasTask == Prompt!LiveHasTask
EveryRequestAnswered == Prompt!EveryRequestAnswered
OneEmoji == Emoji!OneEmoji
StatusShown == Emoji!StatusShown
NoDoubleRun == Scheduled!NoDoubleRun
DueRuns == Scheduled!DueRuns
OneShotExecutes == Scheduled!OneShotExecutes
CutOffIsMarked == Upgrading!CutOffIsMarked

\* What does not hold (MCSurfacesKnown.cfg).
RecordedIsInjected == Prompt!RecordedIsInjected
OneShotAlwaysOnce == Scheduled!OneShotAlwaysOnce
OnlyOneEmoji == Emoji!OnlyOneEmoji
ReactionApproves == Upgrading!ReactionApproves
NoOrphanPrompt == Upgrading!NoOrphanPrompt
===============================================================================
