-------------------------------- MODULE Turns --------------------------------
(* Safety of what surrounds a turn: the waits that resume a thread, the     *)
(* account a turn is planned onto, the answer it streams, the files it      *)
(* delivers.  No two modules share a variable: each behaviour exercises     *)
(* one part, the others stay as they start.                                 *)
EXTENDS Waits

CONSTANTS
    AccountThreads, Pool, Ambient, Strategies, Assigns, Retry, Cooldown, Resets, MaxTime,
    MaxTurns, MaxPoolFailures,                            \* of AccountPool
    Styles, Limit, MaxSaid, MaxStreamFailures,            \* of AnswerStream
    Files, Unreadable, Deliveries, MaxRequests, MaxFaults \* of AttachmentOutbox

VARIABLES
    part,
    config, now, blocked, usage, cursor, lock, seen, pin, session, kept, step, plan, last,
    impaired, marks, turns, failures,
    compact, said, block, text, partial, sent, accumulated, reported, messages, buffer, msg,
    recent, delayed, job, request, crossed, refusals,
    marker, saved, paths, delivery, running, owed, raced, requests, sends, unsure, faults

accountVars == <<config, now, blocked, usage, cursor, lock, seen, pin, session, kept, step,
                 plan, last, impaired, marks, turns, failures>>
streamVars == <<compact, said, block, text, partial, sent, accumulated, reported, messages,
                buffer, msg, recent, delayed, job, request, crossed, refusals>>
outboxVars == <<marker, saved, paths, delivery, running, owed, raced, requests, sends, unsure,
                faults>>

Accounts == INSTANCE AccountPool
              WITH Threads <- AccountThreads, turn <- plan, MaxFailures <- MaxPoolFailures
Stream == INSTANCE AnswerStream
            WITH last <- text, thread <- messages, failures <- refusals,
                 MaxFailures <- MaxStreamFailures
Outbox == INSTANCE AttachmentOutbox
            WITH Turns <- Deliveries, pending <- saved, step <- delivery, up <- running

ASSUME TurnsConstants ==
    Accounts!ConstantsType /\ Stream!ConstantsType /\ Outbox!ConstantsType

AllInit ==
    /\ part \in {"waits", "accounts", "stream", "outbox"}
    /\ Init /\ Accounts!Init /\ Stream!Init /\ Outbox!Init
    \* A part that stays as it starts starts in one way.
    /\ \/ part = "accounts"
       \/ /\ config = CHOOSE c \in [strategy : Strategies, assign : Assigns] : TRUE
          /\ \A t \in AccountThreads : ~session[t]
    /\ part = "stream" \/ ~compact
AllNext ==
    \/ /\ part = "waits" /\ Next
       /\ UNCHANGED <<part, accountVars, streamVars, outboxVars>>
    \/ /\ part = "accounts" /\ Accounts!Next
       /\ UNCHANGED <<part, vars, streamVars, outboxVars>>
    \/ /\ part = "stream" /\ Stream!Next
       /\ UNCHANGED <<part, vars, accountVars, outboxVars>>
    \/ /\ part = "outbox" /\ Outbox!Next
       /\ UNCHANGED <<part, vars, accountVars, streamVars>>
AllSpec == AllInit /\ [][AllNext]_<<part, vars, accountVars, streamVars, outboxVars>>

TypesOK == TypeOK /\ Accounts!TypeOK /\ Stream!TypeOK /\ Outbox!TypeOK
ResumesWhole == Accounts!ResumesWhole
RotationTurns == Accounts!RotationTurns
MarkLasts == Accounts!MarkLasts
AnswerInOrder == Stream!AnswerInOrder
ShownStays == Stream!ShownStays
SentOncePerRequest == Outbox!SentOncePerRequest
RequestsSurvive == Outbox!RequestsSurvive
==============================================================================
