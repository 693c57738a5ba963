---------------------------- MODULE Prompts ----------------------------
(***************************************************************************)
(* Approvals in a Teams conversation: what Claude Code asks, the prompt    *)
(* tasks of the event processor (claude_discord/cogs/event_processor.py),  *)
(* the cards of the surface (claude_teams/surface.py) and the registry     *)
(* that resolves presses (claude_teams/interactions.py).                   *)
(*                                                                         *)
(* A card stays on screen for ever and names its prompt, so a press may    *)
(* come late, twice or from another conversation.  The future of a prompt  *)
(* wakes its task some turns of the event loop later; the timeout may fire *)
(* in between, and then its cancellation wins.                             *)
(***************************************************************************)
EXTENDS Integers, Sequences, FiniteSets

CONSTANTS Requests,         \* the requests of one run
          SkipPermissions   \* dangerously_skip_permissions of the runner

Answers == {"allow", "deny"}
Refusal == "deny"           \* default_on_timeout, permission_result(None)

VARIABLES
    prompt,     \* of each request, its task: "none", "posting", "waiting", "expired", "over"
    live,       \* _pending: the requests whose prompt is registered
    future,     \* of each prompt: "pending", "none" or an answer
    up,         \* whether the process of the run reads its stdin
    injected,   \* of each request: the answers the process was given
    recorded    \* history: presses <<request, answer, whether from its conversation>>
                \* answered with "Recorded."

vars == <<prompt, live, future, up, injected, recorded>>

TypeOK ==
    /\ prompt \in [Requests -> {"none", "posting", "waiting", "expired", "over"}]
    /\ live \subseteq Requests
    /\ future \in [Requests -> Answers \cup {"pending", "none"}]
    /\ up \in BOOLEAN
    /\ \A r \in Requests : injected[r] \in Seq(Answers)
    /\ recorded \subseteq Requests \X Answers \X BOOLEAN

Init ==
    /\ prompt = [r \in Requests |-> "none"] /\ live = {}
    /\ future = [r \in Requests |-> "pending"] /\ up = TRUE
    /\ injected = [r \in Requests |-> <<>>] /\ recorded = {}

-----------------------------------------------------------------------------
(* inject_tool_result: a run that ended takes no answer. *)
Inject(r, answer) ==
    injected' = IF up THEN [injected EXCEPT ![r] = Append(@, answer)] ELSE injected

(* cancel of the registry *)
Withdraw(r) ==
    /\ live' = live \ {r}
    /\ future' = IF r \in live /\ future[r] = "pending" THEN [future EXCEPT ![r] = "none"]
                 ELSE future

(* A permission request: approved at once in yolo mode, asked by a task of *)
(* its own otherwise.                                                      *)
Ask(r) ==
    /\ up /\ prompt[r] = "none"
    /\ IF SkipPermissions
         THEN /\ prompt' = [prompt EXCEPT ![r] = "over"]
              /\ Inject(r, "allow") /\ UNCHANGED live
         ELSE /\ prompt' = [prompt EXCEPT ![r] = "posting"]
              /\ live' = live \cup {r} /\ UNCHANGED injected
    /\ UNCHANGED <<future, up, recorded>>

PostReturns(r) ==
    /\ prompt[r] = "posting" /\ prompt' = [prompt EXCEPT ![r] = "waiting"]
    /\ UNCHANGED <<live, future, up, injected, recorded>>

(* Mutant: a prompt that could not be posted leaves its request open. *)
PostFailsMutant(r) ==
    /\ prompt[r] = "posting" /\ prompt' = [prompt EXCEPT ![r] = "over"]
    /\ Withdraw(r)
    /\ UNCHANGED <<up, injected, recorded>>

(* The post raises, although the card may be there: the refusal. *)
PostFails(r) ==
    /\ prompt[r] = "posting" /\ prompt' = [prompt EXCEPT ![r] = "over"]
    /\ Withdraw(r) /\ Inject(r, Refusal)
    /\ UNCHANGED <<up, recorded>>

(* Mutant: the id of a prompt is enough. *)
PressMutant(r, v, here) ==
    /\ r \in live
    /\ live' = live \ {r}
    /\ future' = [future EXCEPT ![r] = v]
    /\ recorded' = recorded \cup {<<r, v, here>>}
    /\ UNCHANGED <<prompt, up, injected>>

(* resolve accepts a press of a registered prompt from its conversation;   *)
(* every other one is refused and changes nothing.                         *)
Press(r, v, here) ==
    /\ r \in live /\ here
    /\ live' = live \ {r}
    /\ future' = [future EXCEPT ![r] = v]
    /\ recorded' = recorded \cup {<<r, v, here>>}
    /\ UNCHANGED <<prompt, up, injected>>

TimeoutFires(r) ==
    /\ prompt[r] = "waiting" /\ prompt' = [prompt EXCEPT ![r] = "expired"]
    /\ UNCHANGED <<live, future, up, injected, recorded>>

(* The wait ends with the timeout, whatever the future holds. *)
Expires(r) ==
    /\ prompt[r] = "expired" /\ prompt' = [prompt EXCEPT ![r] = "over"]
    /\ Withdraw(r) /\ Inject(r, Refusal)
    /\ UNCHANGED <<up, recorded>>

(* The wait ends with an answer. *)
Resumes(r) ==
    /\ prompt[r] = "waiting" /\ future[r] \in Answers
    /\ prompt' = [prompt EXCEPT ![r] = "over"]
    /\ Inject(r, future[r])
    /\ UNCHANGED <<live, future, up, recorded>>

(* The turn ends; prompts are left to their timeouts. *)
RunEnds == up /\ up' = FALSE /\ UNCHANGED <<prompt, live, future, injected, recorded>>

Next ==
    \/ \E r \in Requests :
          \/ Ask(r) \/ PostReturns(r) \/ PostFails(r) \/ TimeoutFires(r) \/ Expires(r)
          \/ Resumes(r) \/ \E v \in Answers, here \in BOOLEAN : Press(r, v, here)
    \/ RunEnds

(* Posts return or fail, every prompt has a timeout, tasks run. *)
Fairness ==
    \A r \in Requests :
        /\ WF_vars(PostReturns(r) \/ PostFails(r)) /\ WF_vars(TimeoutFires(r))
        /\ WF_vars(Expires(r)) /\ WF_vars(Resumes(r))

Spec == Init /\ [][Next]_vars
FairSpec == Spec /\ Fairness

-----------------------------------------------------------------------------
(* A request is answered once, whatever the presses and the timeout do:    *)
(* one press is told that it was recorded, and a tool runs only when the   *)
(* conversation that was asked allowed it ("Timeouts fail closed").        *)
OneAnswer ==
    \A r \in Requests :
        /\ Len(injected[r]) <= 1
        /\ Cardinality({p \in recorded : p[1] = r}) <= 1
        /\ injected[r] = <<"allow">> /\ ~SkipPermissions => <<r, "allow", TRUE>> \in recorded

(* A press is accepted only while a task still waits for it.               *)
LiveHasTask == \A r \in live : prompt[r] \in {"posting", "waiting", "expired"}

(* "A surface that cannot ask must not leave the session waiting forever"  *)
EveryRequestAnswered ==
    \A r \in Requests : prompt[r] = "posting" ~> (injected[r] # <<>> \/ ~up)

(* "Recorded.": the process is given the answer that was recorded.         *)
RecordedIsInjected ==
    \A p \in recorded : injected[p[1]] # <<>> => injected[p[1]] = <<p[2]>>
=======================================================================
