----------------------------- MODULE LiveInput -----------------------------
(***************************************************************************)
(* Messages sent while the agent works (claude_discord/live_runs.py,       *)
(* ClaudeRunner of claude_code_core/runner.py, and what                    *)
(* run_claude_with_config of cogs/_run_helper.py does with messages the    *)
(* agent did not read), for one conversation.                              *)
(*                                                                         *)
(* A message is handed to the running turn if that takes input; otherwise  *)
(* its task waits for the run in flight and becomes a run.  A run drives   *)
(* one process after another.  The command-line agent is external: it      *)
(* reads its standard input within a turn or after one, echoes each        *)
(* message it reads, and writes a result at the end of every turn.         *)
(***************************************************************************)
EXTENDS Integers, Sequences, SequencesExt

CONSTANTS Messages,
          MaxReruns     \* bound: continuations of runs in a behaviour

None == "none"
Final == {"result", "error", "eof"}   \* what ends a turn on the agent's stdout

ASSUME MessagesType == Messages \cap (Final \cup {None}) = {}
ASSUME BoundType == MaxReruns \in Nat

VARIABLES
    stage,        \* of each message: "absent", "asking" (reads the settings), "accepted",
                  \* "handoff" (refused), "waiting" (held in live_runs), "running", "over"
    queue,        \* the messages waiting for the thread's lock
    round,        \* "none", "queueing" (for a slot), "launching", "reading",
                  \* "ending" (stdout is over), "closed", "deciding"
    accepting,    \* _accepting
    outstanding,  \* _outstanding: delivered messages whose echo has not come
    afterResult,  \* after_result of _read_stream
    pause, drain, failed,  \* slot.pause_requested; should_drain: "no", "ask" or "compact";
                           \* the turn's processing raised
    cli, stdin, stdout,    \* external: "busy", "idle", "dead"; the agent's input and output
    reruns,       \* continuations so far
    read, carried, reported   \* history: what became of the accepted messages

turn == <<round, accepting, outstanding, afterResult, pause, drain, failed>>
agent == <<cli, stdin, stdout>>
fates == <<read, carried, reported>>
vars == <<stage, queue, turn, agent, reruns, fates>>

TypeOK ==
    /\ stage \in [Messages -> {"absent", "asking", "accepted", "handoff", "waiting",
                               "running", "over"}]
    /\ queue \in Seq(Messages)
    /\ round \in {"none", "queueing", "launching", "reading", "ending", "closed", "deciding"}
    /\ {accepting, afterResult, pause, failed} \subseteq BOOLEAN
    /\ outstanding \subseteq Messages /\ drain \in {"no", "ask", "compact"}
    /\ cli \in {"busy", "idle", "dead"} /\ stdin \in Seq(Messages)
    /\ stdout \in Seq(Messages \cup Final)
    /\ reruns \in 0..MaxReruns
    /\ accepting => round \in {"reading", "ending"}
    /\ read \cup carried \cup reported \subseteq Messages

Init ==
    /\ stage = [m \in Messages |-> "absent"] /\ queue = <<>>
    /\ round = "none" /\ accepting = FALSE /\ outstanding = {} /\ afterResult = FALSE
    /\ pause = FALSE /\ drain = "no" /\ failed = FALSE
    /\ cli = "dead" /\ stdin = <<>> /\ stdout = <<>>
    /\ reruns = 0 /\ read = {} /\ carried = {} /\ reported = {}

-----------------------------------------------------------------------------
Live == round \in {"launching", "reading", "ending", "closed"}   \* in live_runs._live
Waiting == {m \in Messages : stage[m] = "waiting"}               \* live_runs._waiting

Goes(m, from, to) == stage[m] = from /\ stage' = [stage EXCEPT ![m] = to]

Arrive(m) ==
    /\ Goes(m, "absent", "asking")
    /\ UNCHANGED <<queue, turn, agent, reruns, fates>>

(* try_inject: every condition and the entry in _outstanding without an    *)
(* await between them.  That a process has exited is known with a delay.   *)
TakesInput == Live /\ Waiting = {} /\ ~pause /\ drain = "no" /\ accepting

Inject(m) ==
    /\ TakesInput
    /\ Goes(m, "asking", "accepted")
    /\ outstanding' = outstanding \cup {m}
    /\ stdin' = IF cli = "dead" THEN stdin ELSE Append(stdin, m)
    /\ UNCHANGED <<queue, round, accepting, afterResult, pause, drain, failed, cli,
                   stdout, reruns, fates>>

(* Refused: no run takes input, its process is dead, or the backend or     *)
(* mode the message's task has just read is not the one the run started    *)
(* with; users change both at any time.                                    *)
Refuse(m) ==
    /\ Goes(m, "asking", "handoff")
    /\ UNCHANGED <<queue, turn, agent, reruns, fates>>

(* Mutant: the message does not join the queue. *)
HoldMutant(m) ==
    /\ Goes(m, "handoff", "waiting")
    /\ UNCHANGED <<queue, turn, agent, reruns, fates>>

(* _run_claude after its handoff: hold later messages back and queue. *)
Hold(m) ==
    /\ Goes(m, "handoff", "waiting")
    /\ queue' = Append(queue, m)
    /\ UNCHANGED <<turn, agent, reruns, fates>>

(* The run before is over: the hold is released and the message is a run. *)
TakeTurn(m) ==
    /\ queue # <<>> /\ Head(queue) = m /\ round = "none"
    /\ Goes(m, "waiting", "running")
    /\ queue' = Tail(queue)
    /\ round' = "queueing"
    /\ UNCHANGED <<accepting, outstanding, afterResult, pause, drain, failed, agent,
                   reruns, fates>>

-----------------------------------------------------------------------------
(* The run has its slot and a fresh clone, which is published ... *)
Publish ==
    /\ round = "queueing"
    /\ round' = "launching"
    /\ outstanding' = {} /\ afterResult' = FALSE
    /\ UNCHANGED <<stage, queue, accepting, pause, drain, failed, agent, reruns, fates>>

(* ... its process started and the prompt sent, or the launch refused. *)
Launch ==
    /\ round = "launching"
    /\ \/ /\ round' = "reading" /\ accepting' = TRUE
          /\ cli' = "busy" /\ stdin' = <<>> /\ stdout' = <<>>
       \/ round' = "closed" /\ UNCHANGED <<accepting, agent>>
    /\ UNCHANGED <<stage, queue, outstanding, afterResult, pause, drain, failed, reruns,
                   fates>>

(* External.  The agent reads a message during a turn or to begin one ... *)
CliRead ==
    /\ cli # "dead" /\ stdin # <<>>
    /\ cli' = "busy"
    /\ stdin' = Tail(stdin)
    /\ stdout' = Append(stdout, Head(stdin))
    /\ UNCHANGED <<stage, queue, turn, reruns, fates>>

(* ... ends a turn with a result or an error, after which it stops ... *)
CliEndTurn ==
    /\ cli = "busy"
    /\ \/ cli' = "idle" /\ stdout' = Append(stdout, "result")
       \/ cli' = "dead" /\ stdout' = stdout \o <<"error", "eof">>
    /\ UNCHANGED <<stage, queue, turn, stdin, reruns, fates>>

(* ... or exits, by itself or from a signal. *)
CliExit ==
    /\ cli # "dead"
    /\ cli' = "dead"
    /\ stdout' = Append(stdout, "eof")
    /\ UNCHANGED <<stage, queue, turn, stdin, reruns, fates>>

Close == round' = "closed" /\ accepting' = FALSE /\ cli' = "dead"

Reads(event) == round = "reading" /\ stdout # <<>> /\ Head(stdout) = event
                /\ stdout' = Tail(stdout)

(* Mutant: a read message stays in _outstanding. *)
ReadEchoMutant(m) ==
    /\ Reads(m)
    /\ read' = read \cup ({m} \cap outstanding)
    /\ afterResult' = FALSE
    /\ UNCHANGED <<stage, queue, round, accepting, outstanding, pause, drain, failed,
                   cli, stdin, reruns, carried, reported>>

ReadEcho(m) ==
    /\ Reads(m)
    /\ outstanding' = outstanding \ {m}
    /\ IF m \in outstanding
         THEN afterResult' = FALSE /\ read' = read \cup {m}
         ELSE UNCHANGED <<afterResult, read>>
    /\ UNCHANGED <<stage, queue, round, accepting, pause, drain, failed, cli, stdin,
                   reruns, carried, reported>>

(* A result is final unless a delivered message is still unread. *)
ReadResult ==
    /\ \/ Reads("result") /\ outstanding = {} /\ Close /\ UNCHANGED afterResult
       \/ Reads("error") /\ Close /\ UNCHANGED afterResult
       \/ /\ Reads("result") /\ outstanding # {}
          /\ afterResult' = TRUE
          /\ UNCHANGED <<round, accepting, cli>>
    /\ UNCHANGED <<stage, queue, outstanding, pause, drain, failed, stdin, reruns, fates>>

(* End of output, or silence for timeout_seconds: admission closes only    *)
(* when the generator ends.                                                *)
StreamEnds ==
    /\ \/ Reads("eof")
       \/ round = "reading" /\ stdout = <<>> /\ ~afterResult /\ UNCHANGED stdout
    /\ round' = "ending"
    /\ UNCHANGED <<stage, queue, accepting, outstanding, afterResult, pause, drain,
                   failed, cli, stdin, reruns, fates>>

(* _ACK_AFTER_RESULT_SECONDS of silence after an intermediate result, the  *)
(* end of the generator, or an error raised by the processing of an event. *)
EndReading ==
    /\ \/ round = "reading" /\ stdout = <<>> /\ afterResult /\ UNCHANGED failed
       \/ round = "ending" /\ UNCHANGED failed
       \/ round \in {"launching", "reading"} /\ failed' = TRUE
    /\ Close
    /\ UNCHANGED <<stage, queue, outstanding, afterResult, pause, drain, stdin, stdout,
                   reruns, fates>>

(* runner.interrupt(), by /stop or to pause, compact or ask. *)
Interrupt ==
    /\ round \in {"reading", "ending"}
    /\ accepting' = FALSE
    /\ \/ UNCHANGED <<pause, drain>>
       \/ reruns < MaxReruns /\ pause' = TRUE /\ UNCHANGED drain
       \/ reruns < MaxReruns /\ drain = "no" /\ drain' = "compact" /\ UNCHANGED pause
       \/ drain = "no" /\ drain' = "ask" /\ UNCHANGED pause
    /\ UNCHANGED <<stage, queue, round, outstanding, afterResult, failed, agent, reruns,
                   fates>>

-----------------------------------------------------------------------------
Unregister ==
    /\ round = "closed"
    /\ round' = "deciding"
    /\ UNCHANGED <<stage, queue, accepting, outstanding, afterResult, pause, drain,
                   failed, agent, reruns, fates>>

EndRound == pause' = FALSE /\ drain' = "no" /\ failed' = FALSE /\ outstanding' = {}

(* The run goes on by itself (pause, compaction, an answer, the PR gate):  *)
(* the unread messages are added to the prompt.                            *)
Continue ==
    /\ round = "deciding" /\ ~failed /\ reruns < MaxReruns
    /\ round' = "queueing"
    /\ reruns' = reruns + 1
    /\ carried' = carried \cup outstanding
    /\ EndRound
    /\ UNCHANGED <<stage, queue, accepting, afterResult, agent, read, reported>>

(* It ends: they are shown as not read. *)
Finish ==
    /\ round = "deciding" /\ (failed \/ (~pause /\ drain # "compact"))
    /\ round' = "none"
    /\ stage' = [m \in Messages |-> IF stage[m] = "running" THEN "over" ELSE stage[m]]
    /\ reported' = reported \cup outstanding
    /\ EndRound
    /\ UNCHANGED <<queue, accepting, afterResult, agent, reruns, read, carried>>

Bridge(m) == Inject(m) \/ Refuse(m) \/ Hold(m) \/ TakeTurn(m) \/ ReadEcho(m)
Run == Publish \/ Launch \/ ReadResult \/ EndReading \/ Unregister \/ Continue \/ Finish

Next ==
    \/ \E m \in Messages : Arrive(m) \/ Bridge(m)
    \/ Run \/ StreamEnds \/ Interrupt \/ CliRead \/ CliEndTurn \/ CliExit

(* Tasks go on, output that is there is read, and a silent agent times     *)
(* out.  Nothing is assumed of the agent, nor of which of its own          *)
(* continuations a run takes.                                              *)
Fairness ==
    /\ \A m \in Messages : WF_vars(Bridge(m))
    /\ WF_vars(Run) /\ WF_vars(StreamEnds)

Spec == Init /\ [][Next]_vars
FairSpec == Spec /\ Fairness

-----------------------------------------------------------------------------
(* "Never both": an accepted message is read, carried into a continuation, *)
(* or reported as not read, and never run as a turn of its own.  "Never    *)
(* neither": until one of these, the run that accepted it tracks it.       *)
OneFate ==
    \A m \in Messages :
        /\ ~(m \in read /\ m \in carried) /\ ~(m \in read /\ m \in reported)
        /\ ~(m \in carried /\ m \in reported)
        /\ m \in read \cup carried \cup reported => stage[m] = "accepted"
        /\ stage[m] = "accepted" =>
               m \in read \cup carried \cup reported \/ (round # "none" /\ m \in outstanding)

(* "Either read by the agent or reported by unconsumed_messages once the   *)
(* run ends, never both": when the unread messages are looked up, none has *)
(* its echo on the agent's output.                                         *)
ReportedIsUnread == round = "deciding" => ToSet(stdout) \cap outstanding = {}

(* "While a message waits to run as its own turn, later messages queue     *)
(* behind it instead of overtaking it into the running turn."              *)
NoOvertaking ==
    [][\A m \in Messages : stage[m] = "asking" /\ stage'[m] = "accepted" =>
          \A n \in Messages : stage[n] \notin {"handoff", "waiting"}]_vars

(* Every message is handled: read, carried, reported or run as a turn. *)
EveryMessageHandled ==
    \A m \in Messages : stage[m] = "asking" ~>
        m \in read \cup carried \cup reported \/ stage[m] = "over"
=============================================================================
