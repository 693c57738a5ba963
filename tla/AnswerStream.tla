-------------------------- MODULE AnswerStream --------------------------
(***************************************************************************)
(* How an agent's answer reaches a Discord thread: the events of a backend *)
(* (claude_code_core/agui_backend.py, antigravity_runner.py), the event    *)
(* processor that turns them into messages (cogs/event_processor.py) and   *)
(* the debounced stream that edits a message (discord_ui/streaming_manager)*)
(*                                                                         *)
(* What is said is numbered: each piece of text, tool card and mid-turn    *)
(* message the agent read has the next number.  A message of the thread is *)
(* a sequence of numbers.  One task processes the events; the delayed      *)
(* flush of a stream runs beside it.                                       *)
(***************************************************************************)
EXTENDS Integers, Sequences, SequencesExt

CONSTANTS Styles,      \* of the agents: {FALSE, TRUE} or a part of it, see compact
          Limit,       \* STREAM_MAX_CHARS, in pieces of text
          MaxSaid,     \* bound: pieces, cards and messages read
          MaxFailures  \* bound: requests to Discord that fail

ConstantsType ==
    /\ Styles \subseteq BOOLEAN /\ Limit \in Nat \ {0}
    /\ MaxSaid \in Nat /\ MaxFailures \in Nat

VARIABLES
    compact,     \* whether the agent sends compact text chunks, which have no end
    said,        \* the last number
    block,       \* the text message of the agent that grows
    last,        \* history: the last text of the turn
    partial,     \* the length of partial_text
    sent,        \* _assistant_text_sent
    accumulated, \* accumulated_text
    reported,    \* _final_assistant_text, and the text it should be
    thread,      \* the messages of the thread
    buffer, msg, \* _buffer, _current_message (0: none) of the stream
    recent,      \* whether its last edit is less than STREAM_EDIT_INTERVAL ago
    delayed,     \* its _pending_edit: "none", "sleeping", "ready" or "flushing"
    job,         \* what the processor awaits, and what it does after that
    request,     \* of the processor ("main") and of the delayed flush: the text
                 \* and the message it edits, or Idle
    crossed,     \* history: a flush was started or cancelled beside another one
    failures     \* counter of the bound

answer == <<last, partial, sent, accumulated, reported>>
vars == <<compact, said, block, answer, thread, buffer, msg, recent, delayed, job, request,
          crossed, failures>>

Idle == [text |-> <<>>, at |-> 0]
Ready == [step |-> "idle", next |-> "nothing"]

TypeOK ==
    /\ compact \in Styles
    /\ said \in 0..MaxSaid
    /\ \A s \in {block, last, accumulated, buffer} \cup Range(thread) : s \in Seq(1..MaxSaid)
    /\ partial \in 0..MaxSaid /\ sent \in BOOLEAN
    /\ msg \in 0..Len(thread) /\ recent \in BOOLEAN
    /\ delayed \in {"none", "sleeping", "ready", "flushing"}
    /\ job.step \in {"idle", "overflow", "flush", "last", "post"}
    /\ job.next \in {"nothing", "complete", "tool", "echo", "result"}
    /\ (request.main = Idle) = (job.step = "idle")
    /\ (request.delayed = Idle) = (delayed # "flushing")
    /\ crossed \in BOOLEAN /\ failures \in 0..MaxFailures

Init ==
    /\ compact \in Styles
    /\ said = 0 /\ block = <<>> /\ last = <<>> /\ partial = 0 /\ sent = FALSE
    /\ accumulated = <<>> /\ reported = [text |-> <<>>, of |-> <<>>]
    /\ thread = <<>> /\ buffer = <<>> /\ msg = 0 /\ recent = FALSE /\ delayed = "none"
    /\ job = Ready /\ request = [main |-> Idle, delayed |-> Idle]
    /\ crossed = FALSE /\ failures = 0

-----------------------------------------------------------------------------
Take(s) == SubSeq(s, 1, IF Len(s) < Limit THEN Len(s) ELSE Limit)
Drop(s, n) == SubSeq(s, n + 1, Len(s))

Applied(th, r) ==
    IF r.at = 0 THEN Append(th, r.text) ELSE [th EXCEPT ![r.at] = r.text]

NewStream == buffer' = <<>> /\ msg' = 0 /\ recent' = FALSE /\ delayed' = "none"

(* Two requests of a stream are under way at once. *)
Meet == request'.main # Idle /\ request'.delayed # Idle

(* finalize: a delayed flush is cancelled, the buffer is shown once more. *)
Finalize(th, b, m, next) ==
    /\ buffer' = b /\ msg' = m /\ delayed' = "none"
    /\ thread' \in IF request.delayed = Idle THEN {th} ELSE {th, Applied(th, request.delayed)}
    /\ job' = [step |-> "last", next |-> next]
    /\ request' = [main |-> [text |-> b, at |-> m], delayed |-> Idle]
    /\ crossed' = (crossed \/ request.delayed # Idle)

Proceed(th, b, m, d, next) ==
    IF next # "nothing" THEN Finalize(th, b, m, next)
    ELSE /\ buffer' = b /\ msg' = m /\ delayed' = d /\ thread' = th
         /\ job' = Ready /\ request' = [request EXCEPT !.main = Idle]
         /\ UNCHANGED crossed

Flush(th, b, m, step, next) ==
    /\ buffer' = b /\ msg' = m /\ thread' = th /\ UNCHANGED delayed
    /\ job' = [step |-> step, next |-> next]
    /\ request' = [request EXCEPT !.main = [text |-> Take(b), at |-> m]]
    /\ crossed' = (crossed \/ Meet)

(* The end of append: an edit at once, or by the delayed flush. *)
Debounce(th, b, m, rec, next) ==
    IF ~rec THEN Flush(th, b, m, "flush", next)
    ELSE Proceed(th, b, m, IF delayed = "none" THEN "sleeping" ELSE delayed, next)

(* append *)
AppendTo(text, next) ==
    LET b == buffer \o text IN
    IF Len(b) > Limit THEN Flush(thread, b, msg, "overflow", next)
    ELSE Debounce(thread, b, msg, recent, next)

Post(text, next) ==
    /\ job' = [step |-> "post", next |-> next]
    /\ request' = [request EXCEPT !.main = [text |-> text, at |-> 0]]
    /\ UNCHANGED <<thread, buffer, msg, delayed, crossed>>

(* The end of _on_complete when the agent goes on with another turn; after *)
(* the last one nothing follows.  A turn cut off in a text ends with an    *)
(* error, which reports no text.                                           *)
TurnEnds(text) ==
    /\ reported' = IF ~compact /\ block # <<>> THEN reported ELSE [text |-> text, of |-> last]
    /\ partial' = 0 /\ last' = <<>> /\ block' = <<>>
    /\ sent' = FALSE /\ accumulated' = <<>>

-----------------------------------------------------------------------------
(* The events, each when the one before is processed. *)
Says == job.step = "idle" /\ said < MaxSaid /\ said' = said + 1
BetweenTexts == compact \/ block = <<>>

(* TEXT_MESSAGE_CONTENT, _step: a partial event with the text so far. *)
TextGrows ==
    /\ Says
    /\ block' = Append(block, said') /\ last' = block' /\ partial' = Len(block')
    /\ IF Len(block') > partial THEN AppendTo(Drop(block', partial), "nothing")
       ELSE UNCHANGED <<thread, buffer, msg, delayed, job, request, crossed>>
    /\ UNCHANGED <<sent, accumulated, reported, recent, failures>>

(* TEXT_MESSAGE_CHUNK of another message: the one before just stops. *)
NextChunked ==
    /\ compact /\ job.step = "idle" /\ block # <<>> /\ block' = <<>>
    /\ UNCHANGED <<said, answer, thread, buffer, msg, recent, delayed, job, request,
                   crossed, failures>>

(* TEXT_MESSAGE_END, DONE: the complete text, with one more piece or none. *)
TextEnds ==
    /\ ~compact /\ job.step = "idle" /\ block # <<>> /\ block' = <<>>
    /\ \/ /\ Finalize(thread, buffer, msg, "complete") /\ UNCHANGED <<said, last>>
       \/ /\ Says /\ last' = Append(block, said')
          /\ AppendTo(<<said'>>, "complete")
    /\ UNCHANGED <<partial, sent, accumulated, reported, recent, failures>>

(* A text that comes whole is posted. *)
WholeText ==
    /\ Says /\ BetweenTexts /\ buffer = <<>>
    /\ last' = <<said'>> /\ block' = <<>>
    /\ Post(<<said'>>, "complete")
    /\ UNCHANGED <<partial, sent, accumulated, reported, recent, failures>>

(* A tool card, or a mid-turn message that is read: a stream is finalized  *)
(* before.                                                                 *)
Interrupts(next) ==
    /\ Says /\ BetweenTexts /\ block' = <<>>
    /\ IF buffer # <<>> THEN Finalize(thread, buffer, msg, next) /\ UNCHANGED partial
       ELSE /\ partial' = 0 /\ thread' = Append(thread, <<said'>>)
            /\ UNCHANGED <<buffer, msg, delayed, job, request, crossed>>
    /\ UNCHANGED <<last, sent, accumulated, reported, recent, failures>>

HandleToolUse == Interrupts("tool")
OnInjectedRead == Interrupts("echo")

(* RESULT: a stream is finalized; its text is posted if none was sent. *)
OnComplete ==
    /\ job.step = "idle"
    /\ IF buffer # <<>>
         THEN Finalize(thread, buffer, msg, "result") /\ UNCHANGED <<said, block, answer>>
         ELSE \/ /\ TurnEnds(accumulated)
                 /\ UNCHANGED <<said, thread, buffer, msg, delayed, job, request, crossed>>
              \/ /\ ~sent /\ ~compact
                 /\ IF last # <<>> THEN UNCHANGED <<said, last>>
                    ELSE Says /\ last' = <<said'>>
                 /\ Post(last', "result")
                 /\ UNCHANGED <<block, partial, sent, accumulated, reported>>
    /\ UNCHANGED <<recent, failures>>

-----------------------------------------------------------------------------
(* Mutant: the next text is taken to go on from this one. *)
TextDoneMutant == sent' = TRUE /\ accumulated' = last /\ UNCHANGED partial

TextDone == sent' = TRUE /\ accumulated' = last /\ partial' = 0

(* What follows when the last request of an event is answered. *)
Finish(th) ==
    /\ NewStream /\ job' = Ready /\ request' = [request EXCEPT !.main = Idle]
    /\ UNCHANGED crossed
    /\ IF job.next \in {"tool", "echo"} THEN thread' = Append(th, <<said>>)
       ELSE thread' = th
    /\ CASE job.next = "complete" ->
              TextDone /\ UNCHANGED <<last, reported, block>>
         [] job.next = "result" ->
              TurnEnds(IF job.step = "post" THEN last ELSE accumulated)
         [] OTHER ->
              /\ sent' = (sent \/ job.next = "echo") /\ partial' = 0
              /\ UNCHANGED <<last, accumulated, reported, block>>

(* Mutant: an overflowing stream goes on in the message that is full. *)
MainGoesOnMutant(th, m, rec, ok) ==
    CASE job.step = "overflow" ->
           Debounce(th, Drop(buffer, Limit), m, rec, job.next) /\ recent' = rec
           /\ UNCHANGED <<answer, block>>
      [] job.step = "flush" ->
           Proceed(th, buffer, m, delayed, job.next) /\ recent' = rec
           /\ UNCHANGED <<answer, block>>
      [] job.step = "post" /\ ~ok /\ job.next = "complete" ->
           Proceed(th, buffer, m, delayed, "nothing") /\ UNCHANGED <<recent, answer, block>>
      [] OTHER -> Finish(th)

(* The processor goes on after its request, with the thread, the message   *)
(* and the time of the last edit that the request left.                    *)
MainGoesOn(th, m, rec, ok) ==
    CASE job.step = "overflow" ->
           Debounce(th, Drop(buffer, Limit), 0, rec, job.next) /\ recent' = rec
           /\ UNCHANGED <<answer, block>>
      [] job.step = "flush" ->
           Proceed(th, buffer, m, delayed, job.next) /\ recent' = rec
           /\ UNCHANGED <<answer, block>>
      [] job.step = "post" /\ ~ok /\ job.next = "complete" ->
           Proceed(th, buffer, m, delayed, "nothing") /\ UNCHANGED <<recent, answer, block>>
      [] OTHER -> Finish(th)

(* _flush and send_text: a request is answered. *)
MainAnswered ==
    /\ request.main # Idle
    /\ LET th == Applied(thread, request.main) IN
       MainGoesOn(th, IF request.main.at = 0 THEN Len(th) ELSE msg, TRUE, TRUE)
    /\ UNCHANGED <<said, failures>>

(* It fails, applied or not: the error is logged. *)
MainFails ==
    /\ request.main # Idle /\ failures < MaxFailures /\ failures' = failures + 1
    /\ \E th \in {thread, Applied(thread, request.main)} : MainGoesOn(th, msg, recent, FALSE)
    /\ UNCHANGED said

IntervalPasses ==
    /\ recent /\ recent' = FALSE
    /\ delayed' = IF delayed = "sleeping" THEN "ready" ELSE delayed
    /\ UNCHANGED <<said, block, answer, thread, buffer, msg, job, request, crossed, failures>>

DelayedFlush ==
    /\ delayed = "ready" /\ delayed' = "flushing"
    /\ request' = [request EXCEPT !.delayed = [text |-> Take(buffer), at |-> msg]]
    /\ crossed' = (crossed \/ Meet)
    /\ UNCHANGED <<said, block, answer, thread, buffer, msg, recent, job, failures>>

DelayedEnds(th, m, rec) ==
    /\ thread' = th /\ msg' = m /\ recent' = rec /\ delayed' = "none"
    /\ request' = [request EXCEPT !.delayed = Idle]
    /\ UNCHANGED <<said, block, answer, buffer, job, crossed>>

DelayedAnswered ==
    /\ request.delayed # Idle
    /\ LET th == Applied(thread, request.delayed) IN
       DelayedEnds(th, IF request.delayed.at = 0 THEN Len(th) ELSE msg, TRUE)
    /\ UNCHANGED failures

DelayedFails ==
    /\ request.delayed # Idle /\ failures < MaxFailures /\ failures' = failures + 1
    /\ \E th \in {thread, Applied(thread, request.delayed)} : DelayedEnds(th, msg, recent)

Next ==
  /\ UNCHANGED compact
  /\ \/ TextGrows \/ NextChunked \/ TextEnds \/ WholeText
     \/ HandleToolUse \/ OnInjectedRead \/ OnComplete
     \/ MainAnswered \/ MainFails
     \/ IntervalPasses \/ DelayedFlush \/ DelayedAnswered \/ DelayedFails

Spec == Init /\ [][Next]_vars

-----------------------------------------------------------------------------
Shown == UNION {Range(thread[i]) : i \in DOMAIN thread}

(* Between two streams all that was said stands in the thread, once and in *)
(* its order: no text is lost or repeated at an edit, an overflow, a tool  *)
(* card, a mid-turn message or a turn that continues, and a reply stands   *)
(* below what it answers.  (While no request fails and no two flushes      *)
(* meet, and the agent ends its texts.)                                    *)
InOrder ==
    (job.step = "idle" /\ buffer = <<>> /\ failures = 0 /\ ~crossed)
        => FlattenSeq(thread) = [i \in 1..said |-> i]

(* The same text is what the turn reports to its caller as its answer.     *)
ReportsAnswer == failures = 0 => reported.text = reported.of
AnswerInOrder == ~compact => InOrder /\ ReportsAnswer

(* "Expand the compact AG-UI text event into the normal message lifecycle" *)
ChunksInOrder == compact => InOrder

(* What stands in the thread stays there, whatever fails.                  *)
ShownStays == [][~crossed' => Shown \subseteq Shown']_vars
=======================================================================
