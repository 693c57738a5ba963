# Formal model of the agent chat relay

The relay connects chat frontends (Discord, Microsoft Teams, a web console) to
command-line coding agents. It is one Python process with one asyncio event
loop, so two coroutines only interleave at an `await`; its durable state is
SQLite tables, everything else dies with the process. This directory models the
parts in which that interleaving, a restart, or an unlucky order of messages
decides whether a user's message is run once, twice or never.

## 1. The system

| component | source | state | operations | hard behaviour | what makes it correct |
|---|---|---|---|---|---|
| Session slot scheduler | `claude_discord/session_slots.py` | limit, hold, waiting and running entries with priority and arrival number | acquire, release, set limit, hold/unhold, prioritize, defer, pause | cancellation of a waiter that is granted a slot in the same tick; lowered limits; paused runs coming back | no slot idle while a run waits; never beyond the limit or a hold; arrival order only undone by users; nobody starves |
| Waits | `claude_discord/waits.py`, `database/wait_repo.py`, `cogs/wait_watcher.py`, `ext/wait_api.py` | rows of `pending_waits`; checks and resume tasks in memory | register, cancel, tick, probe, claim, deliver, record, recover | cancel racing a check; a restart between claim and delivery; failed deliveries; re-registration | limits; one live wait per probe; resumed once per attempt; every wait ends; a cancelled one stays quiet |
| Restart reservation | `claude_discord/restart_reservation.py`, `database/resume_repo.py`, `ext/restart_api.py`, `cog_unload`/`on_ready` in `cogs/claude_chat.py` | phase, rows of `pending_resumes` | reserve, cancel, save, restart, forget, replay | failure half way; shutdown or reconnect meanwhile; crash | nothing cut off by a reserved restart; a queued message is run once; the hold ends |
| Runs of a thread | `cogs/claude_chat.py` | `_active_runners`, `_active_tasks`, `_thread_locks` | evict, register, run, clean up, retry, `/clear` | late cleanup against a successor; the lock held while awaiting another task; template against clone | one run per thread; entries belong to the run in flight; no deadlock |
| Run driver and mid-turn messages | `cogs/_run_helper.py`, `live_runs.py`, `claude_code_core/runner.py` | live runs and holds, `_outstanding`, `_accepting` | inject, read, close, continue, report | admission racing the final result; echoes crossing results on the pipe | each accepted message has exactly one fate |
| Event processor, streaming | `cogs/event_processor.py`, `discord_ui/streaming_manager.py`, `discord_ui/status.py` | one turn's text, stream and tool cards; the reaction that is shown | one handler per event; append, flush, finalize; set, clean up | a delayed flush beside the events; a status that replaces one in the middle of its requests | the answer stands in the thread once and in order; what is shown stays; one status emoji |
| Other backends | `codex_runner.py`, `codex_app_server.py`, `agui_backend.py`, `antigravity_runner.py`, ... | a process each | run, steer, interrupt | texts that come whole, in pieces or as compact chunks; steering a finishing turn | the text events are part of AnswerStream, the rest is not modelled |
| Account pool | `account_pool.py`, `account_router.py`, `account_pool_repo.py`, `account_history.py` | marks of exhausted profiles, cursor, pins, transcripts | plan a turn, move the session, finish the turn | plans of two threads at once; a stale or partial copy; a crash between copy and pin | a turn that resumes finds its whole session; round robin takes turns |
| Claims, lounge | `database/claims_repo.py`, `lounge.py` | rows with a TTL | acquire, renew, release | expiry under a working holder | not modelled |
| Scheduler | `cogs/scheduler.py`, `database/task_repo.py` | rows of tasks, the tasks in flight | tick, advance, run, disable, close, patch | the loop goes on with rows it read before; restart in a one-shot | one run of a task at a time; a one-shot executes, and once |
| Automatic upgrade | `cogs/auto_upgrade.py` | the lock, approvals, the snapshot of running sessions | trigger, ask, upgrade, drain, mark, restart | sessions that begin and end behind the drain; an end of the process while a prompt is open; reactions nobody listens for | a session that is cut off has its row |
| Attachment outbox | `attachment_outbox.py`, `file_sender.py` | marker and pending file | read, save, remove, send, strike out | crash or failure between any two | a request survives until it is sent, and is sent once |
| Approvals, questions | `approvals.py`, `claude_teams/interactions.py`, `discord_ui/ask_*.py` | prompts with a task, a future and a card | ask, press, time out, withdraw | a press late, twice, from elsewhere or in the tick of the timeout | one answer for each request; allowed only by a press (permission and plan requests of Teams; the rest is not modelled) |
| PR gate, worktrees, merge | `pr_completion_gate.py`, `worktree.py` | git | check, clean up | external | not modelled |
| Session sync, thread markers | `session_sync.py`, `thread_marker.py` | thread names | set, clear | rate-limited renames | not modelled |
| Teams frontend, relay | `claude_teams/relay/*`, `pacer.py`, `surface.py`, `interactions.py` | a leased queue, activities seen; card and answer, one timer for the budget | push, pull, handle, acknowledge; submit, flush, finalize, disable | duplicates, poison messages, restarts; edits delayed, reordered and cut off | at-least-once handling; the surface ends with the whole answer and the final card |
| Teams sync, ingest | `ext/teams_sync.py`, `ext/ingest_manifest.py` | cursors, rows | sync, prune | partial pages | not modelled |
| Console, authentication | `console/*` | conversations, boards | requests | mostly database requests | not modelled; the host's queueing appears in Waits |
| Privacy gateway | `claude_code_core/privacy/*` | a token mapping | mask, unmask | collisions | not modelled |
| Attention, escalation | `attention.py`, `escalation.py` | signals | capture, escalate | repeated escalation | not modelled |
| Execution environments, rendering, settings, REST routes, scripts | several | none of their own | - | - | not modelled: no protocol |

How they interact: a frontend's message task calls `_run_claude`, which under
the thread's lock evicts and registers (ThreadRuns) and then calls
`run_claude_with_config`; that takes a slot (SessionSlots), publishes the run so
that later messages can be delivered into it (LiveInput) and drives one process
after another. The watcher of Waits and `on_ready` (RestartReservation) start
runs through the same two functions. A reservation holds the slot queue and
reads its waiting entries. Before the process starts, the account pool decides
which login serves it. The events of the process go to the event processor, which
writes the answer (AnswerStream on Discord, TeamsSurface on Teams), sets the status
emoji and starts a prompt for each request of the agent (Prompts); the end of a
turn delivers the files in the outbox. An upgrade reads the tables of ThreadRuns, writes
the rows RestartReservation's startup replays, and ends the process. The scheduler starts sessions of its own, and
the Teams relay brings the messages and presses of Teams to the host.

## 2. Modules

Each component has one module, whose CONSTANTS have the assumptions a proof needs.
A recorded run has room for several components: the modules QueueAndRestart,
Conversations, Frontends, Surfaces, Turns and MCAcrossRestarts extend one module,
instantiate others, and choose in `part` which of them a behaviour exercises. These
modules share no variable, so their product would show nothing more. The parts that
rest stay in their initial state, where no step with a fairness condition is enabled,
so a liveness property is not met by their rest. The first five leave the constants
open, so that the theorems are about the very formulas the runs check. `MC...` modules
name model values and the functions a .cfg cannot write; the .cfg files give the
constants.

Definitions whose name ends in `Mutant` stand next to the action they change: each
is a plausible mistake in that code which one of the properties has to notice. They
are not used by the specification.

**SessionSlots** - `waiting`, `running`, `held`, `maxSlots` are the fields of
`SessionSlotScheduler`; a run is one call of `_acquire_slot`. `AcquireAtOnce` is its way
without a queue message, which does not suspend; otherwise `CreateAcquire` makes a task
that joins the queue some steps later (`Acquire`), and `Return` is the end of the task and
of its caller. `owners` are the runs whose `_acquire_slot` has returned, `cancelled` those
with a CancelledError on its way to `acquire()`, so a run can be granted a slot by somebody
else's step, be cancelled in the same tick, and only then resume. `strays` are the entries
whose caller was cancelled where it does not await `acquire()`: in the `sleep(0)`, the post
of the message or its closing. `seq` is only compared, so `ahead[r]` keeps the set of
earlier runs and the counter needs no bound. `Dispatch(w, r)` is `_dispatch`, called at the
end of every operation that calls it in the code.

**SlotSemaphore** - what the scheduler promises its callers ("one limit, exactly as the
semaphore did"): who asks, who holds, a limit that changes and a gate. It says nothing of
priorities, cancellations on their way, or pauses. KeepsTheLimit maps `waiting` and
`running` to it; a granted run that was cancelled before it resumed holds its slot until it
hands it on. It is stronger than a bound on `running`: every step admits as many as fit.

**Waits** - one function per column of `pending_waits`, plus what dies with the
process: `checking` (`_in_flight`), `verdict` (between `record_probe` and
`claim`), `resume` (the `_resume` tasks), resumed turns posted and running.
`Crash` empties these, `Boot` is `cog_load` with `recover_interrupted`. Time is
abstract: a deadline may pass at any moment. `woken`, `cut` and `promised` are
history. Database writes are taken to succeed.

**RestartReservation** - `phase` refines `_phase` into the awaits between which
other tasks run (saving one row after the other, restarting, forgetting one row
after the other). `rows` is `pending_resumes`, one row per thread, as its UNIQUE
constraint says. `Unload`, `MarkActive` and `Die` are the shutdown, `OnReady` and
`Replay` the startup or reconnect, `ReplaySkipped` the ways out of `_replay_queued_run`
that drop a row already deleted (the channel cannot be fetched or is no thread, as
`docs/session-queue.md:81` says, or the notice cannot be sent). `Continue` is the paused,
compacted or answered run that gives its slot back and queues again. A task of a thread
with a run in flight is `locked`. Starting a turn while the process is ending is remembered
in `cuts`, a continuation in `again`, a message whose row failed or was skipped in `lost`.

**ThreadRuns** - `pc` of each task follows `_run_claude` from await to await.
`activeRunner` and `activeTask` are the two tables' entries for the thread. The
runner in the table is the template, the process belongs to the clone
`run_claude_with_config` makes of it. `raised` remembers the tasks that a failing post ended
between their registration and the `try` whose `finally` would have removed their entries.

**LiveInput** - the admission of `live_runs.try_inject` and
`ClaudeRunner.inject_user_message`, the reader of `_read_stream`, and what
`run_claude_with_config` does with messages not read. A message may be refused at any
time: the conversation's settings may have changed since the run began. The agent (`cli`, `stdin`,
`stdout`) is external: it may read at any time of its life, ends turns with a
result or an error, and exits when it wants. Only echoes and what ends a turn are
on its output; other events change nothing here.

**RelayPromise, TeamsRelay** - RelayPromise is the contract `relay/queue.py` opens
with: an activity is absent, held, handled or dropped, and only one that is hopeless
or was delivered more than `MaxDeliveries` times is dropped. TeamsRelay is the
receiver, the storage queue and the puller: `rows` are the copies in the queue with
their dequeue count, `batch` what the puller took, `step` where it is in one item,
`seen` its bounded memory, which dies with the process. `teams` is the sender, which
posts again what was answered with 503. `KeepsPromise` maps the queue, the sender
and the handled activities to fates and implements RelayPromise with its fairness.

**TeamsSurface** - the card and the answer of one session and the one timer of the
pacer. `state` counts the versions the session made, `screen` what the messages of
Teams show, `request` the request in flight of the session's task and of each timer
task. A cancelled request was applied or never is; a message the service does not name is
posted again when its text grows (`AnswerUnnamed`). Creating a task, cancelling one
and its first step are separate steps, in the order the event loop takes them.

**Prompts** - a prompt of the surface with its task, future and registration. A press
names its prompt and may come at any time, repeatedly, or from another conversation
(`here`). The future wakes its task some steps later, and the timeout may fire in
between: `TimeoutFires` and `Resumes` compete as in `asyncio.wait_for`.

**AnswerStream** - what is said is numbered, and a message of the thread is a sequence
of numbers. `block` to `reported` are fields of the event processor, `buffer` to `job`
those of a StreamingMessageManager: the events' own work and the delayed flush beside
it. `crossed` marks that the two were in a request at once, when the code can repeat
or drop a piece.

**StatusEmoji** - `reactions` on the message, the status wanted (`target`), the one
believed shown (`current`) and the one task that changes it.

**Scheduler** - `row` and `due` are the columns that matter; the master loop goes on
with `batch`, the rows it read. `running` is the set in memory, `runs` and `closing`
the tasks that run a session and those that then disable a one-shot. `Crash` keeps the
rows only.

**AttachmentOutbox** - `marker` and `pending` are the two files; a delivery goes
through read, save, remove, send, strike out (`step`) under the lock of its process.
`owed`, `sends` and `unsure` are history.

**AccountPool** - `Begin`, `Look`, `Select`, `Copy`, `SetPin`, `Open`, `Ends` and `Finish` of a turn for
each thread, with the awaits between them; `lock` is the router's. `kept[t][p]` is how
much of the session of t the directory of profile p holds. Quotas are a set of values
one turn may find.

**AutoUpgrade** - `stage` is where the pipeline of each trigger is, one of them in the
lock (`Holding`). `listens` are the reaction tasks that are in `wait_for` at the moment,
`approved` the events. `sessions` stands for `_active_runners`, `rows` for
`pending_resumes`. The restart command is started and not awaited; `Stop`, `Close` and
`Die` are the end of the process, by that command or by anyone else, killed or clean.

**...Proofs** - the theorems (section 4): WaitsProofs, RestartReservationProofs and
TeamsRelayProofs extend the module they are named after, QueueAndRestartProofs,
FrontendsProofs, SurfacesProofs and TurnsProofs a composition, ThreadRunsProofs
Conversations.

## 3. Runs

| run | what it asks | bounds |
|---|---|---|
| `queue_restart` | slots: WorkConserving, KeepsTheLimit, ArrivalOrderKept, WouldWaitIsExact; restart: IdleAtRestart, RunsOnce | 3 runs of 2 threads, limit 1..2, 1 stray; two messages of two threads, 1 slot, 2 ends of the process (killed or clean, also during the reservation's writes), 1 reservation, 1 reconnect, 1 continuation of each, rows that cannot be written and replays that are skipped |
| `slots_live` | TypeOK, CancelledLeaves, NormalStarts | the same runs, limit 1..2, 1 stray |
| `turns` | accounts: ResumesWhole, RotationTurns; answer: AnswerInOrder, ShownStays; outbox: SentOncePerRequest, RequestsSurvive; waits: CancelledStaysQuiet, LiveWithinLimits | 2 threads, 2 profiles, 2 turns, 1 failure; 5 pieces of which 2 fill a message, 1 failed request; 2 files, 2 turns, 3 requests, 2 faults; 2 rows of a Discord thread, 2 probes, 1 wait per thread, 1 error, 1 delivery, no restart |
| `across_restarts` | restart: QueuedIsRun; thread: EveryTaskEnds; outbox: EveryFileSent | two messages of one thread, 1 clean end, 1 reservation, 1 continuation of each, every mark may fail; 3 tasks, one more process each, 1 `/clear`, posts that raise; 2 files, 2 turns, 3 requests, 2 faults |
| `conversations` | thread: RunIsRegistered, RegisteredIsAlive; waits: ResumedOnce, FinishedDiscordWaitHasRun, EveryWaitEnds | 3 tasks, one more process each, retries, 2 `/clear`, posts that raise; 1 row of a Discord or a console conversation, 1 restart, 2 errors, 2 deliveries |
| `frontends` | mid-turn: OneFate, EveryMessageHandled; relay: NotHandledTwice, KeepsPromise | 3 messages, 1 continuation; 3 activities, one too large, 2 deliveries, memory of 1, batches of 2, 1 fault |
| `surfaces` | surface: FinalIsShown, CardCatchesUp; prompts: OneAnswer, EveryRequestAnswered; OneEmoji; scheduler: NoDoubleRun, OneShotExecutes; upgrade: CutOffIsMarked | 3 versions of the card, 2 of the answer, 1 failure or post without an id; 2 prompts; 2 statuses and the final one; a recurring task and a one-shot, 1 user change, 1 fault; 2 triggers, one by `/upgrade`, 2 sessions, 1 poll, 1 fault, 1 end of the process |
| `waits_register_again`, `restart_second_message`, `thread_runs_parallel`, `surface_final_text`, `stream_chunks` | disagreements, section 5 | |

`turns`, `frontends` and `surfaces` also check the type invariants of their components
(`TypesOK`); these carry the exclusions a module relies on (one holder of the outbox's
lock, the timer names a live task, an active scheduled run is marked as running). The
types of RestartReservation and ThreadRuns are theorems only.
`MCSurfacesMore` (of Surfaces) checks further properties of the same models and is run by
hand: LiveHasTask, EveryUpdateGoesOut, StatusShown, DueRuns; `MCRestartMarkFails` also checks
HoldEnds. Each holds.

Why the bounds are enough: three runs make a queue whose head, middle and newcomer
differ, and with a limit of two a run can be cancelled while another is granted; a
second row is what limits and uniqueness need (a restart of two rows is left to the
theorems), a second end of the process is what a
replay that is interrupted needs; three tasks of a thread give a holder of the lock, a
run in flight and a late cleanup at once; three messages give one run, one message in
it and one behind it. Three activities with a memory of one and batches of two let a
duplicate come back after its id was forgotten and while another is handled. Three card
versions and two of the answer let one paint be in flight, one wait for the timer and
one come last. Two turns of two threads are what `A -> B -> A` and a contended cursor
need. Five pieces make an answer with text, a tool card, text again and a message that
is split. All the counters that are bounded are named in CONSTANTS and guarded where
they are incremented. The two threads on the accounts are interchangeable, which `turns` uses
as a symmetry; no liveness property is checked with it.

Deadlock is checked for `slots_live`: the queue never stops. The other services may
rest: every message has been handled, every row is final, or a bound is used up.

**Fairness.** The event loop resumes what can be resumed, so steps of tasks are
weakly fair. Turns end because a silent agent times out and every process can be
killed; probes have a timeout of their own; reservations have a deadline; the
supervisor starts the process again. Users, other sessions and the agent are
never assumed to do anything: no fairness on `Acquire`, `Prioritize`, `Register`,
`CancelWait`, `Reserve`, `Clear`, `CliRead`, `CliEndTurn`. In Waits, a turn that is
next for the lock of its thread is not overtaken for ever (`asyncio.Lock` is first
in, first out), which is the one strong fairness. Teams posts an activity until it is
answered, leases end, the puller goes on; requests to Teams and Discord are answered
or fail, the pacer's interval passes, a prompt has a timeout; the scheduler's clock,
ticks and runs go on, and so do turns that deliver the outbox. Nothing is assumed of
whoever presses, registers or requests. `slots_live` takes for granted
that users do not prioritize others for ever (a premise of NormalStarts).

What the constants switch on: `MarkMayFail`, `ResumeMarkMayFail`, `Crashes` and `Overlaps` in
RestartReservation and `MaxClears`, `MayRetry`, `SendMayFail` in ThreadRuns name
events under which some of the promises do not hold. The passing runs leave out
exactly the combinations that section 5 describes, and say so in their .cfg.
`Unreadable` files and activities are empty in the recorded runs: with an unreadable
activity TeamsRelay still implements its contract, with an unreadable file
EveryFileSent does not hold (section 5).

Premises inside the properties are where the code gives no more. RunIsRegistered asks that
nobody cleared the entries (`clears`), RegisteredIsAlive leaves out the run whose stop button
could not be posted (`raised`), QueuedIsRun a message whose row could not be written or was
skipped (`lost`). CancelledLeaves speaks of a CancelledError that reaches `acquire()`, and
NormalStarts grants that the strays do not take every slot. FinalIsShown
asks that no request failed, no post went without an id and no flush cut a request off (`cut`); OneEmoji that
no request was lost; AnswerInOrder and ShownStays that two flushes did not cross, and
AnswerInOrder that no request failed; ResumesWhole leaves out a thread whose plan or
copy failed while no fresh session could open (`impaired`); NoDoubleRun a one-shot
whose write failed or whose interval passes during its own run; SentOncePerRequest
counts a send whose checkpoint is in doubt (`unsure`); CutOffIsMarked leaves out a thread
whose mark raised (`unmarked`), which is logged and does not stop the restart.

## 4. Proofs

The theorems hold for every value of the constants that satisfies the assumptions the
modules declare: any sets of threads, messages, tasks and activities, and any bounds.
Finiteness is assumed only where something is counted. One result, RunsOnce
(`MessagesRunOnce` and `QueuedMessagesRunOnce`), has premises on constants that switch on
an event: `~ResumeMarkMayFail`, and no reconnect overlaps a reservation. With either TLC
shows the property violated (`MCRestartMarkFails.cfg`, `MCRestartOverlap.cfg`; section 5),
so they are needed. The rows of single messages may fail.

**QueueAndRestartProofs** (slots). `TypeCorrect`, `SlotsConserveWork`,
`SlotsAreASemaphore`, `SlotsKeepArrivalOrder`, `WouldWaitPredicts`. The inductive
invariant is TypeOK, WorkConserving and `ArrivalOrder`: WorkConserving needs that the
sets a dispatch is given are disjoint, ArrivalOrderKept that of two waiting runs at most
one is ahead of the other, so that `ahead` stands for numbers. One lemma,
`DispatchEffect`, says what a dispatch leaves behind; only WouldWaitPredicts expands
`Dispatch` besides, since it needs the cardinalities. It rests on WorkConserving: when a
slot is free and nothing is held the queue is empty, which is why the look of
`would_wait` at the queue's priorities never matters on its own. The same fact is what
the refinement needs (`SemaphoreStep`): `prioritize` dispatches, and since no slot is free
while someone waits it admits nobody (`ReorderingAdmitsNobody`), a stutter of SlotSemaphore.
WouldWaitPredicts covers the run that is let through at once and the one whose task joins
the queue later, when the answer may have changed (`JoinWaits` is about both). Neither
cancelled nor stray entries are assumed away.

**WaitsProofs**. `WaitsResumeOnce`, `WaitsKeepLimits`, `CancelledWaitsStayQuiet`,
`FinishedDiscordWaitsHaveRun`, `WaitsTypeCorrect`. None of the first four is inductive.
`Tasks` ties a wait's resume task, posted turn and running turn to the state of its row
(which recover_interrupted makes true again after a crash); on it rests `Budget`: every
turn that ended is paid for by a failed delivery, a cut, or the one present resume,
which pays once (`Unspent`). `Delivered` says when a finished delivery has waited for its
turn. The limits are a counting argument on the one step that adds a live row
(`FewerLiveRows` covers all the others).

**RestartReservationProofs**, composed in QueueAndRestartProofs. `NothingCutOff` and
`RestartFindsNothingRunning` (IdleAtRestart), `MessagesRunOnce` and
`QueuedMessagesRunOnce` (RunsOnce), `RestartTypeCorrect`. A start is paid for by a cut
or a continuation. That needs to know everything that may still start a message (`Owed`: a row, a replay,
a task before its start, a run the end of the process will cut) and that no two of them
exist at once (`Where`: one task of a message at a time, none while its replay is due; in
a live process a row is due for a replay or was saved for a queued message). TLC has
checked this invariant over the whole state space of the run before it was proved.

**ThreadRunsProofs**. `RunsAreRegistered`, `OneRunAtATime`, `RegisteredRunsLive` (of which
failing posts are part), `ThreadRunsTypeCorrect`. The strengthening says who is in the lock
(`Queue`) and that a registered run has both entries, is the one a task that evicts
awaits, and excludes a task that builds (`Entries`); it holds until someone clears the
entries, and `clears = 0` is closed under the past (`ClearsStay`). `ConversationsResumeOnce`
and `FinishedConversationsHaveRun` state what WaitsProofs proves of Conversations, the
module of the run: `WaitStep` and `WaitsBehave` show that its waits are those of Waits.

**FrontendsProofs**. `AcceptedMessagesHaveOneFate`, `LiveInputTypeCorrect`,
`FrontendsTypeCorrect`, `NothingHandledTwice`. OneFate needs `Tracked`: _outstanding
fills only while a process takes input, and meets no other fate.

**TeamsRelayProofs**. `RelayTypeCorrect`, `RelayHandlesNothingTwice` and
`RelayImplementsPromise`: the initial states and every step of the relay are those of
RelayPromise or stutter, the safety part of KeepsPromise. The puller works on a batch it
read before, so the invariant says what of the queue still holds when it acts (`Batch`,
`Counts`: each delivery beyond the limit but one was a lost answer), why the current item
is handled or only acknowledged (`Decision`), and that its memory is the end of what it
handled (`Memory`, which NotHandledTwice rests on).

**SurfacesProofs**. `SessionsLeaveFinalMessages` (FinalIsShown): there is one timer and one
request in flight, nothing waits twice, what waits is new, and the last paint of the
answer and of the card is owed, in flight or done (`SurfaceInv`, true until a request
fails or a flush cuts one off, as the property's premise). TLC has checked it on larger
bounds than the run's (4 versions of each, 392 thousand states). `RequestsAnsweredOnce`,
`PressesHaveATask` (OneAnswer, LiveHasTask): an answer of the future is one that was
recorded, a press is accepted once (`PromptInv`). `OneEmojiIsShown`: until a request is
lost the message shows what the manager believes, or nothing in mid-change (`EmojiInv`).
`TasksRunOnce`: a loop that goes on with rows it read writes only
those of tasks that do not run, and a one-shot that was executed is disabled, deleted or
about to be (`ScheduleInv`). `CutOffSessionsAreMarked`: one
pipeline in the lock, and a session of its snapshot has its row, is still to be marked,
or its mark raised (`UpgradeCore`). `SurfacesTypeCorrect` (TypesOK) has no such premise: the
surface's types hold after failures too, with `Views` (a message that is edited was posted)
and `Clock` (`_timer` names a task that is alive) as what makes them inductive.

**TurnsProofs**. The bounds and sets of the three modules are assumed to be what their
ConstantsType says (`TurnsConstants`).

- `SessionsMoveWhole` (ResumesWhole) and `RotationTakesTurns` (RotationTurns) for any threads
  and pool. `LockTypes`: one thread at most is between the reading of the cursor and its
  writing, and what it read is still the cursor. `Rotation`: under round robin the cursor
  stands behind the profile given out last; the rotation then takes the first profile at
  the least distance from it that is free, and with more than one that is not the last one
  (`SoonestIn`, `Distances`: arithmetic modulo the length of the pool). `Whole` follows a
  thread's session through its turn: whole where its pin, its plan or its process says.
- `AnswersStandInOrder` (AnswerInOrder) and `ShownTextStays` (ShownStays) for any number of
  pieces and any size of a message. `StreamBusy` ties the two requests to the work in hand,
  `Kept` says that until two flushes meet, the message of the stream shows how the buffer
  starts and a request shows no less of it, from which ShownStays follows step by step
  (`After`). `Ordered` says that the messages hold consecutive spans of what was said
  (`Chain`) and the buffer the next one; `Blocks` and `Answers` relate them to what the event
  processor reports. AnswerInOrder itself concatenates the messages with `FlattenSeq`, a
  recursive function; that the concatenation of a chain is a span is proved by a least
  counterexample (`LeastOf`, `Flattened`) instead of the library's induction.
- `FilesSentOnce` (SentOncePerRequest) and `RequestsAreKept` (RequestsSurvive) for any turns
  and requests. The first counts: sends and what still stands in the files or in a
  delivery's hand (`Waiting`) are at most requests and sends in doubt (`Accounted`), where one
  delivery at most holds the lock (`OneHolder`) and has in hand what is saved (`Handed`). The
  second is `Survives`: at each point of a delivery, where the lines not in the marker are.
  Both rest on what `Merge` does to the lines of two files, distinct and all there
  (`MergeLines`, `MergeKeeps`), proved by counting the first occurrences.
- `TurnsTypeCorrect` (TypesOK).

The compositions share no variable, so a theorem of a component's specification is one
of the composed one. QueueAndRestartProofs, FrontendsProofs and ThreadRunsProofs take it from
an instance of the component's proof module, and TurnsProofs extends WaitsProofs; SurfacesProofs
(`Behaviours`) and TurnsProofs (`Parts`) prove it of the instance. Where one component is
extended and the others are instances, a theorem about the first is stated of its own `Spec`,
which the composed specification implies.

Every safety invariant and action property of the passing runs is a theorem. Model-checked
only is liveness, since fairness and ENABLED are outside the proof system: CancelledLeaves,
NormalStarts, EveryTaskEnds, EveryWaitEnds, QueuedIsRun, EveryFileSent,
EveryMessageHandled, CardCatchesUp, EveryRequestAnswered, OneShotExecutes, and the
fairness part of KeepsPromise.

## 5. Where code and documentation disagree

Recorded runs that end in a violation:

- `thread_runs_parallel` - `/clear` kills the template, which owns no process, and
  drops its entry; the next message finds nothing to evict and starts a second
  run (`claude_chat.py:658`, against the docstring at 1746).
- `restart_second_message` - a second message of a thread whose first one is queued
  behind the hold waits for the thread's lock, is not in the queue and is not
  saved (`docs/session-queue.md:39-42`).
- `waits_register_again` - the resumed turn that registers the same probe again is
  answered with the wait that resumed it, which is over when the turn is
  (`wait_repo.py:168`, against `waits.py:393` and `docs/waits.md:83`).

- `surface_final_text` - `finalize` flushes the pacer, which cancels a timer task in the
  middle of its edit; the stream takes that text for shown and does not send it again
  (`claude_teams/surface.py:486`, against the docstring at 454).
- `stream_chunks` - a second text message in compact chunks is cut where the first one
  was, because no complete event ends the first (`agui_backend.py:246`, against its docstring).

Further configurations here show more of them; they are run by hand
(`tlc -continue -config <cfg> <module>`, which goes on after the first violation), and
each property named here is violated:

- `MCThreadRuns.cfg` of ThreadRuns. EvictedNeverLocks: with `retry_on_exhaustion`, a
  message that awaits a run under the lock and that run's retry wait for each other
  (`claude_chat.py:1939`, against the docstring at 1708). InterruptReachesProcess: an
  eviction with interrupt signals the template (`claude_chat.py:1720`); `/stop` knows of
  this, eviction does not. NoDeadEntry: posting the stop button raises after
  registration and outside the `try` (`claude_chat.py:1871`).
- `MCSessionSlotsLeak.cfg` of MCSessionSlots (NothingLeaks): a caller that is cancelled in the
  `sleep(0)`, the post of the queue message or its closing leaves the entry in the queue and
  then the slot it is granted (`_run_helper.py:838-869`). Such cancels come from the end of the
  loop, which ends the queue too, and from the Teams puller's shutdown (`relay/puller.py:120`).
- `MCRestartMarkFails.cfg` (RunsOnce; HoldEnds holds): the mark of `resume_thread_id` raises, the rows
  of the queued runs stay (`restart_reservation.py:248`).
- `MCRestartOverlap.cfg`. RunsOnce: a reconnect while a reservation saves, restarts or
  forgets replays rows of runs that still wait (`claude_chat.py:1297`). QueuedIsRun: a shutdown
  during the saving or forgetting loses the row of a queued run (`restart_reservation.py:255`).
- `MCWaitsConsole.cfg` (FinishedWaitHasRun): a console wait is finished when its turn is
  spawned, before it has run (`wait_watcher.py:203`).
- `MCLiveInput.cfg` of LiveInput. NoOvertaking: a refused message is not held back while
  it prepares its backend handoff (`claude_chat.py:1761`). ReportedIsUnread: after an error
  in the processing of an event, a message with its echo still on the pipe is reported as
  not read (`_run_helper.py:626`).
- `MCTeamsRelayGivenUp.cfg` (TriedBeforeGivenUp): leases that end on the way use up the
  deliveries of an activity that was never handled (against `relay/puller.py:116`).
- `MCSurfacesKnown.cfg` of Surfaces. RecordedIsInjected: a press in the tick of the
  timeout is told "Recorded." and the refusal is injected (`claude_teams/surface.py:524`).
  OneShotAlwaysOnce: a one-shot whose interval passes during its run is executed again
  (against `task_repo.py:208`). OnlyOneEmoji: a status replaced while its reaction is being
  set leaves it on the message (`discord_ui/status.py:133`). ReactionApproves: a reaction
  counts only while its task is in `wait_for`; one before the first wait or during a
  reminder is lost (`auto_upgrade.py:663`, against the docstring at 605). NoOrphanPrompt: a
  prompt is posted before it is registered, so a shutdown in between leaves it open
  (`auto_upgrade.py:691`, against the docstring at 292).
- `MCOutboxRace.cfg` (NoRequestLost): a path appended between the read of the marker and
  its removal is lost (`attachment_outbox.py:63`).
- `MCTurnsMark.cfg` of MCTurns (MarkLasts): a second rejection in flight shortens the mark of an
  exhausted account (`account_pool_repo.py:174`).

With an unreadable file in AttachmentOutbox (`Unreadable`) EveryFileSent fails as well: the
file stays at the head and keeps the later ones back.

## 6. Not modelled

Contents: formatting, dashboards, notices, settings. Authorisation and path checks.
Contents of probes (their verdict is: exit code pending, zero or other, and whether
the output matches). Failing database writes, except the marks of a reservation and of a
shutdown and the scheduler's; so the failing delete in `_forget`
(`restart_reservation.py:255-262`) is left out. Queue entries without a resume prompt,
and the stale text of a queue notice. Pending rows older than their five minutes. Of the chat cog, the commands
that neither start nor end a run. Of the run driver, worktree cleanup, scheduled
wakeups and context building. Of the event processor, todo lists, hooks, compaction
notices, thinking and the timers of tool cards. Of a Teams conversation, several session
tasks on one surface, file consent, sign-in, the Stop control of a prompt and withdrawing all prompts at
once; AskUserQuestion and Discord's views; an answer
split into several messages, whose parts are painted the way the one modelled is
(`surface.py:472-480`). Of the account pool, more than one backend,
the usage probes of Codex (a quota is any of a set of values), removed profiles, and the
scheduled and webhook runs, which take no profile from the pool. Of the upgrade, the
notice of a finished restart, and a reconnect that replays the marks before the process ends. A request that was
cancelled took effect at once or never does; one that arrives late is left out.

What has no protocol of its own: worktrees, execution environments, rendering, scripts,
the privacy gateway's token mapping, most of the console, and the REST routes, which call
the components above. What has one and is not reached: claims, session
and Teams synchronisation, attention and escalation, steering of the Codex app server.

## 7. Plan

Done, in this order: SessionSlots with its proofs; Waits; RestartReservation; ThreadRuns;
LiveInput; the Teams relay with its contract; TeamsSurface; Prompts; AnswerStream;
StatusEmoji; Scheduler; AttachmentOutbox; AccountPool; AutoUpgrade.

Then the proofs, component by component, until every safety property of the runs was a
theorem.

To come:

1. The queue and the slots of RestartReservation against SlotSemaphore, which SessionSlots
   already implements, with the proof.
2. AutoUpgrade composed with the entries of ThreadRuns and a reconnect; claims.
3. AskUserQuestion with ThreadRuns' eviction; steering a turn of the Codex app server.
