# Verification of direclaw

TLA+ specifications, TLC runs and TLAPS proofs for the concurrent and
crash-sensitive parts of direclaw: a daemon that takes messages from Slack, a
terminal and a job scheduler, routes each through an orchestrator to agents
run by external command line tools, and answers on the channel it came from.
All of its durable state is files that are written, renamed and removed by
several threads and processes with no lock and no transaction, so what has to
be right is the order of file operations, and what a crash or another thread
may find between two of them.

`PROJECT.json` maps every definition to the source lines it models.

## 1. Inventory

| Component | State | Operations | Hard part | Correct when |
|---|---|---|---|---|
| Message queue (`src/queue`) | four directories; the retry count is in the file name, the age in the mtime | write, claim oldest, complete, requeue, dead-letter | a claim may read a half-written file; an answer is several files | no message lost, none in two stages, bounded retries |
| Queue worker (`runtime/queue_worker.rs`, `runtime/recovery.rs`) | per-key scheduler, in-flight count, task threads, completion channel | recover, claim, dispatch, collect, drain on stop, one-shot drain | tasks, loop, producers and adapters interleave; a crash at any step | one task per ordering key, slots not leaked, everything settles |
| Job scheduler (`orchestration/scheduler.rs`) | a file per job, one state file, run history | tick, complete, create, update, pause, resume, delete, run-now | unlocked read-modify-write of the same files by the tick thread, task threads and the CLI | bounded duplicate dispatch, no overlap, no job wedged, deletion final |
| Workflow engine and run store (`orchestration/workflow_engine.rs`, `transitions.rs`, `run_store.rs`, `step_execution.rs`) | a file per run, step attempts, progress file | start, resume, execute step, transition, cancel | crash between step and run record, retries, time-outs, cancellation against completion | only legal state changes, limits respected, terminal is final |
| Supervisor and ownership lock (`runtime/supervisor.rs`, `ownership_lock.rs`) | lock file with pid, stop file, worker threads | start, stop, status, stale cleanup | concurrent CLI invocations, pid reuse, slow shutdown | at most one supervisor per state root |
| Slack adapter (`channels/slack`) | cursors, socket envelopes, outgoing files | backfill, socket ingest, egress | redelivery; crash between post and unlink | each message queued once, each reply posted |
| Routing and selection (`orchestration/routing.rs`, `selector.rs`) | selector artifacts | select with retries, route | partial artifacts | a valid action or a defined fallback |
| Memory (`src/memory`) | SQLite store, ingest directory, bulletin | ingest, retrieve, write back | idempotent ingest after a crash | each file applied once |
| Heartbeat (`runtime/heartbeat_worker.rs`) | queue files | produce a message per agent | the message goes through the same routing as every other | it reaches its agent |
| Local chat (`channels/local`) | one message, the files it waits for | send, drain the queue once, wait, leave | a second process claims from the daemon's directories | nothing is handled twice or left behind |
| Configuration, setup (`src/config`, `src/setup`), configuration commands (`app/command_handlers`) | settings, one yaml per orchestrator, the draft | load, edit, validate, save | no lock, a save of several files, edits made before they are validated | what is saved loads; a draft is not lost |
| Provider, CLI parsing, templates, prompts, local LLM | none of its own | parse, render, spawn | input and output | outside the model |

Interaction: producers (Slack, chat, heartbeat, scheduler, CLI) create files in
`incoming`; the worker's tasks call routing, which calls the workflow engine
and, for scheduled triggers, the scheduler's completion; tasks create files in
`outgoing`; adapters post and remove them; the supervisor owns the threads and
the stop flag.  The hazards this leads to are listed in `PROJECT.json` at the
line where each bites.

## 2. Modules and plan

| Module | Models | Uses |
|---|---|---|
| `QueueContract` | what the queue promises | |
| `QueueWorker`, `QueueWorkerProofs` | the file queue, the worker loop, its tasks, recovery | |
| `QueueRefinement` | that `QueueWorker` implements `QueueContract` | both |
| `JobScheduler`, `JobSchedulerProofs` | jobs, ticks, completions, schedule commands | |
| `WorkflowEngine`, `WorkflowEngineProofs` | runs, steps, attempts, limits, cancellation | |
| `Ownership`, `OwnershipProofs` | start, stop, restart, status, the supervisor, lock and stop file | |
| `SlackChannel`, `SlackChannelProofs` | catch-up passes, socket loops, outbound sweeps, cursor file | |
| `MemoryBulletin`, `Memory`, `MemoryProofs` | the bulletin as a pure algorithm; ingest, store, recall | |
| `RunReply`, `Dispatch`, `DispatchProofs` | the reply as a pure algorithm; selection, routing, commands, chat, heartbeat | |
| `SetupDraft`, `Setup`, `SetupProofs` | configurations and the edits of one; screens, save, commands | |

Every `MC` module gives the constants of one of them small values.

Left to prove: the three liveness properties, once a prover supports fairness.
Left to model: `SlackChannel` composed with `QueueWorker` in place of its own
short life of a message; cron parsing and calendar matching against a reference
definition; the other functions a message may call; updates and auth sync.

## 3. `QueueWorker`

### State and actions

| Code | Model |
|---|---|
| `incoming/`, `processing/`, `failed/` | sets of messages |
| `outgoing/` | a set of `[msg, kind, seq]`: announcement, reply or failure summary |
| file contents | `body`: not there, partial, full |
| mtime, `requeue_a<n>_` in the name | `mtime`, `attempt` |
| `PerKeyScheduler` | `pending` (place of a message, 0 if absent), `active` |
| `in_flight`, stop flag, claim budget | `inflight`, `stop`, `budget` |
| a task thread in `process_claimed_message` | `task[m]`, `left[m]` |

`Start`, `Recover*`, `NewRound`, `Claim`, `Enqueue`, `Unparsable`, `ClaimEnd`,
`Dispatch`, `Collect`, `CollectEnd`, `DrainPending`, `DrainEnd` are the worker
loop in the order of the code; `RouteAck` to `Notify` are one task.  Every file
operation another process or a crash could observe is an action of its own, and
each has an action that makes it fail (`RecoverError`, `ClaimIoError`,
`DrainIoError`, `TaskIoError`), bounded by `MaxIoErrors`.  `Crash` and
`RecoverCrash` keep the files and drop everything else.  `CreateFile`,
`FinishWrite` and `Deliver` are the producers and the adapters.

Abstractions.  One queue; a message is written once and has a modification
time of its own, so ties are not modelled, and it is one file, so recovery's
removal of a second processing file of the same message has nothing to do.  A
task that panics never reports its completion and keeps its slot; the model's
tasks end or fail.  What routing answers (failure, no
response, one to `MaxReplies` replies) is a free choice: the provider, the
selector and the workflow are behind it.  The message id that recovery
compares is the message itself; `Redirected` are the triggers whose replies
carry another channel and are therefore not recognised, `Untargetable` the
messages for which `resolve_outbound_slack_target` fails.  `tries`, `replied`,
`answered`, `silent` and `before` are history, read by no guard.

### Runs

| Run | Shows | Bounds |
|---|---|---|
| `queue_thread` | Two messages of one conversation, multi-step, up to two replies, two slots: `TypeOK`, `KeyExclusion`, `SlotAccounting`, `RetryBound`, `OvertakenOnlyIfRetried`, `NoRerunWhileReplyQueued` | two starts: a crash or stop and the recovery after it; two attempts: a retry and a dead letter |
| `queue_mixed` | A Slack message without target beside a redirected trigger, one slot: `NoMessageLost`, `OneStage`, `ImplementsContract` | as above, and one failing file operation at any point |
| `queue_liveness` | `EventuallySettled` under fairness | two starts, two attempts |

Two messages are enough for the ordering, exclusion and slot properties, which
relate at most two messages; the safety properties proved below hold for any
number.  `MaxStarts` limits every run, after which the daemon may be down for
good, and producers may have nothing left to write: deadlock is not checked.

`ImplementsContract` is the refinement.  `QueueContract` knows no files, names
or threads: a message is accepted, executed any number of times apart from the
others of its key, settled, and let go of only then.  `QueueRefinement` maps
`held` to the files in `incoming` and `processing`, `executing` to the messages
a task has, and `settled` to those with a reply, a deliberate silence or a dead
letter; every step of the worker is a step of the contract or changes nothing in
it, which TLC checks on this instance and section 11 proves for all.

Fairness.  `WF(LoopStep)`: the worker thread is a loop that sleeps between
rounds and blocks on nothing but the file system.  `WF(TaskStep(m))`: a task
thread runs, and the provider call in it has a timeout.  `WF(FinishWrite(m))`:
a live writer finishes one `fs::write`; a writer that died is in `Torn`.
Nothing is assumed of operators, adapters, crashes or errors.
`EventuallySettled` is conditional on the daemon staying up, since nothing in
the code restarts it.

### Met while modelling

- Replies are written one file at a time and recovery treats a message as done
  when one of them exists (`recovery.rs:39`); a crash in between loses the rest.
- A file that never parses is put back with its old mtime (`lifecycle.rs:48`),
  is the oldest of every later pass and ends the pass: nothing else is claimed.
- A retried message is overtaken by a later message of its conversation
  (`OvertakenOnlyIfRetried` is what does hold), where
  `docs/build/spec/02-queue-processing.md:108` says that ordering is preserved.
- A crash between `Bury` and `Notify` leaves a dead letter without the summary
  the specification asks for.
- A claim of a half-written file and a graceful shutdown count as attempts, so
  a message may be dead-lettered after fewer executions than the limit.
- A message whose target does not resolve stays in `processing` until the next
  start and then runs again; recovery resets the retry count.

## 4. `JobScheduler`

### State and actions

A job file is `job[j]`; `scheduler_state.json` is `stateFile`
(`recent_execution_ids` and the active executions); the run records are the
set `history`, and `tornRuns` the jobs with a record that does not parse;
`queued` are trigger files.  `tick` is `TickLoad`, `TickList`,
one of `TickPass`, `TickSkipMissed`, `TickDuplicate` or
`TickEnqueue`-`TickPersist`-`TickRecord` per job in the order of the list, and
`TickSave`: the order in which the code touches the files.  `complete_execution`
is `CompleteLoadState`, `CompleteSaveState`, `CompleteLoadJob`,
`CompleteSaveJob`, `CompleteRecord` on a task thread.  `TickUnreadable` is the
tick that `execution_exists` ends on a torn record.  A schedule command is a load
(`JobTransition`, `JobUpdate`, `JobReschedule`, `JobRunNow`) followed by
`CliSave`; `JobCreate` is one step.  All of them interleave.  `Crash` ends the
tick and the threads, gives the triggers that were being worked on back to the
queue under new names, and may leave any of the state, job and run files that
were being written torn; `CliCut` is a client that dies in the write of a job.

Abstractions.  A cron expression is "every multiple of k"; time zones and
calendars are left out.  `list_all` reads the directory in one step.  The part
of the queue between `TickEnqueue` and `WorkerTake` is a set: `QueueWorker`
has the rest.  A write that fails while the daemon lives on leaves the old file;
only a death tears one.  `WorkerEnd` stands for a trigger that was answered or
dead-lettered.  `mishaps` is history: it records which of the accidents that
the code has no defence against have befallen a job, so that a property can say
that nothing else leads to the bad state.

### Runs

| Run | Shows | Bounds |
|---|---|---|
| `job_commands` | One interval job under any two commands, with a crash or an I/O error at any step: `TypeOK`, `WedgedOnlyByRace`, `DispatchBound`, `OverlapHasCause` | clock 0..2, stale age 1, one recent id: expiry and truncation happen |
| `job_liveness` | `DueIsHandled`: a due job of any schedule and policy is dispatched, skipped or changed although an execution of it was leaked or its trigger failed | clock 0..3, one failure, one command |

`job_commands` does not check deadlock: after a crash that tore
`scheduler_state.json` no tick gets past its first read, and the clock and the
commands are bounded.  `job_liveness` does.

Fairness.  `WF(TickStep)`: the scheduler worker ticks in a loop.  `WF(Advance)`:
time passes.  `WF(CompleteStep(w))`: a task thread that has a trigger ends it,
as in `QueueWorker`.  Clients, errors and crashes are not assumed to happen.
`DueIsHandled` names what excuses it: the job was wedged or a file torn.

### Met while modelling

`OverlapHasCause` and `WedgedOnlyByRace` say that nothing but the following
leads to the bad state; with the cause left out of either property TLC shows
the accident.

- `complete_execution` rewrites the state from a copy read before a tick saved
  it, so the executions of that tick are no longer active and their jobs are
  dispatched again beside the first trigger, although
  `docs/build/spec/15-scheduled-automation.md:163` excludes overlap.
- `complete_execution` writes back a whole job to record its result; if a tick
  advanced `next_run_at` in between, the old time returns, its execution id is
  known, and every later tick skips it as a duplicate without moving it on.
- A trigger that routing refuses stays active, and blocks its job, until the
  stale age of a day.
- A tick or completion writes back a job that was deleted or paused meanwhile
  and revives it.
- A crash while `scheduler_state.json` or a job file is written stops every
  later tick, because `load_state` and `list_all` fail as a whole; one while a
  run record is written does so from the next time its job is due, because
  `execution_exists` reads the records of the job one by one.

## 5. `WorkflowEngine`

### State and actions

One run: its record `rec`, the result files `result[step][attempt]` and
`progress.json`.  An engine is a thread inside `start` or `resume`; `run[e]` is
the copy of the record it works on, `at[e]` the attempt and `out[e]` its
outcome.  `Create` and `Resume` are the two ways in, `Load` the head of `start`
and `resume`; `Resolve` to `Check` are `execute_next` and
`run_until_non_running` in the order in which they touch the files, `Fail` is
`execute_or_fail`.  A change of the record is a decision (`Persist`), then
`Save`, then `Progress`, after which the engine goes on at `cont[e]`: the cancel
command, another engine, an error (`IoError`) or a crash may come between any
two.  `CancelLoad`, `CancelSave` and `CancelProgress` are the cancel command.

Abstractions.  What an attempt comes to (success with one of the step's
successors, retryable failure, failure) is a free choice: the provider, the
envelope, the output contract and the review decision are behind it.  Time is
`expired`, which may become true at any moment, and `late`, a free choice when
an attempt is judged.  The configuration does not change during a run.  The
guard of 10,000 cycles is left out: with one engine the limit of iterations
ends the loop much earlier.  A result or record that was being written when the
process died or the write failed does not parse.  `base` and `write[e].from`
remember which record a copy was made from, and `ran`, `ranLate`, `last` and
`mishaps` what happened; no guard reads them.

### Runs

| Run | Shows | Bounds |
|---|---|---|
| `engine_run` | A review that may reject any number of times, then a last task: `TypeOK`, `InvocationBound`, `PathFollowed`, `CancelTakesEffect`, `TerminalIsFinal`, `EventuallyTerminal` | limit of three iterations, so success, exhaustion and a second visit happen; one retry; one resume, one cancel, one crash or error at any step |

`engine_run` has one engine, since two that share a run lose increments of the
counter and nothing but the cycle guard would bound the state space; the
theorems below are about any number.  Deadlock is not checked: a run that ended
is left alone.

Fairness.  `WF(EngineStep(e))`: a thread inside the engine runs; the provider
command has a time-out.  Nothing is assumed of resumes, cancels, time, errors
or crashes.  `EventuallyTerminal` is excused by any mishap, because nothing in
the code resumes a run by itself.

### Met while modelling

- `resolve_next_step_pointer` looks only at `next_step_id` of the attempt the
  record points to (`workflow_engine.rs:104`).  A failed attempt has none, so a
  resume after a crash that came before the retry, or before the run was marked
  failed, ends the run as succeeded.
- A start is serialised under the key of the conversation, a message that names
  the run under the key of the run, and `resume` takes a running run
  (`workflow_engine.rs:220`): two engines execute the same step, and their
  counts of iterations overwrite one another.
- A cancel between an engine's load and its next write is overwritten and lost
  (`TerminalIsFinal` names it as the only way); a canceled step still makes its
  remaining retries.
- A run whose last step is exactly the last iteration allowed fails, because the
  limit is compared again after the attempt was counted.
- A crash while a step is visited a second time finds the result of the first
  visit and skips the step; a record torn by a crash can be neither resumed nor
  canceled.

The five modules that follow are about safety: what ends their processes is an
operator, a user or Slack, and no fairness is assumed.  Each begins in a set of
scenarios, which say what may still happen (messages, failures, crashes,
starts); the bounds are those of the scenario.  Deadlock is not checked, since a
scenario that is used up leaves nothing to do.  History variables (`stolen`,
`raced`, `excused`, `left`, `shared`, `lost`, `why`, `causes`) record the
accidents the code has no defence against; a property named `...HasCause` says
that nothing else leads to the bad state, and without the cause TLC shows the
accident.

## 6. `Ownership`

The lock file, the stop file and the supervisor's state file, and processes that
read and write them.  A process is its pid, the command it runs and its next
step.  `Launch` begins a command; `StatusCheck`, `CheckLock`, `Cleanup`,
`CleanupStop`, `CleanupState` and `StatusSave` are `supervisor_ownership_state`,
`cleanup_stale_supervisor` and the repair that `status` makes; the actions of
`Begin` are a start in the foreground or detached, from the exclusive creation
of the lock to the child that takes it over, with the error path that gives the
lock up before (`StartFails`) and after (`WriteChildPidFails`) there is a child; those of `Supervise` the
supervisor's boot, work and retirement; those of `Stop` the stop file, the wait,
the kill at the time-out and the report.  Each read or write of a file is a step.
Pids are not reused, and signals reach the process they are meant for.

Run `ownership`: four processes that live as they should, or three of which two
may die at any step: `TwoSupervisorsHasCause`, `StopStops`.  Two supervisors need
a starter, a stale owner and a second starter or a `status`; the fourth process
is the detached child.

Met while modelling: the check and the removal of a stale lock are two steps, so
that the second of two starters removes the lock the first has just created
(`ownership_lock.rs:45`); `status` writes back a state it read before the owner
changed it; a launcher that dies after the spawn leaves a lock with a dead pid
while its child boots (`daemon.rs:79`), and one that cannot write the child's pid
removes the lock under it (`daemon.rs:66`); a supervisor removes at boot a stop file
that was meant for it, and only the time-out of `stop` ends it.

## 7. `SlackChannel`

One profile and one conversation with its threads.  A post is a number, which is
also its timestamp.  A catch-up pass loads the cursor file, fetches history,
then the replies of each thread it tracks, enqueues, writes the cursors to
`cursor.json.tmp` (`draft`) and renames that; it runs in the backfill worker, at
the top of every socket loop, and in the process of `channels slack sync` or
`backfill run` (`Command`).  All of them share the one temporary file, so a pass
may rename what another wrote, or find it gone.  A socket loop
opens, acknowledges, buffers and enqueues events; a loop that is replaced lives
on until it notices.  A sweep lists the outgoing files, reads each, posts its
chunks and removes it; it runs in the backfill worker, in the socket runtime and
in the command.
Failed API calls, the shared stop flag, a crash and a restart come at any step.
What the queue does to a message is reduced to its stages: under its own name,
renamed by a requeue or recovery, answered, sent or silent.

Abstractions: texts, users, credentials and allow-lists are left out
(`Undeliverable` are the replies without a valid target); all posts lie in the
24-hour window; pagination is one call.  The writing of `cursor.json.tmp` and of
an outgoing file is one step: a sweep that reads half of a reply, and a rename
in the middle of another pass's write, are not in the model.

Run `slack`: seven scenarios (polling with threads, polling over a restart, socket
and polling, polling beside a command, two sweeps, a sweep beside a command's,
socket alone) with up to three posts, a buffer of one,
replies of two chunks and two loops: `CursorCoversEnqueued`,
`DuplicateHasCause`, `ReplyDelivered`.

Met while modelling: a reply's timestamp moves the cursor of the conversation,
past a top-level post made between the two calls (`ingest.rs:436`); an event is
acknowledged before it is dropped by a full buffer; an error of a sweep leaves
its socket loop running beside the next one; a loop that fails for good raises
the stop flag all workers of the daemon share (`slack/mod.rs:383`); replies in a
thread that is not tracked are not fetched once another thread is.

## 8. `Memory` and `MemoryBulletin`

`MemoryBulletin` is `build_memory_bulletin` and `truncate_sections` as
operators: sections with their lines, trimmed line by line and then section by
section until the text fits; its loop is a recursive function of the rounds left,
and sums and counts are written out, so that the prover can reason about them.  `Memory` is the ingest directory with
`processed/` and `rejected/`, the tables of the store, the embeddings, the
worker's tick (`ReadFile`, `RejectFile`, `SkipDuplicate`, `MoveToProcessed`,
`ExtractionFails`, `PersistFile`, `EmbedFile` and their errors), the write-back
of messages and workflow steps, and `Recall` with its fall-back to the newest
bulletin (`RecallFails`), the empty bulletin where the store cannot be opened
(`RepositoryUnavailable`) and the one where the log or a bulletin file cannot be
read or written, which may leave a torn file behind (`BulletinFails`).  A transaction of SQLite is one step; everything else may be cut short
by a fault or a crash, or overtaken by the owner of the directory dropping
another file of the same name.

Abstractions: what a message's words match is a free choice of up to `TopN` rows;
scores, full text and vector arithmetic are left out; a line of a bulletin has
one length, so that the limit is met at small sizes.

Run `memory`: seven scenarios of dropped files (two versions of one name, a file
that is refused, one that does not parse, one that adds a contradiction, one that
retracts), redelivered messages and repeated steps, `TopN` 2, limits of 9 to 22
units: `FileAccounted`, `RejectionHasCause`, `EmbeddingCurrent`,
`EmptyBulletinHasCause`, `BulletinKeepsPriorities`, `ReplayChangesNothing`.

Met while modelling: a file whose name was used before is moved as
`name.md.1`, which is no longer a supported type, and is rejected
(`ingest.rs:445`); a file is moved to `processed/` before it is stored, and a
crash in between loses it; one edge to an unknown memory rejects its whole file;
after the workspace was moved every recall fails, because the stored paths lie
outside it; a store that cannot be opened, or a log line that cannot be appended,
gives a message an empty bulletin although a successful one is on disk
(`docs/build/spec/14-memory.md:181` allows either);
`persist_diagnostics_findings` is never called.

## 9. `Dispatch` and `RunReply`

From a claimed message to its replies.  `RunReply` is how the worker orders the
attempts it finds on disk and picks the final message.  In `Dispatch` a handler
is a thread of the daemon or the chat; it resumes the run a message names, or
writes a request, calls the selector up to `Retries` times, reads the result
file, applies the policy that a mentioned or direct message is answered, routes
the action (start, status, command, no response) and completes or retries the
message.  What the code does in two steps is two steps here: the acknowledgement
and the creation of a run, a command and the completion of its message
(`CommandDone`), the dead letter and the notice of it (`DeadLetter`, `Notify`).
Each may fail: a claim (`ClaimFails`), a completion after some of its replies
(`CompletionFails`), a requeue or dead letter (`FailureFails`), the notice, a
command after it took effect.  Messages that name a run are kept apart by the
run, the others by the conversation, as `derive_ordering_key` has it.  The chat sends a message, drains the shared queue with
`drain_queue_once`, waits for its answer and may be left at any time;
`HeartbeatTick` is the heartbeat worker's message.  Execution of a run is reduced
to its attempts with the seconds they fall in (`WorkflowEngine` has the rest) and
the queue to the stage and name of a file (`QueueWorker` has the rest).

Runs.  `dispatch`: thirteen scenarios of two messages (what an earlier delivery left
behind, cancel and status from the same or another conversation, `daemon.stop`
from the chat and from Slack, the chat beside the daemon, a heartbeat) with
errors, crashes, a quit chat and a second start: `MustReplyAnswered`,
`StrandedHasCause`, `TwoHandlersHasCause`, `RepeatHasCause`,
`ReplyFromLastStep`.  The daemon's threads are interchangeable, and the run uses
that symmetry.

`dispatch_heartbeat` expects a violation of `HeartbeatReachesAgent`: the
heartbeat message carries its correlation id as `workflow_run_id`
(`heartbeat_worker.rs:60`), so that routing takes it for the resumption of a run
that does not exist and answers that it was not found, where
`docs/build/spec/11-heartbeat-service.md:18` has the message reach its agent.

Met while modelling: a dead letter whose notice fails or is cut off is never
reported to its author; a message whose completion fails after its command stays
in `processing` until the next start and the command is carried out again; a
selector that exits well without writing its result has
the file of an earlier delivery read as its answer; `daemon.stop` asked for in a
message waits for the daemon it runs in, is killed with it before the message is
completed, and is carried out again after every start; a drain that ends on an
error leaves what it had claimed in `processing`; a daemon that starts takes back
messages a chat is handling; attempts that begin and end in the same second are
ordered by step id; an outgoing file that another process removes between
listing and reading ends the chat's wait with an error; the chat looks for
progress in a directory no run is stored in; `lexical_router.rs` is not used.

## 10. `Setup` and `SetupDraft`

`SetupDraft` has a configuration and every edit of one as an operator that
returns the new configuration and whether it was accepted: most edits change the
draft first and validate afterwards, so a refused edit may leave its change
behind.  Numeric fields and models are left out, and of a step's prompt only
whether its path stays inside the workspace is kept.  `Setup` has the
settings file, the `orchestrator.yaml` files, the setup screens with the ids they
hold, the save (settings, then one file after the other) and the configuration
commands (load and edit, then one or two writes).  A save of the settings writes
the file before it makes the mounts, and a save of a configuration makes the
prompt files before it writes the yaml, so both may stop half way.  Setup and a
command may overlap, and either may die, or fail to make a file, a directory, a
mount or a link, before or in a write (`PersistFails`, `BreakSetup`,
`BreakCommand`).

Run `setup`: no settings yet and one edit; two edits in a quiet session; one edit
and one command that overlap, with one orchestrator and with two; one crash or
failing file operation in each: `DiskConfigsValid`, `UnloadableHasCause`, `DraftLostHasCause`.  Two edits
are what it takes for one to meet what the other left behind.

Met while modelling: a prompt such as `../x.md` is accepted by the edit and by
validation and refused by the save, after the settings were written
(`config/save.rs:70`); a missing shared workspace or an occupied mount point fails a
save whose settings are already on disk (`config/save.rs:38`); toggling a step's type keeps its `final_output_priority`, so
that an accepted edit makes every later save fail; a refused rename leaves the
screen with an id that is gone, and opening its steps ends setup and loses the
draft (`setup/actions.rs:1343`); `orchestrator remove` saves the settings before
it looks the identifier up in them, and the file stays; a relative private
workspace is accepted and makes the next start of setup fail; two orchestrators
with one private workspace write over each other's file; a save of the draft
undoes the commands given since it was loaded.

## 11. What is proved

The theorems hold for any finite set of messages, jobs, processes, posts, files or
handlers, for any limits and any workflow, and for any number of crashes, errors
and commands.  The only assumption is the `ConstantsOK` (in `Memory`, `LimitsAreNumbers`) of the
module, where it has one, which TLC evaluates in the runs.  A theorem about an invariant is proved by the inductive
invariant named in its row, which holds initially, is preserved by every action
and implies the property; a lemma per action, cited by name, does the
preservation.

### `QueueWorkerProofs`

| Theorem | Argument |
|---|---|
| `Typing` (`TypeOK`) | inductive as it stands |
| `MessagesAreKept` (`NoMessageLost`) | `OutcomeFirst`: a task about to remove its file has already written a reply or dead letter or chosen silence, and a queued reply implies one was written, which is what makes recovery's drop sound |
| `SlotsAreCounted` (`SlotAccounting`) | `SlotsHeld` and `KeysHeld`: one counted slot and one active key per live task; needs that two live tasks never share a key, since completing one frees it |
| `KeysAreExclusive` (`KeyExclusion`) | the same invariant, and that `OrderingKey` separates what the property names |
| `StagesAreDisjoint` (`OneStage`) | `Stages`: also ties `hand`, `pending` and each task's position to `processing`, so that a requeue finds its file there |
| `RetriesAreBounded` (`RetryBound`) | `RetriesCounted`: executions never run ahead of the count in the name by more than the running one |
| `RepliedIsNotRerun` (`NoRerunWhileReplyQueued`) | `NotRerun` and `WrittenFirst`: a message whose reply is queued is not about to be requeued, and nothing is settled before its file exists |
| `OvertakingIsByRetry` (`OvertakenOnlyIfRetried`) | `Aged` and `InOrder`: mtimes follow arrival, and while an elder that was not retried waits, the younger is not executed and is behind it in `pending`; the handover from one to the other is where it could go wrong |
| `QueueImplementsContract` (`ImplementsContract`) | the refinement step by step: `Holding`, `Occupied` and `Outcome` are the contract's variables, `Dispatch` is its `Execute`, `Unlink`, `Bury` and recovery let go of settled messages only; uses `Stages`, `OutcomeFirst`, `KeysHeld`, `SlotsHeld`.  `QueueContract` has no fairness, so this is all of it |

### `JobSchedulerProofs`

| Theorem | Argument |
|---|---|
| `Typing` (`TypeOK`) | inductive, with the limit on `recent` carried through stale writes |
| `DispatchesAreBounded` (`DispatchBound`) | `DispatchesPaid`: a dispatch is in the history, or is the one tick is about to record, or is paid for by a cut |
| `WedgingNeedsRace` (`WedgedOnlyByRace`) | `Traced` (history, queue, threads and recent lists hold only dispatched executions, none before its time) and `JobsAhead`: `next_run_at` lies after all executions of the job but the one being dispatched, until the job file is rewritten; what a command is about to save fits too, or the tick has moved the job on and the save is a stale one |
| `OverlapsHaveCause` (`OverlapHasCause`) | `RegularAlone`: an execution has one trigger (`TriggersOnce`), and every trigger under way has its entry in `scheduler_state.json` when the next tick loads it and in the tick's copy while it works (`Guarded`), so that the check before a dispatch sees it and at most one is under way (`OneUnderWay`) |

### `WorkflowEngineProofs`

| Theorem | Argument |
|---|---|
| `Typing` (`TypeOK`) | `Typed`: an engine that executes knows its attempt, and an outcome is retryable only below the limit; this is what keeps the next attempt in its domain |
| `TerminalStates` (`TerminalIsFinal`, an action property) | `WritesAreLegal`: a copy made from a terminal record keeps its state except on the way out, so every write does, and a cancel starts from a record that is not terminal |
| `InvocationsAreBounded` (`InvocationBound`) | `Counted`: while nothing is stale or shared one engine is inside, its count is the record's, an invocation is pending until the write that counts it, and a torn record keeps everyone out; each cut pays for one uncounted invocation |
| `CancelStops` (`CancelTakesEffect`) | `LateOnlyAtStep`: an engine that chooses its next step after the cancel finds it on disk (`Choosing`), so late invocations are attempts of the step it is at (`FewLate`) |
| `StepsFollowThePath` (`PathFollowed`) | `Pathwise`: what each control point of an undisturbed engine knows of the last recorded attempt (`Follows`, `Ended`, `Rests`, `Busy`, `OnPath`) |

### The other components

| Theorem | Argument |
|---|---|
| `OwnershipProofs!Typing` | `TypeParts` and `Known`: a process that has not reserved the lock is named by no file and is nobody's target, so that a stop never goes after itself |
| `SupervisorsAreSingle` (`TwoSupervisorsHasCause`) | `OneHolder`: from the creation of the lock until it is given up, one process holds the state root and the file stays in place, with its pid or about to get it |
| `StopIsEffective` (`StopStops`) | `Stopping`: a supervisor found at work only goes downhill, and a report comes from a cleanup, which finds no supervisor unless it steals a lock, or from a lock without a pid, which no supervisor leaves behind |
| `SlackChannelProofs!CursorIsSafe` (`CursorCoversEnqueued`) | `InboundInv`: cursors stay within the posts there are (`Bounded`), and what was never enqueued is ahead of the cursor file and of every pass that does not have it in hand (`Ahead`); `DraftInv` says the same of `cursor.json.tmp`, whoever wrote it, and that while a pass is about to rename it, it covers what was enqueued once, so that it does not matter whose cursors a rename takes |
| `DuplicatesHaveCause` (`DuplicateHasCause`) | the same invariant's `Behind`, `Apart` and `Single`: what was enqueued is behind the cursor file or was taken by a pass under way, and passes that overlap take only excused posts |
| `RepliesAreWhole` (`ReplyDelivered`) | `OutboundInv`: the chunks shown are those below the sender's position (`ShownSoFar`), two senders at one file make it contested, a removed file was shown whole |
| `MemoryProofs!FilesAreAccounted` (`FileAccounted`), `RejectionsHaveCause` (`RejectionHasCause`) | `FilesInv`: what the worker has in its hand is the file it read, under the name it has now, and every rejected file carries an explanation |
| `EmbeddingsAreCurrent` (`EmbeddingCurrent`) | `StoreInv`: a row without its embedding is owed by exactly the writer that wrote it (`Owing`, `OwedHeld`) |
| `ReplaysChangeNothing` (`ReplayChangesNothing`, an action property) | the same invariant: every change of a row is made in a step that adds its source (`Fresh`) |
| `EmptyBulletinsHaveCause` (`EmptyBulletinHasCause`) | `ShownInv`: the shape of stored bulletins and of what each message was shown |
| `BulletinsKeepPriorities` (`BulletinKeepsPriorities`) | no step changes a bulletin that was shown, so this is about what `build_memory_bulletin` returns: every section is a prefix of what was recalled, and one that lost a line comes in the trimming order after sections that are empty (`Trimmed`), which one round of `truncate_sections` preserves (`PopTrims`).  A round that does not fit takes one line away, so the loop ends; that the recursive function exists and holds this at every count is shown from a least counterexample (`LoopExists`, `TrimLoop`).  From `LimitsAreNumbers`: `TopN` and the limits are naturals |
| `DispatchProofs!MustRepliesAreAnswered` (`MustReplyAnswered`) | `AnswerInv`: the pick a handler carries respects the policy for its message, and what is in the outgoing directory was replied |
| `StrandedHaveCause` (`StrandedHasCause`) | `StrandedInv`; every action is first reduced to one of a few kinds of steps (`Kinds`), and the invariants are proved for these |
| `TwoHandlersHaveCause` (`TwoHandlersHasCause`) | `HoldInv`: a handler or the chat's batch has its file in `processing` under the name it claimed, apart from all others, or the message was shared |
| `RepeatsHaveCause` (`RepeatHasCause`) | `RepeatInv`: a message whose command was carried out is gone, or with the handler that did it (`Closing`), or has a cause (`Caused`) |
| `RepliesShowTheLastStep` (`ReplyFromLastStep`) | `RunsInv`: a run's attempts follow each other in time, those of a step are numbered in order, and a failed one is followed by another of its step (`Timely`, `Numbered`, `Retried`, `Awaits`); so there is a last one in the order of `step_attempts_by_time` (`LastExists`), it has the times of the one made last, and it succeeded if that one did (`LastFact`); a reply that shows output is about a run that has ended and changes no more |
| `SetupProofs!FilesAreValid` (`DiskConfigsValid`) | `ValidInv`: the shapes of settings and drafts survive every edit, and what a save or a command holds between its two writes was validated and is what the draft had (`SaveOK`, `CommandOK`) |
| `OrchestratorsLoad` (`UnloadableHasCause`) | `LoadInv`: while nothing happened that the code has no defence against, the workspaces in the settings resolve and are apart, each orchestrator's file loads or is still to be written (`AllLoad`), and who is past its first write wrote the settings on disk (`Abreast`) |
| `DraftsLostForCause` (`DraftLostHasCause`) | `LostInv`: files, draft and commands hold well-shaped configurations (`FilesShaped`, `DraftShaped`, `CommandShaped`), a screen is about an orchestrator of the draft (`LocatedAt`), while no cause is on record the draft is valid and has the workflow on the screen (`Sound`), what only the final save checks holds or has its cause (`Rooted`), and without a command the settings are still those that were loaded (`Undisturbed`).  `Sound` is where the work is: each edit that reports success leaves a valid configuration or leaves a cause (`Edited`), one that changes a part keeps the rest (`Kept`), and each template has valid workflows over its own agents, so that merged into a valid configuration it keeps it valid (`TemplateGood`, `ApplyFact`).  Lists cut or sorted by `Without` and `ById` have exactly the entries they should, without any induction: `InOrder` puts an entry at the number of those not after it.  From `ConstantsOK`: the templates are among the three of the code, and names can be compared |

### Only model-checked

- The liveness properties `EventuallySettled`, `DueIsHandled` and
  `EventuallyTerminal`: liveness under fairness is outside what the prover
  supports.

The type invariants of `SlackChannel`, `Memory`, `Dispatch` and `Setup` hold on the
instances of their runs, whose configurations leave them out in favour of the
properties; the proofs use the parts of them they need (`Typed`, `SweepTyped`,
`WorkerShape`, `RowShape`).

## 12. What is not modelled

Provider processes, the parsers of their output, the parser of cron expressions,
prompt rendering, templates as text, command line parsing and formatting, the
terminal's drawing, the update command, auth sync and the local LLM's downloads
are input and output around the modelled parts; where their outcome matters it is
a free choice.  The functions a message may call, other than cancel and
`daemon.stop`, are one function that changes nothing the module keeps.  Power
loss that reorders file system writes is not considered: a completed rename or
write stays.
