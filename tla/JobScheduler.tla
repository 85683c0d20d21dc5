---------------------------- MODULE JobScheduler ----------------------------
(***************************************************************************)
(* Scheduled jobs of one orchestrator (src/orchestration/scheduler.rs).    *)
(*                                                                         *)
(* A job is one JSON file, scheduler_state.json holds the recent and the   *)
(* active executions, and a run record is kept per execution.  Three kinds *)
(* of threads read, change and rewrite these files with no lock: the       *)
(* scheduler thread (tick), the queue's task threads when a trigger ends   *)
(* (complete_execution) and the schedule commands of a client (JobStore).  *)
(* Every load and every write is a step of its own here.                   *)
(***************************************************************************)
EXTENDS Integers, Sequences, FiniteSets

CONSTANTS
    Job,          \* job ids, numbers as they sort
    Worker,       \* task threads of the queue worker
    Schedules,    \* schedules a client may ask for, see Schedule
    Policies,     \* misfire policies a client may ask for
    Overlaps,     \* values of allow_overlap a client may ask for
    StaleAge,     \* STALE_ACTIVE_EXECUTION_MAX_AGE_SECS
    MaxRecent,    \* length of recent_execution_ids (2048)
    MaxTime,      \* bound: the clock
    MaxOps,       \* bound: schedule commands
    MaxCuts,      \* bound: crashes and ticks ended by an error
    MaxFailures   \* bound: failed executions that are retried

Time == 0..MaxTime
Exec == Job \X Time        \* "exec-<job>-<next_run_at>"
State  == {"absent", "enabled", "paused", "disabled", "deleted"}
Policy == {"fire_once_on_recovery", "skip_missed"}

\* An optional time is a set of at most one time.
Optional == {o \in SUBSET Nat : \A t, u \in o : t = u}

\* once, interval, or cron reduced to "every multiple of `every`".
Schedule ==
    [type : {"once"}, at : Nat]
    \cup [type : {"interval"}, every : Nat \ {0}, anchor : Optional]
    \cup [type : {"cron"}, every : Nat \ {0}]

ASSUME ConstantsOK ==
    /\ Job \subseteq Nat /\ IsFiniteSet(Job) /\ Job # {}
    /\ Schedules \subseteq Schedule /\ Schedules # {}
    /\ Policies \subseteq Policy /\ Overlaps \subseteq BOOLEAN
    /\ StaleAge \in Nat /\ MaxRecent \in Nat
    /\ MaxTime \in Nat /\ MaxOps \in Nat /\ MaxCuts \in Nat /\ MaxFailures \in Nat

VARIABLES
    clock,       \* wall clock in seconds
    \* --- files -----------------------------------------------------------
    job,         \* automation/jobs/<id>.json
    stateFile,   \* automation/scheduler_state.json
    tornState,   \* scheduler_state.json does not parse
    tornJobs,    \* jobs whose file does not parse
    history,     \* executions with a record in automation/runs
    tornRuns,    \* jobs with a run record that does not parse
    queued,      \* trigger messages in the queue
    \* --- tick ------------------------------------------------------------
    tickPc,      \* where tick is
    tickNow,     \* its `now`
    tickBase,    \* the state as it was loaded
    tickState,   \* its `state`
    snapshot,    \* the jobs list_all read
    todo,        \* jobs of the list not yet visited
    \* --- complete_execution, per task thread -------------------------------
    wpc,         \* where the thread is
    wtrig,       \* its trigger
    wok,         \* whether the trigger succeeded
    wbase,       \* the scheduler state it loaded
    wjob,        \* the job it loaded
    \* --- a schedule command ------------------------------------------------
    cliPc,       \* "idle" or "save"
    cliJob, cliBase, cliNew,  \* the job, the record as loaded and as changed
    \* --- bookkeeping of the environment and of the properties --------------
    copies,      \* names given so far to requeued and recovered triggers
    ops, cuts, failures,
    dispatches,  \* how often each execution was put in the queue
    mishaps      \* <<kind, job>>: what went wrong for the job so far

files == <<job, stateFile, tornState, tornJobs, history, tornRuns, queued>>
tick  == <<tickPc, tickNow, tickBase, tickState, snapshot, todo>>
work  == <<wpc, wtrig, wok, wbase, wjob>>
cli   == <<cliPc, cliJob, cliBase, cliNew>>
count == <<copies, ops, cuts, failures>>
vars  == <<clock, files, tick, work, cli, count, dispatches, mishaps>>

NoJob     == [state |-> "absent", schedule |-> [type |-> "once", at |-> 0],
              policy |-> "skip_missed", overlap |-> FALSE, next |-> {}, last |-> {}]
NoTrigger == [exec |-> <<0, 0>>, copy |-> 0]
NoState   == [recent |-> <<>>, active |-> {}]

WorkerPc   == {"idle", "routing", "saveState", "loadJob", "saveJob", "record", "end"}
JobRec     == [state : State, schedule : Schedule, policy : Policy, overlap : BOOLEAN,
               next : Optional, last : Optional]
Trigger    == [exec : Exec, copy : Nat]
SchedState == [recent : Seq(Exec), active : SUBSET [exec : Exec, started : Time]]

Mishap == {"stale_job", "stale_state", "expired", "cut", "failed", "overlap_allowed",
           "same_second"}

JobOf(e) == e[1]

\* The trigger file under a name not used before, all of which are <= 2 * copies + 1.
Renamed(g) == [exec |-> g.exec, copy |-> copies + 1 + g.copy]

Exists(j) == job[j].state # "absent"
Running(w) == wpc[w] # "idle"

-----------------------------------------------------------------------------
(***************************************************************************)
(* Time arithmetic.                                                        *)
(***************************************************************************)
\* The first time in the optional o, or else d.
OrElse(o, d) == IF o = {} THEN d ELSE CHOOSE t \in o : TRUE

\* compute_next_run_at
NextRun(s, now, last) ==
    CASE s.type = "once"     -> IF last = {} THEN {s.at} ELSE {}
      [] s.type = "interval" -> {OrElse(last, OrElse(s.anchor, now)) + s.every}
      [] s.type = "cron"     -> {(OrElse(last, now) \div s.every + 1) * s.every}

\* compute_recovery_next_run_at
RecoveryNext(s, now) == IF s.type = "once" THEN {} ELSE NextRun(s, now, {now})

\* Mutant of NextAfterDispatch: the last run as it was before this dispatch.
NextAfterOldRun(r, t, now) ==
    IF t < now /\ r.policy = "fire_once_on_recovery"
    THEN RecoveryNext(r.schedule, now)
    ELSE NextRun(r.schedule, now, r.last)

\* next_run_at of a job record dispatched at now for the time t.
NextAfterDispatch(r, t, now) ==
    IF t < now /\ r.policy = "fire_once_on_recovery"
    THEN RecoveryNext(r.schedule, now)
    ELSE NextRun(r.schedule, now, {t})

\* A job that has nothing left to run is disabled.
Settle(r) == IF r.next = {} THEN [r EXCEPT !.state = "disabled"] ELSE r

Dispatched(r, t, now) ==
    Settle([r EXCEPT !.last = {now}, !.next = NextAfterDispatch(r, t, now)])

SkippedMissed(r, now) == Settle([r EXCEPT !.next = RecoveryNext(r.schedule, now)])

\* Mutant of PushRecent: the list is not cut.
PushRecentUncut(s, e) == Append(s, e)

\* The last MaxRecent ids.
PushRecent(s, e) ==
    LET p == Append(s, e)
    IN  IF Len(p) > MaxRecent THEN SubSeq(p, Len(p) - MaxRecent + 1, Len(p)) ELSE p

\* Mutant of WithoutStale: entries are kept for ever.
WithStale(s, now) == s

\* recover_stale_active_executions
WithoutStale(s, now) ==
    [s EXCEPT !.active = {a \in s.active : now - a.started <= StaleAge}]

-----------------------------------------------------------------------------
Init ==
    /\ clock = 0
    /\ job = [j \in Job |-> NoJob] /\ stateFile = NoState
    /\ tornState = FALSE /\ tornJobs = {} /\ history = {} /\ tornRuns = {} /\ queued = {}
    /\ tickPc = "idle" /\ tickNow = 0 /\ tickBase = NoState /\ tickState = NoState
    /\ snapshot = [j \in Job |-> NoJob] /\ todo = {}
    /\ wpc = [w \in Worker |-> "idle"] /\ wtrig = [w \in Worker |-> NoTrigger]
    /\ wok = [w \in Worker |-> FALSE] /\ wbase = [w \in Worker |-> NoState]
    /\ wjob = [w \in Worker |-> NoJob]
    /\ cliPc = "idle" /\ cliJob = 0 /\ cliBase = NoJob /\ cliNew = NoJob
    /\ copies = 0 /\ ops = 0 /\ cuts = 0 /\ failures = 0
    /\ dispatches = [e \in Exec |-> 0]
    /\ mishaps = {}

Advance ==
    /\ clock < MaxTime
    /\ clock' = clock + 1
    /\ UNCHANGED <<files, tick, work, cli, count, dispatches, mishaps>>

\* A job file is rewritten with r, derived from the record base; what another
\* thread wrote in between is lost.
WriteJob(j, base, r) ==
    /\ job' = [job EXCEPT ![j] = r]
    /\ tornJobs' = tornJobs \ {j}
    /\ mishaps' = IF job[j] = base THEN mishaps ELSE mishaps \cup {<<"stale_job", j>>}

WriteState(base, s) ==
    /\ stateFile' = s
    /\ tornState' = FALSE
    /\ mishaps' = IF stateFile = base THEN mishaps
                  ELSE mishaps \cup {<<"stale_state", j>> : j \in Job}

-----------------------------------------------------------------------------
(***************************************************************************)
(* SchedulerWorker::tick on the scheduler thread.                          *)
(***************************************************************************)
TickIdle == /\ tickPc' = "idle" /\ tickNow' = 0 /\ tickBase' = NoState /\ tickState' = NoState
            /\ snapshot' = [j \in Job |-> NoJob] /\ todo' = {}

TickLoad ==
    /\ tickPc = "idle" /\ ~tornState
    /\ tickNow' = clock
    /\ tickBase' = stateFile
    /\ tickState' = WithoutStale(stateFile, clock)
    /\ mishaps' = mishaps \cup
         {<<"expired", JobOf(a.exec)>> : a \in stateFile.active \ tickState'.active}
    /\ tickPc' = "list"
    /\ UNCHANGED <<clock, files, snapshot, todo, work, cli, count, dispatches>>

\* list_all fails as a whole when one job file does not parse.
TickList ==
    /\ tickPc = "list"
    /\ IF tornJobs = {}
       THEN /\ snapshot' = job /\ todo' = {j \in Job : Exists(j)}
            /\ tickPc' = "job"
            /\ UNCHANGED <<tickNow, tickBase, tickState>>
       ELSE TickIdle
    /\ UNCHANGED <<clock, files, work, cli, count, dispatches, mishaps>>

AtJob(j) == tickPc = "job" /\ j \in todo /\ \A k \in todo : j <= k

Due(j) == snapshot[j].state = "enabled" /\ \E t \in snapshot[j].next : t <= tickNow
DueAt(j) == CHOOSE t \in snapshot[j].next : TRUE
ExecId(j) == <<j, DueAt(j)>>
Missed(j) == DueAt(j) < tickNow /\ snapshot[j].policy = "skip_missed"

\* Mutant of Blocked: the overlap guard is missing.
NeverBlocked(j) == FALSE

Blocked(j) == ~snapshot[j].overlap /\ \E a \in tickState.active : JobOf(a.exec) = j

\* Mutant of AlreadyRun: no duplicate check.
NeverRun(e) == FALSE

\* The recent list or the run history knows the execution.
AlreadyRun(e) == e \in history \/ \E i \in DOMAIN tickState.recent : tickState.recent[i] = e

\* execution_exists fails on a record of the job that does not parse, unless it came
\* upon the one it looks for before: the error ends the tick.
TickUnreadable(j) ==
    /\ AtJob(j) /\ Due(j) /\ ~Missed(j) /\ ~Blocked(j) /\ j \in tornRuns
    /\ \A i \in DOMAIN tickState.recent : tickState.recent[i] # ExecId(j)
    /\ TickIdle
    /\ UNCHANGED <<clock, files, work, cli, count, dispatches, mishaps>>

TickPass(j) ==
    /\ AtJob(j) /\ (Due(j) => ~Missed(j) /\ Blocked(j))
    /\ todo' = todo \ {j}
    /\ UNCHANGED <<clock, files, tickPc, tickNow, tickBase, tickState, snapshot, work,
                   cli, count, dispatches, mishaps>>

TickSkipMissed(j) ==
    /\ AtJob(j) /\ Due(j) /\ Missed(j)
    /\ WriteJob(j, snapshot[j], SkippedMissed(snapshot[j], tickNow))
    /\ todo' = todo \ {j}
    /\ UNCHANGED <<clock, stateFile, tornState, history, tornRuns, queued, tickPc,
                   tickNow, tickBase, tickState, snapshot, work, cli, count, dispatches>>

\* A known execution is recorded once more; next_run_at stays as it is.
TickDuplicate(j) ==
    /\ AtJob(j) /\ Due(j) /\ ~Missed(j) /\ ~Blocked(j) /\ AlreadyRun(ExecId(j))
    /\ history' = history \cup {ExecId(j)}
    /\ todo' = todo \ {j}
    /\ UNCHANGED <<clock, job, stateFile, tornState, tornJobs, tornRuns, queued, tickPc,
                   tickNow, tickBase, tickState, snapshot, work, cli, count, dispatches,
                   mishaps>>

\* Dispatch: the trigger file, then the job, then the run record ...
TickEnqueue(j) ==
    /\ AtJob(j) /\ Due(j) /\ ~Missed(j) /\ ~Blocked(j) /\ ~AlreadyRun(ExecId(j))
    /\ j \notin tornRuns
    /\ queued' = queued \cup {[exec |-> ExecId(j), copy |-> 0]}
    /\ dispatches' = [dispatches EXCEPT ![ExecId(j)] = @ + 1]
    /\ mishaps' = mishaps \cup (IF snapshot[j].overlap THEN {<<"overlap_allowed", j>>} ELSE {})
    /\ tickPc' = "persist"
    /\ UNCHANGED <<clock, job, stateFile, tornState, tornJobs, history, tornRuns,
                   tickNow, tickBase, tickState, snapshot, todo, work, cli, count>>

AtDispatch(j, p) == tickPc = p /\ j \in todo /\ \A k \in todo : j <= k

TickPersist(j) ==
    /\ AtDispatch(j, "persist")
    /\ WriteJob(j, snapshot[j], Dispatched(snapshot[j], DueAt(j), tickNow))
    /\ tickPc' = "record"
    /\ UNCHANGED <<clock, stateFile, tornState, history, tornRuns, queued, tickNow,
                   tickBase, tickState, snapshot, todo, work, cli, count, dispatches>>

TickRecord(j) ==
    /\ AtDispatch(j, "record")
    /\ history' = history \cup {ExecId(j)}
    /\ tickState' = [recent |-> PushRecent(tickState.recent, ExecId(j)),
                     active |-> tickState.active \cup {[exec |-> ExecId(j), started |-> tickNow]}]
    /\ todo' = todo \ {j}
    /\ tickPc' = "job"
    /\ UNCHANGED <<clock, job, stateFile, tornState, tornJobs, tornRuns, queued, tickNow,
                   tickBase, snapshot, work, cli, count, dispatches, mishaps>>

\* ... and the state file only at the end of the tick.
TickSave ==
    /\ tickPc = "job" /\ todo = {}
    /\ WriteState(tickBase, tickState)
    /\ TickIdle
    /\ UNCHANGED <<clock, job, tornJobs, history, tornRuns, queued, work, cli, count,
                   dispatches>>

\* Any file operation of the tick fails, reading a file that is being written
\* included: the error ends the tick and its state is dropped.
TickError ==
    /\ tickPc # "idle" /\ cuts < MaxCuts
    /\ cuts' = cuts + 1
    /\ mishaps' = mishaps \cup {<<"cut", j>> : j \in Job}
    /\ TickIdle
    /\ UNCHANGED <<clock, files, work, cli, copies, ops, failures, dispatches>>

-----------------------------------------------------------------------------
(***************************************************************************)
(* A task thread runs a trigger and completes the execution.               *)
(***************************************************************************)
WorkerTake(w, g) ==
    /\ ~Running(w)
    /\ queued' = queued \ {g}
    /\ wtrig' = [wtrig EXCEPT ![w] = g]
    /\ wpc' = [wpc EXCEPT ![w] = "routing"]
    /\ UNCHANGED <<clock, job, stateFile, tornState, tornJobs, history, tornRuns, tick,
                   wok, wbase, wjob, cli, count, dispatches, mishaps>>

\* Routing refuses the trigger before it runs (settings, workspace access, an
\* unknown target): the execution is not completed and stays active.
RouteRefused(w) ==
    /\ wpc[w] = "routing"
    /\ wpc' = [wpc EXCEPT ![w] = "end"]
    /\ UNCHANGED <<clock, files, tick, wtrig, wok, wbase, wjob, cli, count, dispatches,
                   mishaps>>

\* Routing ended; complete_execution loads the state.  A state that does not
\* parse fails the completion, and with it the trigger.
CompleteLoadState(w, ok) ==
    /\ wpc[w] = "routing"
    /\ IF tornState
       THEN /\ wpc' = [wpc EXCEPT ![w] = "end"]
            /\ UNCHANGED <<wok, wbase>>
       ELSE /\ wpc' = [wpc EXCEPT ![w] = "saveState"]
            /\ wok' = [wok EXCEPT ![w] = ok]
            /\ wbase' = [wbase EXCEPT ![w] = stateFile]
    /\ UNCHANGED <<clock, files, tick, wtrig, wjob, cli, count, dispatches, mishaps>>

CompleteSaveState(w) ==
    /\ wpc[w] = "saveState"
    /\ WriteState(wbase[w],
         [wbase[w] EXCEPT !.active = {a \in @ : a.exec # wtrig[w].exec}])
    /\ wpc' = [wpc EXCEPT ![w] = "loadJob"]
    /\ wbase' = [wbase EXCEPT ![w] = NoState]
    /\ UNCHANGED <<clock, job, tornJobs, history, tornRuns, queued, tick, wtrig, wok,
                   wjob, cli, count, dispatches>>

CompleteLoadJob(w) ==
    LET j == JobOf(wtrig[w].exec)
    IN  /\ wpc[w] = "loadJob"
        /\ IF j \in tornJobs
           THEN wpc' = [wpc EXCEPT ![w] = "end"] /\ UNCHANGED wjob
           ELSE /\ wpc' = [wpc EXCEPT ![w] = "saveJob"]
                /\ wjob' = [wjob EXCEPT ![w] = job[j]]
        /\ UNCHANGED <<clock, files, tick, wtrig, wok, wbase, cli, count, dispatches,
                   mishaps>>

\* The whole record goes back although only last_result changed.
CompleteSaveJob(w) ==
    /\ wpc[w] = "saveJob"
    /\ WriteJob(JobOf(wtrig[w].exec), wjob[w], wjob[w])
    /\ wpc' = [wpc EXCEPT ![w] = "record"]
    /\ wjob' = [wjob EXCEPT ![w] = NoJob]
    /\ UNCHANGED <<clock, stateFile, tornState, history, tornRuns, queued, tick, wtrig,
                   wok, wbase, cli, count, dispatches>>

CompleteRecord(w) ==
    /\ wpc[w] = "record"
    /\ history' = history \cup {wtrig[w].exec}
    /\ wpc' = [wpc EXCEPT ![w] = "end"]
    /\ UNCHANGED <<clock, job, stateFile, tornState, tornJobs, tornRuns, queued, tick,
                   wtrig, wok, wbase, wjob, cli, count, dispatches, mishaps>>

\* A load or write of complete_execution fails, and with it the trigger.
CompleteError(w) ==
    /\ wpc[w] \in {"routing", "saveState", "saveJob", "record"} /\ cuts < MaxCuts
    /\ cuts' = cuts + 1
    /\ mishaps' = mishaps \cup {<<"cut", JobOf(wtrig[w].exec)>>}
    /\ wpc' = [wpc EXCEPT ![w] = "end"]
    /\ wok' = [wok EXCEPT ![w] = FALSE]
    /\ wbase' = [wbase EXCEPT ![w] = NoState]
    /\ wjob' = [wjob EXCEPT ![w] = NoJob]
    /\ UNCHANGED <<clock, files, tick, wtrig, cli, copies, ops, failures, dispatches>>

WorkerIdle(w) ==
    /\ wpc' = [wpc EXCEPT ![w] = "idle"]
    /\ wtrig' = [wtrig EXCEPT ![w] = NoTrigger]
    /\ wok' = [wok EXCEPT ![w] = FALSE]
    /\ UNCHANGED <<wbase, wjob>>

\* The trigger leaves the queue: answered, or dead-lettered after a failure.
WorkerEnd(w) ==
    /\ wpc[w] = "end"
    /\ WorkerIdle(w)
    /\ UNCHANGED <<clock, files, tick, cli, count, dispatches, mishaps>>

\* A failed trigger goes back to incoming under a new name.
WorkerRetry(w) ==
    /\ wpc[w] = "end" /\ ~wok[w] /\ failures < MaxFailures
    /\ queued' = queued \cup {Renamed(wtrig[w])}
    /\ copies' = 2 * copies + 1 /\ failures' = failures + 1
    /\ mishaps' = mishaps \cup {<<"failed", JobOf(wtrig[w].exec)>>}
    /\ WorkerIdle(w)
    /\ UNCHANGED <<clock, job, stateFile, tornState, tornJobs, history, tornRuns, tick,
                   cli, ops, cuts, dispatches>>

-----------------------------------------------------------------------------
(***************************************************************************)
(* The schedule commands: load, check, change, write.                      *)
(***************************************************************************)
JobCreate(j, s, p, o) ==
    /\ ~Exists(j) /\ j \notin tornJobs /\ ops < MaxOps
    /\ WriteJob(j, NoJob,
         [state |-> "enabled", schedule |-> s, policy |-> p, overlap |-> o,
          next |-> NextRun(s, clock, {}), last |-> {}])
    /\ ops' = ops + 1
    /\ UNCHANGED <<clock, stateFile, tornState, history, tornRuns, queued, tick, work,
                   cli, copies, cuts, failures, dispatches>>

\* valid_transition
ValidTransition(from, to) ==
    \/ from = "enabled"  /\ to \in {"paused", "disabled", "deleted"}
    \/ from = "paused"   /\ to \in {"enabled", "disabled", "deleted"}
    \/ from = "disabled" /\ to \in {"enabled", "deleted"}

\* The command loaded job j and will write r.
CliLoad(j, r) ==
    /\ cliPc = "idle" /\ Exists(j) /\ j \notin tornJobs /\ ops < MaxOps
    /\ cliPc' = "save" /\ cliJob' = j /\ cliBase' = job[j] /\ cliNew' = r
    /\ ops' = ops + 1

\* pause, resume, delete
JobTransition(j, to) ==
    /\ ValidTransition(job[j].state, to) /\ to \in {"paused", "enabled", "deleted"}
    /\ CliLoad(j, [job[j] EXCEPT !.state = to])
    /\ UNCHANGED <<clock, files, tick, work, copies, cuts, failures, dispatches, mishaps>>

\* update: policy and overlap, and in JobReschedule a schedule that counts from
\* the last run.
JobUpdate(j, p, o) ==
    /\ job[j].state # "deleted"
    /\ CliLoad(j, [job[j] EXCEPT !.policy = p, !.overlap = o])
    /\ UNCHANGED <<clock, files, tick, work, copies, cuts, failures, dispatches, mishaps>>

JobReschedule(j, s) ==
    /\ job[j].state # "deleted"
    /\ CliLoad(j, [job[j] EXCEPT !.schedule = s, !.next = NextRun(s, clock, job[j].last)])
    /\ UNCHANGED <<clock, files, tick, work, copies, cuts, failures, dispatches, mishaps>>

JobRunNow(j) ==
    /\ job[j].state = "enabled"
    /\ CliLoad(j, [job[j] EXCEPT !.next = {clock}])
    /\ mishaps' = IF dispatches[<<j, clock>>] > 0
                  THEN mishaps \cup {<<"same_second", j>>} ELSE mishaps
    /\ UNCHANGED <<clock, files, tick, work, copies, cuts, failures, dispatches>>

CliSave ==
    /\ cliPc = "save"
    /\ WriteJob(cliJob, cliBase, cliNew)
    /\ cliPc' = "idle" /\ cliJob' = 0 /\ cliBase' = NoJob /\ cliNew' = NoJob
    /\ UNCHANGED <<clock, stateFile, tornState, history, tornRuns, queued, tick, work,
                   count, dispatches>>

\* The client dies while it writes the file of a job, new or not.
CliCut(j) ==
    /\ IF cliPc = "save" THEN j = cliJob ELSE ~Exists(j)
    /\ ops < MaxOps /\ ops' = ops + 1
    /\ tornJobs' = tornJobs \cup {j}
    /\ cliPc' = "idle" /\ cliJob' = 0 /\ cliBase' = NoJob /\ cliNew' = NoJob
    /\ UNCHANGED <<clock, job, stateFile, tornState, history, tornRuns, queued, tick,
                   work, copies, cuts, failures, dispatches, mishaps>>

-----------------------------------------------------------------------------
(***************************************************************************)
(* The daemon dies and is started again.  Triggers that were being worked  *)
(* on are recovered by the queue worker under new names.  fs::write        *)
(* truncates first, so a file being written may be left half written.      *)
(***************************************************************************)
WritingState == {w \in Worker : wpc[w] = "saveState"} # {} \/ (tickPc = "job" /\ todo = {})
WritingJobs ==
    {JobOf(wtrig[w].exec) : w \in {x \in Worker : wpc[x] = "saveJob"}}
    \cup {j \in Job : AtDispatch(j, "persist") \/ (AtJob(j) /\ Due(j) /\ Missed(j))}
WritingRuns ==
    {JobOf(wtrig[w].exec) : w \in {x \in Worker : wpc[x] = "record"}}
    \cup {j \in Job : AtDispatch(j, "record") \/ (AtJob(j) /\ Due(j) /\ AlreadyRun(ExecId(j)))}

Crash(torn, jobs, records) ==
    /\ cuts < MaxCuts
    /\ torn => WritingState
    /\ cuts' = cuts + 1
    /\ mishaps' = mishaps \cup {<<"cut", j>> : j \in Job}
    /\ tornState' = (tornState \/ torn)
    /\ tornJobs' = tornJobs \cup jobs /\ tornRuns' = tornRuns \cup records
    /\ queued' = queued \cup {Renamed(wtrig[w]) : w \in {x \in Worker : Running(x)}}
    /\ copies' = 2 * copies + 1
    /\ TickIdle
    /\ wpc' = [w \in Worker |-> "idle"] /\ wtrig' = [w \in Worker |-> NoTrigger]
    /\ wok' = [w \in Worker |-> FALSE] /\ wbase' = [w \in Worker |-> NoState]
    /\ wjob' = [w \in Worker |-> NoJob]
    /\ UNCHANGED <<clock, job, stateFile, history, cli, ops, failures, dispatches>>

-----------------------------------------------------------------------------
TickStep ==
    \/ TickLoad \/ TickList \/ TickSave
    \/ \E j \in Job : \/ TickPass(j) \/ TickSkipMissed(j) \/ TickDuplicate(j)
                      \/ TickUnreadable(j) \/ TickEnqueue(j) \/ TickPersist(j) \/ TickRecord(j)

CompleteStep(w) ==
    \/ \E g \in queued : WorkerTake(w, g)
    \/ RouteRefused(w) \/ \E ok \in BOOLEAN : CompleteLoadState(w, ok)
    \/ CompleteSaveState(w) \/ CompleteLoadJob(w) \/ CompleteSaveJob(w) \/ CompleteRecord(w)
    \/ WorkerEnd(w) \/ WorkerRetry(w)

ClientStep ==
    \/ \E j \in Job, s \in Schedules, p \in Policies, o \in Overlaps :
          JobCreate(j, s, p, o) \/ JobUpdate(j, p, o) \/ JobReschedule(j, s)
    \/ \E j \in Job, to \in State : JobTransition(j, to)
    \/ \E j \in Job : JobRunNow(j) \/ CliCut(j)
    \/ CliSave

Next ==
    \/ Advance \/ TickStep \/ TickError \/ ClientStep
    \/ \E w \in Worker : CompleteStep(w) \/ CompleteError(w)
    \/ \E torn \in BOOLEAN, S \in SUBSET WritingJobs, R \in SUBSET WritingRuns :
          Crash(torn, S, R)

Spec == Init /\ [][Next]_vars

\* The scheduler thread ticks for ever, time passes, and a task thread that
\* has a trigger finishes it.  Clients and failures owe nothing.
Fairness ==
    /\ WF_vars(TickStep) /\ WF_vars(Advance)
    /\ \A w \in Worker : WF_vars(CompleteStep(w))

FairSpec == Spec /\ Fairness

-----------------------------------------------------------------------------
(***************************************************************************)
(* What the scheduler promises.                                            *)
(***************************************************************************)

\* Every variable stays in its domain; recent_execution_ids keeps its limit.
TypeOK ==
    /\ clock \in Time
    /\ job \in [Job -> JobRec] /\ snapshot \in [Job -> JobRec]
    /\ stateFile \in SchedState /\ Len(stateFile.recent) <= MaxRecent
    /\ tornState \in BOOLEAN /\ tornJobs \subseteq Job
    /\ history \subseteq Exec /\ tornRuns \subseteq Job /\ queued \subseteq Trigger
    /\ tickPc \in {"idle", "list", "job", "persist", "record"} /\ tickNow \in Time
    /\ tickBase \in SchedState /\ tickState \in SchedState /\ todo \subseteq Job
    /\ wpc \in [Worker -> WorkerPc]
    /\ wtrig \in [Worker -> Trigger \cup {NoTrigger}] /\ wok \in [Worker -> BOOLEAN]
    /\ wbase \in [Worker -> SchedState] /\ wjob \in [Worker -> JobRec]
    /\ cliPc \in {"idle", "save"} /\ cliJob \in Job \cup {0}
    /\ cliBase \in JobRec /\ cliNew \in JobRec
    /\ copies \in Nat /\ ops \in 0..MaxOps /\ cuts \in 0..MaxCuts
    /\ failures \in 0..MaxFailures
    /\ dispatches \in [Exec -> Nat]
    /\ mishaps \subseteq Mishap \X Job

\* Duplicate prevention: whatever is overwritten with stale content, an execution
\* is put in the queue once, plus at most once for every tick or process that
\* was cut off (the run record is written after the trigger).
DispatchBound == \A e \in Exec : dispatches[e] <= 1 + cuts

\* Due under an execution id the history already knows: every tick will skip it
\* as a duplicate and leave next_run_at alone, so the job never runs again.
Wedged(j) ==
    /\ job[j].state = "enabled" /\ \E t \in job[j].next : <<j, t>> \in history

\* Once its dispatch is over, only three accidents wedge a job: a write of stale
\* content, a run-now in the second of an earlier dispatch, or a tick cut off
\* between the trigger and the job file while the trigger already ran.
WedgedOnlyByRace ==
    \A j \in Job : Wedged(j) /\ ~AtDispatch(j, "persist") =>
        {<<"stale_job", j>>, <<"same_second", j>>, <<"cut", j>>} \cap mishaps # {}

Outstanding ==
    queued \cup {wtrig[w] : w \in {x \in Worker : wpc[x] = "routing"}}

Overlapping(j) ==
    \E g, h \in Outstanding : g # h /\ JobOf(g.exec) = j /\ JobOf(h.exec) = j

\* Two triggers of one job are under way only if overlap was allowed, a trigger
\* failed and was retried, a thread was cut off, the state file was overwritten
\* with stale content or an execution outlived StaleAge.
OverlapHasCause ==
    \A j \in Job : Overlapping(j) =>
        \E k \in {"overlap_allowed", "failed", "cut", "stale_state", "expired"} :
            <<k, j>> \in mishaps

\* Within reach of the clock bound an enabled job that is due is dealt with,
\* whatever active execution blocks it: entries of the state file expire.  Only a
\* file torn by a crash, which ends every later tick, prevents it.
DueIsHandled ==
    \A j \in Job, t \in Time :
        t + StaleAge < MaxTime =>
            ((job[j].state = "enabled" /\ job[j].next = {t}) ~>
                \/ job[j].state # "enabled" \/ job[j].next # {t} \/ Wedged(j)
                \/ tornState \/ tornJobs # {} \/ tornRuns # {})

=============================================================================
