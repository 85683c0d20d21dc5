--------------------------- MODULE WorkflowEngine ---------------------------
(***************************************************************************)
(* One workflow run (src/orchestration/workflow_engine.rs, run_store.rs,   *)
(* step_execution.rs, output_contract.rs).                                 *)
(*                                                                         *)
(* A run is a record file, a result file per step attempt and a progress   *)
(* file.  An engine is a thread inside WorkflowEngine::start or resume; it *)
(* keeps a copy of the record, which it rewrites as a whole, as does the   *)
(* cancel command.  Nothing locks the files: every load and every write is *)
(* a step of its own.  Runs share no file, so one is enough.               *)
(***************************************************************************)
EXTENDS Naturals

CONSTANTS
    Step,         \* steps of the workflow
    NoStep,       \* an absent step id
    First,        \* its first step
    Successors,   \* Step -> where a successful attempt may lead, NoStep: the end
    Engine,       \* threads that may start or resume the run
    MaxIter,      \* limits.max_total_iterations
    MaxRetries,   \* limits.max_retries
    MaxResumes,   \* bound: messages that resume the run
    MaxCancels,   \* bound: cancel commands
    MaxCuts       \* bound: crashes and failing file operations

ASSUME ConstantsOK ==
    /\ First \in Step /\ NoStep \notin Step
    /\ Successors \in [Step -> SUBSET (Step \cup {NoStep})]
    /\ MaxIter \in Nat \ {0} /\ MaxRetries \in Nat
    /\ MaxResumes \in Nat /\ MaxCancels \in Nat /\ MaxCuts \in Nat

VARIABLES
    \* --- files -----------------------------------------------------------
    rec,        \* workflows/runs/<run>.json
    torn,       \* it does not parse
    result,     \* steps/<step>/attempts/<n>/result.json
    progress,   \* state in progress.json, "absent" before it exists
    \* --- the engines -------------------------------------------------------
    pc,         \* where the thread is
    cont,       \* where it goes on once the record and the progress are written
    run,        \* its copy of the record
    base,       \* the record on disk that copy stands for
    write,      \* the record it is about to write, and the one it was made from
    at,         \* the step and attempt it executes
    out,        \* what that attempt came to
    prev,       \* previous_iterations
    \* --- the cancel command ------------------------------------------------
    cancelPc, cancelRun,
    \* --- bookkeeping of the environment and of the properties --------------
    expired,    \* the run is older than run_timeout_seconds
    resumes, cancels, cuts,
    ran,        \* provider invocations
    ranLate,    \* those that began with a canceled record on disk
    last,       \* the last recorded attempt: [step, status, next]
    mishaps     \* "stale", "outdated", "shared", "cut": what befell the run so far

files  == <<rec, torn, result, progress>>
memory == <<pc, cont, run, base, write, at, out, prev>>
cancel == <<cancelPc, cancelRun>>
env    == <<expired, resumes, cancels, cuts>>
hist   == <<ran, ranLate, last, mishaps>>
vars   == <<files, memory, cancel, env, hist>>

RunState == {"queued", "running", "waiting", "succeeded", "failed", "canceled"}
Terminal == {"succeeded", "failed", "canceled"}
Attempt  == 1..(MaxRetries + 1)
RunRec   == [state : RunState \cup {"absent"}, step : Step \cup {NoStep},
             attempt : 0..(MaxRetries + 1), iter : Nat]
Status   == {"succeeded", "failed_retryable", "failed"}
Result   == [status : Status \cup {"none", "torn"}, next : Step \cup {NoStep}]
EnginePc == {"idle", "load", "next", "guard", "exec", "record", "count", "reload",
             "judge", "check", "fail", "save", "progress"}
ContPc   == {"idle", "load", "next", "guard", "reload", "check"}

NoRun    == [state |-> "absent", step |-> NoStep, attempt |-> 0, iter |-> 0]
Nowhere  == [step |-> NoStep, attempt |-> 0]
NoWrite  == [to |-> NoRun, from |-> NoRun]
NoResult == [status |-> "none", next |-> NoStep]

\* Mutant of CanTransitionTo: every change of state is allowed.
CanTransitionAnyhow(from, to) == from # to

CanTransitionTo(from, to) ==
    \/ from = "queued"  /\ to \in {"running", "failed", "canceled"}
    \/ from = "running" /\ to \in {"waiting", "succeeded", "failed", "canceled"}
    \/ from = "waiting" /\ to \in {"running", "failed", "canceled"}

Idle == \A e \in Engine : pc[e] = "idle"

-----------------------------------------------------------------------------
Init ==
    /\ rec = NoRun /\ torn = FALSE /\ progress = "absent"
    /\ result = [s \in Step |-> [a \in Attempt |-> NoResult]]
    /\ pc = [e \in Engine |-> "idle"] /\ cont = [e \in Engine |-> "idle"]
    /\ run = [e \in Engine |-> NoRun] /\ base = [e \in Engine |-> NoRun]
    /\ write = [e \in Engine |-> NoWrite] /\ at = [e \in Engine |-> Nowhere]
    /\ out = [e \in Engine |-> NoResult]
    /\ prev = [e \in Engine |-> 0]
    /\ cancelPc = "idle" /\ cancelRun = NoRun
    /\ expired = FALSE /\ resumes = 0 /\ cancels = 0 /\ cuts = 0
    /\ ran = 0 /\ ranLate = 0 /\ last = [step |-> NoStep, status |-> "none", next |-> NoStep]
    /\ mishaps = {}

Goto(e, p) == pc' = [pc EXCEPT ![e] = p]

\* Write r, made from the record b, then progress.json, then go on at c.
Persist(e, r, b, c) ==
    /\ write' = [write EXCEPT ![e] = [to |-> r, from |-> b]]
    /\ cont' = [cont EXCEPT ![e] = c]
    /\ Goto(e, "save")

\* The thread returns to its caller and forgets everything.
Leave(e) ==
    /\ Goto(e, "idle") /\ cont' = [cont EXCEPT ![e] = "idle"]
    /\ run' = [run EXCEPT ![e] = NoRun] /\ base' = [base EXCEPT ![e] = NoRun]
    /\ write' = [write EXCEPT ![e] = NoWrite] /\ at' = [at EXCEPT ![e] = Nowhere]
    /\ out' = [out EXCEPT ![e] = NoResult]
    /\ prev' = [prev EXCEPT ![e] = 0]

Shared == IF Idle THEN mishaps ELSE mishaps \cup {"shared"}

-----------------------------------------------------------------------------
(***************************************************************************)
(* Entry: create_run_with_metadata followed by start, or resume for a      *)
(* message that names the run.                                             *)
(***************************************************************************)
Create(e) ==
    /\ rec = NoRun /\ Idle
    /\ LET r == [NoRun EXCEPT !.state = "queued"]
       IN  Persist(e, r, NoRun, "load") /\ run' = [run EXCEPT ![e] = r]
    /\ UNCHANGED <<files, base, at, out, prev, cancel, env, hist>>

Resume(e) ==
    /\ rec # NoRun /\ pc[e] = "idle" /\ resumes < MaxResumes
    /\ resumes' = resumes + 1
    /\ Goto(e, "load")
    /\ mishaps' = Shared
    /\ UNCHANGED <<files, cont, run, base, write, at, out, prev, cancel, expired, cancels, cuts,
                   ran, ranLate, last>>

\* load_run; a queued or waiting run becomes running, a terminal one is left alone.
Load(e) ==
    /\ pc[e] = "load"
    /\ IF torn \/ rec.state \in Terminal THEN Leave(e)
       ELSE LET r == [rec EXCEPT !.state = "running"]
            IN  /\ base' = [base EXCEPT ![e] = rec]
                /\ run' = [run EXCEPT ![e] = r]
                /\ IF CanTransitionTo(rec.state, "running")
                   THEN Persist(e, r, rec, "next")
                   ELSE Goto(e, "next") /\ UNCHANGED <<write, cont>>
                /\ UNCHANGED <<at, out, prev>>
    /\ UNCHANGED <<files, cancel, env, hist>>

\* persist_run, and then persist_progress.
Save(e) ==
    /\ pc[e] = "save"
    /\ rec' = write[e].to /\ torn' = FALSE
    /\ base' = IF cont[e] = "reload" THEN base ELSE [base EXCEPT ![e] = write[e].to]
    /\ mishaps' = IF rec = write[e].from THEN mishaps ELSE mishaps \cup {"stale"}
    /\ Goto(e, "progress")
    /\ UNCHANGED <<result, progress, cont, run, write, at, out, prev, cancel, env, ran, ranLate, last>>

Progress(e) ==
    /\ pc[e] = "progress"
    /\ progress' = write[e].to.state
    /\ mishaps' = IF rec = write[e].to THEN mishaps ELSE mishaps \cup {"outdated"}
    /\ IF cont[e] = "idle" THEN Leave(e)
       ELSE /\ Goto(e, cont[e])
            /\ cont' = [cont EXCEPT ![e] = "idle"] /\ write' = [write EXCEPT ![e] = NoWrite]
            /\ UNCHANGED <<run, base, at, out, prev>>
    /\ UNCHANGED <<rec, torn, result, cancel, env, ran, ranLate, last>>

-----------------------------------------------------------------------------
(***************************************************************************)
(* execute_next.                                                           *)
(***************************************************************************)
\* transition_state to succeeded with the pointer cleared; refused unless the
\* engine's copy is running.
Finish(e) ==
    LET r == [run[e] EXCEPT !.step = NoStep, !.attempt = 0]
    IN  IF CanTransitionTo(r.state, "succeeded")
        THEN LET s == [r EXCEPT !.state = "succeeded"]
             IN  run' = [run EXCEPT ![e] = s] /\ Persist(e, s, base[e], "check") /\ UNCHANGED at
        ELSE run' = [run EXCEPT ![e] = r] /\ Goto(e, "fail") /\ UNCHANGED <<write, cont, at>>

\* mark_step_attempt_started
Mark(e, s, a) ==
    LET r == [run[e] EXCEPT !.step = s, !.attempt = a]
    IN  /\ run' = [run EXCEPT ![e] = r] /\ at' = [at EXCEPT ![e] = [step |-> s, attempt |-> a]]
        /\ Persist(e, r, base[e], "guard")

\* The result file the pointer of the record leads to.
PointerResult(r) ==
    IF r.step \in Step /\ r.attempt # 0 THEN result[r.step][r.attempt] ELSE NoResult

\* resolve_next_step_pointer: the first step, the step the checkpoint names, the
\* attempt that left no result, or what its result says comes next.
Resolve(e) ==
    LET r == run[e]
        p == PointerResult(r)
    IN  /\ pc[e] = "next"
        /\ prev' = [prev EXCEPT ![e] = r.iter]
        /\ \/ r.step = NoStep /\ Mark(e, First, 1)
           \/ r.step # NoStep /\ p.status = "none"
              /\ Mark(e, r.step, IF r.attempt = 0 THEN 1 ELSE r.attempt)
           \/ r.step # NoStep /\ p.status = "torn"
              /\ Goto(e, "fail") /\ UNCHANGED <<run, write, cont, at>>
           \/ r.step # NoStep /\ p.status \in Status /\ p.next # NoStep /\ Mark(e, p.next, 1)
           \/ r.step # NoStep /\ p.status \in Status /\ p.next = NoStep /\ Finish(e)
        /\ UNCHANGED <<files, base, out, cancel, env, hist>>

\* Mutant of Exceeded: the number of iterations is not limited.
ExceededByTimeOnly(r) == expired

\* enforce_execution_safety, the limits on the run.
Exceeded(r) == r.iter >= MaxIter \/ expired

Guard(e) ==
    /\ pc[e] = "guard"
    /\ Goto(e, IF Exceeded(run[e]) THEN "fail" ELSE "exec")
    /\ UNCHANGED <<files, cont, run, base, write, at, out, prev, cancel, env, hist>>

\* Mutant of Recorded: one retry too many.
RecordedOnceMore(st, a, t) ==
    [status |-> IF st = "failed_retryable" /\ a > MaxRetries + 1 THEN "failed" ELSE st,
     next |-> IF st = "succeeded" THEN t ELSE NoStep]

\* What an attempt that ended with status st is recorded as; a retryable failure
\* (of the command, the envelope, the contract or the decision) is final when
\* no retry is left.
Recorded(st, a, t) ==
    [status |-> IF st = "failed_retryable" /\ a > MaxRetries THEN "failed" ELSE st,
     next |-> IF st = "succeeded" THEN t ELSE NoStep]

\* execute_step_attempt: the provider runs and its output is evaluated.
Execute(e, st, t) ==
    /\ pc[e] = "exec"
    /\ out' = [out EXCEPT ![e] = Recorded(st, at[e].attempt, t)]
    /\ ran' = ran + 1
    /\ ranLate' = IF rec.state = "canceled" THEN ranLate + 1 ELSE ranLate
    /\ Goto(e, "record")
    /\ UNCHANGED <<files, cont, run, base, write, at, prev, cancel, env, last, mishaps>>

\* persist_step_attempt writes the result, whatever an earlier visit left there ...
Record(e) ==
    /\ pc[e] = "record"
    /\ result' = [result EXCEPT ![at[e].step][at[e].attempt] = out[e]]
    /\ last' = [step |-> at[e].step, status |-> out[e].status, next |-> out[e].next]
    /\ Goto(e, "count")
    /\ UNCHANGED <<rec, torn, progress, cont, run, base, write, at, out, prev, cancel, env,
                   ran, ranLate, mishaps>>

\* Mutant of Count: the iteration is not counted.
CountNothing(e) ==
    /\ pc[e] = "count"
    /\ IF torn THEN Goto(e, "fail") /\ UNCHANGED <<write, cont>>
       ELSE Persist(e, rec, rec, "reload")
    /\ UNCHANGED <<files, run, base, at, out, prev, cancel, env, hist>>

\* ... loads the record anew, which fails if it does not parse, and counts the
\* iteration in it.
Count(e) ==
    /\ pc[e] = "count"
    /\ IF torn THEN Goto(e, "fail") /\ UNCHANGED <<write, cont>>
       ELSE Persist(e, [rec EXCEPT !.iter = @ + 1], rec, "reload")
    /\ UNCHANGED <<files, run, base, at, out, prev, cancel, env, hist>>

Reload(e) ==
    /\ pc[e] = "reload"
    /\ IF torn THEN Goto(e, "fail") /\ UNCHANGED <<run, base>>
       ELSE /\ run' = [run EXCEPT ![e] = rec] /\ base' = [base EXCEPT ![e] = rec]
            /\ Goto(e, "judge")
    /\ UNCHANGED <<files, cont, write, at, out, prev, cancel, env, hist>>

\* Mutant of AdvanceTo: the pointer stays at the step that is done.
AdvanceNowhere(r, t) == [r EXCEPT !.attempt = 0]

AdvanceTo(r, t) == [r EXCEPT !.step = t, !.attempt = 0]

CanRetry(e) == out[e].status = "failed_retryable"

\* The limits are checked again (late: the attempt took longer than the step
\* timeout); then the next step, the end, a retry or the failure of the run.
Judge(e, late) ==
    /\ pc[e] = "judge"
    /\ \/ /\ late \/ Exceeded(run[e])
          /\ Goto(e, "fail") /\ UNCHANGED <<run, write, cont, at>>
       \/ /\ ~late /\ ~Exceeded(run[e])
          /\ \/ /\ out[e].status = "succeeded" /\ out[e].next # NoStep
                /\ LET r == AdvanceTo(run[e], out[e].next)
                   IN  /\ run' = [run EXCEPT ![e] = r] /\ Persist(e, r, base[e], "check")
                       /\ UNCHANGED at
             \/ out[e].status = "succeeded" /\ out[e].next = NoStep /\ Finish(e)
             \/ CanRetry(e) /\ Mark(e, at[e].step, at[e].attempt + 1)
             \/ /\ out[e].status # "succeeded" /\ ~CanRetry(e)
                /\ Goto(e, "fail") /\ UNCHANGED <<run, write, cont, at>>
    /\ UNCHANGED <<files, base, out, prev, cancel, env, hist>>

\* execute_or_fail: an error fails the run unless the copy is terminal already.
Fail(e) ==
    /\ pc[e] = "fail"
    /\ IF run[e].state \in Terminal THEN Leave(e)
       ELSE /\ Persist(e, [run[e] EXCEPT !.state = "failed"], base[e], "idle")
            /\ UNCHANGED <<run, base, at, out, prev>>
    /\ UNCHANGED <<files, cancel, env, hist>>

\* Mutant of Check: a canceled run goes on.
CheckIgnoresCancel(e) ==
    /\ pc[e] = "check"
    /\ IF torn \/ rec.state \in {"succeeded", "failed"} \/ rec.iter = prev[e] THEN Leave(e)
       ELSE /\ run' = [run EXCEPT ![e] = rec] /\ base' = [base EXCEPT ![e] = rec]
            /\ out' = [out EXCEPT ![e] = NoResult] /\ at' = [at EXCEPT ![e] = Nowhere]
            /\ Goto(e, "next")
            /\ UNCHANGED <<cont, write, prev>>
    /\ UNCHANGED <<files, cancel, env, hist>>

\* run_until_non_running goes round while the reloaded run is running and its
\* iterations have changed.
Check(e) ==
    /\ pc[e] = "check"
    /\ IF torn \/ rec.state # "running" \/ rec.iter = prev[e] THEN Leave(e)
       ELSE /\ run' = [run EXCEPT ![e] = rec] /\ base' = [base EXCEPT ![e] = rec]
            /\ out' = [out EXCEPT ![e] = NoResult] /\ at' = [at EXCEPT ![e] = Nowhere]
            /\ Goto(e, "next")
            /\ UNCHANGED <<cont, write, prev>>
    /\ UNCHANGED <<files, cancel, env, hist>>

-----------------------------------------------------------------------------
(***************************************************************************)
(* Cancel command, time, errors and crashes.                               *)
(***************************************************************************)
CancelLoad ==
    /\ cancelPc = "idle" /\ cancels < MaxCancels
    /\ rec # NoRun /\ ~torn /\ CanTransitionTo(rec.state, "canceled")
    /\ cancelPc' = "save" /\ cancelRun' = rec
    /\ cancels' = cancels + 1
    /\ UNCHANGED <<files, memory, expired, resumes, cuts, hist>>

CancelSave ==
    /\ cancelPc = "save"
    /\ rec' = [cancelRun EXCEPT !.state = "canceled"] /\ torn' = FALSE
    /\ mishaps' = IF rec = cancelRun THEN mishaps ELSE mishaps \cup {"stale"}
    /\ cancelPc' = "progress"
    /\ UNCHANGED <<result, progress, memory, cancelRun, env, ran, ranLate, last>>

CancelProgress ==
    /\ cancelPc = "progress"
    /\ progress' = "canceled"
    /\ mishaps' = IF rec.state = "canceled" THEN mishaps ELSE mishaps \cup {"outdated"}
    /\ cancelPc' = "idle" /\ cancelRun' = NoRun
    /\ UNCHANGED <<rec, torn, result, memory, env, ran, ranLate, last>>

Expire ==
    /\ rec # NoRun /\ ~expired
    /\ expired' = TRUE
    /\ UNCHANGED <<files, memory, cancel, resumes, cancels, cuts, hist>>

\* The files of the engines in E after they were cut off in the middle of a write.
Cut(E) ==
    /\ torn' = (torn \/ \E e \in E : pc[e] = "save")
    /\ result' = [s \in Step |-> [a \in Attempt |->
                    IF \E e \in E : pc[e] = "record" /\ at[e] = [step |-> s, attempt |-> a]
                    THEN [status |-> "torn", next |-> NoStep] ELSE result[s][a]]]

\* A load or a write of engine e fails, and the file it wrote may be cut short.
\* Inside execute_next the error fails the run, elsewhere it goes to the caller.
InExecuteNext(e) ==
    \/ pc[e] \in {"next", "record", "count", "reload"}
    \/ pc[e] \in {"save", "progress"} /\ cont[e] \in {"guard", "reload", "check"}

IoError(e, cut) ==
    /\ pc[e] \notin {"idle", "guard", "exec", "judge", "fail"} /\ cuts < MaxCuts
    /\ cut => pc[e] \in {"save", "record"}
    /\ Cut(IF cut THEN {e} ELSE {})
    /\ cuts' = cuts + 1 /\ mishaps' = mishaps \cup {"cut"}
    /\ IF InExecuteNext(e)
       THEN /\ Goto(e, "fail")
            /\ cont' = [cont EXCEPT ![e] = "idle"] /\ write' = [write EXCEPT ![e] = NoWrite]
            /\ UNCHANGED <<run, base, at, out, prev>>
       ELSE Leave(e)
    /\ UNCHANGED <<rec, progress, cancel, expired, resumes, cancels, ran, ranLate, last>>

\* The daemon dies; a file that was being written may be cut short.
Crash(cut) ==
    /\ ~Idle /\ cuts < MaxCuts
    /\ cut => \E e \in Engine : pc[e] \in {"save", "record"}
    /\ cuts' = cuts + 1 /\ mishaps' = mishaps \cup {"cut"}
    /\ Cut(IF cut THEN Engine ELSE {})
    /\ pc' = [e \in Engine |-> "idle"] /\ cont' = [e \in Engine |-> "idle"]
    /\ run' = [e \in Engine |-> NoRun] /\ base' = [e \in Engine |-> NoRun]
    /\ write' = [e \in Engine |-> NoWrite] /\ at' = [e \in Engine |-> Nowhere]
    /\ out' = [e \in Engine |-> NoResult]
    /\ prev' = [e \in Engine |-> 0]
    /\ UNCHANGED <<rec, progress, cancel, expired, resumes, cancels, ran, ranLate, last>>

-----------------------------------------------------------------------------
EngineStep(e) ==
    \/ Load(e) \/ Save(e) \/ Progress(e) \/ Resolve(e) \/ Guard(e)
    \/ Execute(e, "failed_retryable", NoStep) \/ Execute(e, "failed", NoStep)
    \/ \E s \in Step, t \in Step \cup {NoStep} :
          at[e].step = s /\ t \in Successors[s] /\ Execute(e, "succeeded", t)
    \/ Record(e) \/ Count(e) \/ Reload(e)
    \/ \E late \in BOOLEAN : Judge(e, late)
    \/ Fail(e) \/ Check(e)

Next ==
    \/ \E e \in Engine : Create(e) \/ Resume(e) \/ EngineStep(e)
    \/ \E e \in Engine, cut \in BOOLEAN : IoError(e, cut)
    \/ CancelLoad \/ CancelSave \/ CancelProgress
    \/ Expire \/ \E cut \in BOOLEAN : Crash(cut)

Spec == Init /\ [][Next]_vars

\* A thread inside the engine keeps running: the provider command has a timeout
\* and nothing else blocks.
FairSpec == Spec /\ \A e \in Engine : WF_vars(EngineStep(e))

-----------------------------------------------------------------------------
(***************************************************************************)
(* What the engine promises.                                               *)
(***************************************************************************)

\* Every variable stays in its domain; in particular no attempt beyond the retry
\* limit is ever made.
TypeOK ==
    /\ rec \in RunRec /\ torn \in BOOLEAN /\ progress \in RunState \cup {"absent"}
    /\ result \in [Step -> [Attempt -> Result]]
    /\ pc \in [Engine -> EnginePc] /\ cont \in [Engine -> ContPc]
    /\ run \in [Engine -> RunRec] /\ base \in [Engine -> RunRec]
    /\ write \in [Engine -> [to : RunRec, from : RunRec]]
    /\ at \in [Engine -> [step : Step \cup {NoStep}, attempt : 0..(MaxRetries + 1)]]
    /\ out \in [Engine -> Result]
    /\ prev \in [Engine -> Nat]
    /\ cancelPc \in {"idle", "save", "progress"} /\ cancelRun \in RunRec
    /\ expired \in BOOLEAN /\ resumes \in 0..MaxResumes
    /\ cancels \in 0..MaxCancels /\ cuts \in 0..MaxCuts
    /\ ran \in Nat /\ ranLate \in Nat
    /\ last \in [step : Step \cup {NoStep}, status : Status \cup {"none"},
                 next : Step \cup {NoStep}]
    /\ mishaps \subseteq {"stale", "outdated", "shared", "cut"}

\* A run that one engine at a time works on, and whose record is not overwritten
\* with stale content, invokes the provider at most max_total_iterations times,
\* plus once for every crash or error that kept an invocation from being counted.
InvocationBound ==
    mishaps \cap {"stale", "shared"} = {} => ran <= MaxIter + cuts

\* A terminal state is final, except that a stale copy may be written over it.
TerminalIsFinal ==
    [][rec.state \in Terminal => rec'.state = rec.state \/ "stale" \in mishaps']_vars

\* What an engine executes, and that a run succeeds, follows from the last
\* recorded attempt: the first step first, a retry after a retryable failure, the
\* step a success leads to, and success after the last one.  Only a crash or
\* error, a second engine or a stale write may break the path.
PathFollowed ==
    mishaps \subseteq {"outdated"} =>
        /\ \A e \in Engine : pc[e] = "exec" =>
              \/ last.status = "none" /\ at[e].step = First
              \/ last.status = "failed_retryable" /\ at[e].step = last.step
              \/ last.status = "succeeded" /\ at[e].step = last.next
        /\ rec.state = "succeeded" => last.status = "succeeded" /\ last.next = NoStep

\* Once canceled the run gets no further than the step it is at: an engine makes
\* at most that step's attempts.
CancelTakesEffect ==
    mishaps \cap {"stale", "shared"} = {} => ranLate <= MaxRetries + 1

\* Retries, loops and time-outs end: a run that nothing interferes with reaches
\* a terminal state.
EventuallyTerminal ==
    rec.state # "absent" ~> rec.state \in Terminal \/ mishaps # {}

=============================================================================
