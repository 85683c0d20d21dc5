---------------------------- MODULE QueueWorker ----------------------------
(***************************************************************************)
(* The file queue of one orchestrator and the daemon worker that drains it *)
(* (src/queue/lifecycle.rs, src/queue/scheduler.rs, src/runtime/recovery.rs*)
(* and src/runtime/queue_worker.rs).                                       *)
(*                                                                         *)
(* The queue is four directories.  A message is one JSON file that moves   *)
(* by rename from incoming to processing and back; its file name carries   *)
(* the retry count ("requeue_a<n>_...", every other name counts as 0) and  *)
(* its mtime, which rename preserves, carries its age.  Replies are files  *)
(* in outgoing, dead letters files in failed.  Those survive a crash; the  *)
(* worker's scheduler, its task threads and its completion channel do not. *)
(***************************************************************************)
EXTENDS Naturals, FiniteSets

CONSTANTS
    Msg,             \* inbound messages, each written once under its own id
    Payload,         \* Msg -> [run, channel, profile, conversation]
    Blank,           \* an absent or blank field of a payload
    Redirected,      \* scheduler triggers answered on another channel than theirs
    Untargetable,    \* messages whose outbound Slack target does not resolve
    MultiStep,       \* messages that start a workflow of more than one step
    Torn,            \* files whose writer died before finishing the JSON body
    MaxConcurrency,  \* QUEUE_MAX_CONCURRENCY
    ClaimFactor,     \* claims per loop round per slot (4 in the code)
    MaxAttempts,     \* DIRECLAW_QUEUE_MAX_REQUEUE_ATTEMPTS
    AttemptCeiling,  \* largest retry count a name can carry (u32::MAX)
    MaxReplies,      \* bound: outgoing messages of one action
    MaxStarts,       \* bound: starts of the daemon
    MaxIoErrors      \* bound: failing file operations

ASSUME ConstantsOK ==
    /\ Msg # {} /\ IsFiniteSet(Msg)
    /\ Redirected \subseteq Msg /\ Untargetable \subseteq Msg
    /\ MultiStep \subseteq Msg /\ Torn \subseteq Msg
    /\ Redirected \cap Untargetable = {}
    /\ MaxConcurrency \in Nat \ {0} /\ ClaimFactor \in Nat \ {0}
    /\ MaxAttempts \in Nat \ {0} /\ MaxReplies \in Nat \ {0}
    /\ AttemptCeiling \in Nat /\ AttemptCeiling >= MaxAttempts
    /\ MaxStarts \in Nat \ {0} /\ MaxIoErrors \in Nat

VARIABLES
    \* --- files -----------------------------------------------------------
    incoming,    \* messages whose file is in queue/incoming
    processing,  \* messages whose file is in queue/processing
    outgoing,    \* undelivered reply files: [msg, kind, seq]
    failed,      \* messages with a dead letter in queue/failed
    body,        \* "none", "partial" (created, not fully written) or "full"
    mtime,       \* age of the file, 0 before it exists
    attempt,     \* retry count carried by the file's current name
    \* --- the worker thread -----------------------------------------------
    pc,          \* where run_queue_processor_loop is
    stop,        \* the shared stop flag
    budget,      \* claim_budget of this round, 0 outside the claim pass
    hand,        \* the message claim_oldest has renamed and not yet parsed
    pending,     \* scheduler.pending: place of each message, 0 if absent
    active,      \* scheduler.active_keys
    inflight,    \* in_flight
    \* --- the task threads ------------------------------------------------
    task,        \* where process_claimed_message is, per message
    left,        \* reply files the task has still to write
    \* --- bookkeeping of the environment and of the properties ------------
    starts,      \* daemon starts so far
    ioErrors,    \* failed file operations so far
    tries,       \* executions since the file name last counted from 0
    replied,     \* messages with at least one reply file ever written
    answered,    \* messages whose last reply file was written
    silent,      \* messages consumed with a NoResponse action
    before       \* <<x, y>>: x was fully written before y's file existed

files == <<incoming, processing, outgoing, failed, body, mtime, attempt>>
sched == <<pending, active, inflight>>
tasks == <<task, left>>
hist  == <<tries, replied, answered, silent, before>>
env   == <<starts, ioErrors>>
vars  == <<files, pc, stop, budget, hand, sched, tasks, hist, env>>

OutKind == {"ack", "reply", "summary"}
OutFile == [msg : Msg, kind : OutKind, seq : 0..MaxReplies]
TaskPc  == {"none", "route", "run", "reply", "unlink", "fail", "bury", "notify", "done"}
LoopPc  == {"down", "recover", "round", "claim", "parse", "dispatch", "collect",
            "drain", "stopped"}

Up == pc \notin {"down", "stopped"}
ClaimBudget == ClaimFactor * MaxConcurrency

\* usize::saturating_sub(1)
Dec(n) == IF n > 0 THEN n - 1 ELSE 0

\* No file, or no place in the queue, is later than k's.
IsLatest(f, k) == \A m \in Msg : f[m] <= f[k]

Queued(m)   == pending[m] > 0
Busy(m)     == task[m] # "none"
Settled(m)  == m \in replied \cup silent \cup failed
Accepted(m) == body[m] # "none"

\* derive_ordering_key: the workflow run, else the conversation, else the
\* message itself.
OrderingKey(m) ==
    IF Payload[m].run # Blank THEN <<"run", Payload[m].run>>
    ELSE IF Payload[m].profile # Blank /\ Payload[m].conversation # Blank
    THEN <<"conversation", Payload[m].channel, Payload[m].profile, Payload[m].conversation>>
    ELSE <<"message", m>>

-----------------------------------------------------------------------------
Init ==
    /\ incoming = {} /\ processing = {} /\ outgoing = {} /\ failed = {}
    /\ body = [m \in Msg |-> "none"]
    /\ mtime = [m \in Msg |-> 0]
    /\ attempt = [m \in Msg |-> 0]
    /\ pc = "down" /\ stop = FALSE /\ budget = 0 /\ hand = {}
    /\ pending = [m \in Msg |-> 0] /\ active = {} /\ inflight = 0
    /\ task = [m \in Msg |-> "none"] /\ left = [m \in Msg |-> 0]
    /\ starts = 0 /\ ioErrors = 0
    /\ tries = [m \in Msg |-> 0]
    /\ replied = {} /\ answered = {} /\ silent = {}
    /\ before = {}

(***************************************************************************)
(* Producers (Slack ingest, local chat, heartbeat, scheduler, CLI send)    *)
(* write incoming/<message_id>.json with fs::write: the file is visible    *)
(* before its body is complete.                                            *)
(***************************************************************************)
Touch(m) == \E k \in Msg : IsLatest(mtime, k) /\ mtime' = [mtime EXCEPT ![m] = mtime[k] + 1]

CreateFile(m) ==
    /\ body[m] = "none"
    /\ body' = [body EXCEPT ![m] = "partial"]
    /\ incoming' = incoming \cup {m}
    /\ Touch(m)
    /\ before' = before \cup {<<x, m>> : x \in {n \in Msg : body[n] = "full"}}
    /\ UNCHANGED <<processing, outgoing, failed, attempt, pc, stop, budget, hand,
                   sched, tasks, tries, replied, answered, silent, env>>

\* The writer keeps its descriptor: the file may have been claimed meanwhile.
FinishWrite(m) ==
    /\ body[m] = "partial" /\ m \notin Torn
    /\ body' = [body EXCEPT ![m] = "full"]
    /\ Touch(m)
    /\ UNCHANGED <<incoming, processing, outgoing, failed, attempt, pc, stop,
                   budget, hand, sched, tasks, hist, env>>

\* A channel adapter posts a reply and removes its file from outgoing.
Deliver(f) ==
    /\ outgoing' = outgoing \ {f}
    /\ UNCHANGED <<incoming, processing, failed, body, mtime, attempt, pc,
                   stop, budget, hand, sched, tasks, hist, env>>

-----------------------------------------------------------------------------
(***************************************************************************)
(* Daemon start and recovery.                                              *)
(***************************************************************************)
Start ==
    /\ ~Up /\ starts < MaxStarts
    /\ starts' = starts + 1
    /\ pc' = "recover" /\ stop' = FALSE
    /\ UNCHANGED <<files, budget, hand, sched, tasks, hist, ioErrors>>

\* A reply or summary of m under m's own (channel, message_id) is queued.
ReplyKeyQueued(m) ==
    /\ m \notin Redirected
    /\ \E f \in outgoing : f.msg = m /\ f.kind \in {"reply", "summary"}

\* Mutant of RecoverFiles: no duplicate check against outgoing.
RecoverAllFiles(S) ==
    /\ processing' = processing \ S
    /\ incoming' = incoming \cup S
    /\ attempt' = [m \in Msg |-> IF m \in S THEN 0 ELSE attempt[m]]
    /\ tries' = [m \in Msg |-> IF m \in S THEN 0 ELSE tries[m]]
    /\ UNCHANGED <<outgoing, failed, body, mtime, replied, answered, silent, before>>

\* recover_queue_processing_paths on the files S: a leftover is dropped when
\* its key is among the outgoing files and moved back to incoming otherwise;
\* its new name, "recovered_<i>_<hash>", counts as attempt 0.
RecoverFiles(S) ==
    LET moved == {m \in S : ~ReplyKeyQueued(m)}
    IN  /\ processing' = processing \ S
        /\ incoming' = incoming \cup moved
        /\ attempt' = [m \in Msg |-> IF m \in moved THEN 0 ELSE attempt[m]]
        /\ tries' = [m \in Msg |-> IF m \in moved THEN 0 ELSE tries[m]]
        /\ UNCHANGED <<outgoing, failed, body, mtime, replied, answered, silent, before>>

Recover ==
    /\ pc = "recover"
    /\ RecoverFiles(processing)
    /\ pc' = "round"
    /\ UNCHANGED <<stop, budget, hand, sched, tasks, env>>

\* Recovery gives up at the first file it cannot read or move (an outgoing file
\* an adapter delivers under its eyes is one); the worker carries on.
RecoverError(S) ==
    /\ pc = "recover" /\ ioErrors < MaxIoErrors
    /\ RecoverFiles(S)
    /\ ioErrors' = ioErrors + 1
    /\ pc' = "round"
    /\ UNCHANGED <<stop, budget, hand, sched, tasks, starts>>

\* The process dies with the files S recovered and the others not.
RecoverCrash(S) ==
    /\ pc = "recover" /\ S # {}
    /\ RecoverFiles(S)
    /\ pc' = "down" /\ stop' = FALSE
    /\ UNCHANGED <<budget, hand, sched, tasks, env>>

-----------------------------------------------------------------------------
(***************************************************************************)
(* The worker loop: claim, dispatch, collect, shutdown.                    *)
(***************************************************************************)

\* Top of a round: the stop flag is read once per round.
NewRound ==
    /\ pc = "round"
    /\ IF stop THEN pc' = "drain" /\ UNCHANGED budget
               ELSE pc' = "claim" /\ budget' = ClaimBudget
    /\ UNCHANGED <<files, stop, hand, sched, tasks, hist, env>>

\* Mutant of IsOldest: the directory is read unsorted.
IsAny(m) == m \in incoming

IsOldest(m) == m \in incoming /\ \A n \in incoming : mtime[m] <= mtime[n]

\* claim_oldest renames the oldest incoming file into processing ...
Claim(m) ==
    /\ pc = "claim" /\ budget > 0 /\ IsOldest(m)
    /\ incoming' = incoming \ {m}
    /\ processing' = processing \cup {m}
    /\ hand' = {m}
    /\ pc' = "parse"
    /\ UNCHANGED <<outgoing, failed, body, mtime, attempt, stop, budget, sched,
                   tasks, hist, env>>

\* ... reads it, and the worker hands it to the per-key scheduler.
Enqueue(m) ==
    /\ pc = "parse" /\ hand = {m} /\ body[m] = "full"
    /\ \E k \in Msg : IsLatest(pending, k) /\ pending' = [pending EXCEPT ![m] = pending[k] + 1]
    /\ budget' = Dec(budget)
    /\ hand' = {}
    /\ pc' = "claim"
    /\ UNCHANGED <<files, stop, active, inflight, tasks, hist, env>>

\* Mutant of NextAttempt: the addition does not saturate.
NextAttemptUnbounded(m) == attempt[m] + 1

\* requeue_processing_file renames processing/<n> to incoming/requeue_a<k>_...,
\* where k is the count of <n> plus one, saturating.
NextAttempt(m) == IF attempt[m] < AttemptCeiling THEN attempt[m] + 1 ELSE AttemptCeiling

\* Mutant of RequeueFile: the file is copied back instead of renamed.
RequeueByCopy(m) ==
    /\ incoming' = incoming \cup {m}
    /\ attempt' = [attempt EXCEPT ![m] = NextAttempt(m)]
    /\ UNCHANGED processing

RequeueFile(m) ==
    /\ processing' = processing \ {m}
    /\ incoming' = incoming \cup {m}
    /\ attempt' = [attempt EXCEPT ![m] = NextAttempt(m)]

\* Mutant of Unparsable: the file is given up unread.
UnparsableGivenUp(m) ==
    /\ pc = "parse" /\ hand = {m} /\ body[m] = "partial"
    /\ processing' = processing \ {m} /\ failed' = failed \cup {m}
    /\ hand' = {} /\ budget' = 0
    /\ pc' = "dispatch"
    /\ UNCHANGED <<incoming, attempt, outgoing, body, mtime, stop, sched, tasks, hist, env>>

\* A body that does not parse goes back to incoming with one attempt more and
\* the error ends the claim pass.
Unparsable(m) ==
    /\ pc = "parse" /\ hand = {m} /\ body[m] = "partial"
    /\ RequeueFile(m)
    /\ hand' = {} /\ budget' = 0
    /\ pc' = "dispatch"
    /\ UNCHANGED <<outgoing, failed, body, mtime, stop, sched, tasks, hist, env>>

\* A rename or read of the claim pass fails: the pass ends; a file that could
\* be claimed but not put back stays in processing.
ClaimIoError ==
    /\ pc \in {"claim", "parse"} /\ ioErrors < MaxIoErrors
    /\ ioErrors' = ioErrors + 1
    /\ hand' = {} /\ budget' = 0
    /\ pc' = "dispatch"
    /\ UNCHANGED <<files, stop, sched, tasks, hist, starts>>

ClaimEnd ==
    /\ pc = "claim" /\ (incoming = {} \/ budget = 0)
    /\ pc' = "dispatch" /\ budget' = 0
    /\ UNCHANGED <<files, stop, hand, sched, tasks, hist, env>>

\* Mutant of FirstOfIdleKey: the keys selected in this batch are not checked.
AllOfIdleKeys == {m \in Msg : Queued(m) /\ OrderingKey(m) \notin active}

\* dequeue_runnable: of each idle key its first message, oldest place first,
\* as many as there are free slots.
FirstOfIdleKey ==
    {m \in Msg : /\ Queued(m) /\ OrderingKey(m) \notin active
                 /\ \A n \in Msg : Queued(n) /\ OrderingKey(n) = OrderingKey(m)
                                      => pending[m] <= pending[n]}

Runnable ==
    {m \in FirstOfIdleKey :
        Cardinality({n \in FirstOfIdleKey : pending[n] < pending[m]})
            < MaxConcurrency - inflight}

Dispatch ==
    /\ pc = "dispatch"
    /\ pending' = [m \in Msg |-> IF m \in Runnable THEN 0 ELSE pending[m]]
    /\ active' = active \cup {OrderingKey(m) : m \in Runnable}
    /\ inflight' = inflight + Cardinality(Runnable)
    /\ task' = [m \in Msg |-> IF m \in Runnable THEN "route" ELSE task[m]]
    /\ tries' = [m \in Msg |-> IF m \in Runnable THEN tries[m] + 1 ELSE tries[m]]
    /\ pc' = "collect"
    /\ UNCHANGED <<files, stop, budget, hand, left, replied, answered, silent, before, env>>

\* Mutant of Collect: scheduler.complete is not called.
CollectKeepsKey(m) ==
    /\ pc \in {"collect", "drain"} /\ task[m] = "done"
    /\ task' = [task EXCEPT ![m] = "none"]
    /\ inflight' = Dec(inflight)
    /\ UNCHANGED <<files, pc, stop, budget, hand, pending, active, left, hist, env>>

\* handle_queue_task_completion frees the slot and the key.
Collect(m) ==
    /\ pc \in {"collect", "drain"} /\ task[m] = "done"
    /\ task' = [task EXCEPT ![m] = "none"]
    /\ active' = active \ {OrderingKey(m)}
    /\ inflight' = Dec(inflight)
    /\ UNCHANGED <<files, pc, stop, budget, hand, pending, left, hist, env>>

CollectEnd ==
    /\ pc = "collect" /\ \A m \in Msg : task[m] # "done"
    /\ pc' = "round"
    /\ UNCHANGED <<files, stop, budget, hand, sched, tasks, hist, env>>

Stop ==
    /\ Up /\ ~stop
    /\ stop' = TRUE
    /\ UNCHANGED <<files, pc, budget, hand, sched, tasks, hist, env>>

\* Shutdown with no task left: every claimed but unstarted message goes back
\* through requeue_failure, which counts as an attempt.
DrainPending(m) ==
    /\ pc = "drain" /\ inflight = 0 /\ Queued(m)
    /\ RequeueFile(m)
    /\ pending' = [pending EXCEPT ![m] = 0]
    /\ UNCHANGED <<outgoing, failed, body, mtime, pc, stop, budget, hand, active,
                   inflight, tasks, hist, env>>

\* The result of requeue_failure is ignored: a file it cannot move stays.
DrainIoError(m) ==
    /\ pc = "drain" /\ inflight = 0 /\ Queued(m) /\ ioErrors < MaxIoErrors
    /\ ioErrors' = ioErrors + 1
    /\ pending' = [pending EXCEPT ![m] = 0]
    /\ UNCHANGED <<files, pc, stop, budget, hand, active, inflight, tasks, hist, starts>>

DrainEnd ==
    /\ pc = "drain" /\ inflight = 0 /\ \A m \in Msg : ~Queued(m)
    /\ pc' = "stopped"
    /\ UNCHANGED <<files, stop, budget, hand, sched, tasks, hist, env>>

\* The process dies (SIGKILL after the stop timeout, power loss).
Crash ==
    /\ Up
    /\ pc' = "down" /\ stop' = FALSE /\ budget' = 0 /\ hand' = {}
    /\ pending' = [m \in Msg |-> 0] /\ active' = {} /\ inflight' = 0
    /\ task' = [m \in Msg |-> "none"] /\ left' = [m \in Msg |-> 0]
    /\ UNCHANGED <<files, hist, env>>

-----------------------------------------------------------------------------
(***************************************************************************)
(* process_claimed_message, one thread per message.                        *)
(***************************************************************************)
Routing(m) == task[m] \in {"route", "run"}
GoTo(m, p) == task' = [task EXCEPT ![m] = p]
LoopUnchanged == UNCHANGED <<pc, stop, budget, hand, sched, env>>

\* The routing hook announces a multi-step workflow under an id of its own.
RouteAck(m) ==
    /\ task[m] = "route" /\ m \in MultiStep /\ m \notin Untargetable
    /\ outgoing' = outgoing \cup {[msg |-> m, kind |-> "ack", seq |-> 0]}
    /\ GoTo(m, "run")
    /\ UNCHANGED <<incoming, processing, failed, body, mtime, attempt, left, hist>>
    /\ LoopUnchanged

RouteFailed(m) ==
    /\ Routing(m)
    /\ GoTo(m, "fail")
    /\ UNCHANGED <<files, left, hist>> /\ LoopUnchanged

RouteNoResponse(m) ==
    /\ task[m] = "route"
    /\ GoTo(m, "unlink")
    /\ silent' = silent \cup {m}
    /\ UNCHANGED <<files, left, tries, replied, answered, before>> /\ LoopUnchanged

\* Mutant of RouteReplies: the processing file goes before the replies are written.
RouteRepliesUnlinkFirst(m, n) ==
    /\ Routing(m) /\ m \notin Untargetable
    /\ GoTo(m, "reply") /\ left' = [left EXCEPT ![m] = n]
    /\ processing' = processing \ {m}
    /\ UNCHANGED <<incoming, outgoing, failed, body, mtime, attempt, hist>>
    /\ LoopUnchanged

\* Routing produced n replies.  When the outbound target does not resolve the
\* task reports the error and leaves its file in processing.
RouteReplies(m, n) ==
    /\ Routing(m)
    /\ IF m \in Untargetable
       THEN GoTo(m, "done") /\ UNCHANGED left
       ELSE GoTo(m, "reply") /\ left' = [left EXCEPT ![m] = n]
    /\ UNCHANGED <<files, hist>> /\ LoopUnchanged

\* complete_success_many writes the reply files one by one ...
WriteReply(m) ==
    /\ task[m] = "reply"
    /\ outgoing' = outgoing \cup {[msg |-> m, kind |-> "reply", seq |-> left[m]]}
    /\ replied' = replied \cup {m}
    /\ answered' = IF left[m] = 1 THEN answered \cup {m} ELSE answered
    /\ left' = [left EXCEPT ![m] = Dec(left[m])]
    /\ GoTo(m, IF left[m] = 1 THEN "unlink" ELSE "reply")
    /\ UNCHANGED <<incoming, processing, failed, body, mtime, attempt, tries, silent, before>>
    /\ LoopUnchanged

\* ... and then removes the processing file, as complete_success_no_outgoing does.
Unlink(m) ==
    /\ task[m] = "unlink"
    /\ processing' = processing \ {m}
    /\ GoTo(m, "done")
    /\ UNCHANGED <<incoming, outgoing, failed, body, mtime, attempt, left, hist>>
    /\ LoopUnchanged

\* Mutant of RequeueFailure: the limit is compared with <= instead of <.
RequeueOnceTooOften(m) ==
    /\ task[m] = "fail" /\ NextAttempt(m) <= MaxAttempts
    /\ RequeueFile(m)
    /\ GoTo(m, "done")
    /\ UNCHANGED <<outgoing, failed, body, mtime, left, hist>> /\ LoopUnchanged

\* requeue_or_dead_letter_failure below the retry limit.
RequeueFailure(m) ==
    /\ task[m] = "fail" /\ NextAttempt(m) < MaxAttempts
    /\ RequeueFile(m)
    /\ GoTo(m, "done")
    /\ UNCHANGED <<outgoing, failed, body, mtime, left, hist>> /\ LoopUnchanged

\* At the limit: dead_letter_failure writes the envelope, then removes the
\* processing file, and only then is the failure summary enqueued.
DeadLetter(m) ==
    /\ task[m] = "fail" /\ NextAttempt(m) >= MaxAttempts
    /\ failed' = failed \cup {m}
    /\ GoTo(m, "bury")
    /\ UNCHANGED <<incoming, processing, outgoing, body, mtime, attempt, left, hist>>
    /\ LoopUnchanged

Bury(m) ==
    /\ task[m] = "bury"
    /\ processing' = processing \ {m}
    /\ GoTo(m, "notify")
    /\ UNCHANGED <<incoming, outgoing, failed, body, mtime, attempt, left, hist>>
    /\ LoopUnchanged

Notify(m) ==
    /\ task[m] = "notify"
    /\ outgoing' = outgoing \cup {[msg |-> m, kind |-> "summary", seq |-> 0]}
    /\ GoTo(m, "done")
    /\ UNCHANGED <<incoming, processing, failed, body, mtime, attempt, left, tries,
                   replied, answered, silent, before>>
    /\ LoopUnchanged

\* A file operation of the task fails: the error is reported, nothing is undone.
TaskIoError(m) ==
    /\ task[m] \in {"reply", "unlink", "fail", "bury", "notify"}
    /\ ioErrors < MaxIoErrors
    /\ ioErrors' = ioErrors + 1
    /\ GoTo(m, "done")
    /\ left' = [left EXCEPT ![m] = 0]
    /\ UNCHANGED <<files, pc, stop, budget, hand, sched, hist, starts>>

-----------------------------------------------------------------------------
TaskStep(m) ==
    \/ RouteAck(m) \/ RouteFailed(m) \/ RouteNoResponse(m)
    \/ \E n \in 1..MaxReplies : RouteReplies(m, n)
    \/ WriteReply(m) \/ Unlink(m) \/ RequeueFailure(m)
    \/ DeadLetter(m) \/ Bury(m) \/ Notify(m) \/ TaskIoError(m)

LoopStep ==
    \/ Recover \/ NewRound \/ ClaimIoError \/ ClaimEnd \/ Dispatch \/ CollectEnd \/ DrainEnd
    \/ \E S \in SUBSET processing : RecoverError(S)
    \/ \E m \in Msg : \/ Claim(m) \/ Enqueue(m) \/ Unparsable(m) \/ Collect(m)
                      \/ DrainPending(m) \/ DrainIoError(m)

Outside ==
    \/ \E m \in Msg : CreateFile(m) \/ FinishWrite(m)
    \/ \E f \in outgoing : Deliver(f)
    \/ \E S \in SUBSET processing : RecoverCrash(S)
    \/ Start \/ Stop \/ Crash

Next == LoopStep \/ Outside \/ \E m \in Msg : TaskStep(m)

Spec == Init /\ [][Next]_vars

\* The worker thread and the task threads are never starved while the process
\* lives, and a live writer finishes its file.  Producers, adapters, operators
\* and crashes owe nothing.
Fairness ==
    /\ WF_vars(LoopStep)
    /\ \A m \in Msg : WF_vars(TaskStep(m)) /\ WF_vars(FinishWrite(m))

FairSpec == Spec /\ Fairness

-----------------------------------------------------------------------------
(***************************************************************************)
(* What the queue promises.                                                *)
(***************************************************************************)

\* Every variable stays in its domain.
TypeOK ==
    /\ incoming \subseteq Msg /\ processing \subseteq Msg /\ failed \subseteq Msg
    /\ outgoing \subseteq OutFile
    /\ body \in [Msg -> {"none", "partial", "full"}]
    /\ mtime \in [Msg -> Nat]
    /\ attempt \in [Msg -> 0..AttemptCeiling]
    /\ pc \in LoopPc /\ stop \in BOOLEAN
    /\ budget \in 0..ClaimBudget
    /\ hand \subseteq Msg
    /\ pending \in [Msg -> Nat]
    /\ active \subseteq {OrderingKey(m) : m \in Msg}
    /\ inflight \in Nat
    /\ task \in [Msg -> TaskPc]
    /\ left \in [Msg -> 0..MaxReplies]
    /\ starts \in 0..MaxStarts /\ ioErrors \in 0..MaxIoErrors
    /\ tries \in [Msg -> Nat]
    /\ replied \subseteq Msg /\ answered \subseteq Msg /\ silent \subseteq Msg
    /\ before \subseteq Msg \X Msg

\* Whatever crashes and fails in between, a message some producer wrote is in
\* the queue, or was answered, or was deliberately not answered, or is a dead
\* letter (complete_success_many and dead_letter_failure write before they
\* remove; recovery drops only what has a reply).
NoMessageLost ==
    \A m \in Msg : Accepted(m) => m \in incoming \cup processing \/ Settled(m)

\* A message is in one stage at a time: a file in incoming is not also claimed,
\* and a claimed file is being parsed, waits in the scheduler or is worked on by
\* exactly one task.
OneStage ==
    \A m \in Msg :
        /\ m \in incoming =>
              m \notin processing \cup hand /\ ~Queued(m) /\ task[m] \in {"none", "done"}
        /\ Queued(m) => m \notin hand /\ task[m] \in {"none", "done"}
        /\ m \in hand => task[m] \in {"none", "done"}

\* Messages of one workflow run never execute at the same time, and neither do
\* messages of one conversation that carry no run (PerKeyScheduler).
KeyExclusion ==
    \A m, n \in Msg :
        Busy(m) /\ Busy(n) /\ m # n =>
            LET p == Payload[m]  q == Payload[n]
            IN  /\ p.run # Blank => p.run # q.run
                /\ p.run = Blank /\ q.run = Blank /\ p.profile # Blank /\ p.conversation # Blank
                     => \/ p.channel # q.channel \/ p.profile # q.profile
                        \/ p.conversation # q.conversation

\* in_flight counts the live tasks, never more than the configured concurrency,
\* and a key is marked active exactly while a task holds it, so that no slot
\* and no key is ever leaked.
SlotAccounting ==
    /\ inflight = Cardinality({m \in Msg : Busy(m)})
    /\ inflight <= MaxConcurrency
    /\ active = {OrderingKey(m) : m \in {n \in Msg : Busy(n)}}

\* No message is executed more than MaxAttempts times under names that count.
RetryBound == \A m \in Msg : tries[m] <= MaxAttempts

\* While a reply or failure summary of a message waits in outgoing the message
\* is not executed again (the duplicate check of recovery).
NoRerunWhileReplyQueued ==
    \A m \in Msg : ReplyKeyQueued(m) =>
        m \notin incoming \cup hand /\ ~Queued(m) /\ ~Routing(m)

\* Per key the worker is first in, first out except for retries: a message is
\* scheduled ahead of one of its key that was complete before it existed only
\* if the older one was requeued.
OvertakenOnlyIfRetried ==
    \A x, y \in Msg :
        /\ <<x, y>> \in before /\ OrderingKey(x) = OrderingKey(y)
        /\ x \in incoming \/ Queued(x)
        /\ Busy(y) \/ (Queued(y) /\ (Queued(x) => pending[y] < pending[x]))
        => attempt[x] > 0

\* While the worker stays up and is not asked to stop, every accepted message
\* is answered, dropped on purpose or dead-lettered.
EventuallySettled ==
    \A m \in Msg : <>[](Up /\ ~stop) => (Accepted(m) ~> Settled(m))

=============================================================================
