------------------------------ MODULE Dispatch ------------------------------
(***************************************************************************)
(* From a queued message to its replies: the threads of the daemon and the *)
(* local chat take messages from one queue, ask the selector what to do    *)
(* with each, route its answer and write the replies                       *)
(* (process_claimed_message and drain_queue_once of                        *)
(* runtime/queue_worker.rs, orchestration/routing.rs, selector.rs and      *)
(* transitions.rs, app/command_dispatch.rs, channels/local,                *)
(* runtime/heartbeat_worker.rs).                                           *)
(*                                                                         *)
(* The queue itself is module QueueWorker, the execution of a run module   *)
(* WorkflowEngine; here a run is the sequence of its attempts.             *)
(***************************************************************************)
EXTENDS RunReply

CONSTANTS
    Msgs,         \* messages
    Threads,      \* the daemon's threads
    Scenarios,    \* what the messages are, what a selector may write, what may go wrong
    Workflows,    \* [declared workflow -> its steps, a sequence]
    Default,      \* the default workflow
    Retries,      \* selection_max_retries
    ChanceTries,  \* attempts for a message that need not be answered
    MaxTries,     \* deliveries before a message is given up
    StepTries     \* attempts of a step

\* Every step of a workflow has its place in the alphabetical order.
ASSUME ConstantsOK ==
    /\ Default \in DOMAIN Workflows
    /\ Len(StepIds) \in Nat
    /\ \A w \in DOMAIN Workflows :
         /\ Len(Workflows[w]) \in Nat
         /\ \A i \in 1..Len(Workflows[w]) : \E j \in 1..Len(StepIds) : StepIds[j] = Workflows[w][i]
    /\ {Retries, ChanceTries, MaxTries, StepTries} \subseteq Nat \ {0}
    /\ "none" \notin Msgs /\ "chat" \notin Threads
    /\ \A s \in Scenarios : s.budget \in
         [errors : Nat, silent : Nat, crashes : Nat, quits : Nat, starts : Nat, ticks : Nat]

VARIABLES
    scenario,
    at,        \* [message -> none, incoming, processing, or gone from the queue]
    name,      \* [message -> how often recovery renamed its file]
    tries,     \* [message -> the attempt number in the name of its file]
    failed,    \* the messages with a dead letter
    worker,    \* [handler -> what it is doing]
    batch,     \* what the chat has claimed and not begun: <<message, name>>
    chat,      \* the chat: its message, its state, and what it showed
    up,        \* does the daemon run?
    written,   \* [message -> attempt -> the selector's result file, or "none"]
    runs,      \* the workflow runs, in the order they were created
    out,       \* outgoing/: replies and acknowledgements
    budget,    \* what may still go wrong
    replied,   \* history: the messages with a reply
    did,       \* history: [message -> how often its command was carried out]
    left,      \* history: messages let go of in processing/ since the daemon started
    shared,    \* history: messages recovered while the chat was handling them
    cut,       \* history: messages whose handler ended between their command and their completion
    unsaid     \* history: messages with a dead letter nobody was told of

queue == <<at, name, tries, failed>>
store == <<written, runs, out>>
ghosts == <<replied, did, left, shared, cut, unsaid>>
vars  == <<scenario, queue, worker, batch, chat, up, store, budget, ghosts>>

Handlers == Threads \cup {"chat"}
None     == "none"
NoAnswer == [action |-> "none", of |-> "none"]
Idle     == [pc |-> "idle", msg |-> None, name |-> 0, n |-> 0, active |-> 0, run |-> 0, pick |-> NoAnswer]
Quiet    == [msg |-> None, pc |-> "idle", polled |-> FALSE, said |-> None]

Msg(m)    == scenario.msgs[m]
Mine(p)   == worker[p].msg
Own(p)    == name[Mine(p)] = worker[p].name /\ at[Mine(p)] = "processing"
At(p, pc) == worker[p].pc = pc
Goto(p, pc) == worker' = [worker EXCEPT ![p].pc = pc]

Spend(what) == budget[what] > 0 /\ budget' = [budget EXCEPT ![what] = @ - 1]

\* The messages of those of the handlers ps that are at pc.
Held(ps, pc) == {Mine(q) : q \in {r \in ps : At(r, pc)}}

Terminal(k) == runs[k].state /= "running"

-----------------------------------------------------------------------------
(* Claiming                                                                *)

Take(p, m) == [Idle EXCEPT !.pc = "begin", !.msg = m, !.name = name[m]]

\* Mutant of Claim: the file is copied into processing/, not moved.
ClaimCopies(p, m) ==
    /\ p \in Threads /\ up /\ At(p, "idle") /\ at[m] = "incoming"
    /\ worker' = [worker EXCEPT ![p] = Take(p, m)]
    /\ UNCHANGED <<scenario, queue, batch, chat, up, store, budget, ghosts>>

\* A message that names a run is ordered by it, any other by its conversation.
derive_ordering_key(m) ==
    [run |-> Msg(m).run, conv |-> IF Msg(m).run = 0 THEN Msg(m).conv ELSE "none"]

\* A thread of the daemon takes a message; one of a key at a time.
Claim(p, m) ==
    /\ p \in Threads /\ up /\ At(p, "idle") /\ at[m] = "incoming"
    /\ \A q \in {t \in Threads : ~ At(t, "idle")} : derive_ordering_key(Mine(q)) /= derive_ordering_key(m)
    /\ at' = [at EXCEPT ![m] = "processing"]
    /\ worker' = [worker EXCEPT ![p] = Take(p, m)]
    /\ UNCHANGED <<scenario, name, tries, failed, batch, chat, up, store, budget, ghosts>>

\* Mutant of DrainClaim: the chat reads the file and leaves it where it is.
DrainReads(m) ==
    /\ chat.pc = "drain" /\ at[m] = "incoming"
    /\ batch' = batch \cup {<<m, name[m]>>}
    /\ UNCHANGED <<scenario, queue, worker, chat, up, store, budget, ghosts>>

\* drain_queue_once: everything in incoming/ is claimed before any is begun.
DrainClaim(m) ==
    /\ chat.pc = "drain" /\ at[m] = "incoming"
    /\ at' = [at EXCEPT ![m] = "processing"]
    /\ batch' = batch \cup {<<m, name[m]>>}
    /\ UNCHANGED <<scenario, name, tries, failed, worker, chat, up, store, budget, ghosts>>

DrainClaimed ==
    /\ chat.pc = "drain" /\ \A m \in Msgs : at[m] /= "incoming"
    /\ chat' = [chat EXCEPT !.pc = "work"]
    /\ UNCHANGED <<scenario, queue, worker, batch, up, store, budget, ghosts>>

DrainBegin(c) ==
    /\ chat.pc = "work" /\ At("chat", "idle") /\ c \in batch
    /\ batch' = batch \ {c}
    /\ worker' = [worker EXCEPT !["chat"] = [Take("chat", c[1]) EXCEPT !.name = c[2]]]
    /\ UNCHANGED <<scenario, queue, chat, up, store, budget, ghosts>>

DrainDone ==
    /\ chat.pc = "work" /\ At("chat", "idle") /\ batch = {}
    /\ chat' = [chat EXCEPT !.pc = "wait"]
    /\ UNCHANGED <<scenario, queue, worker, batch, up, store, budget, ghosts>>

\* An error ends the drain of the chat; what it had claimed stays in processing/.
DrainEnds(stays) ==
    /\ chat' = [chat EXCEPT !.pc = "idle", !.said = "error"]
    /\ batch' = {}
    /\ left' = left \cup stays \cup {c[1] : c \in batch}

\* claim_oldest fails: the file is not moved, or it is moved, cannot be read, and is
\* put back under its next number, or stays where that fails too.
ClaimFails(m, by) ==
    /\ IF by = "chat" THEN chat.pc = "drain" ELSE up
    /\ at[m] = "incoming" /\ Spend("errors")
    /\ \/ /\ UNCHANGED <<at, tries>> /\ IF by = "chat" THEN DrainEnds({}) ELSE UNCHANGED <<chat, batch, left>>
       \/ /\ tries' = [tries EXCEPT ![m] = @ + 1] /\ UNCHANGED at
          /\ IF by = "chat" THEN DrainEnds({}) ELSE UNCHANGED <<chat, batch, left>>
       \/ /\ at' = [at EXCEPT ![m] = "processing"] /\ UNCHANGED tries
          /\ IF by = "chat" THEN DrainEnds({m}) ELSE left' = left \cup {m} /\ UNCHANGED <<chat, batch>>
    /\ UNCHANGED <<scenario, name, failed, worker, up, store, replied, did, shared, cut, unsaid>>

\* A handler ends with its message; stays is the message it leaves in processing/.
End(p, failing, stays) ==
    /\ worker' = [worker EXCEPT ![p] = Idle]
    /\ cut' = IF failing THEN cut \cup Held({p}, "invoked") ELSE cut
    /\ IF p = "chat" /\ failing THEN DrainEnds(stays)
       ELSE left' = left \cup stays /\ UNCHANGED <<chat, batch>>

-----------------------------------------------------------------------------
(* Replies, completion and failure                                         *)

Reply(m, says) == [msg |-> m, what |-> says.what, step |-> says.step, run |-> 0]
Plain(what)    == {Says(what, "none")}

\* complete_success_many: the replies, then the removal of the file, which fails
\* when recovery has renamed it.
Completed(p, says, k) ==
    /\ out' = out \cup {[Reply(Mine(p), s) EXCEPT !.run = k] : s \in says}
    /\ replied' = IF says = {} THEN replied ELSE replied \cup {Mine(p)}
    /\ at' = IF Own(p) THEN [at EXCEPT ![Mine(p)] = "gone"] ELSE at
    /\ End(p, ~ Own(p), {})
    /\ UNCHANGED budget

Kept(p) == IF Own(p) THEN {Mine(p)} ELSE {}

\* No target for the replies, or one of the writes or the removal fails: some of
\* the replies are there, and the file stays where it is.
CompletionFails(p, says, k) ==
    /\ Spend("errors")
    /\ \E some \in SUBSET says :
         /\ out' = out \cup {[Reply(Mine(p), s) EXCEPT !.run = k] : s \in some}
         /\ replied' = IF some = {} THEN replied ELSE replied \cup {Mine(p)}
    /\ End(p, TRUE, Kept(p))
    /\ UNCHANGED at

\* The end of process_claimed_message for an action that was routed.
Complete(p, says, k) ==
    /\ Completed(p, says, k) \/ CompletionFails(p, says, k)
    /\ UNCHANGED <<scenario, name, tries, failed, up, written, shared, unsaid>>

\* requeue_or_dead_letter_failure of a message that could not be routed.
LastTry(m) == tries[m] + 1 >= MaxTries

Requeue(p) ==
    LET m == Mine(p)
    IN  /\ At(p, "fail") /\ ~ LastTry(m)
        /\ at' = IF Own(p) THEN [at EXCEPT ![m] = "incoming"] ELSE at
        /\ tries' = IF Own(p) THEN [tries EXCEPT ![m] = @ + 1] ELSE tries
        /\ End(p, TRUE, {})
        /\ UNCHANGED <<scenario, name, failed, up, store, budget, replied, did, shared, unsaid>>

\* dead_letter_failure: the dead letter is written, then the file removed.
DeadLetter(p) ==
    LET m == Mine(p)
    IN  /\ At(p, "fail") /\ LastTry(m)
        /\ failed' = failed \cup {m}
        /\ IF Own(p)
           THEN /\ at' = [at EXCEPT ![m] = "gone"]
                /\ Goto(p, "notify")
                /\ UNCHANGED <<batch, chat, left, cut>>
           ELSE UNCHANGED at /\ End(p, TRUE, {})
        /\ UNCHANGED <<scenario, name, tries, up, store, budget, replied, did, shared, unsaid>>

\* The requeue, the dead letter or the removal after it fails.
FailureFails(p) ==
    /\ At(p, "fail") /\ Spend("errors")
    /\ failed' \in {failed} \cup (IF LastTry(Mine(p)) THEN {failed \cup {Mine(p)}} ELSE {})
    /\ End(p, TRUE, Kept(p))
    /\ UNCHANGED <<scenario, at, name, tries, up, store, replied, did, shared, unsaid>>

\* enqueue_dead_letter_failure_notification, which may fail; nothing repeats it.
Notify(p) ==
    /\ At(p, "notify")
    /\ \/ /\ out' = out \cup {Reply(Mine(p), Says("failure", "none"))}
          /\ replied' = replied \cup {Mine(p)}
          /\ UNCHANGED <<budget, unsaid>>
       \/ /\ Spend("errors") /\ unsaid' = unsaid \cup {Mine(p)}
          /\ UNCHANGED <<out, replied>>
    /\ End(p, TRUE, {})
    /\ UNCHANGED <<scenario, queue, up, written, runs, did, shared>>

-----------------------------------------------------------------------------
(* process_queued_message: before the selector                             *)

\* latest_run_for_conversation: a run of the conversation that has not ended.
Active(m) == {k \in DOMAIN runs : ~ Terminal(k) /\ Msg(runs[k].msg).conv = Msg(m).conv}

\* The orchestrator is found and its configuration loads; the active run is read
\* before anything else.  A message that names a run goes to it, not to the selector.
Begin(p) ==
    /\ At(p, "begin")
    /\ \E k \in IF Active(Mine(p)) = {} THEN {0} ELSE Active(Mine(p)) :
         worker' = [worker EXCEPT ![p].active = k,
            ![p].pc = IF Msg(Mine(p)).run /= 0 /\ Msg(Mine(p)).text /= "status" THEN "resume" ELSE "select"]
    /\ UNCHANGED <<scenario, queue, batch, chat, up, store, budget, ghosts>>

\* No orchestrator, a configuration that does not load, a workspace that is denied;
\* an artifact, the acknowledgement or the run that cannot be written; a function
\* that refuses its arguments.
Refused(p) ==
    /\ worker[p].pc \in {"begin", "resume", "selected", "acked"} /\ Spend("errors")
    /\ Goto(p, "fail")
    /\ UNCHANGED <<scenario, queue, batch, chat, up, store, ghosts>>

\* engine.resume: an unknown run is reported as not found, an ended one as it is.
Resume(p) ==
    LET k == Msg(Mine(p)).run
    IN  /\ At(p, "resume")
        /\ IF k \notin DOMAIN runs THEN Complete(p, Plain("missing"), 0) /\ UNCHANGED <<runs, did>>
           ELSE IF Terminal(k) THEN Complete(p, Plain("status"), k) /\ UNCHANGED <<runs, did>>
           ELSE /\ worker' = [worker EXCEPT ![p].pc = "engine", ![p].run = k]
                /\ UNCHANGED <<scenario, queue, batch, chat, up, store, budget, ghosts>>

-----------------------------------------------------------------------------
(* The selector                                                            *)

\* classify_response_eligibility
MustReply(m) == Msg(m).direct \/ Msg(m).mentioned

\* parse_and_validate_selector_result; has_explicit_slash_command.
Valid(m, a) ==
    \/ a.action = "workflow_start" /\ a.of \in DOMAIN Workflows
    \/ a.action = "command_invoke" /\ a.of = Msg(m).text
    \/ a.action \in {"workflow_status", "no_response"}

MaxAttempts(m) == IF MustReply(m) THEN Retries + 1 ELSE ChanceTries

\* After the last attempt: the default workflow, or silence.
Fallback(m) ==
    IF MustReply(m) THEN [action |-> "workflow_start", of |-> Default]
    ELSE [action |-> "no_response", of |-> "none"]

\* Mutant of enforce_no_response_policy: silence is always accepted.
accept_no_response(m, a) == a

enforce_no_response_policy(m, a) ==
    IF a.action = "no_response" /\ MustReply(m) THEN [action |-> "workflow_start", of |-> Default] ELSE a

\* One attempt has been read, or could not be.
Consider(p, a) ==
    LET m == Mine(p)
    IN  IF a.action /= "none" /\ Valid(m, a)
        THEN [worker[p] EXCEPT !.pc = "selected", !.pick = enforce_no_response_policy(m, a)]
        ELSE IF worker[p].n + 1 < MaxAttempts(m) THEN [worker[p] EXCEPT !.n = @ + 1]
        ELSE [worker[p] EXCEPT !.pc = "selected", !.pick = enforce_no_response_policy(m, Fallback(m))]

\* run_selector_attempt_with_provider: the provider writes the result file of
\* this attempt, or ends well without writing it, and then what an earlier
\* delivery left there is read; or it fails.
SelectorWrites(p, a) ==
    /\ At(p, "select") /\ a \in scenario.answers
    /\ written' = [written EXCEPT ![Mine(p)][worker[p].n] = a]
    /\ worker' = [worker EXCEPT ![p] = Consider(p, a)]
    /\ UNCHANGED <<scenario, queue, batch, chat, up, runs, out, budget, ghosts>>

SelectorSilent(p) ==
    /\ At(p, "select") /\ Spend("silent")
    /\ worker' = [worker EXCEPT ![p] = Consider(p, written[Mine(p)][worker[p].n])]
    /\ UNCHANGED <<scenario, queue, batch, chat, up, store, ghosts>>

SelectorFails(p) ==
    /\ At(p, "select") /\ Spend("silent")
    /\ worker' = [worker EXCEPT ![p] = Consider(p, NoAnswer)]
    /\ UNCHANGED <<scenario, queue, batch, chat, up, store, ghosts>>

-----------------------------------------------------------------------------
(* route_selector_action                                                   *)

Picked(p, action) == At(p, "selected") /\ worker[p].pick.action = action

Others == <<scenario, queue, batch, chat, up>>

\* A workflow of several steps is acknowledged.
Acknowledge(p) ==
    /\ Picked(p, "workflow_start")
    /\ out' = IF Len(Workflows[worker[p].pick.of]) > 1
              THEN out \cup {Reply(Mine(p), Says("ack", "none"))} ELSE out
    /\ Goto(p, "acked")
    /\ UNCHANGED <<Others, written, runs, budget, ghosts>>

\* create_run_with_metadata
StartRun(p) ==
    LET m == Mine(p)
        w == worker[p].pick.of
    IN  /\ At(p, "acked")
        /\ runs' = Append(runs, [msg |-> m, wf |-> w, state |-> "running", tried |-> <<>>, clock |-> 0])
        /\ worker' = [worker EXCEPT ![p].pc = "engine", ![p].run = Len(runs) + 1]
        /\ UNCHANGED <<Others, written, out, budget, ghosts>>

\* resolve_status_run_id: the run the message names, else the active one.
StatusRun(p) == IF Msg(Mine(p)).run /= 0 THEN Msg(Mine(p)).run ELSE worker[p].active

ReportStatus(p) ==
    LET k == StatusRun(p)
    IN  /\ Picked(p, "workflow_status")
        /\ IF k \in DOMAIN runs THEN Complete(p, Plain("status"), k)
           ELSE Complete(p, Plain(IF k = 0 THEN "inactive" ELSE "missing"), 0)
        /\ UNCHANGED <<runs, did>>

\* complete_success_no_outgoing
StaySilent(p) ==
    /\ Picked(p, "no_response")
    /\ Complete(p, {}, 0)
    /\ UNCHANGED <<runs, did>>

Did(p) == did' = [did EXCEPT ![Mine(p)] = @ + 1]

\* A command takes effect; its result is there, or an error came after the effect.
CarryOut(p, ends) ==
    /\ Did(p)
    /\ IF ends = "fail" THEN Spend("errors") /\ cut' = cut \cup {Mine(p)} ELSE UNCHANGED <<budget, cut>>

\* A function that changes nothing modelled here: lists, shows, settings.
InvokePlain(p, ends) ==
    /\ Picked(p, "command_invoke") /\ worker[p].pick.of = "show"
    /\ CarryOut(p, ends)
    /\ Goto(p, ends)
    /\ UNCHANGED <<Others, store, replied, left, shared, unsaid>>

\* workflow.cancel of a run; an unknown run is an error.
InvokeCancel(p, k, ends) ==
    /\ Picked(p, "command_invoke") /\ worker[p].pick.of = "cancel"
    /\ IF k \in DOMAIN runs
       THEN /\ runs' = IF Terminal(k) THEN runs ELSE [runs EXCEPT ![k].state = "canceled"]
            /\ CarryOut(p, ends)
            /\ Goto(p, ends)
       ELSE /\ Goto(p, "fail")
            /\ UNCHANGED <<runs, did, budget, cut>>
    /\ UNCHANGED <<Others, written, out, replied, left, shared, unsaid>>

\* daemon.stop waits for the daemon to die.  The thread that runs it is the
\* daemon's own: it cannot end before the process is killed.
InvokeStop(p, ends) ==
    /\ Picked(p, "command_invoke") /\ worker[p].pick.of = "stop"
    /\ Did(p)
    /\ IF ends = "fail" THEN Spend("errors") ELSE UNCHANGED budget
    /\ up' = FALSE
    /\ worker' = [q \in Handlers |-> IF q \in Threads THEN Idle
                                     ELSE IF q = p THEN [worker[q] EXCEPT !.pc = ends] ELSE worker[q]]
    /\ cut' = cut \cup Held(Threads, "invoked")
                 \cup (IF p \in Threads \/ ends = "fail" THEN {Mine(p)} ELSE {})
    /\ unsaid' = unsaid \cup Held(Threads, "notify")
    /\ UNCHANGED <<scenario, queue, batch, chat, store, replied, left, shared>>

\* The command's result is the reply; until it is written the message is not done.
CommandDone(p) ==
    /\ At(p, "invoked")
    /\ Complete(p, Plain("command"), 0)
    /\ UNCHANGED <<runs, did>>

-----------------------------------------------------------------------------
(* The run                                                                 *)

Run(p)   == runs[worker[p].run]
Steps(r) == Workflows[r.wf]
Tried(r) == {r.tried[i] : i \in DOMAIN r.tried}
Pos(r)   == Cardinality({i \in DOMAIN r.tried : r.tried[i].ok}) + 1

\* An attempt of the next step.  Its start is the time the run's clock shows, in
\* whole seconds; it takes d seconds, and the clock may tick once more (g) before
\* the next one.  A step that fails for good fails the run and the message.
EngineStep(p, ok, d, g) ==
    LET r == Run(p)
        s == Steps(r)[Pos(r)]
        n == Cardinality({a \in Tried(r) : a.step = s}) + 1
        a == [step |-> s, n |-> n, ok |-> ok, started |-> r.clock, ended |-> r.clock + d]
        next == [r EXCEPT !.tried = Append(@, a), !.clock = @ + d + g]
    IN  /\ At(p, "engine") /\ r.state = "running" /\ Pos(r) <= Len(Steps(r))
        /\ IF ok \/ n < StepTries
           THEN /\ runs' = [runs EXCEPT ![worker[p].run] = next]
                /\ budget.ticks >= d + g /\ (ok \/ budget.errors > 0)
                /\ budget' = [budget EXCEPT !.ticks = @ - d - g, !.errors = IF ok THEN @ ELSE @ - 1]
                /\ UNCHANGED <<Others, worker, written, out, ghosts>>
           ELSE /\ runs' = [runs EXCEPT ![worker[p].run] = [next EXCEPT !.state = "failed"]]
                /\ d = 0 /\ g = 0 /\ Spend("errors")
                /\ Goto(p, "fail")
                /\ UNCHANGED <<Others, written, out, ghosts>>

\* The run has ended, or does so now; a message that resumed it gets its status.
EngineReturns(p) ==
    LET r == Run(p)
        state == IF r.state = "running" THEN "succeeded" ELSE r.state
    IN  /\ At(p, "engine") /\ (r.state /= "running" \/ Pos(r) > Len(Steps(r)))
        /\ runs' = [runs EXCEPT ![worker[p].run].state = state]
        /\ IF Msg(Mine(p)).run /= 0 THEN Complete(p, Plain("status"), worker[p].run)
           ELSE \E says \in workflow_lifecycle_messages(Tried(r), state) : Complete(p, says, worker[p].run)
        /\ UNCHANGED did

-----------------------------------------------------------------------------
(* The chat: session.rs and tui.rs                                         *)

\* A line is typed while nothing is being processed: the message is written,
\* then a thread drains the queue.
ChatSend(m) ==
    /\ chat.pc = "idle" /\ at[m] = "none" /\ Msg(m).source = "local"
    /\ at' = [at EXCEPT ![m] = "incoming"]
    /\ chat' = [Quiet EXCEPT !.msg = m, !.pc = "drain"]
    /\ UNCHANGED <<scenario, name, tries, failed, worker, batch, up, store, budget, ghosts>>

\* wait_for_outgoing_messages: what answers the message is taken; the
\* acknowledgement has another id.
Answering(m) == {o \in out : o.msg = m /\ o.what /= "ack"}

ChatPoll ==
    /\ chat.pc \in {"wait", "settle"} /\ (chat.polled => Answering(chat.msg) /= {})
    /\ out' = out \ Answering(chat.msg)
    /\ chat' = [chat EXCEPT !.polled = TRUE, !.pc = IF Answering(chat.msg) = {} THEN @ ELSE "settle"]
    /\ UNCHANGED <<scenario, queue, worker, batch, up, written, runs, budget, ghosts>>

\* A reply to someone else is delivered between the listing and the reading: the
\* poll ends, and what it had taken is lost.
ChatPollFails(o) ==
    /\ chat.pc \in {"wait", "settle"} /\ o \in out /\ Msg(o.msg).source = "slack"
    /\ \E some \in SUBSET Answering(chat.msg) : out' = out \ ({o} \cup some)
    /\ chat' = [chat EXCEPT !.pc = "idle", !.said = "error"]
    /\ UNCHANGED <<scenario, queue, worker, batch, up, written, runs, budget, ghosts>>

\* Thirty seconds without an answer, or 0.3 seconds after the first one.
ChatReturns ==
    /\ chat.pc \in {"wait", "settle"} /\ chat.polled
    /\ chat' = [chat EXCEPT !.pc = "idle", !.said = IF chat.pc = "wait" THEN "timeout" ELSE "reply"]
    /\ UNCHANGED <<scenario, queue, worker, batch, up, store, budget, ghosts>>

\* Esc, Ctrl-C or /exit, which nothing stops while a message is being handled.
ChatQuit ==
    /\ chat.pc /= "idle" /\ Spend("quits")
    /\ chat' = [Quiet EXCEPT !.msg = chat.msg] /\ batch' = {}
    /\ worker' = [worker EXCEPT !["chat"] = Idle]
    /\ left' = left \cup {c[1] : c \in batch} \cup ({Mine("chat")} \ {None})
    /\ cut' = cut \cup Held({"chat"}, "invoked") /\ unsaid' = unsaid \cup Held({"chat"}, "notify")
    /\ UNCHANGED <<scenario, queue, up, store, replied, did, shared>>

-----------------------------------------------------------------------------
(* Producers, delivery, crash and restart                                  *)

Arrive(m) ==
    /\ at[m] = "none" /\ Msg(m).source = "slack"
    /\ at' = [at EXCEPT ![m] = "incoming"]
    /\ UNCHANGED <<scenario, name, tries, failed, worker, batch, chat, up, store, budget, ghosts>>

\* tick_heartbeat_worker: a message whose run id is the tick's own, then a look
\* at outgoing/ for an answer, which is logged.
HeartbeatTick(m) ==
    /\ up /\ at[m] = "none" /\ Msg(m).source = "heartbeat"
    /\ at' = [at EXCEPT ![m] = "incoming"]
    /\ UNCHANGED <<scenario, name, tries, failed, worker, batch, chat, up, store, budget, ghosts>>

Deliver(o) ==
    /\ o \in out /\ Msg(o.msg).source = "slack"
    /\ out' = out \ {o}
    /\ UNCHANGED <<Others, worker, written, runs, budget, ghosts>>

Crash ==
    /\ up /\ Spend("crashes")
    /\ up' = FALSE
    /\ worker' = [p \in Handlers |-> IF p \in Threads THEN Idle ELSE worker[p]]
    /\ cut' = cut \cup Held(Threads, "invoked") /\ unsaid' = unsaid \cup Held(Threads, "notify")
    /\ UNCHANGED <<scenario, queue, batch, chat, store, replied, did, left, shared>>

\* Mutant of Start: nothing is recovered.
StartOnly ==
    /\ ~ up /\ Spend("starts")
    /\ up' = TRUE /\ left' = {}
    /\ UNCHANGED <<scenario, queue, worker, batch, chat, store, replied, did, shared, cut, unsaid>>

\* Recovery on start: what lies in processing/ is dropped when outgoing/ holds an
\* answer to it, else renamed back into incoming/, whoever may be handling it.
Start ==
    LET found == {m \in Msgs : at[m] = "processing"}
    IN  /\ ~ up /\ Spend("starts")
        /\ up' = TRUE
        /\ at' = [m \in Msgs |-> IF m \notin found THEN at[m]
                                 ELSE IF Answering(m) /= {} THEN "gone" ELSE "incoming"]
        /\ name' = [m \in Msgs |-> IF m \in found THEN name[m] + 1 ELSE name[m]]
        /\ tries' = [m \in Msgs |-> IF m \in found THEN 0 ELSE tries[m]]
        /\ left' = {}
        /\ shared' = shared \cup {m \in found : m = Mine("chat") \/ \E c \in batch : c[1] = m}
        /\ UNCHANGED <<scenario, failed, worker, batch, chat, store, replied, did, cut, unsaid>>

-----------------------------------------------------------------------------
Init ==
    /\ scenario \in Scenarios
    /\ at = [m \in Msgs |-> "none"] /\ name = [m \in Msgs |-> 0] /\ tries = [m \in Msgs |-> 0]
    /\ failed = {} /\ worker = [p \in Handlers |-> Idle] /\ batch = {} /\ chat = Quiet /\ up = FALSE
    /\ written = [m \in Msgs |-> [n \in 0..(MaxAttempts(m) - 1) |-> NoAnswer]]
    /\ runs = <<>> /\ out = {} /\ budget = scenario.budget
    /\ replied = {} /\ did = [m \in Msgs |-> 0] /\ left = {} /\ shared = {} /\ cut = {} /\ unsaid = {}

Select(p) == (\E a \in scenario.answers : SelectorWrites(p, a)) \/ SelectorSilent(p) \/ SelectorFails(p)
Route(p) ==
    \/ Acknowledge(p) \/ StartRun(p) \/ ReportStatus(p) \/ StaySilent(p) \/ CommandDone(p)
    \/ \E ends \in {"invoked", "fail"} :
         InvokePlain(p, ends) \/ InvokeStop(p, ends) \/ \E k \in 1..(Len(runs) + 1) : InvokeCancel(p, k, ends)
Execute(p) == EngineReturns(p) \/ \E ok \in BOOLEAN, d, g \in {0, 1} : EngineStep(p, ok, d, g)
GiveUp(p) == Refused(p) \/ Requeue(p) \/ DeadLetter(p) \/ FailureFails(p) \/ Notify(p)
Handle(p) == Begin(p) \/ Resume(p) \/ Select(p) \/ Route(p) \/ Execute(p) \/ GiveUp(p)
Chat ==
    \/ \E m \in Msgs : ChatSend(m) \/ DrainClaim(m)
    \/ DrainClaimed \/ DrainDone \/ ChatPoll \/ ChatReturns \/ ChatQuit
    \/ \E c \in batch : DrainBegin(c)
    \/ \E o \in out : ChatPollFails(o)

Next ==
    \/ \E p \in Handlers : Handle(p) \/ \E m \in Msgs : Claim(p, m)
    \/ Chat
    \/ \E m \in Msgs : Arrive(m) \/ HeartbeatTick(m) \/ \E by \in {"daemon", "chat"} : ClaimFails(m, by)
    \/ \E o \in out : Deliver(o)
    \/ Crash \/ Start

Spec == Init /\ [][Next]_vars

-----------------------------------------------------------------------------
(* Properties                                                              *)

\* Types; a handler holds a message exactly while it works, and only the daemon's
\* own life keeps its threads busy.
TypeOK ==
    /\ \A m \in Msgs : at[m] \in {"none", "incoming", "processing", "gone"} /\ tries[m] \in Nat
    /\ failed \cup replied \cup left \cup shared \cup cut \cup unsaid \subseteq Msgs
    /\ \A p \in Handlers : (worker[p].pc = "idle") = (Mine(p) = None)
    /\ \A p \in Threads : ~ up => At(p, "idle")
    /\ At("chat", "idle") \/ chat.pc = "work"
    /\ \A o \in out : o.msg \in Msgs /\ o.run \in 0..Len(runs)
    /\ \A k \in DOMAIN runs : runs[k].state \in {"running", "succeeded", "canceled", "failed"}

\* A message that is direct or mentions the profile leaves the queue only with a
\* reply, whatever the selector writes, fails to write or had written for an
\* earlier delivery, and whoever handles it; or as a dead letter, whose author is
\* being told, or is not because telling failed or was cut off
\* (enforce_no_response_policy, resolve_selector_for_inbound, complete_success_many,
\* enqueue_dead_letter_failure_notification).
MustReplyAnswered ==
    \A m \in Msgs : at[m] = "gone" /\ MustReply(m) =>
        \/ m \in replied
        \/ m \in failed /\ (m \in unsaid \/ m \in Held(Handlers, "notify"))

\* While the daemon runs, a file lies in processing/ with nobody handling it only
\* when it was let go of there since the start: by a drain that ended on an error, a
\* chat that was quit, or a claim, a completion or a requeue that failed
\* (drain_queue_once, process_claimed_message, recover_queue_processing_paths).
StrandedHasCause ==
    \A m \in Msgs :
        up /\ at[m] = "processing" =>
            \/ m \in left
            \/ \E p \in Handlers : Mine(p) = m /\ worker[p].name = name[m]
            \/ <<m, name[m]>> \in batch

\* Two handlers work on one message at the same time only when the daemon was
\* started, and recovered the queue, while the chat had the message
\* (claim_oldest, recover_queue_processing_paths).
TwoHandlersHasCause ==
    \A p, q \in Handlers : p /= q /\ Mine(p) = Mine(q) /\ Mine(p) /= None => Mine(p) \in shared

\* A command is carried out twice for one message only when the first time ended
\* between its effect and the completion of the message (a crash, a chat that was
\* quit, an error after the effect, a completion that failed, or the daemon stopped
\* by the command its own thread ran), or when the daemon's recovery took the
\* message from a working chat (invoke_with_context, complete_success_many,
\* stop_active_supervisor).
RepeatHasCause ==
    \A m \in Msgs : did[m] > 1 => m \in cut \cup shared

\* The output in a reply is that of the last attempt executed, unless another
\* attempt began and ended within the same seconds and has a later step id
\* (step_attempts_by_time, final_user_message).
ReplyFromLastStep ==
    \A o \in out : o.what \in {"output", "completed"} =>
        LET tried == runs[o.run].tried
            last == tried[Len(tried)]
        IN  \/ o.step = last.step
            \/ \E i \in DOMAIN tried : /\ tried[i].step = o.step
                                       /\ tried[i].started = last.started /\ tried[i].ended = last.ended

\* A heartbeat message reaches its agent: it is not answered with a run that was
\* not found.
HeartbeatReachesAgent ==
    \A o \in out : Msg(o.msg).source = "heartbeat" => o.what /= "missing"
=============================================================================
