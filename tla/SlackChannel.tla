----------------------------- MODULE SlackChannel -----------------------------
(***************************************************************************)
(* The Slack adapter of one profile and one conversation (channels/slack/, *)
(* runtime/channel_worker.rs): catch-up passes that fetch history and      *)
(* thread replies behind a cursor file, socket loops that receive events   *)
(* through a bounded buffer, and sweeps that post the outgoing files.  A   *)
(* pass runs in the backfill worker and at the top of every socket loop; a *)
(* sweep runs in the backfill worker and in the socket runtime.  The       *)
(* commands "channels slack sync" and "backfill run" do both in a process  *)
(* of their own, beside the daemon.  Nothing is locked.                    *)
(*                                                                         *)
(* A Slack timestamp is the number of the post.  All posts fall in the     *)
(* 24-hour window, so that a missing cursor reads as 0.                    *)
(***************************************************************************)
EXTENDS Naturals, Sequences, FiniteSets, FiniteSetsExt

CONSTANTS
    Scenarios,      \* settings of the Slack channel, each with what may happen under them
    Undeliverable,  \* posts whose reply has no valid profile or target
    Chunks,         \* chunks of a reply
    BufferCap,      \* SOCKET_BUFFER_CAPACITY
    MaxPosts,       \* bound on user posts
    MaxCopies,      \* bound on how often one post is enqueued
    MaxLoops        \* bound on socket loops alive at once

\* inbound_mode and history_backfill_enabled.
Settings == [mode : {"socket", "poll", "hybrid"}, backfill : BOOLEAN]

\* How many posts, catch-up passes, sweeps, failed calls, daemon starts and
\* commands may still happen.
Budgets == [posts : 0..MaxPosts, passes : Nat, sweeps : Nat, faults : Nat, starts : Nat, commands : Nat]

ASSUME ConstantsOK ==
    /\ Chunks \in Nat \ {0} /\ BufferCap \in Nat \ {0} /\ MaxPosts \in Nat
    /\ MaxCopies \in Nat /\ MaxLoops \in Nat
    /\ \A s \in Scenarios : s[1] \in Settings /\ s[2] \in Budgets

VARIABLES
    parent,   \* the posts, in order: 0 for a top-level one, else its thread
    cursor,   \* the cursor file: [conv, threads]; 0 is a missing entry
    draft,    \* cursor.json.tmp: {} or the one cursor that was written to it
    copies,   \* [post -> the stages of the queue messages made from it]
    artifacts,\* threads with a reply among the selector's message artifacts
    pass,     \* [passer -> its catch-up pass]
    loop,     \* [loop -> where the socket loop is]
    buffer,   \* [loop -> events its enqueue thread has still to write]
    sweep,    \* [sender -> its outbound sweep]
    worker,   \* where the socket worker, the backfill worker, the daemon and the command are
    stop,     \* the stop flag, shared by every worker of the daemon
    delivered,\* history: posts that came as a socket event
    raced,    \* history: top-level posts made while a pass had history behind it
    excused,  \* history: posts a pass fetched and did not secure alone
    shown,    \* history: chunks in Slack, <<copy, chunk>>
    twice,    \* history: chunks posted more than once
    contested,\* history: copies left half-posted or swept by two at once
    settings, \* the settings the daemon runs with
    left      \* what may still happen

vars == <<parent, cursor, draft, copies, artifacts, pass, loop, buffer, sweep, worker, stop,
          delivered, raced, excused, shown, twice, contested, settings, left>>
queue   == <<copies, artifacts>>
outward == <<shown, twice, contested>>
budget  == <<settings, left>>

Loops   == 1..MaxLoops
Command == MaxLoops + 1
Passers == 0..Command   \* 0 is the backfill worker
Senders == {"socket", "backfill", "command"}
Posts   == 1..Len(parent)
Copies  == {c \in Posts \X (1..MaxCopies) : c[2] <= Len(copies[c[1]])}

NoPass  == [pc |-> "idle"]
NoSweep == [pc |-> "idle"]
NoCursor == [conv |-> 0, threads |-> [t \in 1..MaxPosts |-> 0]]

Active(p) == pass[p].pc /= "idle"
Greatest(S, least) == Max(S \cup {least})

Spend(what) == left[what] > 0 /\ left' = [left EXCEPT ![what] = @ - 1] /\ UNCHANGED settings

-----------------------------------------------------------------------------
(* Slack: users post, conversations.history and conversations.replies      *)

Replies(t) == {m \in Posts : parent[m] = t}
conversation_history(oldest) == {m \in Posts : parent[m] = 0 /\ m > oldest}
conversation_replies(t, oldest) == {m \in Replies(t) : m > oldest}

Post(t) ==
    /\ Spend("posts")
    /\ t = 0 \/ (t \in Posts /\ parent[t] = 0)
    /\ parent' = Append(parent, t)
    /\ copies' = Append(copies, <<>>)
    /\ raced' = IF t = 0 /\ \E p \in Passers : pass[p].pc \in {"messages", "replies"}
                THEN raced \cup {Len(parent) + 1} ELSE raced
    /\ UNCHANGED <<cursor, draft, artifacts, pass, loop, buffer, sweep, worker, stop, delivered,
                   excused, outward>>

-----------------------------------------------------------------------------
(* The queue the posts go to.  A message is found again under its own name *)
(* in incoming/ or processing/ ("queued") and by its reply in outgoing/;   *)
(* not after a requeue or a recovery gave it another name.                 *)

Stages == {"queued", "renamed", "outgoing", "sent", "silent"}

message_already_queued(m) ==
    \E k \in 1..Len(copies[m]) : copies[m][k] \in {"queued", "outgoing"}

\* The messages after post m was handed to enqueue_incoming.
enqueue_incoming(m) ==
    IF message_already_queued(m) THEN copies ELSE [copies EXCEPT ![m] = Append(@, "queued")]

CanEnqueue(m) == message_already_queued(m) \/ Len(copies[m]) < MaxCopies

Move(m, k, from, to) ==
    /\ worker.daemon = "up" /\ copies[m][k] \in from
    /\ copies' = [copies EXCEPT ![m][k] = to]
    /\ artifacts' = IF to = "renamed" \/ parent[m] = 0 THEN artifacts
                    ELSE artifacts \cup {parent[m]}
    /\ UNCHANGED <<parent, cursor, draft, pass, loop, buffer, sweep, worker, stop, delivered, raced,
                   excused, outward, budget>>

RequeueOrRecover(m, k) == Move(m, k, {"queued"}, "renamed")
Answer(m, k)           == Move(m, k, {"queued", "renamed"}, "outgoing")
AnswerNothing(m, k)    == Move(m, k, {"queued", "renamed"}, "silent")

-----------------------------------------------------------------------------
(* A catch-up pass: process_inbound_with_api                               *)

Tracked(c) == {t \in DOMAIN c.threads : c.threads[t] > 0}

\* collect_thread_candidates: a post with replies names its thread.
Candidates(S) == {m \in S : Replies(m) /= {}}

PassBegin(p, what) ==
    /\ ~ Active(p)
    /\ pass' = [pass EXCEPT ![p] = [pc |-> "history", cur |-> cursor, latest |-> cursor.conv,
                                    threads |-> {}, batch |-> {}, took |-> {}]]
    /\ excused' = excused \cup UNION {pass[q].took : q \in {r \in Passers : Active(r)}}
    /\ Spend(what)

\* The messages come back with the candidates' own timestamps as thread cursors.
FetchHistory(p) ==
    /\ pass[p].pc = "history"
    /\ LET cur   == pass[p].cur
           known == IF Tracked(cur) /= {} THEN Tracked(cur) ELSE artifacts
           msgs  == conversation_history(cur.conv)
           named == Candidates(msgs)
           ths   == [t \in DOMAIN cur.threads |->
                       IF t \in named THEN Greatest({t}, cur.threads[t]) ELSE cur.threads[t]]
       IN  /\ pass' = [pass EXCEPT ![p] =
                [pc |-> "messages", cur |-> [cur EXCEPT !.threads = ths],
                 latest |-> Greatest(msgs, cur.conv), threads |-> known \cup named,
                 batch |-> msgs, took |-> msgs]]
           /\ excused' = IF \E q \in Passers \ {p} : Active(q) THEN excused \cup msgs ELSE excused
    /\ UNCHANGED <<parent, cursor, draft, queue, loop, buffer, sweep, worker, stop, delivered, raced,
                   outward, budget>>

\* One fetched message goes to the queue.
PassEnqueue(p) ==
    /\ pass[p].pc \in {"messages", "replies"} /\ pass[p].batch /= {}
    /\ LET m == Max(pass[p].batch)
       IN  /\ CanEnqueue(m)
           /\ copies' = enqueue_incoming(m)
           /\ pass' = [pass EXCEPT ![p].batch = @ \ {m}]
    /\ UNCHANGED <<parent, cursor, draft, artifacts, loop, buffer, sweep, worker, stop, delivered,
                   raced, excused, outward, budget>>

\* With no thread known, the window's history is read again for threads; a
\* failure of that call is ignored.
DiscoverThreads(p) ==
    /\ pass[p].pc = "messages" /\ pass[p].batch = {}
    /\ \E found \in IF pass[p].threads /= {} THEN {pass[p].threads}
                    ELSE {Candidates(conversation_history(0)), {}} :
         /\ pass' = [pass EXCEPT ![p].pc = "replies", ![p].threads = found]
    /\ UNCHANGED <<parent, cursor, draft, queue, loop, buffer, sweep, worker, stop, delivered, raced,
                   excused, outward, budget>>

\* The replies of one thread; they also move the conversation's cursor.
FetchReplies(p) ==
    /\ pass[p].pc = "replies" /\ pass[p].batch = {} /\ pass[p].threads /= {}
    /\ LET r   == pass[p]
           t   == Min(r.threads)
           old == r.cur.threads[t]
           rs  == conversation_replies(t, old)
       IN  /\ pass' = [pass EXCEPT ![p] =
                [r EXCEPT !.threads = r.threads \ {t}, !.batch = rs, !.took = r.took \cup rs,
                          !.latest = Greatest(rs, r.latest),
                          !.cur = [r.cur EXCEPT !.threads = [r.cur.threads EXCEPT ![t] = Greatest(rs, old)]]]]
           /\ excused' = IF \E q \in Passers \ {p} : Active(q) THEN excused \cup rs ELSE excused
    /\ UNCHANGED <<parent, cursor, draft, queue, loop, buffer, sweep, worker, stop, delivered, raced,
                   outward, budget>>

\* What follows a pass: the backfill worker and the command sweep, a socket
\* loop connects.
AfterPass(p, next) ==
    IF p = 0
    THEN worker' = [worker EXCEPT !.backfill = IF next = "open" THEN "sweep" ELSE "idle"] /\ UNCHANGED loop
    ELSE IF p = Command
    THEN worker' = [worker EXCEPT !.command = IF next = "open" THEN "sweep" ELSE "none"] /\ UNCHANGED loop
    ELSE loop' = [loop EXCEPT ![p] = next] /\ UNCHANGED worker

\* save_cursor_state writes c to cursor.json.tmp, whatever another pass has there.
WriteDraft(p, c) ==
    /\ draft' = {c}
    /\ pass' = [pass EXCEPT ![p] = [@ EXCEPT !.pc = "saving", !.cur = c]]
    /\ UNCHANGED <<parent, cursor, queue, loop, buffer, sweep, worker, stop, delivered, raced,
                   excused, outward>>

\* Mutant of PassWrite: the thread cursors are not written.
PassWriteNoThreads(p) ==
    /\ pass[p].pc = "replies" /\ pass[p].batch = {} /\ pass[p].threads = {}
    /\ WriteDraft(p, [cursor EXCEPT !.conv = pass[p].latest])
    /\ UNCHANGED budget

PassWrite(p) ==
    /\ pass[p].pc = "replies" /\ pass[p].batch = {} /\ pass[p].threads = {}
    /\ WriteDraft(p, [pass[p].cur EXCEPT !.conv = pass[p].latest])
    /\ UNCHANGED budget

\* conversations.history says not_in_channel: the conversation is passed over,
\* and the cursors are written as they were loaded.
PassNotInChannel(p) ==
    /\ pass[p].pc = "history"
    /\ WriteDraft(p, pass[p].cur)
    /\ Spend("faults")

\* ... and renames it to cursor.json: by then it may be what another pass wrote.
PassSave(p) ==
    /\ pass[p].pc = "saving"
    /\ cursor' \in draft /\ draft' = {}
    /\ pass' = [pass EXCEPT ![p] = NoPass]
    /\ AfterPass(p, "open")
    /\ UNCHANGED <<parent, queue, buffer, sweep, stop, delivered, raced, excused, outward, budget>>

\* conversations.replies says not_in_channel: the thread is passed over.
ThreadNotInChannel(p) ==
    /\ pass[p].pc = "replies" /\ pass[p].batch = {} /\ pass[p].threads /= {}
    /\ pass' = [pass EXCEPT ![p].threads = @ \ {Min(@)}]
    /\ Spend("faults")
    /\ UNCHANGED <<parent, cursor, draft, queue, loop, buffer, sweep, worker, stop, delivered, raced,
                   excused, outward>>

\* Mutant of PassFail: the cursor is saved on the way out.
PassFailSaves(p, next) ==
    /\ Active(p)
    /\ cursor' = [pass[p].cur EXCEPT !.conv = pass[p].latest]
    /\ excused' = excused \cup pass[p].took
    /\ pass' = [pass EXCEPT ![p] = NoPass]
    /\ AfterPass(p, next) /\ Spend("faults")
    /\ UNCHANGED <<parent, draft, queue, buffer, sweep, stop, delivered, raced, outward>>

\* Any other failure ends the pass and leaves the cursor file alone: also the
\* rename of a file that another pass has just renamed.  A socket loop tries again
\* after a retryable failure and returns the error of the others.
PassFail(p, next) ==
    /\ Active(p)
    /\ Spend("faults") \/ (pass[p].pc = "saving" /\ draft = {} /\ UNCHANGED budget)
    /\ excused' = excused \cup pass[p].took
    /\ pass' = [pass EXCEPT ![p] = NoPass]
    /\ AfterPass(p, next)
    /\ UNCHANGED <<parent, cursor, draft, queue, buffer, sweep, stop, delivered, raced, outward>>

-----------------------------------------------------------------------------
(* A socket loop: run_socket_loop and process_single_connection            *)

LoopUnchanged == UNCHANGED <<parent, cursor, draft, artifacts, sweep, worker, stop, raced, outward>>

LoopTop(i) ==
    /\ loop[i] = "top" /\ LoopUnchanged
    /\ \/ stop /\ loop' = [loop EXCEPT ![i] = "none"] /\ UNCHANGED <<pass, excused, budget>>
       \/ ~ stop /\ settings.backfill /\ loop' = [loop EXCEPT ![i] = "pass"] /\ PassBegin(i, "passes")
       \/ ~ stop /\ ~ settings.backfill /\ loop' = [loop EXCEPT ![i] = "open"] /\ UNCHANGED <<pass, excused, budget>>
    /\ UNCHANGED <<copies, buffer, delivered>>

\* apps.connections.open and connect.
Connect(i) ==
    /\ loop[i] = "open" /\ LoopUnchanged
    /\ \/ loop' = [loop EXCEPT ![i] = "connected"] /\ UNCHANGED budget
       \/ /\ Spend("faults")
          /\ \E next \in {"top", "failed"} : loop' = [loop EXCEPT ![i] = next]
    /\ UNCHANGED <<copies, pass, buffer, delivered, excused>>

\* handle_socket_text: the event is acknowledged, so that Slack forgets it, and
\* then dropped when the buffer is full.
Deliver(i, m) ==
    /\ loop[i] = "connected" /\ m \in Posts \ delivered /\ LoopUnchanged
    /\ delivered' = delivered \cup {m}
    /\ buffer' = IF Len(buffer[i]) < BufferCap THEN [buffer EXCEPT ![i] = Append(@, m)] ELSE buffer
    /\ UNCHANGED <<copies, pass, loop, excused, budget>>

BufferEnqueue(i) ==
    /\ buffer[i] /= <<>> /\ CanEnqueue(Head(buffer[i])) /\ LoopUnchanged
    /\ copies' = enqueue_incoming(Head(buffer[i]))
    /\ buffer' = [buffer EXCEPT ![i] = Tail(@)]
    /\ UNCHANGED <<pass, loop, delivered, excused, budget>>

\* The stop flag, a reconnect request, the idle timeout or the other side ends
\* the connection; the enqueue thread is joined once it has emptied the buffer.
Disconnect(i) ==
    /\ loop[i] = "connected" /\ LoopUnchanged
    /\ loop' = [loop EXCEPT ![i] = "closing"]
    /\ UNCHANGED <<copies, pass, buffer, delivered, excused, budget>>

Closed(i) ==
    /\ loop[i] = "closing" /\ buffer[i] = <<>> /\ LoopUnchanged
    /\ loop' = [loop EXCEPT ![i] = IF stop THEN "none" ELSE "top"]
    /\ UNCHANGED <<copies, pass, buffer, delivered, excused, budget>>

\* A loop that failed after its runtime has gone: nobody receives its error.
LoopGone(i) ==
    /\ loop[i] = "failed" /\ worker.owned /= i /\ LoopUnchanged
    /\ loop' = [loop EXCEPT ![i] = "none"]
    /\ UNCHANGED <<copies, pass, buffer, delivered, excused, budget>>

-----------------------------------------------------------------------------
(* An outbound sweep: process_outbound                                     *)

Outgoing == {c \in Copies : copies[c[1]][c[2]] = "outgoing"}

\* sorted_outgoing_paths: the files of this moment, in order.
Sorted(S) == LET rank(c) == Cardinality({d \in S : d[1] < c[1] \/ (d[1] = c[1] /\ d[2] <= c[2])})
             IN  [n \in 1..Cardinality(S) |-> CHOOSE c \in S : rank(c) = n]

SweepUnchanged == UNCHANGED <<parent, cursor, draft, artifacts, pass, loop, buffer, delivered, raced, excused>>

SweepBegin(e) ==
    /\ sweep[e] = NoSweep
    /\ \/ e = "socket" /\ worker.socket = "run" /\ ~ stop
       \/ e = "backfill" /\ worker.backfill = "sweep"
       \/ e = "command" /\ worker.command = "sweep"
    /\ sweep' = [sweep EXCEPT ![e] = [pc |-> "read", paths |-> Sorted(Outgoing), chunk |-> 1, err |-> FALSE]]
    /\ Spend("sweeps")
    /\ SweepUnchanged /\ UNCHANGED <<copies, worker, stop, outward>>

AtPath(e, pc) == sweep[e].pc = pc /\ sweep[e].paths /= <<>>
Path(e) == Head(sweep[e].paths)

\* On to the next file; an error is kept for the end of the sweep.
NextPath(e, failed) ==
    sweep' = [sweep EXCEPT ![e] = [pc |-> "read", paths |-> Tail(@.paths), chunk |-> 1,
                                   err |-> @.err \/ failed]]

Wanted(e, c) == sweep[e] /= NoSweep /\ \E n \in DOMAIN sweep[e].paths : sweep[e].paths[n] = c

\* The file is read and its profile, target and policy are resolved.
SweepRead(e) ==
    /\ AtPath(e, "read")
    /\ LET c == Path(e)
       IN  IF c \in Outgoing /\ c[1] \notin Undeliverable
           THEN /\ sweep' = [sweep EXCEPT ![e].pc = "post"]
                /\ contested' = IF \E f \in Senders \ {e} : Wanted(f, c) THEN contested \cup {c} ELSE contested
           ELSE NextPath(e, TRUE) /\ UNCHANGED contested
    /\ SweepUnchanged /\ UNCHANGED <<copies, worker, stop, shown, twice, budget>>

\* Mutant of SweepPost: a chunk that fails is passed over.
SweepPostSkips(e) ==
    /\ AtPath(e, "post") /\ sweep[e].chunk <= Chunks
    /\ LET x == <<Path(e), sweep[e].chunk>>
       IN  \/ /\ shown' = shown \cup {x}
              /\ twice' = IF x \in shown THEN twice \cup {x} ELSE twice
              /\ UNCHANGED budget
           \/ Spend("faults") /\ UNCHANGED <<shown, twice>>
    /\ sweep' = [sweep EXCEPT ![e].chunk = @ + 1]
    /\ SweepUnchanged /\ UNCHANGED <<copies, worker, stop, contested>>

\* chat.postMessage of one chunk.
SweepPost(e) ==
    /\ AtPath(e, "post") /\ sweep[e].chunk <= Chunks
    /\ LET x == <<Path(e), sweep[e].chunk>>
       IN  \/ /\ shown' = shown \cup {x}
              /\ twice' = IF x \in shown THEN twice \cup {x} ELSE twice
              /\ sweep' = [sweep EXCEPT ![e].chunk = @ + 1]
              /\ UNCHANGED <<contested, budget>>
           \/ /\ Spend("faults")
              /\ NextPath(e, TRUE)
              /\ contested' = contested \cup {Path(e)}
              /\ UNCHANGED <<shown, twice>>
    /\ SweepUnchanged /\ UNCHANGED <<copies, worker, stop>>

\* The file is removed; an error when another sweep was faster.
SweepRemove(e) ==
    /\ AtPath(e, "post") /\ sweep[e].chunk > Chunks
    /\ LET c == Path(e)
       IN  /\ copies' = IF c \in Outgoing THEN [copies EXCEPT ![c[1]][c[2]] = "sent"] ELSE copies
           /\ NextPath(e, c \notin Outgoing)
    /\ SweepUnchanged /\ UNCHANGED <<worker, stop, outward, budget>>

\* The sweep returns.  An error ends the socket runtime without its loop; a
\* failed loop's error raises the stop flag of the whole daemon.
SweepEnd(e) ==
    /\ sweep[e] /= NoSweep /\ sweep[e].paths = <<>>
    /\ sweep' = [sweep EXCEPT ![e] = NoSweep]
    /\ IF e = "backfill"
       THEN worker' = [worker EXCEPT !.backfill = "idle"] /\ UNCHANGED <<loop, stop>>
       ELSE IF e = "command"
       THEN worker' = [worker EXCEPT !.command = "none"] /\ UNCHANGED <<loop, stop>>
       ELSE IF sweep[e].err
       THEN worker' = [worker EXCEPT !.socket = "start", !.owned = 0] /\ UNCHANGED <<loop, stop>>
       ELSE IF loop[worker.owned] = "failed"
       THEN /\ stop' = TRUE
            /\ loop' = [loop EXCEPT ![worker.owned] = "none"]
            /\ worker' = [worker EXCEPT !.socket = "none", !.owned = 0]
       ELSE UNCHANGED <<worker, loop, stop>>
    /\ UNCHANGED <<parent, cursor, draft, queue, pass, buffer, delivered, raced, excused, outward, budget>>

-----------------------------------------------------------------------------
(* The workers and the daemon                                              *)

WorkerUnchanged == UNCHANGED <<parent, cursor, draft, queue, delivered, raced, outward>>

\* run_socket_runtime_until_stop starts a socket loop.
RuntimeStart ==
    /\ worker.daemon = "up" /\ worker.socket = "start" /\ ~ stop
    /\ \E i \in Loops :
         /\ loop[i] = "none" /\ \A j \in 1..(i - 1) : loop[j] /= "none"
         /\ loop' = [loop EXCEPT ![i] = "top"]
         /\ worker' = [worker EXCEPT !.socket = "run", !.owned = i]
    /\ WorkerUnchanged /\ UNCHANGED <<pass, buffer, sweep, stop, excused, budget>>

\* Its end under the stop flag, after the loop it still owns.
RuntimeStop ==
    /\ stop /\ sweep["socket"] = NoSweep
    /\ \/ worker.socket = "start"
       \/ worker.socket = "run" /\ loop[worker.owned] \in {"none", "failed"}
    /\ worker' = [worker EXCEPT !.socket = "none", !.owned = 0]
    /\ WorkerUnchanged /\ UNCHANGED <<pass, loop, buffer, sweep, stop, excused, budget>>

\* A tick of the backfill worker: a pass if enabled, then a sweep.
TickBegin ==
    /\ worker.daemon = "up" /\ worker.backfill = "idle" /\ ~ stop
    /\ \/ settings.backfill /\ PassBegin(0, "passes") /\ worker' = [worker EXCEPT !.backfill = "pass"]
       \/ ~ settings.backfill /\ UNCHANGED <<pass, excused, budget>> /\ worker' = [worker EXCEPT !.backfill = "sweep"]
    /\ WorkerUnchanged /\ UNCHANGED <<loop, buffer, sweep, stop>>

\* "channels slack sync" and "backfill run": the same, in a process of their own.
CommandBegin ==
    /\ worker.command = "none"
    /\ IF settings.backfill
       THEN PassBegin(Command, "commands") /\ worker' = [worker EXCEPT !.command = "pass"]
       ELSE Spend("commands") /\ worker' = [worker EXCEPT !.command = "sweep"] /\ UNCHANGED <<pass, excused>>
    /\ WorkerUnchanged /\ UNCHANGED <<loop, buffer, sweep, stop>>

\* Some passes and sweeps are cut off where they are.
CutOff(ps, es) ==
    /\ excused' = excused \cup UNION {pass[p].took : p \in {q \in ps : Active(q)}}
    /\ contested' = contested \cup {Path(e) : e \in {f \in es : AtPath(f, "post")}}
    /\ pass' = [p \in Passers |-> IF p \in ps THEN NoPass ELSE pass[p]]
    /\ sweep' = [e \in Senders |-> IF e \in es THEN NoSweep ELSE sweep[e]]
    /\ UNCHANGED <<parent, cursor, draft, queue, stop, delivered, raced, shown, twice, budget>>

\* The process of the command is killed.
CommandKilled ==
    /\ worker.command /= "none"
    /\ worker' = [worker EXCEPT !.command = "none"]
    /\ CutOff({Command}, {"command"})
    /\ UNCHANGED <<loop, buffer>>

RequestStop ==
    /\ worker.daemon = "up" /\ ~ stop
    /\ stop' = TRUE
    /\ WorkerUnchanged /\ UNCHANGED <<pass, loop, buffer, sweep, worker, excused, budget>>

\* The process ends: at once, or after the workers when it was stopped.
Idle == /\ worker.socket = "none" /\ worker.backfill \in {"idle", "none"}
        /\ \A i \in Loops : loop[i] = "none"

Down(s) ==
    /\ worker.daemon = "up" /\ s
    /\ worker' = [worker EXCEPT !.socket = "none", !.backfill = "none", !.owned = 0, !.daemon = "down"]
    /\ CutOff(Passers \ {Command}, Senders \ {"command"})
    /\ loop' = [i \in Loops |-> "none"] /\ buffer' = [i \in Loops |-> <<>>]

Exit  == Down(stop /\ Idle)
Crash == left.starts > 0 /\ Down(~ (stop /\ Idle))

\* build_worker_specs: which of the two workers the mode starts.
Start ==
    /\ worker.daemon = "down" /\ left.starts > 0
    /\ worker' = [daemon   |-> "up", owned |-> 0, command |-> worker.command,
                  socket   |-> IF settings.mode = "poll" THEN "none" ELSE "start",
                  backfill |-> IF settings.mode = "poll" \/ (settings.mode = "hybrid" /\ settings.backfill)
                                THEN "idle" ELSE "none"]
    /\ stop' = FALSE /\ Spend("starts")
    /\ WorkerUnchanged /\ UNCHANGED <<pass, loop, buffer, sweep, excused>>

-----------------------------------------------------------------------------
Init ==
    /\ parent = <<>> /\ copies = <<>> /\ artifacts = {} /\ cursor = NoCursor /\ draft = {}
    /\ pass = [p \in Passers |-> NoPass] /\ loop = [i \in Loops |-> "none"]
    /\ buffer = [i \in Loops |-> <<>>] /\ sweep = [e \in Senders |-> NoSweep]
    /\ worker = [socket |-> "none", backfill |-> "none", owned |-> 0, daemon |-> "down", command |-> "none"]
    /\ stop = FALSE
    /\ delivered = {} /\ raced = {} /\ excused = {}
    /\ shown = {} /\ twice = {} /\ contested = {}
    /\ \E s \in Scenarios : settings = s[1] /\ left = s[2]

Pass(p) == FetchHistory(p) \/ PassEnqueue(p) \/ DiscoverThreads(p) \/ FetchReplies(p)
           \/ PassWrite(p) \/ PassSave(p) \/ PassNotInChannel(p) \/ ThreadNotInChannel(p)
           \/ \E next \in {"top", "failed"} : PassFail(p, next)

Loop(i) == LoopTop(i) \/ Connect(i) \/ BufferEnqueue(i) \/ Disconnect(i) \/ Closed(i)
           \/ LoopGone(i) \/ \E m \in Posts : Deliver(i, m)

Sweep(e) == SweepBegin(e) \/ SweepRead(e) \/ SweepPost(e) \/ SweepRemove(e) \/ SweepEnd(e)

Handle == \E m \in Posts : \E k \in DOMAIN copies[m] :
              RequeueOrRecover(m, k) \/ Answer(m, k) \/ AnswerNothing(m, k)

Next ==
    \/ \E t \in 0..MaxPosts : Post(t)
    \/ Handle
    \/ \E p \in Passers : Pass(p)
    \/ \E i \in Loops : Loop(i)
    \/ \E e \in Senders : Sweep(e)
    \/ RuntimeStart \/ RuntimeStop \/ TickBegin \/ CommandBegin \/ CommandKilled
    \/ RequestStop \/ Exit \/ Crash \/ Start

Spec == Init /\ [][Next]_vars

-----------------------------------------------------------------------------
(* Properties                                                              *)

\* Types; a socket loop is in its pass exactly while that pass is under way, and
\* the runtime owns a loop exactly while it runs.
TypeOK ==
    /\ parent \in Seq(0..MaxPosts) /\ Len(copies) = Len(parent)
    /\ cursor.conv \in 0..MaxPosts /\ cursor.threads \in [1..MaxPosts -> 0..MaxPosts]
    /\ \A m \in Posts : copies[m] \in Seq(Stages) /\ Len(copies[m]) <= MaxCopies
    /\ \A i \in Loops :
         /\ loop[i] \in {"none", "top", "pass", "open", "connected", "closing", "failed"}
         /\ (loop[i] = "pass") = Active(i)
         /\ Len(buffer[i]) <= BufferCap
         /\ buffer[i] /= <<>> => loop[i] \in {"connected", "closing"}
    /\ (worker.backfill = "pass") = Active(0) /\ (worker.command = "pass") = Active(Command)
    /\ sweep["backfill"] /= NoSweep => worker.backfill = "sweep"
    /\ (worker.socket = "run") = (worker.owned \in Loops)

\* A saved cursor never passes a post that was not enqueued: not on a failed
\* pass, not on a crash, not when two passes write and rename over each other.  The one
\* exception is a top-level post made between a pass's history call and its
\* replies, whose timestamps move the conversation's cursor too
\* (process_inbound_with_api, save_cursor_state).
CursorCoversEnqueued ==
    \A m \in Posts : copies[m] = <<>> =>
        IF parent[m] = 0 THEN m > cursor.conv \/ m \in raced
                         ELSE m > cursor.threads[parent[m]]

\* A post becomes two messages only if it also came over the socket, or the pass
\* that fetched it overlapped another or died before it saved its cursor: the
\* cursor and message_already_queued together keep repeated passes from
\* enqueueing what was answered long ago.
DuplicateHasCause ==
    \A m \in Posts : Len(copies[m]) > 1 => m \in delivered \cup excused

\* An outgoing file is removed only after every chunk of it was posted, and a
\* chunk is posted twice only if a post failed or the process died on that file,
\* or two sweeps had it (process_outbound, deliver_targeted_post).
ReplyDelivered ==
    /\ \A c \in Copies : copies[c[1]][c[2]] = "sent" => \A n \in 1..Chunks : <<c, n>> \in shown
    /\ \A x \in twice : x[1] \in contested
=============================================================================
