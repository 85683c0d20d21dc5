--------------------------- MODULE DispatchProofs ---------------------------
(***************************************************************************)
(* Safety of Dispatch for any number of messages, threads and scenarios:   *)
(* who is answered, who holds a message, what is carried out twice, and    *)
(* whose output a reply shows.                                             *)
(*                                                                         *)
(* Every action is first reduced to what it does to the queue, the         *)
(* handlers and the outgoing replies; the invariants are then proved once  *)
(* for each of these few kinds of steps.                                   *)
(***************************************************************************)
EXTENDS Dispatch, FiniteSetTheorems, SequenceTheorems, WellFoundedInduction, TLAPS

Shaped(r) ==
    r = [pc |-> r.pc, msg |-> r.msg, name |-> r.name, n |-> r.n, active |-> r.active, run |-> r.run,
         pick |-> r.pick]

\* A handler is idle and empty, or has a message; the daemon's threads live with it.
HandlersTyped ==
    /\ DOMAIN worker = Handlers
    /\ \A p \in Handlers : Shaped(worker[p])
    /\ \A p \in Handlers : At(p, "idle") => worker[p] = Idle
    /\ \A p \in Handlers : ~ At(p, "idle") => Mine(p) \in Msgs
    /\ ~ up => \A p \in Threads : At(p, "idle")

QueueTyped ==
    /\ DOMAIN at = Msgs /\ DOMAIN name = Msgs
    /\ \A c \in batch : c = <<c[1], c[2]>> /\ c[1] \in Msgs

\* What the selector picked obeys the policy, and invokes what the message says.
PickOK(m, a) ==
    /\ a.action = "no_response" => ~ MustReply(m)
    /\ a.action = "command_invoke" => a.of = Msg(m).text

Picks == \A p \in Handlers : PickOK(Mine(p), worker[p].pick)

\* The file of a message whose author is being told of its dead letter is removed.
Notices == \A p \in Handlers : At(p, "notify") => at[Mine(p)] = "gone"

Typed == HandlersTyped /\ QueueTyped /\ Picks /\ Notices

Lives == <<scenario, name, up, shared>>

\* New messages in outgoing/ are acknowledgements, or answers to messages that have a reply.
OutGrows ==
    /\ replied \subseteq replied'
    /\ \A o \in out' \ out : o.what /= "ack" => o.msg \in replied'

Told == failed \subseteq failed' /\ cut \subseteq cut' /\ unsaid \subseteq unsaid'

-----------------------------------------------------------------------------
(* Kinds of steps                                                          *)

\* A handler goes on with its message.
Advances(p) ==
    /\ worker[p].pc \notin {"idle", "invoked", "fail", "notify"}
    /\ DOMAIN worker' = Handlers /\ \A q \in Handlers \ {p} : worker'[q] = worker[q]
    /\ Shaped(worker'[p]) /\ worker'[p].pc \notin {"idle", "notify"}
    /\ worker'[p].msg = worker[p].msg /\ worker'[p].name = worker[p].name
    /\ PickOK(Mine(p), worker'[p].pick)
    /\ OutGrows /\ Told /\ UNCHANGED <<Lives, at, batch, left>>
    /\ \/ UNCHANGED did
       \/ Did(p) /\ (worker'[p].pc = "invoked" \/ Mine(p) \in cut')

\* A handler is done with its message: it is gone, in the queue again, or lies in
\* processing/ with nobody.
Finishes(p) ==
    /\ ~ At(p, "idle") /\ worker' = [worker EXCEPT ![p] = Idle]
    /\ \/ Own(p) /\ at' = [at EXCEPT ![Mine(p)] = "gone"]
          /\ (Mine(p) \in replied' \/ worker[p].pick.action = "no_response")
       \/ Own(p) /\ ~ At(p, "invoked") /\ at' = [at EXCEPT ![Mine(p)] = "incoming"]
       \/ /\ UNCHANGED at /\ (Own(p) => Mine(p) \in left')
          /\ At(p, "invoked") => Mine(p) \in cut'
          /\ At(p, "notify") => Mine(p) \in replied' \cup unsaid'
    /\ UNCHANGED batch \/ (p = "chat" /\ batch' = {} /\ {c[1] : c \in batch} \subseteq left')
    /\ left \subseteq left'
    /\ OutGrows /\ Told /\ UNCHANGED <<Lives, did>>

\* A handler wrote a dead letter and removed the file; it has yet to tell.
Buries(p) ==
    /\ At(p, "fail") /\ Own(p) /\ Mine(p) \in failed'
    /\ DOMAIN worker' = Handlers /\ \A q \in Handlers \ {p} : worker'[q] = worker[q]
    /\ Shaped(worker'[p]) /\ worker'[p].pc = "notify"
    /\ worker'[p].msg = worker[p].msg /\ worker'[p].name = worker[p].name
    /\ PickOK(Mine(p), worker'[p].pick)
    /\ at' = [at EXCEPT ![Mine(p)] = "gone"]
    /\ OutGrows /\ Told /\ UNCHANGED <<Lives, batch, left, did>>

\* An idle handler takes message m under the name n.
Takes(p, m, n) ==
    /\ At(p, "idle") /\ DOMAIN worker' = Handlers /\ \A q \in Handlers \ {p} : worker'[q] = worker[q]
    /\ worker'[p] = [pc |-> "begin", msg |-> m, name |-> n, n |-> 0, active |-> 0, run |-> 0,
                     pick |-> NoAnswer]
    /\ UNCHANGED <<Lives, failed, left, out, replied, did, cut, unsaid>>

\* Only the queue changes: a message arrives, or the chat claims one.
Arrives(m) ==
    /\ at[m] = "none" /\ at' = [at EXCEPT ![m] = "incoming"]
    /\ UNCHANGED <<Lives, worker, batch, failed, left, out, replied, did, cut, unsaid>>

\* Claiming a message fails; it may be left in processing/.
Fumbles(m) ==
    /\ at[m] = "incoming"
    /\ UNCHANGED at \/ (at' = [at EXCEPT ![m] = "processing"] /\ m \in left')
    /\ UNCHANGED batch \/ (batch' = {} /\ {c[1] : c \in batch} \subseteq left')
    /\ left \subseteq left'
    /\ UNCHANGED <<Lives, worker, failed, out, replied, did, cut, unsaid>>

\* Nothing of the above; replies may be delivered.
Rests ==
    /\ UNCHANGED <<Lives, worker, at, batch, failed, left, replied, did, cut, unsaid>> /\ out' \subseteq out

Steps1 == \E p \in Handlers : Advances(p) \/ Finishes(p) \/ Buries(p)
Steps2 == \E m \in Msgs : Arrives(m) \/ DrainClaim(m) \/ Fumbles(m) \/ \E p \in Handlers : Claim(p, m)
Steps3 == \E c \in batch : DrainBegin(c)
Steps4 == Rests \/ ChatQuit \/ Crash \/ Start
Steps5 == \E p \in Handlers, ends \in {"invoked", "fail"} : InvokeStop(p, ends)
Kinds == Steps1 \/ Steps2 \/ Steps3 \/ Steps4 \/ Steps5

\* What the end of a handler leaves behind.
LEMMA EndFact ==
    ASSUME NEW p \in Handlers, NEW failing \in BOOLEAN, NEW stays, End(p, failing, stays)
    PROVE  /\ worker' = [worker EXCEPT ![p] = Idle]
           /\ UNCHANGED batch \/ (p = "chat" /\ batch' = {} /\ {c[1] : c \in batch} \subseteq left')
           /\ left \subseteq left' /\ stays \subseteq left' /\ cut \subseteq cut'
           /\ failing /\ At(p, "invoked") => Mine(p) \in cut'
<1>1. At(p, "invoked") => Mine(p) \in Held({p}, "invoked")
  BY DEF Held
<1>2. QED
  BY <1>1 DEF End, DrainEnds

\* The replies says of the handler p are written.
Adds(p, says, k) ==
    /\ out' = out \cup {[Reply(Mine(p), s) EXCEPT !.run = k] : s \in says}
    /\ replied' = IF says = {} THEN replied ELSE replied \cup {Mine(p)}

LEMMA RepliesGrow ==
    ASSUME NEW p \in Handlers, NEW says, NEW k, Adds(p, says, k)
    PROVE  OutGrows
<1>1. ASSUME NEW o \in out' \ out PROVE o.msg = Mine(p) /\ says /= {}
  <2>1. PICK s \in says : o = [Reply(Mine(p), s) EXCEPT !.run = k]
    BY <1>1 DEF Adds
  <2>2. QED
    BY <2>1 DEF Reply
<1>2. QED
  BY <1>1 DEF OutGrows, Adds

LEMMA CompleteEnds ==
    ASSUME NEW p \in Handlers, NEW says, NEW k, worker[p].pc \notin {"idle", "notify"}, Complete(p, says, k),
           says = {} => worker[p].pick.action = "no_response", UNCHANGED did
    PROVE  Finishes(p)
<1>0. UNCHANGED <<scenario, name, failed, up, shared, unsaid>>
  BY DEF Complete
<1>1. CASE Completed(p, says, k)
  <2>1. /\ Adds(p, says, k) /\ End(p, ~ Own(p), {})
        /\ at' = IF Own(p) THEN [at EXCEPT ![Mine(p)] = "gone"] ELSE at
        /\ replied' = IF says = {} THEN replied ELSE replied \cup {Mine(p)}
    BY <1>1 DEF Completed, Adds
  <2>2. OutGrows
    BY <2>1, RepliesGrow
  <2>3. /\ worker' = [worker EXCEPT ![p] = Idle]
        /\ UNCHANGED batch \/ (p = "chat" /\ batch' = {} /\ {c[1] : c \in batch} \subseteq left')
        /\ left \subseteq left' /\ cut \subseteq cut'
        /\ ~ Own(p) /\ At(p, "invoked") => Mine(p) \in cut'
    <3>1. Own(p) \in BOOLEAN /\ (~ Own(p)) \in BOOLEAN
      BY DEF Own
    <3>2. QED
      BY <2>1, <3>1, EndFact
  <2>4. CASE Own(p)
    BY <1>0, <2>1, <2>2, <2>3, <2>4 DEF Finishes, Lives, Told, At
  <2>5. CASE ~ Own(p)
    BY <1>0, <2>1, <2>2, <2>3, <2>5 DEF Finishes, Lives, Told, At
  <2>6. QED
    BY <2>4, <2>5
<1>2. CASE CompletionFails(p, says, k)
  <2>1. PICK some \in SUBSET says : Adds(p, some, k)
    BY <1>2 DEF CompletionFails, Adds
  <2>2. OutGrows
    BY <2>1, RepliesGrow
  <2>3. End(p, TRUE, Kept(p)) /\ UNCHANGED at
    BY <1>2 DEF CompletionFails
  <2>4. /\ worker' = [worker EXCEPT ![p] = Idle]
        /\ UNCHANGED batch \/ (p = "chat" /\ batch' = {} /\ {c[1] : c \in batch} \subseteq left')
        /\ left \subseteq left' /\ Kept(p) \subseteq left' /\ cut \subseteq cut'
        /\ At(p, "invoked") => Mine(p) \in cut'
    BY <2>3, EndFact
  <2>5. Own(p) => Mine(p) \in left'
    BY <2>4 DEF Kept
  <2>6. QED
    BY <1>0, <2>2, <2>3, <2>4, <2>5 DEF Finishes, Lives, Told, At
<1>3. QED
  BY <1>1, <1>2 DEF Complete

\* There is always something to say about a run.
LEMMA LifecycleSpeaks ==
    ASSUME NEW attempts, NEW state, NEW says \in workflow_lifecycle_messages(attempts, state)
    PROVE  says /= {}
BY DEF workflow_lifecycle_messages

LEMMA SilentEnds ==
    ASSUME NEW p \in Handlers, StaySilent(p) PROVE Finishes(p)
BY CompleteEnds DEF StaySilent, Picked, At

\* A handler's record with some fields replaced.
LEMMA Replaced ==
    ASSUME HandlersTyped, NEW p \in Handlers, NEW r, worker' = [worker EXCEPT ![p] = r]
    PROVE  DOMAIN worker' = Handlers /\ worker'[p] = r /\ \A q \in Handlers \ {p} : worker'[q] = worker[q]
BY DEF HandlersTyped

LEMMA GotoAdvances ==
    ASSUME Typed, NEW p \in Handlers, NEW pc, pc /= "idle", Goto(p, pc)
    PROVE  /\ DOMAIN worker' = Handlers /\ \A q \in Handlers \ {p} : worker'[q] = worker[q]
           /\ Shaped(worker'[p]) /\ worker'[p].pc = pc
           /\ worker'[p].msg = worker[p].msg /\ worker'[p].name = worker[p].name
           /\ worker'[p].pick = worker[p].pick /\ PickOK(Mine(p), worker'[p].pick)
<1>1. /\ DOMAIN worker' = Handlers /\ \A q \in Handlers \ {p} : worker'[q] = worker[q]
      /\ worker'[p] = [worker[p] EXCEPT !.pc = pc]
  BY DEF Goto, Typed, HandlersTyped
<1>2. PICK a, b, c, d, e, f, g : worker[p] = [pc |-> a, msg |-> b, name |-> c, n |-> d, active |-> e, run |-> f, pick |-> g]
  BY DEF Typed, HandlersTyped, Shaped
<1>3. worker'[p] = [pc |-> pc, msg |-> b, name |-> c, n |-> d, active |-> e, run |-> f, pick |-> g]
  BY <1>1, <1>2
<1>4. PickOK(Mine(p), worker[p].pick)
  BY DEF Typed, Picks
<1>5. worker'[p].pc = pc /\ worker'[p].msg = b /\ worker'[p].name = c /\ worker'[p].pick = g
  BY <1>3
<1>6. worker[p].msg = b /\ worker[p].name = c /\ worker[p].pick = g
  BY <1>2
<1>7. Shaped(worker'[p])
  BY <1>3 DEF Shaped
<1>8. QED
  BY <1>1, <1>4, <1>5, <1>6, <1>7

\* Two fields of a handler's record are replaced: its place and its run.
LEMMA TwoFields ==
    ASSUME Typed, NEW p \in Handlers, NEW pc, NEW k,
           \/ worker' = [worker EXCEPT ![p].pc = pc, ![p].run = k]
           \/ worker' = [worker EXCEPT ![p].active = k, ![p].pc = pc]
    PROVE  /\ DOMAIN worker' = Handlers /\ \A q \in Handlers \ {p} : worker'[q] = worker[q]
           /\ Shaped(worker'[p]) /\ worker'[p].pc = pc
           /\ worker'[p].msg = worker[p].msg /\ worker'[p].name = worker[p].name
           /\ PickOK(Mine(p), worker'[p].pick)
<1>1. PICK a, b, c, d, e, f, g : worker[p] = [pc |-> a, msg |-> b, name |-> c, n |-> d, active |-> e, run |-> f, pick |-> g]
  BY DEF Typed, HandlersTyped, Shaped
<1>2. worker[p].msg = b /\ worker[p].name = c /\ worker[p].pick = g
  BY <1>1
<1>3. DOMAIN worker = Handlers /\ PickOK(Mine(p), worker[p].pick)
  BY DEF Typed, HandlersTyped, Picks
<1>4. CASE worker' = [worker EXCEPT ![p].pc = pc, ![p].run = k]
  <2> DEFINE r == [worker[p] EXCEPT !.pc = pc]
  <2>1. /\ DOMAIN worker' = Handlers /\ \A q \in Handlers \ {p} : worker'[q] = worker[q]
        /\ worker'[p] = [r EXCEPT !.run = k]
    BY <1>3, <1>4
  <2>2. r = [pc |-> pc, msg |-> b, name |-> c, n |-> d, active |-> e, run |-> f, pick |-> g]
    BY <1>1
  <2> HIDE DEF r
  <2>3. worker'[p] = [pc |-> pc, msg |-> b, name |-> c, n |-> d, active |-> e, run |-> k, pick |-> g]
    BY <2>1, <2>2
  <2>4. worker'[p].pc = pc /\ worker'[p].msg = b /\ worker'[p].name = c /\ worker'[p].pick = g
    BY <2>3
  <2>5. Shaped(worker'[p])
    BY <2>3 DEF Shaped
  <2>6. QED
    BY <1>2, <1>3, <2>1, <2>4, <2>5
<1>5. CASE worker' = [worker EXCEPT ![p].active = k, ![p].pc = pc]
  <2> DEFINE r == [worker[p] EXCEPT !.active = k]
  <2>1. /\ DOMAIN worker' = Handlers /\ \A q \in Handlers \ {p} : worker'[q] = worker[q]
        /\ worker'[p] = [r EXCEPT !.pc = pc]
    BY <1>3, <1>5
  <2>2. r = [pc |-> a, msg |-> b, name |-> c, n |-> d, active |-> k, run |-> f, pick |-> g]
    BY <1>1
  <2> HIDE DEF r
  <2>3. worker'[p] = [pc |-> pc, msg |-> b, name |-> c, n |-> d, active |-> k, run |-> f, pick |-> g]
    BY <2>1, <2>2
  <2>4. worker'[p].pc = pc /\ worker'[p].msg = b /\ worker'[p].name = c /\ worker'[p].pick = g
    BY <2>3
  <2>5. Shaped(worker'[p])
    BY <2>3 DEF Shaped
  <2>6. QED
    BY <1>2, <1>3, <2>1, <2>4, <2>5
<1>6. QED
  BY <1>4, <1>5

LEMMA BeginKind == ASSUME Typed, NEW p \in Handlers, Begin(p) PROVE Advances(p)
<1>1. PICK k, pc : /\ worker' = [worker EXCEPT ![p].active = k, ![p].pc = pc] /\ pc \in {"resume", "select"}
  <2>1. PICK k : worker' = [worker EXCEPT ![p].active = k,
            ![p].pc = IF Msg(Mine(p)).run /= 0 /\ Msg(Mine(p)).text /= "status" THEN "resume" ELSE "select"]
    BY DEF Begin
  <2>2. QED
    BY <2>1
<1>2. At(p, "begin") /\ UNCHANGED <<scenario, queue, batch, up, store, ghosts>>
  BY DEF Begin
<1>3. OutGrows /\ Told
  BY <1>2 DEF OutGrows, Told, queue, store, ghosts
<1>4. QED
  BY <1>1, <1>2, <1>3, TwoFields DEF Advances, Lives, queue, ghosts, At

LEMMA ResumeKind == ASSUME Typed, NEW p \in Handlers, Resume(p) PROVE Advances(p) \/ Finishes(p)
<1> DEFINE k == Msg(Mine(p)).run
<1>0. At(p, "resume")
  BY DEF Resume
<1>1. CASE UNCHANGED did /\ \E what, j : Complete(p, Plain(what), j)
  <2>1. PICK what, j : Complete(p, Plain(what), j)
    BY <1>1
  <2>2. Plain(what) /= {}
    BY DEF Plain
  <2>3. QED
    BY <1>0, <1>1, <2>1, <2>2, CompleteEnds DEF At
<1>2. CASE /\ worker' = [worker EXCEPT ![p].pc = "engine", ![p].run = k]
           /\ UNCHANGED <<scenario, queue, batch, chat, up, store, budget, ghosts>>
  <2>1. OutGrows /\ Told
    BY <1>2 DEF OutGrows, Told, queue, store, ghosts
  <2>2. /\ DOMAIN worker' = Handlers /\ \A q \in Handlers \ {p} : worker'[q] = worker[q]
        /\ Shaped(worker'[p]) /\ worker'[p].pc = "engine"
        /\ worker'[p].msg = worker[p].msg /\ worker'[p].name = worker[p].name
        /\ PickOK(Mine(p), worker'[p].pick)
    BY <1>2, TwoFields
  <2>3. QED
    BY <1>0, <1>2, <2>1, <2>2 DEF Advances, Lives, queue, ghosts, At
<1>3. QED
  BY <1>1, <1>2 DEF Resume

LEMMA AcknowledgeKind == ASSUME Typed, NEW p \in Handlers, Acknowledge(p) PROVE Advances(p)
<1>1. At(p, "selected") /\ Goto(p, "acked") /\ UNCHANGED <<Others, ghosts>>
  BY DEF Acknowledge, Picked
<1>2. out' \subseteq out \cup {Reply(Mine(p), Says("ack", "none"))}
  BY DEF Acknowledge
<1>3. Reply(Mine(p), Says("ack", "none")).what = "ack"
  BY DEF Reply, Says
<1>4. OutGrows /\ Told
  BY <1>1, <1>2, <1>3 DEF OutGrows, Told, Others, queue, ghosts
<1>5. QED
  BY <1>1, <1>4, GotoAdvances DEF Advances, Lives, Others, queue, ghosts, At

LEMMA StartRunKind == ASSUME Typed, NEW p \in Handlers, StartRun(p) PROVE Advances(p)
<1>1. /\ At(p, "acked") /\ \E k : worker' = [worker EXCEPT ![p].pc = "engine", ![p].run = k]
      /\ UNCHANGED <<Others, out, ghosts>>
  BY DEF StartRun
<1>2. OutGrows /\ Told
  BY <1>1 DEF OutGrows, Told, Others, queue, ghosts
<1>3. /\ DOMAIN worker' = Handlers /\ \A q \in Handlers \ {p} : worker'[q] = worker[q]
      /\ Shaped(worker'[p]) /\ worker'[p].pc = "engine"
      /\ worker'[p].msg = worker[p].msg /\ worker'[p].name = worker[p].name
      /\ PickOK(Mine(p), worker'[p].pick)
  <2>1. PICK k : worker' = [worker EXCEPT ![p].pc = "engine", ![p].run = k]
    BY <1>1
  <2>2. QED
    BY <2>1, TwoFields
<1>4. UNCHANGED <<scenario, name, up, shared, at, batch, left, did>>
  BY <1>1 DEF Others, queue, ghosts
<1>5. QED
  BY <1>1, <1>2, <1>3, <1>4 DEF Advances, Lives, At

\* Whatever an attempt yields, the handler tries again or has picked something
\* that obeys the policy.
LEMMA ConsiderFact ==
    ASSUME Typed, NEW p \in Handlers, At(p, "select"), NEW a
    PROVE  /\ Shaped(Consider(p, a)) /\ Consider(p, a).pc \in {"select", "selected"}
           /\ Consider(p, a).msg = worker[p].msg /\ Consider(p, a).name = worker[p].name
           /\ PickOK(Mine(p), Consider(p, a).pick)
<1>0. PICK b, c, d, e, f, g : worker[p] = [pc |-> "select", msg |-> b, name |-> c, n |-> d, active |-> e, run |-> f, pick |-> g]
  BY DEF Typed, HandlersTyped, Shaped, At
<1>1. worker[p].msg = b /\ worker[p].name = c /\ worker[p].pick = g /\ worker[p].n = d
  BY <1>0
<1>2. PickOK(b, g)
  BY <1>1 DEF Typed, Picks, Mine
<1>3. \A x : (x.action = "command_invoke" => x.of = Msg(b).text) => PickOK(b, enforce_no_response_policy(b, x))
  <2>1. SUFFICES ASSUME NEW x, x.action = "command_invoke" => x.of = Msg(b).text
                 PROVE  PickOK(b, enforce_no_response_policy(b, x))
    OBVIOUS
  <2>2. CASE x.action = "no_response" /\ MustReply(b)
    <3>1. enforce_no_response_policy(b, x) = [action |-> "workflow_start", of |-> Default]
      BY <2>2 DEF enforce_no_response_policy
    <3>2. QED
      BY <3>1 DEF PickOK
  <2>3. CASE ~ (x.action = "no_response" /\ MustReply(b))
    <3>1. enforce_no_response_policy(b, x) = x
      BY <2>3 DEF enforce_no_response_policy
    <3>2. QED
      BY <2>1, <2>3, <3>1 DEF PickOK
  <2>4. QED
    BY <2>2, <2>3
<1>4. CASE \E x : Consider(p, a) = [worker[p] EXCEPT !.pc = "selected", !.pick = x] /\ PickOK(b, x)
  <2>1. PICK x : Consider(p, a) = [worker[p] EXCEPT !.pc = "selected", !.pick = x] /\ PickOK(b, x)
    BY <1>4
  <2> DEFINE r == [worker[p] EXCEPT !.pc = "selected"]
  <2>2. r = [pc |-> "selected", msg |-> b, name |-> c, n |-> d, active |-> e, run |-> f, pick |-> g]
    BY <1>0
  <2>3. Consider(p, a) = [r EXCEPT !.pick = x]
    BY <2>1
  <2> HIDE DEF r
  <2>4. Consider(p, a) = [pc |-> "selected", msg |-> b, name |-> c, n |-> d, active |-> e, run |-> f, pick |-> x]
    BY <2>2, <2>3
  <2>5. QED
    BY <1>1, <2>1, <2>4 DEF Shaped, Mine
<1>5. CASE Consider(p, a) = [worker[p] EXCEPT !.n = @ + 1]
  <2>1. Consider(p, a) = [pc |-> "select", msg |-> b, name |-> c, n |-> d + 1, active |-> e, run |-> f, pick |-> g]
    BY <1>0, <1>5
  <2>2. QED
    BY <1>1, <1>2, <2>1 DEF Shaped, Mine
<1>6. CASE a.action /= "none" /\ Valid(b, a)
  <2>1. a.action = "command_invoke" => a.of = Msg(b).text
    BY <1>6 DEF Valid
  <2>2. Consider(p, a) = [worker[p] EXCEPT !.pc = "selected", !.pick = enforce_no_response_policy(b, a)]
    BY <1>1, <1>6 DEF Consider, Mine
  <2>3. QED
    BY <1>3, <1>4, <2>1, <2>2
<1>7. CASE ~ (a.action /= "none" /\ Valid(b, a)) /\ d + 1 < MaxAttempts(b)
  BY <1>1, <1>5, <1>7 DEF Consider, Mine
<1>8. CASE ~ (a.action /= "none" /\ Valid(b, a)) /\ ~ (d + 1 < MaxAttempts(b))
  <2>1. Consider(p, a) = [worker[p] EXCEPT !.pc = "selected", !.pick = enforce_no_response_policy(b, Fallback(b))]
    BY <1>1, <1>8 DEF Consider, Mine
  <2>2. Fallback(b).action /= "command_invoke"
    BY DEF Fallback
  <2>3. QED
    BY <1>3, <1>4, <2>1, <2>2
<1>9. QED
  BY <1>6, <1>7, <1>8

LEMMA SelectKind == ASSUME Typed, NEW p \in Handlers, Select(p) PROVE Advances(p)
<1>1. /\ At(p, "select") /\ UNCHANGED <<scenario, queue, batch, up, out, ghosts>>
      /\ \E a : worker' = [worker EXCEPT ![p] = Consider(p, a)]
  BY DEF Select, SelectorWrites, SelectorSilent, SelectorFails, store
<1>2. PICK a : worker' = [worker EXCEPT ![p] = Consider(p, a)]
  BY <1>1
<1>3. /\ DOMAIN worker' = Handlers /\ worker'[p] = Consider(p, a)
      /\ \A q \in Handlers \ {p} : worker'[q] = worker[q]
  BY <1>2, Replaced DEF Typed
<1>4. /\ Shaped(worker'[p]) /\ worker'[p].pc \in {"select", "selected"}
      /\ worker'[p].msg = worker[p].msg /\ worker'[p].name = worker[p].name
      /\ PickOK(Mine(p), worker'[p].pick)
  BY <1>1, <1>3, ConsiderFact
<1>5. OutGrows /\ Told
  BY <1>1 DEF OutGrows, Told, queue, ghosts
<1>6. QED
  BY <1>1, <1>3, <1>4, <1>5 DEF Advances, Lives, queue, ghosts, At

\* A command that leaves the daemon alone is carried out.
LEMMA InvokeKind ==
    ASSUME Typed, NEW p \in Handlers, NEW ends \in {"invoked", "fail"}, At(p, "selected"),
           CarryOut(p, ends), Goto(p, ends), UNCHANGED <<Others, out, replied, left, shared, unsaid>>
    PROVE  Advances(p)
<1>1. Did(p) /\ cut \subseteq cut' /\ (ends = "invoked" \/ Mine(p) \in cut')
  BY DEF CarryOut
<1>2. OutGrows /\ Told
  BY <1>1 DEF OutGrows, Told, Others, queue
<1>3. QED
  BY <1>1, <1>2, GotoAdvances DEF Advances, Lives, Others, queue, At

LEMMA RouteKind ==
    ASSUME Typed, NEW p \in Handlers, Route(p)
    PROVE  Advances(p) \/ Finishes(p) \/ Steps5
<1>1. CASE ReportStatus(p) \/ CommandDone(p)
  <2>1. worker[p].pc \in {"selected", "invoked"} /\ UNCHANGED did /\ \E what, k : Complete(p, Plain(what), k)
    BY <1>1 DEF ReportStatus, CommandDone, Picked, At
  <2>2. PICK what, k : Complete(p, Plain(what), k)
    BY <2>1
  <2>3. Plain(what) /= {}
    BY DEF Plain
  <2>4. QED
    BY <2>1, <2>2, <2>3, CompleteEnds
<1>2. ASSUME NEW ends \in {"invoked", "fail"}, InvokePlain(p, ends) PROVE Advances(p)
  BY <1>2, InvokeKind DEF InvokePlain, Picked, store
<1>3. ASSUME NEW k, NEW ends \in {"invoked", "fail"}, InvokeCancel(p, k, ends) PROVE Advances(p)
  <2>1. At(p, "selected") /\ UNCHANGED <<Others, out, replied, left, shared, unsaid>>
    BY <1>3 DEF InvokeCancel, Picked
  <2>2. CASE k \in DOMAIN runs
    BY <1>3, <2>1, <2>2, InvokeKind DEF InvokeCancel
  <2>3. CASE k \notin DOMAIN runs
    <3>1. Goto(p, "fail") /\ UNCHANGED <<did, cut>>
      BY <1>3, <2>3 DEF InvokeCancel
    <3>2. OutGrows /\ Told
      BY <2>1, <3>1 DEF OutGrows, Told, Others, queue
    <3>3. QED
      BY <2>1, <3>1, <3>2, GotoAdvances DEF Advances, Lives, Others, queue, At
  <2>4. QED
    BY <2>2, <2>3
<1>4. QED
  BY <1>1, <1>2, <1>3, AcknowledgeKind, StartRunKind, SilentEnds DEF Route, Steps5

LEMMA ExecuteKind ==
    ASSUME Typed, NEW p \in Handlers, Execute(p) PROVE Rests \/ Finishes(p) \/ Advances(p)
<1>1. CASE EngineReturns(p)
  <2>1. At(p, "engine") /\ UNCHANGED did /\ \E says, k : Complete(p, says, k) /\ says /= {}
    BY <1>1, LifecycleSpeaks DEF EngineReturns, Plain
  <2>2. QED
    BY <2>1, CompleteEnds DEF At
<1>2. ASSUME NEW ok, NEW d, NEW g, EngineStep(p, ok, d, g) PROVE Rests \/ Advances(p)
  <2>1. At(p, "engine")
    BY <1>2 DEF EngineStep
  <2>2. CASE UNCHANGED <<Others, worker, written, out, ghosts>>
    BY <2>2 DEF Rests, Lives, Others, queue, ghosts
  <2>3. CASE Goto(p, "fail") /\ UNCHANGED <<Others, written, out, ghosts>>
    <3>1. OutGrows /\ Told
      BY <2>3 DEF OutGrows, Told, Others, queue, ghosts
    <3>2. QED
      BY <2>1, <2>3, <3>1, GotoAdvances DEF Advances, Lives, Others, queue, ghosts, At
  <2>4. QED
    BY <1>2, <2>2, <2>3 DEF EngineStep
<1>3. QED
  BY <1>1, <1>2 DEF Execute

LEMMA GiveUpKind ==
    ASSUME Typed, NEW p \in Handlers, GiveUp(p) PROVE Advances(p) \/ Finishes(p) \/ Buries(p)
<1>1. CASE Refused(p)
  <2>1. /\ worker[p].pc \in {"begin", "resume", "selected", "acked"} /\ Goto(p, "fail")
        /\ UNCHANGED <<scenario, queue, batch, up, store, ghosts>>
    BY <1>1 DEF Refused
  <2>2. OutGrows /\ Told
    BY <2>1 DEF OutGrows, Told, queue, store, ghosts
  <2>3. QED
    BY <2>1, <2>2, GotoAdvances DEF Advances, Lives, queue, ghosts
<1>2. ASSUME NEW stays, End(p, TRUE, stays)
      PROVE  /\ worker' = [worker EXCEPT ![p] = Idle]
             /\ UNCHANGED batch \/ (p = "chat" /\ batch' = {} /\ {c[1] : c \in batch} \subseteq left')
             /\ left \subseteq left' /\ stays \subseteq left' /\ cut \subseteq cut'
  BY <1>2, EndFact
<1>3. CASE Requeue(p)
  <2>1. /\ At(p, "fail") /\ End(p, TRUE, {})
        /\ at' = IF Own(p) THEN [at EXCEPT ![Mine(p)] = "incoming"] ELSE at
        /\ UNCHANGED <<scenario, name, failed, up, store, replied, did, shared, unsaid>>
    BY <1>3 DEF Requeue
  <2>2. OutGrows /\ Told
    BY <1>2, <2>1 DEF OutGrows, Told, store
  <2>3. QED
    BY <1>2, <2>1, <2>2 DEF Finishes, Lives, At
<1>4. CASE DeadLetter(p)
  <2>1. /\ At(p, "fail") /\ failed' = failed \cup {Mine(p)}
        /\ UNCHANGED <<scenario, name, up, store, replied, did, shared, unsaid>>
    BY <1>4 DEF DeadLetter
  <2>2. CASE Own(p)
    <3>1. at' = [at EXCEPT ![Mine(p)] = "gone"] /\ Goto(p, "notify") /\ UNCHANGED <<batch, left, cut>>
      BY <1>4, <2>2 DEF DeadLetter
    <3>2. OutGrows /\ Told
      BY <2>1, <3>1 DEF OutGrows, Told, store
    <3>3. QED
      BY <2>1, <2>2, <3>1, <3>2, GotoAdvances DEF Buries, Lives
  <2>3. CASE ~ Own(p)
    <3>1. UNCHANGED at /\ End(p, TRUE, {})
      BY <1>4, <2>3 DEF DeadLetter
    <3>2. OutGrows /\ Told
      BY <1>2, <2>1, <3>1 DEF OutGrows, Told, store
    <3>3. QED
      BY <1>2, <2>1, <2>3, <3>1, <3>2 DEF Finishes, Lives, At
  <2>4. QED
    BY <2>2, <2>3
<1>5. CASE FailureFails(p)
  <2>1. /\ At(p, "fail") /\ failed \subseteq failed' /\ End(p, TRUE, Kept(p))
        /\ UNCHANGED <<scenario, at, name, up, store, replied, did, shared, unsaid>>
    BY <1>5 DEF FailureFails
  <2>2. OutGrows /\ Told
    BY <1>2, <2>1 DEF OutGrows, Told, store
  <2>3. Own(p) => Mine(p) \in left'
    BY <1>2, <2>1 DEF Kept
  <2>4. QED
    BY <1>2, <2>1, <2>2, <2>3 DEF Finishes, Lives, At
<1>6. CASE Notify(p)
  <2>1. /\ At(p, "notify") /\ End(p, TRUE, {}) /\ UNCHANGED <<scenario, queue, up, did, shared>>
        /\ \/ /\ out' = out \cup {Reply(Mine(p), Says("failure", "none"))}
              /\ replied' = replied \cup {Mine(p)} /\ UNCHANGED unsaid
           \/ unsaid' = unsaid \cup {Mine(p)} /\ UNCHANGED <<out, replied>>
    BY <1>6 DEF Notify
  <2>2. Reply(Mine(p), Says("failure", "none")).msg = Mine(p)
    BY DEF Reply, Says
  <2>3. OutGrows /\ Told
    BY <1>2, <2>1, <2>2 DEF OutGrows, Told, queue
  <2>4. ~ Own(p)
    BY <2>1 DEF Typed, Notices, Own
  <2>5. Mine(p) \in replied' \cup unsaid' /\ UNCHANGED at
    BY <2>1 DEF queue
  <2>6. QED
    BY <1>2, <2>1, <2>3, <2>4, <2>5 DEF Finishes, Lives, At, queue
<1>7. QED
  BY <1>1, <1>3, <1>4, <1>5, <1>6 DEF GiveUp

LEMMA ClaimFailsKind == ASSUME NEW m \in Msgs, NEW by, ClaimFails(m, by) PROVE Fumbles(m)
<1>1. /\ at[m] = "incoming"
      /\ UNCHANGED <<scenario, name, failed, worker, up, store, replied, did, shared, cut, unsaid>>
  BY DEF ClaimFails
<1>2. ASSUME NEW stays, DrainEnds(stays)
      PROVE  batch' = {} /\ {c[1] : c \in batch} \subseteq left' /\ left \subseteq left' /\ stays \subseteq left'
  BY <1>2 DEF DrainEnds
<1>3. CASE UNCHANGED at /\ (DrainEnds({}) \/ UNCHANGED <<batch, left>>)
  BY <1>1, <1>2, <1>3 DEF Fumbles, Lives, store
<1>4. CASE /\ at' = [at EXCEPT ![m] = "processing"]
           /\ DrainEnds({m}) \/ (left' = left \cup {m} /\ UNCHANGED batch)
  BY <1>1, <1>2, <1>4 DEF Fumbles, Lives, store
<1>5. QED
  BY <1>3, <1>4 DEF ClaimFails

LEMMA NextKinds == ASSUME Typed, [Next]_vars PROVE Kinds
<1>1. ASSUME NEW p \in Handlers, Handle(p) PROVE Kinds
  BY <1>1, BeginKind, ResumeKind, SelectKind, RouteKind, ExecuteKind, GiveUpKind
     DEF Handle, Kinds, Steps1, Steps4
<1>2. CASE Chat
  <2>1. ASSUME NEW m \in Msgs, ChatSend(m) PROVE Arrives(m)
    BY <2>1 DEF ChatSend, Arrives, Lives, store, ghosts
  <2>2. CASE DrainClaimed \/ DrainDone \/ ChatReturns
    BY <2>2 DEF DrainClaimed, DrainDone, ChatReturns, Rests, Lives, queue, store, ghosts, Kinds, Steps4
  <2>3. CASE ChatPoll \/ \E o \in out : ChatPollFails(o)
    BY <2>3 DEF ChatPoll, ChatPollFails, Rests, Lives, queue, ghosts, Kinds, Steps4
  <2>4. QED
    BY <1>2, <2>1, <2>2, <2>3 DEF Chat, Kinds, Steps2, Steps3, Steps4
<1>3. ASSUME NEW m \in Msgs, Arrive(m) \/ HeartbeatTick(m) PROVE Arrives(m)
  BY <1>3 DEF Arrive, HeartbeatTick, Arrives, Lives, store, ghosts
<1>4. ASSUME NEW o \in out, Deliver(o) PROVE Rests
  BY <1>4 DEF Deliver, Rests, Lives, Others, queue, ghosts
<1>5. CASE UNCHANGED vars
  BY <1>5 DEF vars, Rests, Lives, queue, store, ghosts, Kinds, Steps4
<1>6. QED
  BY <1>1, <1>2, <1>3, <1>4, <1>5, ClaimFailsKind DEF Next, Kinds, Steps2, Steps4

-----------------------------------------------------------------------------
(* Types                                                                   *)

LEMMA ChatIsNoThread == "chat" \in Handlers /\ "chat" \notin Threads /\ Threads \subseteq Handlers
                        /\ Handlers = Threads \cup {"chat"} /\ None \notin Msgs
BY ConstantsOK DEF Handlers, None

LEMMA IdleFact == /\ Shaped(Idle) /\ Idle.pc = "idle" /\ Idle.msg = None
                  /\ \A m : PickOK(m, Idle.pick)
BY DEF Idle, Shaped, PickOK, NoAnswer

\* The state of every handler after a step: idle, or with its message and a pick
\* that obeys the policy.
HandlerOK(r) ==
    /\ Shaped(r) /\ (r.pc = "idle" => r = Idle) /\ (r.pc /= "idle" => r.msg \in Msgs)
    /\ PickOK(r.msg, r.pick)

LEMMA HandlersOK ==
    ASSUME DOMAIN worker' = Handlers, \A p \in Handlers : HandlerOK(worker'[p]),
           ~ up' => \A p \in Threads : worker'[p].pc = "idle", UNCHANGED scenario
    PROVE  HandlersTyped' /\ Picks'
<1>1. HandlersTyped'
  BY DEF HandlersTyped, HandlerOK, At, Mine, Handlers, Shaped
<1>2. Picks'
  BY DEF Picks, HandlerOK, PickOK, MustReply, Msg, Mine, Handlers
<1>3. QED
  BY <1>1, <1>2

LEMMA NoticesStay ==
    ASSUME Typed, \A q \in Handlers : worker'[q].pc = "notify" =>
                    worker[q].pc = "notify" /\ worker'[q].msg = worker[q].msg,
           \A m \in Msgs : at[m] = "gone" => at'[m] = "gone"
    PROVE  Notices'
<1>1. SUFFICES ASSUME NEW q \in Handlers, worker'[q].pc = "notify" PROVE at'[worker'[q].msg] = "gone"
  BY DEF Notices, At, Mine, Handlers
<1>2. worker[q].pc = "notify" /\ worker'[q].msg = worker[q].msg
  BY <1>1
<1>3. at[worker[q].msg] = "gone" /\ worker[q].msg \in Msgs
  BY <1>2 DEF Typed, Notices, HandlersTyped, At, Mine
<1>4. QED
  BY <1>2, <1>3

LEMMA HandlerWas == ASSUME Typed PROVE \A p \in Handlers : HandlerOK(worker[p])
BY DEF Typed, HandlersTyped, Picks, HandlerOK, At, Mine

\* Claiming and beginning a claimed message are takings.
LEMMA TakeFact ==
    ASSUME NEW p, NEW m, NEW n
    PROVE  /\ Take(p, m) =
                [pc |-> "begin", msg |-> m, name |-> name[m], n |-> 0, active |-> 0, run |-> 0, pick |-> NoAnswer]
           /\ [Take(p, m) EXCEPT !.name = n] =
                [pc |-> "begin", msg |-> m, name |-> n, n |-> 0, active |-> 0, run |-> 0, pick |-> NoAnswer]
<1> DEFINE r == [Idle EXCEPT !.pc = "begin"]
           s == [r EXCEPT !.msg = m]
<1>1. Idle = [pc |-> "idle", msg |-> None, name |-> 0, n |-> 0, active |-> 0, run |-> 0, pick |-> NoAnswer]
  BY DEF Idle
<1>2. r = [pc |-> "begin", msg |-> None, name |-> 0, n |-> 0, active |-> 0, run |-> 0, pick |-> NoAnswer]
  BY <1>1
<1>3. Take(p, m) = [s EXCEPT !.name = name[m]]
  BY DEF Take
<1> HIDE DEF r
<1>4. s = [pc |-> "begin", msg |-> m, name |-> 0, n |-> 0, active |-> 0, run |-> 0, pick |-> NoAnswer]
  BY <1>2
<1> HIDE DEF s
<1>5. Take(p, m) =
        [pc |-> "begin", msg |-> m, name |-> name[m], n |-> 0, active |-> 0, run |-> 0, pick |-> NoAnswer]
  BY <1>3, <1>4
<1>6. QED
  BY <1>5

LEMMA ClaimTakes ==
    ASSUME Typed, NEW p \in Handlers, NEW m \in Msgs, Claim(p, m)
    PROVE  Takes(p, m, name[m])
<1>1. Take(p, m) = [pc |-> "begin", msg |-> m, name |-> name[m], n |-> 0, active |-> 0, run |-> 0, pick |-> NoAnswer]
  BY TakeFact
<1>2. /\ At(p, "idle") /\ worker' = [worker EXCEPT ![p] = Take(p, m)]
      /\ UNCHANGED <<scenario, name, failed, up, store, ghosts>>
  BY DEF Claim
<1>3. DOMAIN worker' = Handlers /\ worker'[p] = Take(p, m) /\ \A q \in Handlers \ {p} : worker'[q] = worker[q]
  BY <1>2, Replaced DEF Typed
<1>4. QED
  BY <1>1, <1>2, <1>3 DEF Takes, Lives, store, ghosts

LEMMA DrainTakes ==
    ASSUME Typed, NEW c \in batch, DrainBegin(c)
    PROVE  Takes("chat", c[1], c[2])
<1>1. /\ At("chat", "idle") /\ worker' = [worker EXCEPT !["chat"] = [Take("chat", c[1]) EXCEPT !.name = c[2]]]
      /\ UNCHANGED <<scenario, queue, up, store, ghosts>>
  BY DEF DrainBegin
<1>2. /\ DOMAIN worker' = Handlers /\ worker'["chat"] = [Take("chat", c[1]) EXCEPT !.name = c[2]]
      /\ \A q \in Handlers \ {"chat"} : worker'[q] = worker[q]
  BY <1>1, ChatIsNoThread, Replaced DEF Typed
<1>3. worker'["chat"] = [pc |-> "begin", msg |-> c[1], name |-> c[2], n |-> 0, active |-> 0, run |-> 0, pick |-> NoAnswer]
  BY <1>2, TakeFact
<1>4. QED
  BY <1>1, <1>2, <1>3 DEF Takes, Lives, queue, store, ghosts

\* A stop idles the daemon's threads; the chat may be the one that asked.
LEMMA StopFact ==
    ASSUME Typed, NEW p \in Handlers, NEW ends \in {"invoked", "fail"}, InvokeStop(p, ends)
    PROVE  /\ DOMAIN worker' = Handlers /\ \A q \in Threads : worker'[q] = Idle
           /\ HandlerOK(worker'["chat"]) /\ worker'["chat"].msg = worker["chat"].msg
           /\ worker'["chat"].name = worker["chat"].name
           /\ worker'["chat"] = worker["chat"] \/ (p = "chat" /\ worker'["chat"].pc = ends)
           /\ UNCHANGED <<scenario, queue, batch, left, shared, replied, out>> /\ up' = FALSE
<1>1. /\ DOMAIN worker' = Handlers /\ \A q \in Threads : worker'[q] = Idle
      /\ p /= "chat" => worker'["chat"] = worker["chat"]
      /\ p = "chat" => worker'["chat"] = [worker["chat"] EXCEPT !.pc = ends]
      /\ UNCHANGED <<scenario, queue, batch, left, shared, replied, out>> /\ up' = FALSE
  BY ChatIsNoThread DEF InvokeStop, store
<1>2. CASE p = "chat"
  <2>1. PICK a, b, c, d, e, f, g : worker["chat"] = [pc |-> a, msg |-> b, name |-> c, n |-> d, active |-> e, run |-> f, pick |-> g]
    <3>1. Shaped(worker["chat"])
      BY ChatIsNoThread DEF Typed, HandlersTyped
    <3>2. QED
      BY <3>1 DEF Shaped
  <2>2. worker'["chat"] = [pc |-> ends, msg |-> b, name |-> c, n |-> d, active |-> e, run |-> f, pick |-> g]
    BY <1>1, <1>2, <2>1
  <2>3. worker["chat"].pc = "selected"
    BY <1>2 DEF InvokeStop, Picked, At
  <2>4. HandlerOK(worker["chat"])
    BY ChatIsNoThread, HandlerWas
  <2>5. worker["chat"].msg = b /\ worker["chat"].name = c /\ worker["chat"].pick = g
    BY <2>1
  <2>6. worker'["chat"].msg = b /\ worker'["chat"].name = c /\ worker'["chat"].pick = g /\ worker'["chat"].pc = ends
    BY <2>2
  <2>7. b \in Msgs /\ PickOK(b, g)
    BY <2>3, <2>4, <2>5 DEF HandlerOK
  <2>8. Shaped(worker'["chat"])
    BY <2>2 DEF Shaped
  <2>9. HandlerOK(worker'["chat"])
    BY <2>6, <2>7, <2>8 DEF HandlerOK
  <2>10. QED
    BY <1>1, <1>2, <2>5, <2>6, <2>9
<1>3. CASE p /= "chat"
  BY <1>1, <1>3, HandlerWas, ChatIsNoThread
<1>4. QED
  BY <1>2, <1>3

LEMMA TypedNext == ASSUME Typed, Kinds PROVE Typed'
<1>0. /\ DOMAIN worker = Handlers /\ \A p \in Handlers : HandlerOK(worker[p])
      /\ ~ up => \A p \in Threads : worker[p].pc = "idle"
      /\ DOMAIN at = Msgs
  BY HandlerWas DEF Typed, HandlersTyped, QueueTyped, At
<1>1. HandlerOK(Idle)
  BY IdleFact DEF HandlerOK
<1>2. ASSUME NEW p \in Handlers, Advances(p) PROVE Typed'
  <2>1. /\ DOMAIN worker' = Handlers /\ UNCHANGED <<scenario, up, at, name, batch>>
        /\ \A q \in Handlers \ {p} : worker'[q] = worker[q]
        /\ worker'[p].pc /= "idle" /\ worker[p].pc /= "idle" /\ worker'[p].msg = worker[p].msg
        /\ Shaped(worker'[p]) /\ PickOK(worker[p].msg, worker'[p].pick)
    BY <1>2 DEF Advances, Lives, At, Mine
  <2>2. HandlerOK(worker'[p])
    BY <1>0, <2>1 DEF HandlerOK
  <2>3. ~ up' => \A q \in Threads : worker'[q].pc = "idle"
    BY <1>0, <2>1, ChatIsNoThread
  <2>4. \A q \in Handlers : HandlerOK(worker'[q])
    BY <1>0, <2>1, <2>2
  <2>5. HandlersTyped' /\ Picks'
    BY <2>1, <2>3, <2>4, HandlersOK
  <2>6. Notices'
    <3>1. worker'[p].pc /= "notify"
      BY <1>2 DEF Advances
    <3>2. QED
      BY <2>1, <3>1, NoticesStay
  <2>7. QED
    BY <2>1, <2>5, <2>6 DEF Typed, QueueTyped
<1>3. ASSUME NEW p \in Handlers, Finishes(p) PROVE Typed'
  <2>1. /\ worker' = [worker EXCEPT ![p] = Idle] /\ UNCHANGED <<scenario, up, name>>
        /\ DOMAIN at' = DOMAIN at /\ batch' \subseteq batch
    BY <1>3 DEF Finishes, Lives
  <2>8. \A m \in Msgs : at[m] = "gone" => at'[m] = "gone"
    BY <1>0, <1>3 DEF Finishes, Own
  <2>2. DOMAIN worker' = Handlers /\ worker'[p] = Idle /\ \A q \in Handlers \ {p} : worker'[q] = worker[q]
    BY <1>0, <2>1
  <2>3. \A q \in Handlers : HandlerOK(worker'[q])
    BY <1>0, <1>1, <2>2
  <2>4. ~ up' => \A q \in Threads : worker'[q].pc = "idle"
    BY <1>0, <2>1, <2>2, IdleFact, ChatIsNoThread
  <2>5. HandlersTyped' /\ Picks'
    BY <2>1, <2>2, <2>3, <2>4, HandlersOK
  <2>6. Notices'
    BY <2>1, <2>2, <2>8, IdleFact, NoticesStay
  <2>7. QED
    BY <2>1, <2>5, <2>6 DEF Typed, QueueTyped
<1>17. ASSUME NEW p \in Handlers, Buries(p) PROVE Typed'
  <2>1. /\ DOMAIN worker' = Handlers /\ UNCHANGED <<scenario, up, name, batch>>
        /\ \A q \in Handlers \ {p} : worker'[q] = worker[q]
        /\ worker'[p].pc = "notify" /\ worker[p].pc = "fail" /\ worker'[p].msg = worker[p].msg
        /\ Shaped(worker'[p]) /\ PickOK(worker[p].msg, worker'[p].pick)
        /\ at' = [at EXCEPT ![worker[p].msg] = "gone"]
    BY <1>17 DEF Buries, Lives, At, Mine
  <2>2. HandlerOK(worker'[p])
    BY <1>0, <2>1 DEF HandlerOK
  <2>3. ~ up' => \A q \in Threads : worker'[q].pc = "idle"
    BY <1>0, <2>1, ChatIsNoThread
  <2>4. \A q \in Handlers : HandlerOK(worker'[q])
    BY <1>0, <2>1, <2>2
  <2>5. HandlersTyped' /\ Picks'
    BY <2>1, <2>3, <2>4, HandlersOK
  <2>6. Notices'
    <3>1. SUFFICES ASSUME NEW q \in Handlers, worker'[q].pc = "notify" PROVE at'[worker'[q].msg] = "gone"
      BY DEF Notices, At, Mine, Handlers
    <3>2. worker'[q].msg = worker[q].msg /\ worker[q].msg \in Msgs
      BY <1>0, <2>1, <3>1 DEF HandlerOK
    <3>3. q /= p => at[worker[q].msg] = "gone"
      BY <2>1, <3>1 DEF Typed, Notices, At, Mine
    <3>4. QED
      BY <1>0, <2>1, <3>2, <3>3 DEF Typed, QueueTyped
  <2>7. QED
    BY <2>1, <2>5, <2>6 DEF Typed, QueueTyped
<1>4. ASSUME UNCHANGED <<worker, scenario, up, name>>, DOMAIN at' = DOMAIN at,
             \A m \in Msgs : at[m] = "gone" => at'[m] = "gone",
             \A c \in batch' : c \in batch \/ \E m \in Msgs : c = <<m, name[m]>>
      PROVE  Typed'
  <2>1. HandlersTyped' /\ Picks'
    BY <1>0, <1>4, HandlersOK
  <2>2. QueueTyped'
    BY <1>4 DEF Typed, QueueTyped
  <2>3. Notices'
    BY <1>4, NoticesStay
  <2>4. QED
    BY <2>1, <2>2, <2>3 DEF Typed
<1>5. CASE Rests
  BY <1>4, <1>5 DEF Rests, Lives
<1>6. ASSUME NEW m \in Msgs, Arrives(m) PROVE Typed'
  BY <1>4, <1>6 DEF Arrives, Lives
<1>7. ASSUME NEW m \in Msgs, DrainClaim(m) PROVE Typed'
  BY <1>4, <1>7 DEF DrainClaim
<1>18. ASSUME NEW m \in Msgs, Fumbles(m) PROVE Typed'
  <2>1. \A k \in Msgs : at[k] = "gone" => at'[k] = "gone"
    BY <1>0, <1>18 DEF Fumbles
  <2>2. QED
    BY <1>4, <1>18, <2>1 DEF Fumbles, Lives
<1>8. ASSUME NEW p \in Handlers, NEW m \in Msgs, NEW n, Takes(p, m, n), p \in Threads => up,
             DOMAIN at' = DOMAIN at, batch' \subseteq batch,
             \A k \in Msgs : at[k] = "gone" => at'[k] = "gone"
      PROVE  Typed'
  <2>1. /\ DOMAIN worker' = Handlers /\ \A q \in Handlers \ {p} : worker'[q] = worker[q]
        /\ worker'[p] = [pc |-> "begin", msg |-> m, name |-> n, n |-> 0, active |-> 0, run |-> 0, pick |-> NoAnswer]
        /\ UNCHANGED <<scenario, up, name>>
    BY <1>8 DEF Takes, Lives
  <2>2. HandlerOK(worker'[p])
    BY <2>1 DEF HandlerOK, Shaped, PickOK, NoAnswer
  <2>3. ~ up' => \A q \in Threads : worker'[q].pc = "idle"
    BY <1>0, <1>8, <2>1, ChatIsNoThread
  <2>4. \A q \in Handlers : HandlerOK(worker'[q])
    BY <1>0, <2>1, <2>2
  <2>5. HandlersTyped' /\ Picks'
    BY <2>1, <2>3, <2>4, HandlersOK
  <2>6. Notices'
    BY <1>8, <2>1, NoticesStay
  <2>7. QED
    BY <1>8, <2>1, <2>5, <2>6 DEF Typed, QueueTyped
<1>9. ASSUME NEW m \in Msgs, NEW p \in Handlers, Claim(p, m) PROVE Typed'
  <2>1. \A k \in Msgs : at[k] = "gone" => at'[k] = "gone"
    BY <1>0, <1>9 DEF Claim
  <2>2. QED
    BY <1>8, <1>9, <2>1, ClaimTakes DEF Claim
<1>10. ASSUME NEW c \in batch, DrainBegin(c) PROVE Typed'
  BY <1>8, <1>10, DrainTakes, ChatIsNoThread DEF DrainBegin, queue, Typed, QueueTyped
<1>11. CASE Start
  <2>1. /\ UNCHANGED <<worker, scenario, batch>> /\ ~ up /\ up' = TRUE
        /\ DOMAIN at' = Msgs /\ DOMAIN name' = Msgs
        /\ \A m \in Msgs : at[m] = "gone" => at'[m] = "gone"
    BY <1>11 DEF Start
  <2>2. HandlersTyped' /\ Picks'
    BY <1>0, <2>1, HandlersOK
  <2>3. Notices'
    BY <2>1, NoticesStay
  <2>4. QED
    BY <2>1, <2>2, <2>3 DEF Typed, QueueTyped
<1>12. CASE ChatQuit
  <2>1. /\ UNCHANGED <<scenario, up, at, name>> /\ batch' = {} /\ worker' = [worker EXCEPT !["chat"] = Idle]
    BY <1>12 DEF ChatQuit, queue
  <2>2. /\ DOMAIN worker' = Handlers /\ worker'["chat"] = Idle
        /\ \A q \in Handlers \ {"chat"} : worker'[q] = worker[q]
    BY <1>0, <2>1, ChatIsNoThread
  <2>3. \A q \in Handlers : HandlerOK(worker'[q])
    BY <1>0, <1>1, <2>2
  <2>4. ~ up' => \A q \in Threads : worker'[q].pc = "idle"
    BY <1>0, <2>1, <2>2, ChatIsNoThread
  <2>5. HandlersTyped' /\ Picks'
    BY <2>1, <2>2, <2>3, <2>4, HandlersOK
  <2>6. Notices'
    BY <2>1, <2>2, IdleFact, NoticesStay
  <2>7. QED
    BY <2>1, <2>5, <2>6 DEF Typed, QueueTyped
<1>13. ASSUME DOMAIN worker' = Handlers, \A p \in Threads : worker'[p] = Idle, HandlerOK(worker'["chat"]),
              worker'["chat"] = worker["chat"] \/ worker'["chat"].pc /= "notify",
              UNCHANGED <<scenario, queue, batch>>, up' = FALSE
       PROVE  Typed'
  <2>1. HandlersTyped' /\ Picks'
    BY <1>1, <1>13, HandlersOK, IdleFact, ChatIsNoThread
  <2>2. Notices'
    BY <1>13, IdleFact, ChatIsNoThread, NoticesStay DEF queue
  <2>3. QED
    BY <1>13, <2>1, <2>2 DEF Typed, QueueTyped, queue
<1>14. CASE Crash
  BY <1>0, <1>13, <1>14, ChatIsNoThread DEF Crash
<1>15. ASSUME NEW p \in Handlers, NEW ends \in {"invoked", "fail"}, InvokeStop(p, ends) PROVE Typed'
  BY <1>13, <1>15, StopFact, ChatIsNoThread DEF InvokeStop
<1>16. QED
  BY <1>2, <1>3, <1>5, <1>6, <1>7, <1>9, <1>10, <1>11, <1>12, <1>14, <1>15, <1>17, <1>18
     DEF Kinds, Steps1, Steps2, Steps3, Steps4, Steps5

-----------------------------------------------------------------------------
(* Replies                                                                 *)

\* What lies in outgoing/ and is no acknowledgement answers a message with a reply.
OutReplied == \A o \in out : o.what /= "ack" => o.msg \in replied

AnswerInv == Typed /\ OutReplied /\ MustReplyAnswered

\* Who is held at a place.
LEMMA HeldFact ==
    ASSUME NEW ps, NEW pc
    PROVE  \A m : m \in Held(ps, pc) <=> \E q \in ps : worker[q].pc = pc /\ worker[q].msg = m
BY DEF Held, At, Mine

\* Replies grow; what becomes gone has one, need not, or is being told of; who was
\* being told is told, or it is known that he was not.
LEMMA AnswerStep ==
    ASSUME AnswerInv, OutGrows, Told, UNCHANGED scenario,
           \A m \in Msgs : at'[m] = "gone" =>
               \/ at[m] = "gone" \/ ~ MustReply(m) \/ m \in replied'
               \/ m \in failed' /\ \E q \in Handlers : worker'[q].pc = "notify" /\ worker'[q].msg = m,
           \A q \in Handlers : worker[q].pc = "notify" =>
               \/ worker'[q].pc = "notify" /\ worker'[q].msg = worker[q].msg
               \/ worker[q].msg \in replied' \cup unsaid'
    PROVE  OutReplied' /\ MustReplyAnswered'
<1>1. OutReplied'
  BY DEF AnswerInv, OutReplied, OutGrows
<1>2. \A m \in Msgs : MustReply(m)' = MustReply(m)
  BY DEF MustReply, Msg
<1>3. \A m : m \in Held(Handlers, "notify") <=> \E q \in Handlers : worker[q].pc = "notify" /\ worker[q].msg = m
  BY HeldFact
<1>4. \A m : m \in Held(Handlers, "notify")' <=> \E q \in Handlers : worker'[q].pc = "notify" /\ worker'[q].msg = m
  BY DEF Held, At, Mine, Handlers
<1>5. ASSUME NEW m \in Msgs, at'[m] = "gone", MustReply(m)
      PROVE  m \in replied' \/ (m \in failed' /\ (m \in unsaid' \/ m \in Held(Handlers, "notify")'))
  <2>1. CASE at[m] = "gone"
    <3>1. m \in replied \/ (m \in failed /\ (m \in unsaid \/ m \in Held(Handlers, "notify")))
      BY <1>5, <2>1 DEF AnswerInv, MustReplyAnswered
    <3>2. m \in Held(Handlers, "notify") => m \in replied' \cup unsaid' \/ m \in Held(Handlers, "notify")'
      BY <1>3, <1>4
    <3>3. QED
      BY <3>1, <3>2 DEF OutGrows, Told
  <2>2. CASE at[m] /= "gone"
    BY <1>4, <1>5, <2>2
  <2>3. QED
    BY <2>1, <2>2
<1>6. MustReplyAnswered'
  BY <1>2, <1>5 DEF MustReplyAnswered
<1>7. QED
  BY <1>1, <1>6

LEMMA AnswerNext == ASSUME AnswerInv, [Next]_vars PROVE AnswerInv'
<1>0. Typed /\ Kinds /\ Typed' /\ DOMAIN at = Msgs /\ DOMAIN worker = Handlers
  BY NextKinds, TypedNext DEF AnswerInv, Typed, QueueTyped, HandlersTyped
<1>1. SUFFICES OutReplied' /\ MustReplyAnswered'
  BY <1>0 DEF AnswerInv
<1>2. ASSUME NEW p \in Handlers, Advances(p) PROVE OutReplied' /\ MustReplyAnswered'
  BY <1>2, AnswerStep DEF Advances, Lives
<1>3. ASSUME NEW p \in Handlers, Finishes(p) PROVE OutReplied' /\ MustReplyAnswered'
  <2>1. OutGrows /\ Told /\ UNCHANGED scenario /\ worker' = [worker EXCEPT ![p] = Idle]
    BY <1>3 DEF Finishes, Lives
  <2>2. worker[p].pick.action = "no_response" => ~ MustReply(Mine(p))
    BY <1>0 DEF Typed, Picks, PickOK
  <2>3. \A m \in Msgs : at'[m] = "gone" => at[m] = "gone" \/ ~ MustReply(m) \/ m \in replied'
    BY <1>0, <1>3, <2>2 DEF Finishes
  <2>4. At(p, "notify") => Mine(p) \in replied' \cup unsaid'
    <3>1. At(p, "notify") => ~ Own(p)
      BY <1>0 DEF Typed, Notices, Own
    <3>2. QED
      BY <1>3, <3>1 DEF Finishes
  <2>5. \A q \in Handlers \ {p} : worker'[q] = worker[q]
    BY <1>0, <2>1
  <2>6. QED
    BY <2>1, <2>3, <2>4, <2>5, AnswerStep DEF At, Mine
<1>4. ASSUME NEW p \in Handlers, Buries(p) PROVE OutReplied' /\ MustReplyAnswered'
  <2>1. /\ OutGrows /\ Told /\ UNCHANGED scenario /\ worker[p].pc = "fail" /\ worker[p].msg \in failed'
        /\ \A q \in Handlers \ {p} : worker'[q] = worker[q]
        /\ worker'[p].pc = "notify" /\ worker'[p].msg = worker[p].msg
        /\ at' = [at EXCEPT ![worker[p].msg] = "gone"]
    BY <1>4 DEF Buries, Lives, At, Mine
  <2>2. \A m \in Msgs : at'[m] = "gone" => at[m] = "gone" \/ m = worker[p].msg
    BY <1>0, <2>1
  <2>3. QED
    BY <2>1, <2>2, AnswerStep
\* Steps that write no reply and make nothing gone.
<1>5. ASSUME UNCHANGED <<out, replied, scenario, failed>>, unsaid \subseteq unsaid', cut \subseteq cut',
             \A m \in Msgs : at'[m] = "gone" => at[m] = "gone",
             \A q \in Handlers : worker[q].pc = "notify" => worker'[q] = worker[q] \/ worker[q].msg \in unsaid'
      PROVE  OutReplied' /\ MustReplyAnswered'
  <2>1. OutGrows /\ Told
    BY <1>5 DEF OutGrows, Told
  <2>2. QED
    BY <1>5, <2>1, AnswerStep
<1>6. ASSUME NEW m \in Msgs, Arrives(m) \/ DrainClaim(m) \/ Fumbles(m) PROVE OutReplied' /\ MustReplyAnswered'
  <2>1. UNCHANGED <<out, replied, scenario, failed, unsaid, cut, worker>>
    BY <1>6 DEF Arrives, DrainClaim, Fumbles, Lives, store, ghosts
  <2>2. UNCHANGED at \/ \E x \in {"incoming", "processing"} : at' = [at EXCEPT ![m] = x]
    BY <1>6 DEF Arrives, DrainClaim, Fumbles
  <2>3. \A k \in Msgs : at'[k] = "gone" => at[k] = "gone"
    BY <1>0, <2>2
  <2>4. QED
    BY <1>5, <2>1, <2>3
<1>7. ASSUME NEW p \in Handlers, NEW m \in Msgs, NEW n, Takes(p, m, n),
             \A k \in Msgs : at'[k] = "gone" => at[k] = "gone"
      PROVE  OutReplied' /\ MustReplyAnswered'
  BY <1>5, <1>7 DEF Takes, Lives, At
<1>8. ASSUME NEW p \in Handlers, NEW m \in Msgs, Claim(p, m) PROVE OutReplied' /\ MustReplyAnswered'
  <2>1. \A k \in Msgs : at'[k] = "gone" => at[k] = "gone"
    BY <1>0, <1>8 DEF Claim
  <2>2. QED
    BY <1>0, <1>7, <1>8, <2>1, ClaimTakes
<1>9. ASSUME NEW c \in batch, DrainBegin(c) PROVE OutReplied' /\ MustReplyAnswered'
  <2>1. UNCHANGED at /\ c[1] \in Msgs
    BY <1>0, <1>9 DEF DrainBegin, queue, Typed, QueueTyped
  <2>2. QED
    BY <1>0, <1>7, <1>9, <2>1, DrainTakes, ChatIsNoThread
<1>10. CASE ChatQuit
  <2>1. /\ UNCHANGED <<out, replied, scenario, failed, at>> /\ cut \subseteq cut' /\ unsaid \subseteq unsaid'
        /\ Held({"chat"}, "notify") \subseteq unsaid' /\ worker' = [worker EXCEPT !["chat"] = Idle]
    BY <1>10 DEF ChatQuit, queue, store
  <2>2. \A q \in Handlers \ {"chat"} : worker'[q] = worker[q]
    BY <1>0, <2>1
  <2>3. worker["chat"].pc = "notify" => worker["chat"].msg \in unsaid'
    BY <2>1, HeldFact
  <2>4. QED
    BY <1>5, <2>1, <2>2, <2>3
<1>11. CASE Crash \/ Steps5
  <2>1. /\ UNCHANGED <<out, replied, scenario, failed, at>> /\ cut \subseteq cut' /\ unsaid \subseteq unsaid'
        /\ Held(Threads, "notify") \subseteq unsaid'
    BY <1>11 DEF Crash, Steps5, InvokeStop, queue, store
  <2>2. \A q \in Threads : worker[q].pc = "notify" => worker[q].msg \in unsaid'
    BY <2>1, HeldFact
  <2>3. worker["chat"].pc = "notify" => worker'["chat"] = worker["chat"]
    BY <1>11, ChatIsNoThread DEF Crash, Steps5, InvokeStop, Picked, At
  <2>4. QED
    BY <1>5, <2>1, <2>2, <2>3, ChatIsNoThread
<1>12. CASE Rests
  <2>1. UNCHANGED <<replied, scenario, at, worker>> /\ OutGrows /\ Told
    BY <1>12 DEF Rests, Lives, OutGrows, Told
  <2>2. QED
    BY <2>1, AnswerStep
<1>13. CASE Start
  <2>1. UNCHANGED <<out, replied, scenario, worker>> /\ OutGrows /\ Told
    BY <1>13 DEF Start, store, OutGrows, Told
  <2>2. ASSUME NEW m \in Msgs, at'[m] = "gone" PROVE at[m] = "gone" \/ m \in replied'
    <3>1. CASE Answering(m) /= {}
      BY <2>1, <3>1 DEF Answering, AnswerInv, OutReplied
    <3>2. CASE Answering(m) = {}
      BY <1>13, <2>2, <3>2 DEF Start
    <3>3. QED
      BY <3>1, <3>2
  <2>3. QED
    BY <2>1, <2>2, AnswerStep
<1>14. QED
  BY <1>0, <1>2, <1>3, <1>4, <1>6, <1>8, <1>9, <1>10, <1>11, <1>12, <1>13
     DEF Kinds, Steps1, Steps2, Steps3, Steps4

LEMMA TypedInit == ASSUME Init PROVE Typed
<1>1. HandlersTyped
  BY IdleFact, ChatIsNoThread DEF Init, HandlersTyped, At, Mine
<1>2. Picks
  BY IdleFact DEF Init, Picks, Mine
<1>3. QueueTyped
  BY DEF Init, QueueTyped
<1>4. Notices
  BY IdleFact DEF Init, Notices, At
<1>5. QED
  BY <1>1, <1>2, <1>3, <1>4 DEF Typed

(* A message that is direct or mentions the profile leaves the queue only   *)
(* with a reply, or with a dead letter whose author is being told or could  *)
(* not be, whatever the selector writes and whoever handles it              *)
(* (enforce_no_response_policy, complete_success_many,                      *)
(* enqueue_dead_letter_failure_notification).                               *)
THEOREM MustRepliesAreAnswered == Spec => []MustReplyAnswered
<1>1. Init => AnswerInv
  BY TypedInit DEF Init, AnswerInv, OutReplied, MustReplyAnswered
<1>2. AnswerInv /\ [Next]_vars => AnswerInv'
  BY AnswerNext
<1>3. AnswerInv => MustReplyAnswered
  BY DEF AnswerInv
<1>4. QED
  BY <1>1, <1>2, <1>3, PTL DEF Spec

-----------------------------------------------------------------------------
(* Who holds a message                                                     *)

Holds(p, m) == Mine(p) = m /\ worker[p].name = name[m]

StrandedInv == Typed /\ StrandedHasCause

\* While the daemon runs, a handler keeps its message and the batch its entries.
LEMMA StrandedStep ==
    ASSUME StrandedInv, UNCHANGED name, up' => up,
           \A m \in Msgs : at'[m] = "processing" =>
               \/ at[m] = "processing"
               \/ m \in left' \/ <<m, name[m]>> \in batch'
               \/ \E p \in Handlers : Holds(p, m)',
           left \subseteq left',
           \A p \in Handlers, m \in Msgs : up' /\ at'[m] = "processing" /\ Holds(p, m) =>
               m \in left' \/ Holds(p, m)',
           \A m \in Msgs : up' /\ at'[m] = "processing" /\ <<m, name[m]>> \in batch =>
               m \in left' \/ <<m, name[m]>> \in batch' \/ \E p \in Handlers : Holds(p, m)'
    PROVE  StrandedHasCause'
<1>1. SUFFICES ASSUME NEW m \in Msgs, up', at'[m] = "processing"
               PROVE  m \in left' \/ (\E p \in Handlers : Holds(p, m)') \/ <<m, name'[m]>> \in batch'
  BY DEF StrandedHasCause, Holds, Mine, Handlers
<1>2. CASE at[m] = "processing"
  <2>1. m \in left \/ (\E p \in Handlers : Holds(p, m)) \/ <<m, name[m]>> \in batch
    BY <1>1, <1>2 DEF StrandedInv, StrandedHasCause, Holds
  <2>2. QED
    BY <1>1, <2>1
<1>3. CASE at[m] /= "processing"
  BY <1>1, <1>3
<1>4. QED
  BY <1>2, <1>3

LEMMA StrandedNext == ASSUME StrandedInv, [Next]_vars PROVE StrandedInv'
<1>0. /\ Typed /\ Kinds /\ Typed' /\ DOMAIN at = Msgs /\ DOMAIN worker = Handlers
      /\ \A p \in Handlers : At(p, "idle") => Mine(p) \notin Msgs
  BY NextKinds, TypedNext, IdleFact, ChatIsNoThread DEF StrandedInv, Typed, QueueTyped, HandlersTyped, Mine
<1>1. SUFFICES StrandedHasCause'
  BY <1>0 DEF StrandedInv
<1>2. ASSUME NEW p \in Handlers, Advances(p) PROVE StrandedHasCause'
  <2>1. /\ UNCHANGED <<name, up, at, batch, left>>
        /\ \A q \in Handlers : worker'[q].msg = worker[q].msg /\ worker'[q].name = worker[q].name
    BY <1>2 DEF Advances, Lives
  <2>2. \A q \in Handlers, m \in Msgs : Holds(q, m) => Holds(q, m)'
    BY <2>1 DEF Holds, Mine
  <2>3. QED
    BY <2>1, <2>2, StrandedStep
<1>3. ASSUME NEW p \in Handlers, Finishes(p) PROVE StrandedHasCause'
  <2>1. /\ UNCHANGED <<name, up>> /\ left \subseteq left' /\ worker' = [worker EXCEPT ![p] = Idle]
        /\ Own(p) => Mine(p) \in left' \/ \E x \in {"gone", "incoming"} : at' = [at EXCEPT ![Mine(p)] = x]
        /\ UNCHANGED at \/ \E x \in {"gone", "incoming"} : at' = [at EXCEPT ![Mine(p)] = x]
        /\ batch' = batch \/ {c[1] : c \in batch} \subseteq left'
    BY <1>3 DEF Finishes, Lives
  <2>2. \A m \in Msgs : at'[m] = "processing" => at[m] = "processing"
    BY <1>0, <2>1
  <2>3. ASSUME NEW q \in Handlers, NEW m \in Msgs, at'[m] = "processing", Holds(q, m)
        PROVE  m \in left' \/ Holds(q, m)'
    <3>1. CASE q = p
      <4>1. Own(p) /\ Mine(p) = m
        BY <2>2, <2>3, <3>1 DEF Holds, Own
      <4>2. m \in left'
        BY <1>0, <2>1, <2>3, <4>1
      <4>3. QED
        BY <4>2
    <3>2. CASE q /= p
      BY <1>0, <2>1, <2>3, <3>2 DEF Holds, Mine
    <3>3. QED
      BY <3>1, <3>2
  <2>4. ASSUME NEW m \in Msgs, <<m, name[m]>> \in batch PROVE m \in left' \/ <<m, name[m]>> \in batch'
    <3>1. CASE batch' = batch
      BY <2>4, <3>1
    <3>2. CASE {c[1] : c \in batch} \subseteq left'
      <4>1. <<m, name[m]>>[1] = m
        OBVIOUS
      <4>2. QED
        BY <2>4, <3>2, <4>1
    <3>3. QED
      BY <2>1, <3>1, <3>2
  <2>5. QED
    BY <2>1, <2>2, <2>3, <2>4, StrandedStep
<1>4. ASSUME NEW p \in Handlers, NEW m \in Msgs, NEW n, Takes(p, m, n)
      PROVE  /\ \A q \in Handlers, k \in Msgs : Holds(q, k) => Holds(q, k)'
             /\ n = name[m] => Holds(p, m)'
             /\ UNCHANGED <<name, up, left>>
  <2>1. /\ At(p, "idle") /\ DOMAIN worker' = Handlers /\ \A q \in Handlers \ {p} : worker'[q] = worker[q]
        /\ worker'[p].msg = m /\ worker'[p].name = n /\ UNCHANGED <<name, up, left>>
    BY <1>4 DEF Takes, Lives
  <2>2. ASSUME NEW q \in Handlers, NEW k \in Msgs, Holds(q, k) PROVE Holds(q, k)'
    <3>1. q /= p
      BY <1>0, <2>1, <2>2 DEF Holds
    <3>2. QED
      BY <2>1, <2>2, <3>1 DEF Holds, Mine
  <2>3. QED
    BY <2>1, <2>2 DEF Holds, Mine
<1>5. ASSUME NEW p \in Handlers, NEW m \in Msgs, Claim(p, m) PROVE StrandedHasCause'
  <2>1. at' = [at EXCEPT ![m] = "processing"] /\ UNCHANGED batch
    BY <1>5 DEF Claim
  <2>2. /\ \A q \in Handlers, k \in Msgs : Holds(q, k) => Holds(q, k)'
        /\ Holds(p, m)' /\ UNCHANGED <<name, up, left>>
    BY <1>0, <1>4, <1>5, ClaimTakes
  <2>3. \A k \in Msgs : at'[k] = "processing" => at[k] = "processing" \/ k = m
    BY <1>0, <2>1
  <2>4. QED
    BY <2>1, <2>2, <2>3, StrandedStep
<1>6. ASSUME NEW m \in Msgs, DrainClaim(m) PROVE StrandedHasCause'
  <2>1. /\ at' = [at EXCEPT ![m] = "processing"] /\ batch' = batch \cup {<<m, name[m]>>}
        /\ UNCHANGED <<name, up, left, worker>>
    BY <1>6 DEF DrainClaim, ghosts
  <2>2. \A q \in Handlers, k \in Msgs : Holds(q, k) => Holds(q, k)'
    BY <2>1 DEF Holds, Mine
  <2>3. \A k \in Msgs : at'[k] = "processing" => at[k] = "processing" \/ <<k, name[k]>> \in batch'
    BY <1>0, <2>1
  <2>4. QED
    BY <2>1, <2>2, <2>3, StrandedStep
<1>7. ASSUME NEW c \in batch, DrainBegin(c) PROVE StrandedHasCause'
  <2>1. batch' = batch \ {c} /\ UNCHANGED at
    BY <1>7 DEF DrainBegin, queue
  <2>2. c[1] \in Msgs /\ Takes("chat", c[1], c[2])
    BY <1>0, <1>7, DrainTakes DEF Typed, QueueTyped
  <2>3. /\ \A q \in Handlers, k \in Msgs : Holds(q, k) => Holds(q, k)'
        /\ c[2] = name[c[1]] => Holds("chat", c[1])'
        /\ UNCHANGED <<name, up, left>>
    BY <1>4, <2>2, ChatIsNoThread
  <2>4. ASSUME NEW m \in Msgs, <<m, name[m]>> \in batch
        PROVE  <<m, name[m]>> \in batch' \/ \E p \in Handlers : Holds(p, m)'
    <3>1. CASE <<m, name[m]>> = c
      <4>1. c[1] = m /\ c[2] = name[m]
        BY <3>1
      <4>2. Holds("chat", c[1])'
        BY <2>3, <4>1
      <4>3. c[1] = m => (Holds("chat", c[1])' => Holds("chat", m)')
        BY DEF Holds
      <4>4. QED
        BY <4>1, <4>2, <4>3, ChatIsNoThread
    <3>2. CASE <<m, name[m]>> /= c
      BY <2>1, <2>4, <3>2
    <3>3. QED
      BY <3>1, <3>2
  <2>5. QED
    BY <2>1, <2>3, <2>4, StrandedStep
<1>8. ASSUME NEW m \in Msgs, Arrives(m) PROVE StrandedHasCause'
  <2>1. at' = [at EXCEPT ![m] = "incoming"] /\ UNCHANGED <<name, up, left, worker, batch>>
    BY <1>8 DEF Arrives, Lives
  <2>2. \A q \in Handlers, k \in Msgs : Holds(q, k) => Holds(q, k)'
    BY <2>1 DEF Holds, Mine
  <2>3. \A k \in Msgs : at'[k] = "processing" => at[k] = "processing"
    BY <1>0, <2>1
  <2>4. QED
    BY <2>1, <2>2, <2>3, StrandedStep
<1>14. ASSUME NEW m \in Msgs, Fumbles(m) PROVE StrandedHasCause'
  <2>1. /\ UNCHANGED <<name, up, worker>> /\ left \subseteq left'
        /\ UNCHANGED at \/ (at' = [at EXCEPT ![m] = "processing"] /\ m \in left')
        /\ UNCHANGED batch \/ {c[1] : c \in batch} \subseteq left'
    BY <1>14 DEF Fumbles, Lives
  <2>2. \A q \in Handlers, k \in Msgs : Holds(q, k) => Holds(q, k)'
    BY <2>1 DEF Holds, Mine
  <2>3. \A k \in Msgs : at'[k] = "processing" => at[k] = "processing" \/ k \in left'
    BY <1>0, <2>1
  <2>4. ASSUME NEW k \in Msgs, <<k, name[k]>> \in batch PROVE k \in left' \/ <<k, name[k]>> \in batch'
    <3>1. <<k, name[k]>>[1] = k
      OBVIOUS
    <3>2. QED
      BY <2>1, <2>4, <3>1
  <2>5. QED
    BY <2>1, <2>2, <2>3, <2>4, StrandedStep
<1>15. ASSUME NEW p \in Handlers, Buries(p) PROVE StrandedHasCause'
  <2>1. /\ UNCHANGED <<name, up, batch, left>> /\ at' = [at EXCEPT ![Mine(p)] = "gone"]
        /\ \A q \in Handlers : worker'[q].msg = worker[q].msg /\ worker'[q].name = worker[q].name
    BY <1>15 DEF Buries, Lives
  <2>2. \A q \in Handlers, m \in Msgs : Holds(q, m) => Holds(q, m)'
    BY <2>1 DEF Holds, Mine
  <2>3. \A m \in Msgs : at'[m] = "processing" => at[m] = "processing"
    BY <1>0, <2>1
  <2>4. QED
    BY <2>1, <2>2, <2>3, StrandedStep
<1>9. CASE Rests
  BY <1>9 DEF Rests, Lives, StrandedInv, StrandedHasCause, Mine
<1>10. CASE ChatQuit
  <2>1. /\ UNCHANGED <<name, up, at>> /\ worker' = [worker EXCEPT !["chat"] = Idle] /\ batch' = {}
        /\ left' = left \cup {c[1] : c \in batch} \cup ({Mine("chat")} \ {None})
    BY <1>10 DEF ChatQuit, queue
  <2>2. ASSUME NEW q \in Handlers, NEW m \in Msgs, Holds(q, m) PROVE m \in left' \/ Holds(q, m)'
    <3>1. CASE q = "chat"
      BY <2>1, <2>2, <3>1, ChatIsNoThread DEF Holds
    <3>2. CASE q /= "chat"
      BY <1>0, <2>1, <2>2, <3>2 DEF Holds, Mine
    <3>3. QED
      BY <3>1, <3>2
  <2>3. ASSUME NEW m \in Msgs, <<m, name[m]>> \in batch PROVE m \in left'
    <3>1. <<m, name[m]>>[1] = m
      OBVIOUS
    <3>2. QED
      BY <2>1, <2>3, <3>1
  <2>4. QED
    BY <2>1, <2>2, <2>3, StrandedStep
<1>11. CASE Crash \/ Steps5
  BY <1>11 DEF Crash, Steps5, InvokeStop, StrandedHasCause
<1>12. CASE Start
  <2>1. \A m \in Msgs : at'[m] /= "processing"
    BY <1>12 DEF Start
  <2>2. QED
    BY <2>1 DEF StrandedHasCause
<1>13. QED
  BY <1>0, <1>2, <1>3, <1>5, <1>6, <1>7, <1>8, <1>9, <1>10, <1>11, <1>12, <1>14, <1>15
     DEF Kinds, Steps1, Steps2, Steps3, Steps4

(* While the daemon runs, a file lies in processing/ with nobody handling   *)
(* it only when it was let go of there: by a drain that ended on an error,  *)
(* a chat that was quit, or a claim, a completion or a requeue that failed  *)
(* (drain_queue_once, process_claimed_message,                              *)
(* recover_queue_processing_paths).                                         *)
THEOREM StrandedHaveCause == Spec => []StrandedHasCause
<1>1. Init => StrandedInv
  BY TypedInit DEF Init, StrandedInv, StrandedHasCause
<1>2. StrandedInv /\ [Next]_vars => StrandedInv'
  BY StrandedNext
<1>3. StrandedInv => StrandedHasCause
  BY DEF StrandedInv
<1>4. QED
  BY <1>1, <1>2, <1>3, PTL DEF Spec

\* What a handler or the chat's batch has is theirs in the queue, and nobody
\* else has it, unless it was recovered under the chat.
HandlersOwn == \A p \in Handlers : ~ At(p, "idle") => Own(p) \/ At(p, "notify") \/ Mine(p) \in shared
BatchOwns   == \A c \in batch : (at[c[1]] = "processing" /\ name[c[1]] = c[2]) \/ c[1] \in shared
BatchApart  == \A c \in batch : \A p \in Handlers : Mine(p) = c[1] => c[1] \in shared
BatchOnce   == \A c, d \in batch : c /= d /\ c[1] = d[1] => c[1] \in shared

HoldInv == Typed /\ HandlersOwn /\ BatchOwns /\ BatchApart /\ BatchOnce /\ TwoHandlersHasCause

\* Steps after which nobody has more than before: what a handler or the batch has
\* stays theirs, or was recovered.
LEMMA HoldLess ==
    ASSUME HoldInv, Typed', shared \subseteq shared', batch' \subseteq batch, DOMAIN worker' = Handlers,
           \A p \in Handlers : worker'[p].pc = "idle" \/
               (worker[p].pc /= "idle" /\ worker'[p].msg = worker[p].msg /\ worker'[p].name = worker[p].name),
           \A p \in Handlers : worker[p].pc = "notify" => worker'[p].pc \in {"idle", "notify"},
           \A p \in Handlers : worker'[p].pc \notin {"idle", "notify"} /\ Own(p) => Mine(p) \in shared' \/
               (at'[Mine(p)] = "processing" /\ name'[Mine(p)] = name[Mine(p)]),
           \A c \in batch' : at[c[1]] = "processing" /\ name[c[1]] = c[2] => c[1] \in shared' \/
               (at'[c[1]] = "processing" /\ name'[c[1]] = name[c[1]])
    PROVE  HoldInv'
<1>1. HandlersOwn'
  <2>1. SUFFICES ASSUME NEW p \in Handlers, worker'[p].pc \notin {"idle", "notify"}
                 PROVE  \/ name'[worker'[p].msg] = worker'[p].name /\ at'[worker'[p].msg] = "processing"
                        \/ worker'[p].msg \in shared'
    BY DEF HandlersOwn, Own, At, Mine, Handlers
  <2>2. Own(p) \/ Mine(p) \in shared
    BY <2>1 DEF HoldInv, HandlersOwn, At
  <2>3. QED
    BY <2>1, <2>2 DEF Own, Mine
<1>2. BatchOwns'
  BY DEF HoldInv, BatchOwns
<1>3. \A p \in Handlers : worker'[p].msg = worker[p].msg \/ worker'[p].msg = None
  BY IdleFact DEF Typed, HandlersTyped, At
<1>4. \A c \in batch : c[1] /= None
  BY ChatIsNoThread DEF HoldInv, Typed, QueueTyped
<1>5. BatchApart'
  BY <1>3, <1>4 DEF HoldInv, BatchApart, Mine, Handlers
<1>6. BatchOnce'
  BY DEF HoldInv, BatchOnce
<1>7. TwoHandlersHasCause'
  <2>1. SUFFICES ASSUME NEW p \in Handlers, NEW q \in Handlers, p /= q,
                        worker'[p].msg = worker'[q].msg, worker'[p].msg /= None
                 PROVE  worker'[p].msg \in shared'
    BY DEF TwoHandlersHasCause, Mine, Handlers, None
  <2>2. worker[p].msg = worker[q].msg /\ worker[p].msg = worker'[p].msg
    BY <1>3, <2>1
  <2>3. QED
    BY <2>1, <2>2 DEF HoldInv, TwoHandlersHasCause, Mine
<1>8. QED
  BY <1>1, <1>2, <1>5, <1>6, <1>7 DEF HoldInv

\* A handler that ends lets go of its message: no one else has it.
LEMMA HoldFinish == ASSUME HoldInv, Typed', NEW p \in Handlers, Finishes(p) PROVE HoldInv'
<1>0. DOMAIN worker = Handlers /\ DOMAIN at = Msgs /\ Mine(p) \in Msgs /\ Mine(p) /= None
  BY ChatIsNoThread DEF HoldInv, Typed, HandlersTyped, QueueTyped, Finishes
<1>1. /\ worker' = [worker EXCEPT ![p] = Idle] /\ UNCHANGED <<shared, name>> /\ batch' \subseteq batch
      /\ \/ Own(p) /\ \E x : at' = [at EXCEPT ![Mine(p)] = x]
         \/ UNCHANGED at
  BY DEF Finishes, Lives
<1>2. DOMAIN worker' = Handlers /\ worker'[p].pc = "idle" /\ \A q \in Handlers \ {p} : worker'[q] = worker[q]
  BY <1>0, <1>1, IdleFact
<1>3. \A m \in Msgs : m /= Mine(p) => at'[m] = at[m]
  BY <1>0, <1>1
<1>4. ASSUME NEW q \in Handlers, worker'[q].pc \notin {"idle", "notify"}, Own(q)
      PROVE  Mine(q) \in shared' \/ (at'[Mine(q)] = "processing" /\ name'[Mine(q)] = name[Mine(q)])
  <2>1. q /= p /\ worker[q].pc /= "idle" /\ Mine(q) \in Msgs
    BY <1>2, <1>4 DEF HoldInv, Typed, HandlersTyped, At
  <2>2. CASE Mine(q) = Mine(p)
    BY <1>0, <1>1, <2>1, <2>2 DEF HoldInv, TwoHandlersHasCause
  <2>3. CASE Mine(q) /= Mine(p)
    BY <1>1, <1>3, <1>4, <2>1, <2>3 DEF Own
  <2>4. QED
    BY <2>2, <2>3
<1>5. ASSUME NEW c \in batch', at[c[1]] = "processing", name[c[1]] = c[2]
      PROVE  c[1] \in shared' \/ (at'[c[1]] = "processing" /\ name'[c[1]] = name[c[1]])
  <2>1. c \in batch /\ c[1] \in Msgs
    BY <1>1, <1>5 DEF HoldInv, Typed, QueueTyped
  <2>2. CASE c[1] = Mine(p)
    BY <1>1, <2>1, <2>2 DEF HoldInv, BatchApart
  <2>3. CASE c[1] /= Mine(p)
    BY <1>1, <1>3, <1>5, <2>1, <2>3
  <2>4. QED
    BY <2>2, <2>3
<1>6. \A q \in Handlers : worker'[q].pc = "idle" \/
               (worker[q].pc /= "idle" /\ worker'[q].msg = worker[q].msg /\ worker'[q].name = worker[q].name)
  BY <1>2
<1>7. \A q \in Handlers : worker[q].pc = "notify" => worker'[q].pc \in {"idle", "notify"}
  BY <1>2
<1>8. QED
  BY <1>1, <1>2, <1>4, <1>5, <1>6, <1>7, HoldLess

\* So does a handler that wrote a dead letter and removed the file.
LEMMA HoldBury == ASSUME HoldInv, Typed', NEW p \in Handlers, Buries(p) PROVE HoldInv'
<1>0. DOMAIN at = Msgs /\ Mine(p) \in Msgs /\ Mine(p) /= None
  BY ChatIsNoThread DEF HoldInv, Typed, HandlersTyped, QueueTyped, Buries, At
<1>1. /\ worker[p].pc = "fail" /\ worker'[p].pc = "notify" /\ UNCHANGED <<shared, name, batch>>
      /\ DOMAIN worker' = Handlers /\ \A q \in Handlers \ {p} : worker'[q] = worker[q]
      /\ worker'[p].msg = worker[p].msg /\ worker'[p].name = worker[p].name
      /\ at' = [at EXCEPT ![Mine(p)] = "gone"]
  BY DEF Buries, Lives, At
<1>2. \A m \in Msgs : m /= Mine(p) => at'[m] = at[m]
  BY <1>0, <1>1
<1>3. ASSUME NEW q \in Handlers, worker'[q].pc \notin {"idle", "notify"}, Own(q)
      PROVE  Mine(q) \in shared' \/ (at'[Mine(q)] = "processing" /\ name'[Mine(q)] = name[Mine(q)])
  <2>1. q /= p /\ worker[q].pc /= "idle" /\ Mine(q) \in Msgs
    BY <1>1, <1>3 DEF HoldInv, Typed, HandlersTyped, At
  <2>2. CASE Mine(q) = Mine(p)
    BY <1>0, <1>1, <2>1, <2>2 DEF HoldInv, TwoHandlersHasCause
  <2>3. CASE Mine(q) /= Mine(p)
    BY <1>1, <1>2, <1>3, <2>1, <2>3 DEF Own
  <2>4. QED
    BY <2>2, <2>3
<1>4. ASSUME NEW c \in batch', at[c[1]] = "processing", name[c[1]] = c[2]
      PROVE  c[1] \in shared' \/ (at'[c[1]] = "processing" /\ name'[c[1]] = name[c[1]])
  <2>1. c \in batch /\ c[1] \in Msgs
    BY <1>1, <1>4 DEF HoldInv, Typed, QueueTyped
  <2>2. CASE c[1] = Mine(p)
    BY <1>1, <2>1, <2>2 DEF HoldInv, BatchApart
  <2>3. CASE c[1] /= Mine(p)
    BY <1>1, <1>2, <1>4, <2>1, <2>3
  <2>4. QED
    BY <2>2, <2>3
<1>5. \A q \in Handlers : worker'[q].pc = "idle" \/
               (worker[q].pc /= "idle" /\ worker'[q].msg = worker[q].msg /\ worker'[q].name = worker[q].name)
  BY <1>1
<1>6. \A q \in Handlers : worker[q].pc = "notify" => worker'[q].pc \in {"idle", "notify"}
  BY <1>1
<1>7. QED
  BY <1>1, <1>3, <1>4, <1>5, <1>6, HoldLess

\* A handler takes a message that no one else has, or that was recovered.
LEMMA HoldTake ==
    ASSUME HoldInv, Typed', NEW p \in Handlers, NEW m \in Msgs, NEW n, Takes(p, m, n), batch' \subseteq batch,
           \A k \in Msgs \ {m} : at'[k] = at[k],
           at'[m] = at[m] \/ at'[m] = "processing",
           m \in shared \/ (at'[m] = "processing" /\ name[m] = n),
           m \in shared \/ (/\ \A q \in Handlers : Mine(q) /= m
                            /\ \A c \in batch' : c[1] /= m)
    PROVE  HoldInv'
<1>0. /\ DOMAIN worker' = Handlers /\ worker'[p].msg = m /\ worker'[p].name = n
      /\ UNCHANGED <<shared, name>> /\ \A q \in Handlers \ {p} : worker'[q] = worker[q]
  BY DEF Takes, Lives
<1>1. HandlersOwn'
  <2>1. SUFFICES ASSUME NEW q \in Handlers, worker'[q].pc \notin {"idle", "notify"}
                 PROVE  \/ name'[worker'[q].msg] = worker'[q].name /\ at'[worker'[q].msg] = "processing"
                        \/ worker'[q].msg \in shared'
    BY DEF HandlersOwn, Own, At, Mine, Handlers
  <2>2. CASE q = p
    BY <1>0, <2>2
  <2>3. CASE q /= p
    <3>1. worker[q].pc \notin {"idle", "notify"} /\ worker'[q] = worker[q]
      BY <1>0, <2>1, <2>3
    <3>2. Mine(q) \in Msgs /\ (Own(q) \/ Mine(q) \in shared)
      BY <3>1 DEF HoldInv, HandlersOwn, At, Typed, HandlersTyped
    <3>3. QED
      BY <1>0, <3>1, <3>2 DEF Own, Mine
  <2>4. QED
    BY <2>2, <2>3
<1>2. BatchOwns'
  <2>1. SUFFICES ASSUME NEW c \in batch'
                 PROVE  (at'[c[1]] = "processing" /\ name'[c[1]] = c[2]) \/ c[1] \in shared'
    BY DEF BatchOwns
  <2>2. c \in batch /\ c[1] \in Msgs /\ ((at[c[1]] = "processing" /\ name[c[1]] = c[2]) \/ c[1] \in shared)
    BY <2>1 DEF HoldInv, BatchOwns, Typed, QueueTyped
  <2>3. QED
    BY <1>0, <2>2
<1>3. BatchApart'
  <2>1. SUFFICES ASSUME NEW c \in batch', NEW q \in Handlers, worker'[q].msg = c[1]
                 PROVE  c[1] \in shared'
    BY DEF BatchApart, Mine, Handlers
  <2>2. CASE q = p
    BY <1>0, <2>1, <2>2
  <2>3. CASE q /= p
    BY <1>0, <2>1, <2>3 DEF HoldInv, BatchApart, Mine
  <2>4. QED
    BY <2>2, <2>3
<1>4. BatchOnce'
  BY <1>0 DEF HoldInv, BatchOnce
<1>5. TwoHandlersHasCause'
  <2>1. SUFFICES ASSUME NEW q \in Handlers, NEW r \in Handlers, q /= r,
                        worker'[q].msg = worker'[r].msg, worker'[q].msg /= None
                 PROVE  worker'[q].msg \in shared'
    BY DEF TwoHandlersHasCause, Mine, Handlers, None
  <2>2. CASE q = p
    BY <1>0, <2>1, <2>2 DEF Mine
  <2>3. CASE r = p
    BY <1>0, <2>1, <2>3 DEF Mine
  <2>4. CASE q /= p /\ r /= p
    <3>1. worker'[q] = worker[q] /\ worker'[r] = worker[r]
      BY <1>0, <2>4
    <3>2. QED
      BY <1>0, <2>1, <3>1 DEF HoldInv, TwoHandlersHasCause, Mine
  <2>5. QED
    BY <2>2, <2>3, <2>4
<1>6. QED
  BY <1>1, <1>2, <1>3, <1>4, <1>5 DEF HoldInv

\* A message in incoming/ that a handler or the batch has was recovered.
LEMMA IncomingFree ==
    ASSUME HoldInv, NEW m \in Msgs, at[m] \notin {"processing", "gone"}
    PROVE  /\ \A q \in Handlers : Mine(q) = m => m \in shared
           /\ \A c \in batch : c[1] = m => m \in shared
<1>1. ASSUME NEW q \in Handlers, Mine(q) = m PROVE m \in shared
  <2>1. ~ At(q, "idle")
    BY <1>1, IdleFact, ChatIsNoThread DEF HoldInv, Typed, HandlersTyped, Mine
  <2>2. ~ At(q, "notify")
    BY <1>1 DEF HoldInv, Typed, Notices
  <2>3. QED
    BY <1>1, <2>1, <2>2 DEF HoldInv, HandlersOwn, Own
<1>2. QED
  BY <1>1 DEF HoldInv, BatchOwns

LEMMA HoldNext == ASSUME HoldInv, [Next]_vars PROVE HoldInv'
<1>0. Typed /\ Kinds /\ Typed' /\ DOMAIN at = Msgs /\ DOMAIN worker = Handlers
  BY NextKinds, TypedNext DEF HoldInv, Typed, QueueTyped, HandlersTyped
<1>1. ASSUME NEW p \in Handlers, Advances(p) PROVE HoldInv'
  <2>1. /\ UNCHANGED <<name, at, batch, shared>> /\ DOMAIN worker' = Handlers /\ worker[p].pc /= "idle"
        /\ worker'[p].msg = worker[p].msg /\ worker'[p].name = worker[p].name
        /\ \A q \in Handlers \ {p} : worker'[q] = worker[q]
    BY <1>1 DEF Advances, Lives, At
  <2>2. \A q \in Handlers : worker'[q].pc = "idle" \/
               (worker[q].pc /= "idle" /\ worker'[q].msg = worker[q].msg /\ worker'[q].name = worker[q].name)
    BY <2>1
  <2>3. \A q \in Handlers : worker[q].pc = "notify" => worker'[q].pc \in {"idle", "notify"}
    BY <1>1, <2>1 DEF Advances
  <2>4. QED
    BY <1>0, <2>1, <2>2, <2>3, HoldLess DEF Own
<1>2. ASSUME NEW p \in Handlers, NEW m \in Msgs, Claim(p, m) PROVE HoldInv'
  <2>1. /\ Takes(p, m, name[m]) /\ at[m] = "incoming" /\ at' = [at EXCEPT ![m] = "processing"]
        /\ UNCHANGED batch
    BY <1>0, <1>2, ClaimTakes DEF Claim
  <2>2. at'[m] = "processing" /\ \A k \in Msgs \ {m} : at'[k] = at[k]
    BY <1>0, <2>1
  <2>3. m \in shared \/ ((\A q \in Handlers : Mine(q) /= m) /\ \A c \in batch' : c[1] /= m)
    BY <2>1, IncomingFree
  <2>4. QED
    BY <1>0, <2>1, <2>2, <2>3, HoldTake
<1>3. ASSUME NEW c \in batch, DrainBegin(c) PROVE HoldInv'
  <2>1. /\ Takes("chat", c[1], c[2]) /\ c[1] \in Msgs /\ UNCHANGED at /\ batch' = batch \ {c}
    BY <1>0, <1>3, DrainTakes DEF DrainBegin, queue, Typed, QueueTyped
  <2>2. c[1] \in shared \/ (at'[c[1]] = "processing" /\ name[c[1]] = c[2])
    BY <2>1 DEF HoldInv, BatchOwns
  <2>3. c[1] \in shared \/ ((\A q \in Handlers : Mine(q) /= c[1]) /\ \A d \in batch' : d[1] /= c[1])
    BY <2>1 DEF HoldInv, BatchApart, BatchOnce
  <2>4. QED
    BY <1>0, <2>1, <2>2, <2>3, HoldTake, ChatIsNoThread
<1>4. ASSUME NEW m \in Msgs, DrainClaim(m) PROVE HoldInv'
  <2>1. /\ at[m] = "incoming" /\ at' = [at EXCEPT ![m] = "processing"] /\ batch' = batch \cup {<<m, name[m]>>}
        /\ UNCHANGED <<name, worker, shared>>
    BY <1>4 DEF DrainClaim, ghosts
  <2>2. at'[m] = "processing" /\ \A k \in Msgs \ {m} : at'[k] = at[k]
    BY <1>0, <2>1
  <2>3. /\ \A q \in Handlers : Mine(q) = m => m \in shared
        /\ \A c \in batch : c[1] = m => m \in shared
    BY <2>1, IncomingFree
  <2>4. \A c \in batch' : c \in batch \/ (c[1] = m /\ c[2] = name[m])
    BY <2>1
  <2>5. HandlersOwn' /\ TwoHandlersHasCause'
    BY <2>1, <2>2 DEF HoldInv, Typed, HandlersTyped, HandlersOwn, TwoHandlersHasCause, Own, At, Mine
  <2>6. BatchOwns'
    <3>1. SUFFICES ASSUME NEW c \in batch'
                   PROVE  (at'[c[1]] = "processing" /\ name'[c[1]] = c[2]) \/ c[1] \in shared'
      BY DEF BatchOwns
    <3>2. CASE c \in batch
      BY <2>1, <2>2, <3>2 DEF HoldInv, BatchOwns, Typed, QueueTyped
    <3>3. CASE c[1] = m /\ c[2] = name[m]
      BY <2>1, <2>2, <3>3
    <3>4. QED
      BY <2>4, <3>2, <3>3
  <2>7. BatchApart'
    <3>1. SUFFICES ASSUME NEW c \in batch', NEW q \in Handlers, Mine(q) = c[1] PROVE c[1] \in shared
      BY <2>1 DEF BatchApart, Mine
    <3>2. QED
      BY <2>3, <2>4, <3>1 DEF HoldInv, BatchApart
  <2>8. BatchOnce'
    <3>1. SUFFICES ASSUME NEW c \in batch', NEW d \in batch', c /= d, c[1] = d[1] PROVE c[1] \in shared
      BY <2>1 DEF BatchOnce
    <3>2. CASE c \in batch /\ d \in batch
      BY <3>1, <3>2 DEF HoldInv, BatchOnce
    <3>3. CASE c \notin batch \/ d \notin batch
      <4>1. c = <<m, name[m]>> \/ d = <<m, name[m]>>
        BY <2>1, <3>3
      <4>2. c[1] = m /\ d[1] = m
        BY <3>1, <4>1
      <4>3. c \in batch \/ d \in batch
        BY <2>1, <3>1, <4>1
      <4>4. QED
        BY <2>3, <4>2, <4>3
    <3>4. QED
      BY <3>2, <3>3
  <2>9. QED
    BY <1>0, <2>5, <2>6, <2>7, <2>8 DEF HoldInv
<1>5. ASSUME NEW m \in Msgs, Arrives(m) PROVE HoldInv'
  <2>1. /\ at[m] = "none" /\ at' = [at EXCEPT ![m] = "incoming"] /\ UNCHANGED <<name, worker, shared, batch>>
    BY <1>5 DEF Arrives, Lives
  <2>2. \A k \in Msgs : at[k] = "processing" => at'[k] = "processing"
    BY <1>0, <2>1
  <2>3. HandlersOwn' /\ BatchOwns'
    BY <2>1, <2>2 DEF HoldInv, HandlersOwn, BatchOwns, Own, At, Mine, Typed, HandlersTyped, QueueTyped
  <2>4. BatchApart' /\ BatchOnce' /\ TwoHandlersHasCause'
    BY <2>1 DEF HoldInv, BatchApart, BatchOnce, TwoHandlersHasCause, Mine
  <2>5. QED
    BY <1>0, <2>3, <2>4 DEF HoldInv
<1>6. CASE Rests
  <2>1. UNCHANGED <<name, worker, shared, batch, at>>
    BY <1>6 DEF Rests, Lives
  <2>2. HandlersOwn' /\ BatchOwns' /\ BatchApart' /\ BatchOnce' /\ TwoHandlersHasCause'
    BY <2>1 DEF HoldInv, HandlersOwn, BatchOwns, BatchApart, BatchOnce, TwoHandlersHasCause, Own, At, Mine
  <2>3. QED
    BY <1>0, <2>2 DEF HoldInv
<1>7. CASE ChatQuit
  <2>1. /\ worker' = [worker EXCEPT !["chat"] = Idle] /\ batch' = {} /\ UNCHANGED <<name, at, shared>>
    BY <1>7 DEF ChatQuit, queue
  <2>2. DOMAIN worker' = Handlers /\ \A q \in Handlers : worker'[q] = Idle \/ worker'[q] = worker[q]
    BY <1>0, <2>1
  <2>3. \A q \in Handlers : worker'[q].pc = "idle" \/
               (worker[q].pc /= "idle" /\ worker'[q].msg = worker[q].msg /\ worker'[q].name = worker[q].name)
    BY <2>2, IdleFact
  <2>4. \A q \in Handlers : worker[q].pc = "notify" => worker'[q].pc \in {"idle", "notify"}
    BY <2>2, IdleFact
  <2>5. QED
    BY <1>0, <2>1, <2>2, <2>3, <2>4, HoldLess DEF Own
<1>8. CASE Crash
  <2>1. UNCHANGED <<name, at, shared, batch>> /\ DOMAIN worker' = Handlers
        /\ \A q \in Handlers : worker'[q] = Idle \/ worker'[q] = worker[q]
    BY <1>8 DEF Crash, queue, ghosts
  <2>2. \A q \in Handlers : worker'[q].pc = "idle" \/
               (worker[q].pc /= "idle" /\ worker'[q].msg = worker[q].msg /\ worker'[q].name = worker[q].name)
    BY <2>1, IdleFact
  <2>3. \A q \in Handlers : worker[q].pc = "notify" => worker'[q].pc \in {"idle", "notify"}
    BY <2>1, IdleFact
  <2>4. QED
    BY <1>0, <2>1, <2>2, <2>3, HoldLess DEF Own
<1>9. ASSUME NEW p \in Handlers, NEW ends \in {"invoked", "fail"}, InvokeStop(p, ends) PROVE HoldInv'
  <2>1. UNCHANGED <<name, at, shared, batch>> /\ DOMAIN worker' = Handlers
        /\ (\A q \in Threads : worker'[q] = Idle)
        /\ worker'["chat"].msg = worker["chat"].msg /\ worker'["chat"].name = worker["chat"].name
    BY <1>0, <1>9, StopFact DEF queue
  <2>2. worker'["chat"].pc = "idle" \/ worker["chat"].pc /= "idle"
    <3>1. worker'["chat"] = worker["chat"] \/ p = "chat"
      BY <1>9, ChatIsNoThread DEF InvokeStop
    <3>2. QED
      BY <1>9, <3>1 DEF InvokeStop, Picked, At
  <2>3. \A q \in Handlers : worker'[q].pc = "idle" \/
               (worker[q].pc /= "idle" /\ worker'[q].msg = worker[q].msg /\ worker'[q].name = worker[q].name)
    BY <2>1, <2>2, IdleFact, ChatIsNoThread
  <2>4. \A q \in Handlers : worker[q].pc = "notify" => worker'[q].pc \in {"idle", "notify"}
    <3>1. worker["chat"].pc = "notify" => worker'["chat"] = worker["chat"]
      BY <1>9, ChatIsNoThread DEF InvokeStop, Picked, At
    <3>2. QED
      BY <2>1, <3>1, IdleFact, ChatIsNoThread
  <2>5. QED
    BY <1>0, <2>1, <2>3, <2>4, HoldLess DEF Own
<1>10. CASE Start
  <2> DEFINE found == {m \in Msgs : at[m] = "processing"}
             rec == {m \in found : m = Mine("chat") \/ \E c \in batch : c[1] = m}
  <2>1. /\ ~ up /\ UNCHANGED <<worker, batch>> /\ shared' = shared \cup rec
    BY <1>10 DEF Start
  <2>2. \A q \in Handlers : worker[q].pc = "idle" \/ q = "chat"
    BY <2>1, ChatIsNoThread DEF HoldInv, Typed, HandlersTyped, At
  <2>3. ASSUME NEW q \in Handlers, worker'[q].pc \notin {"idle", "notify"}, Own(q) PROVE Mine(q) \in shared'
    BY <1>0, <2>1, <2>2, <2>3 DEF Own, Typed, HandlersTyped, At
  <2>4. \A c \in batch' : at[c[1]] = "processing" => c[1] \in shared'
    BY <1>0, <2>1 DEF Typed, QueueTyped
  <2>5. \A q \in Handlers : worker'[q].pc = "idle" \/
               (worker[q].pc /= "idle" /\ worker'[q].msg = worker[q].msg /\ worker'[q].name = worker[q].name)
    BY <2>1
  <2>6. shared \subseteq shared'
    BY <2>1
  <2>7. QED
    BY <1>0, <2>1, <2>3, <2>4, <2>5, <2>6, HoldLess
<1>11. ASSUME NEW m \in Msgs, Fumbles(m) PROVE HoldInv'
  <2>1. /\ UNCHANGED <<name, worker, shared>> /\ batch' \subseteq batch /\ at[m] = "incoming"
        /\ UNCHANGED at \/ at' = [at EXCEPT ![m] = "processing"]
    BY <1>11 DEF Fumbles, Lives
  <2>2. \A k \in Msgs : at[k] = "processing" => at'[k] = "processing"
    BY <1>0, <2>1
  <2>3. ASSUME NEW q \in Handlers, worker'[q].pc \notin {"idle", "notify"}, Own(q)
        PROVE  at'[Mine(q)] = "processing"
    BY <1>0, <2>1, <2>2, <2>3 DEF Own, Typed, HandlersTyped, At
  <2>4. \A c \in batch' : at[c[1]] = "processing" => at'[c[1]] = "processing"
    BY <1>0, <2>1, <2>2 DEF Typed, QueueTyped
  <2>5. QED
    BY <1>0, <2>1, <2>3, <2>4, HoldLess
<1>12. QED
  BY <1>0, <1>1, <1>2, <1>3, <1>4, <1>5, <1>6, <1>7, <1>8, <1>9, <1>10, <1>11, HoldFinish, HoldBury
     DEF Kinds, Steps1, Steps2, Steps3, Steps4, Steps5

LEMMA HoldInit == ASSUME Init PROVE HoldInv
<1>1. \A p \in Handlers : worker[p] = Idle
  BY DEF Init
<1>2. HandlersOwn /\ TwoHandlersHasCause
  BY <1>1, IdleFact DEF HandlersOwn, TwoHandlersHasCause, At, Mine
<1>3. QED
  BY <1>2, TypedInit DEF Init, HoldInv, BatchOwns, BatchApart, BatchOnce

(* Two handlers work on one message only when the daemon was started, and   *)
(* recovered the queue, while the chat had the message (claim_oldest,       *)
(* recover_queue_processing_paths).                                         *)
THEOREM TwoHandlersHaveCause == Spec => []TwoHandlersHasCause
<1>1. Init => HoldInv
  BY HoldInit
<1>2. HoldInv /\ [Next]_vars => HoldInv'
  BY HoldNext
<1>3. HoldInv => TwoHandlersHasCause
  BY DEF HoldInv
<1>4. QED
  BY <1>1, <1>2, <1>3, PTL DEF Spec

-----------------------------------------------------------------------------
(* Commands                                                                *)

\* Why a command may be carried out again.
Caused(m) == m \in cut \cup shared

\* A command that was carried out once, for no such reason, is answered or about to be.
Closing(m) == at[m] = "gone" \/ \E p \in Handlers : Mine(p) = m /\ At(p, "invoked")

DidOnce ==
    /\ DOMAIN did = Msgs /\ \A m \in Msgs : did[m] \in Nat
    /\ \A m \in Msgs : did[m] > 0 => Caused(m) \/ (did[m] = 1 /\ Closing(m))

RepeatInv == HoldInv /\ DidOnce

CausesStay == cut \subseteq cut' /\ shared \subseteq shared'

\* Steps that carry out nothing.
LEMMA DidRest ==
    ASSUME RepeatInv, UNCHANGED did, CausesStay, \A m \in Msgs : Closing(m) => Closing(m)' \/ Caused(m)'
    PROVE  DidOnce'
<1>1. ASSUME NEW m \in Msgs, did[m] > 0 PROVE Caused(m)' \/ (did[m] = 1 /\ Closing(m)')
  BY <1>1 DEF RepeatInv, DidOnce, Caused, CausesStay
<1>2. QED
  BY <1>1 DEF RepeatInv, DidOnce

\* A handler carries out its command.  Others keep what they closed; its own message
\* is closing, or there is a cause.
LEMMA DidOne ==
    ASSUME RepeatInv, NEW p \in Handlers, NEW n \in Msgs, Mine(p) = n,
           worker[p].pc \notin {"idle", "invoked", "notify"},
           Did(p), CausesStay, Closing(n)' \/ Caused(n)',
           \A m \in Msgs : Closing(m) => Closing(m)' \/ Caused(m)'
    PROVE  DidOnce'
<1>1. DOMAIN did' = Msgs /\ did'[n] = did[n] + 1 /\ \A m \in Msgs \ {n} : did'[m] = did[m]
  BY DEF Did, RepeatInv, DidOnce
<1>2. \A m \in Msgs : did[m] \in Nat
  BY DEF RepeatInv, DidOnce
<1>3. \A m \in Msgs : did'[m] \in Nat
  BY <1>1, <1>2
<1>4. Closing(n) => n \in shared
  <2>1. CASE at[n] = "gone"
    BY <2>1 DEF RepeatInv, HoldInv, HandlersOwn, Own, At
  <2>2. ASSUME NEW q \in Handlers, Mine(q) = n, At(q, "invoked") PROVE n \in shared
    <3>1. q /= p /\ n /= None
      BY <2>2, ChatIsNoThread DEF At
    <3>2. QED
      BY <2>2, <3>1 DEF RepeatInv, HoldInv, TwoHandlersHasCause
  <2>3. QED
    BY <2>1, <2>2 DEF Closing
<1>5. ASSUME NEW m \in Msgs, did'[m] > 0 PROVE Caused(m)' \/ (did'[m] = 1 /\ Closing(m)')
  <2>1. CASE m /= n
    <3>1. did'[m] = did[m]
      BY <1>1, <2>1
    <3>2. Caused(m) \/ (did[m] = 1 /\ Closing(m))
      BY <1>5, <3>1 DEF RepeatInv, DidOnce
    <3>3. Caused(m) => Caused(m)'
      BY DEF Caused, CausesStay
    <3>4. QED
      BY <3>1, <3>2, <3>3
  <2>2. CASE m = n /\ did[n] = 0
    BY <1>1, <2>2
  <2>3. CASE m = n /\ did[n] /= 0
    <3>1. did[n] > 0
      BY <1>2, <2>3
    <3>2. Caused(n) \/ Closing(n)
      BY <3>1 DEF RepeatInv, DidOnce
    <3>3. n \in cut \cup shared
      BY <1>4, <3>2 DEF Caused
    <3>4. QED
      BY <2>3, <3>3 DEF Caused, CausesStay
  <2>4. QED
    BY <2>1, <2>2, <2>3
<1>6. QED
  BY <1>1, <1>3, <1>5 DEF DidOnce

LEMMA DidNext == ASSUME RepeatInv, [Next]_vars PROVE DidOnce'
<1>0. /\ Typed /\ Kinds /\ DOMAIN at = Msgs /\ DOMAIN worker = Handlers /\ HoldInv
      /\ \A p \in Handlers : ~ At(p, "idle") => Mine(p) \in Msgs /\ Mine(p) /= None
  BY NextKinds, ChatIsNoThread DEF RepeatInv, HoldInv, Typed, QueueTyped, HandlersTyped
\* The handlers that carried out a command go on, or their messages are cut off.
<1>1. ASSUME UNCHANGED did, CausesStay, \A m \in Msgs : at[m] = "gone" => at'[m] = "gone",
             \A q \in Handlers : worker[q].pc = "invoked" => worker'[q] = worker[q] \/ worker[q].msg \in cut'
      PROVE  DidOnce'
  <2>1. \A m \in Msgs : Closing(m) => Closing(m)' \/ Caused(m)'
    BY <1>1 DEF Closing, Caused, Mine, At
  <2>2. QED
    BY <1>1, <2>1, DidRest
<1>2. ASSUME NEW p \in Handlers, Advances(p) PROVE DidOnce'
  <2>1. /\ worker[p].pc \notin {"idle", "invoked", "notify"} /\ UNCHANGED at /\ CausesStay
        /\ \A q \in Handlers \ {p} : worker'[q] = worker[q]
        /\ worker'[p].msg = worker[p].msg /\ Mine(p) \in Msgs
    BY <1>0, <1>2 DEF Advances, Lives, Told, CausesStay, At
  <2>2. \A m \in Msgs : Closing(m) => Closing(m)'
    BY <2>1 DEF Closing, Mine, At
  <2>3. CASE UNCHANGED did
    BY <2>1, <2>2, <2>3, DidRest
  <2>4. CASE Did(p) /\ (worker'[p].pc = "invoked" \/ Mine(p) \in cut')
    <3>1. PICK n \in Msgs : Mine(p) = n
      BY <2>1
    <3>2. Closing(n)' \/ Caused(n)'
      BY <2>1, <2>4, <3>1 DEF Closing, Caused, Mine, At
    <3>3. QED
      BY <2>1, <2>2, <2>4, <3>1, <3>2, DidOne
  <2>5. QED
    BY <1>2, <2>3, <2>4 DEF Advances
<1>3. ASSUME NEW p \in Handlers, Finishes(p) PROVE DidOnce'
  <2>1. /\ UNCHANGED did /\ CausesStay /\ worker' = [worker EXCEPT ![p] = Idle] /\ ~ At(p, "idle")
        /\ \/ Own(p) /\ at' = [at EXCEPT ![Mine(p)] = "gone"]
           \/ Own(p) /\ ~ At(p, "invoked") /\ at' = [at EXCEPT ![Mine(p)] = "incoming"]
           \/ UNCHANGED at /\ (At(p, "invoked") => Mine(p) \in cut')
    BY <1>3 DEF Finishes, Lives, Told, CausesStay
  <2>2. \A q \in Handlers \ {p} : worker'[q] = worker[q]
    BY <1>0, <2>1
  <2>3. \A m \in Msgs : at[m] = "gone" => at'[m] = "gone"
    BY <1>0, <2>1 DEF Own
  <2>4. ASSUME NEW m \in Msgs, Closing(m) PROVE Closing(m)' \/ Caused(m)'
    <3>1. CASE at[m] = "gone"
      BY <2>3, <3>1 DEF Closing
    <3>2. ASSUME NEW q \in Handlers, Mine(q) = m, At(q, "invoked") PROVE Closing(m)' \/ Caused(m)'
      <4>1. CASE q /= p
        BY <2>2, <3>2, <4>1 DEF Closing, Mine, At
      <4>2. CASE q = p
        <5>1. at'[m] = "gone" \/ m \in cut'
          BY <1>0, <2>1, <3>2, <4>2
        <5>2. QED
          BY <5>1 DEF Closing, Caused
      <4>3. QED
        BY <4>1, <4>2
    <3>3. QED
      BY <2>4, <3>1, <3>2 DEF Closing
  <2>5. QED
    BY <2>1, <2>4, DidRest
<1>4. ASSUME NEW p \in Handlers, Buries(p) PROVE DidOnce'
  <2>1. /\ UNCHANGED did /\ CausesStay /\ worker[p].pc = "fail"
        /\ \A q \in Handlers \ {p} : worker'[q] = worker[q]
    BY <1>4 DEF Buries, Lives, Told, CausesStay, At
  <2>2. \A m \in Msgs : at[m] = "gone" => at'[m] = "gone"
    BY <1>0, <1>4 DEF Buries
  <2>3. QED
    BY <1>1, <2>1, <2>2
<1>5. ASSUME NEW m \in Msgs, Arrives(m) \/ DrainClaim(m) \/ Fumbles(m) PROVE DidOnce'
  <2>1. UNCHANGED <<did, worker>> /\ CausesStay
    BY <1>5 DEF Arrives, DrainClaim, Fumbles, Lives, ghosts, CausesStay
  <2>2. at[m] /= "gone" /\ (UNCHANGED at \/ \E x : at' = [at EXCEPT ![m] = x])
    BY <1>5 DEF Arrives, DrainClaim, Fumbles
  <2>3. \A k \in Msgs : at[k] = "gone" => at'[k] = "gone"
    BY <1>0, <2>2
  <2>4. QED
    BY <1>1, <2>1, <2>3
<1>6. ASSUME NEW p \in Handlers, NEW m \in Msgs, NEW n, Takes(p, m, n),
             \A k \in Msgs : at[k] = "gone" => at'[k] = "gone"
      PROVE  DidOnce'
  BY <1>1, <1>6 DEF Takes, Lives, CausesStay, At
<1>7. ASSUME NEW p \in Handlers, NEW m \in Msgs, Claim(p, m) PROVE DidOnce'
  <2>1. \A k \in Msgs : at[k] = "gone" => at'[k] = "gone"
    BY <1>0, <1>7 DEF Claim
  <2>2. QED
    BY <1>0, <1>6, <1>7, <2>1, ClaimTakes
<1>8. ASSUME NEW c \in batch, DrainBegin(c) PROVE DidOnce'
  <2>1. UNCHANGED at /\ c[1] \in Msgs
    BY <1>0, <1>8 DEF DrainBegin, queue, Typed, QueueTyped
  <2>2. QED
    BY <1>0, <1>6, <1>8, <2>1, DrainTakes, ChatIsNoThread
<1>9. CASE Rests
  BY <1>1, <1>9 DEF Rests, Lives, CausesStay
<1>10. CASE ChatQuit
  <2>1. /\ UNCHANGED <<did, at>> /\ CausesStay /\ Held({"chat"}, "invoked") \subseteq cut'
        /\ worker' = [worker EXCEPT !["chat"] = Idle]
    BY <1>10 DEF ChatQuit, queue, CausesStay
  <2>2. \A q \in Handlers \ {"chat"} : worker'[q] = worker[q]
    BY <1>0, <2>1
  <2>3. worker["chat"].pc = "invoked" => worker["chat"].msg \in cut'
    BY <2>1, HeldFact
  <2>4. QED
    BY <1>1, <2>1, <2>2, <2>3
<1>11. CASE Crash
  <2>1. /\ UNCHANGED <<did, at>> /\ CausesStay /\ Held(Threads, "invoked") \subseteq cut'
        /\ worker'["chat"] = worker["chat"]
    BY <1>11, ChatIsNoThread DEF Crash, queue, CausesStay
  <2>2. \A q \in Threads : worker[q].pc = "invoked" => worker[q].msg \in cut'
    BY <2>1, HeldFact
  <2>3. QED
    BY <1>1, <2>1, <2>2, ChatIsNoThread
<1>12. CASE Start
  <2>1. /\ UNCHANGED <<did, worker>> /\ CausesStay /\ \A m \in Msgs : at[m] = "gone" => at'[m] = "gone"
    BY <1>12 DEF Start, CausesStay
  <2>2. QED
    BY <1>1, <2>1
<1>13. ASSUME NEW p \in Handlers, NEW ends \in {"invoked", "fail"}, InvokeStop(p, ends) PROVE DidOnce'
  <2>1. /\ Did(p) /\ worker[p].pc = "selected" /\ CausesStay /\ UNCHANGED at
        /\ Held(Threads, "invoked") \subseteq cut'
        /\ p \in Threads \/ ends = "fail" => Mine(p) \in cut'
    BY <1>13 DEF InvokeStop, Picked, At, CausesStay, queue
  <2>2. \A q \in Threads : worker[q].pc = "invoked" => worker[q].msg \in cut'
    BY <2>1, HeldFact
  <2>3. worker["chat"].pc = "invoked" => worker'["chat"] = worker["chat"]
    BY <1>13, <2>1, ChatIsNoThread DEF InvokeStop
  <2>4. \A m \in Msgs : Closing(m) => Closing(m)' \/ Caused(m)'
    BY <2>1, <2>2, <2>3, ChatIsNoThread DEF Closing, Caused, Mine, At
  <2>5. PICK n \in Msgs : Mine(p) = n
    BY <1>0, <2>1 DEF At
  <2>6. Closing(n)' \/ Caused(n)'
    <3>1. CASE p \in Threads \/ ends = "fail"
      BY <2>1, <2>5, <3>1 DEF Caused
    <3>2. CASE p = "chat" /\ ends = "invoked"
      <4>1. worker'["chat"].pc = "invoked" /\ worker'["chat"].msg = n
        <5>1. worker'["chat"] = [worker["chat"] EXCEPT !.pc = "invoked"]
          BY <1>13, <3>2, ChatIsNoThread DEF InvokeStop
        <5>2. worker'["chat"].msg = worker["chat"].msg
          BY <1>0, <1>13, StopFact
        <5>3. Shaped(worker["chat"])
          BY <1>0, ChatIsNoThread DEF Typed, HandlersTyped
        <5>4. worker'["chat"].pc = "invoked"
          BY <5>1, <5>3 DEF Shaped
        <5>5. QED
          BY <2>5, <3>2, <5>2, <5>4 DEF Mine
      <4>2. QED
        BY <4>1, ChatIsNoThread DEF Closing, Mine, At
    <3>3. QED
      BY <3>1, <3>2, ChatIsNoThread
  <2>7. QED
    BY <2>1, <2>4, <2>5, <2>6, DidOne
<1>14. QED
  BY <1>0, <1>2, <1>3, <1>4, <1>5, <1>7, <1>8, <1>9, <1>10, <1>11, <1>12, <1>13
     DEF Kinds, Steps1, Steps2, Steps3, Steps4, Steps5

(* A command is carried out twice for one message only when the first time  *)
(* ended between the command and the completion of the message, or when the *)
(* daemon's recovery took the message from a working chat                   *)
(* (invoke_with_context, complete_success_many, stop_active_supervisor).    *)
THEOREM RepeatsHaveCause == Spec => []RepeatHasCause
<1>1. Init => RepeatInv
  <2>1. Init => DidOnce
    BY DEF Init, DidOnce
  <2>2. QED
    BY <2>1, HoldInit DEF RepeatInv
<1>2. RepeatInv /\ [Next]_vars => RepeatInv'
  BY HoldNext, DidNext DEF RepeatInv
<1>3. RepeatInv => RepeatHasCause
  <2>1. SUFFICES ASSUME RepeatInv, NEW m \in Msgs, did[m] > 1 PROVE Caused(m)
    BY DEF RepeatHasCause, Caused
  <2>2. did[m] \in Nat /\ (did[m] > 0 => Caused(m) \/ did[m] = 1)
    BY <2>1 DEF RepeatInv, DidOnce
  <2>3. QED
    BY <2>1, <2>2
<1>4. QED
  BY <1>1, <1>2, <1>3, PTL DEF Spec

-----------------------------------------------------------------------------
(***************************************************************************)
(* The reply shows the last step.  The attempts of a run come one after    *)
(* the other in time (Timely), those of a step are numbered in the order   *)
(* they were made (Numbered), and a failed one is followed by another of   *)
(* the same step (Retried, and Awaits for the one to come).  So the        *)
(* attempts have a last one in the order of step_attempts_by_time, it has  *)
(* the times of the one made last, and it succeeded when that one did.     *)
(***************************************************************************)
Placed == {StepIds[i] : i \in 1..Len(StepIds)}

Attempt == [step : Placed, n : Nat, ok : BOOLEAN, started : Nat, ended : Nat]

OfStep(t, s) == {a \in {t[i] : i \in DOMAIN t} : a.step = s}

Timely(t, clock) ==
    /\ \A i \in DOMAIN t : t[i].started <= t[i].ended /\ t[i].ended <= clock
    /\ \A i, j \in DOMAIN t : i < j => t[i].ended <= t[j].started

Numbered(t) ==
    /\ \A s \in Placed : IsFiniteSet(OfStep(t, s))
    /\ \A i \in DOMAIN t : t[i].n <= Cardinality(OfStep(t, t[i].step))
    /\ \A i, j \in DOMAIN t : i < j /\ t[i].step = t[j].step => t[i].n < t[j].n

Retried(t) == \A i \in DOMAIN t : i + 1 \in DOMAIN t /\ ~ t[i].ok => t[i + 1].step = t[i].step

\* A set of naturals that has a bound has a greatest member.
LEMMA Greatest ==
    ASSUME NEW S, S \subseteq Nat, S # {}, NEW N \in Nat, \A x \in S : x <= N
    PROVE  \E x \in S : \A y \in S : y <= x
<1> DEFINE T == {N - x : x \in S}
<1>1. T \subseteq Nat /\ T # {}
  <2>1. \A x \in S : N - x \in Nat
    OBVIOUS
  <2> QED BY <2>1
<1>2. PICK z \in T : \A y \in T : ~(<<y, z>> \in OpToRel(<, Nat))
  <2> HIDE DEF T
  <2> QED BY <1>1, NatLessThanWellFounded, WFMin, Zenon
<1>3. \A y \in T : ~(y < z)
  <2> HIDE DEF T
  <2> QED BY <1>1, <1>2, Zenon DEF OpToRel
<1>4. PICK x \in S : z = N - x
  OBVIOUS
<1>5. ASSUME NEW y \in S PROVE y <= x
  <2>1. N - y \in T
    OBVIOUS
  <2>2. ~(N - y < N - x)
    BY <1>3, <1>4, <2>1
  <2> QED BY <2>2
<1> QED BY <1>5

LEMMA InOrder ==
    ASSUME NEW s \in Placed
    PROVE  Alphabetical(s) \in 1..Len(StepIds) /\ StepIds[Alphabetical(s)] = s
BY DEF Placed, Alphabetical

LEMMA AttemptsTyped ==
    ASSUME NEW t \in Seq(Attempt)
    PROVE  /\ Len(t) \in Nat /\ DOMAIN t = 1..Len(t)
           /\ \A i \in DOMAIN t : /\ t[i].step \in Placed /\ t[i].n \in Nat /\ t[i].ok \in BOOLEAN
                                  /\ t[i].started \in Nat /\ t[i].ended \in Nat
<1>1. Len(t) \in Nat /\ DOMAIN t = 1..Len(t)
  BY LenProperties
<1>2. \A i \in DOMAIN t : t[i] \in Attempt
  BY <1>1, ElementOfSeq
<1> QED BY <1>1, <1>2 DEF Attempt

\* Of attempts made one after the other, one is the last by time, step and number.
LEMMA LastExists ==
    ASSUME NEW t \in Seq(Attempt), t # <<>>, NEW clock, Timely(t, clock), Numbered(t)
    PROVE  \E i \in DOMAIN t : \A j \in DOMAIN t : t[j] # t[i] => Before(t[j], t[i])
<1> DEFINE L == t[Len(t)]
           J == {i \in DOMAIN t : t[i].started = L.started /\ t[i].ended = L.ended}
           P == {Alphabetical(t[i].step) : i \in J}
<1>1. /\ Len(t) \in Nat /\ DOMAIN t = 1..Len(t) /\ Len(t) \in DOMAIN t
      /\ \A i \in DOMAIN t : /\ t[i].step \in Placed /\ t[i].n \in Nat
                             /\ t[i].started \in Nat /\ t[i].ended \in Nat
  BY AttemptsTyped, EmptySeq
<1>2. Len(t) \in J /\ J \subseteq DOMAIN t
  BY <1>1
<1>3. \A i \in DOMAIN t : /\ Alphabetical(t[i].step) \in 1..Len(StepIds)
                          /\ StepIds[Alphabetical(t[i].step)] = t[i].step
  BY <1>1, InOrder
<1>4. PICK top \in P : \A y \in P : y <= top
  <2>1. \A x \in P : x \in 1..Len(StepIds)
    BY <1>2, <1>3
  <2>2. P # {}
    BY <1>2
  <2>3. P \subseteq Nat /\ \A x \in P : x <= Len(StepIds)
    <3> HIDE DEF P
    <3> QED BY <2>1, ConstantsOK
  <2> HIDE DEF P
  <2> QED BY <2>2, <2>3, Greatest, ConstantsOK
<1> DEFINE K == {i \in J : Alphabetical(t[i].step) = top}
<1>5. PICK i \in K : \A j \in K : j <= i
  <2>1. K \subseteq Nat /\ K # {} /\ \A x \in K : x <= Len(t)
    BY <1>1, <1>2, <1>4
  <2> HIDE DEF K
  <2> QED BY <1>1, <2>1, Greatest
<1>6. SUFFICES ASSUME NEW j \in DOMAIN t, t[j] # t[i] PROVE Before(t[j], t[i])
  BY <1>2
<1>7. /\ t[j].started <= t[j].ended /\ L.started <= L.ended
      /\ j # Len(t) => t[j].ended <= L.started
  BY <1>1, <1>6 DEF Timely
<1>8. CASE j \notin J
  <2>1. j # Len(t)
    BY <1>2, <1>8
  <2> QED BY <1>1, <1>6, <1>7, <1>8, <2>1 DEF Before
<1>9. CASE j \in J
  <2>1. Alphabetical(t[j].step) <= top
    BY <1>4, <1>9
  <2>2. CASE Alphabetical(t[j].step) # top
    BY <1>1, <1>2, <1>3, <1>5, <1>6, <1>9, <2>1, <2>2 DEF Before
  <2>3. CASE Alphabetical(t[j].step) = top
    <3>1. t[j].step = t[i].step
      BY <1>3, <1>2, <2>3
    <3>2. j <= i /\ j # i
      BY <1>5, <1>6, <1>9, <2>3
    <3>3. t[j].n < t[i].n
      BY <1>1, <1>2, <1>6, <3>1, <3>2 DEF Numbered
    <3> QED BY <1>9, <3>1, <3>3 DEF Before
  <2> QED BY <2>2, <2>3
<1> QED BY <1>8, <1>9

\* step_attempts_last is that attempt, has the times of the one made last, and
\* succeeded when that one did.
LEMMA LastFact ==
    ASSUME NEW t \in Seq(Attempt), t # <<>>, NEW clock, Timely(t, clock), Numbered(t), Retried(t)
    PROVE  \E i \in DOMAIN t :
               /\ step_attempts_last({t[j] : j \in DOMAIN t}) = t[i]
               /\ t[i].started = t[Len(t)].started /\ t[i].ended = t[Len(t)].ended
               /\ t[Len(t)].ok => t[i].ok
<1> DEFINE A == {t[j] : j \in DOMAIN t}
           last == step_attempts_last(A)
<1>1. last \in A /\ \A b \in A \ {last} : Before(b, last)
  <2>1. \E a \in A : \A b \in A \ {a} : Before(b, a)
    BY LastExists
  <2> HIDE DEF A
  <2> QED BY <2>1 DEF step_attempts_last
<1>2. PICK i \in DOMAIN t : last = t[i]
  BY <1>1
<1>3. \A j \in DOMAIN t : t[j] # t[i] => Before(t[j], t[i])
  <2> HIDE DEF last
  <2> QED BY <1>1, <1>2
<1>4. /\ Len(t) \in Nat /\ DOMAIN t = 1..Len(t) /\ Len(t) \in DOMAIN t
      /\ \A j \in DOMAIN t : /\ t[j].step \in Placed /\ t[j].n \in Nat
                             /\ t[j].started \in Nat /\ t[j].ended \in Nat
  BY AttemptsTyped, EmptySeq
<1>5. \A j \in DOMAIN t : /\ Alphabetical(t[j].step) \in 1..Len(StepIds)
  BY <1>4, InOrder
<1>6. t[i].started = t[Len(t)].started /\ t[i].ended = t[Len(t)].ended
  <2>1. CASE t[Len(t)] = t[i]
    BY <2>1
  <2>2. CASE t[Len(t)] # t[i]
    <3>1. Before(t[Len(t)], t[i])
      BY <1>3, <1>4, <2>2
    <3>2. i < Len(t)
      BY <1>4, <2>2
    <3>3. /\ t[i].started <= t[i].ended /\ t[i].ended <= t[Len(t)].started
          /\ t[Len(t)].started <= t[Len(t)].ended
      BY <1>4, <3>2 DEF Timely
    <3> QED BY <1>4, <3>1, <3>3 DEF Before
  <2> QED BY <2>1, <2>2
<1>7. ASSUME t[Len(t)].ok, ~ t[i].ok PROVE FALSE
  <2>1. i < Len(t) /\ i + 1 \in DOMAIN t
    BY <1>4, <1>7
  <2>2. t[i + 1].step = t[i].step
    BY <1>7, <2>1 DEF Retried
  <2>3. t[i].n < t[i + 1].n
    BY <1>4, <2>1, <2>2 DEF Numbered
  <2>4. /\ t[i].started <= t[i].ended /\ t[i].ended <= t[i + 1].started
        /\ t[i + 1].started <= t[i + 1].ended
    BY <1>4, <2>1 DEF Timely
  <2>5. Before(t[i + 1], t[i])
    BY <1>3, <1>4, <2>1, <2>3
  <2> QED BY <1>4, <1>5, <2>1, <2>2, <2>3, <2>4, <2>5 DEF Before
<1> QED BY <1>2, <1>6, <1>7

LEMMA Appended ==
    ASSUME NEW t \in Seq(Attempt), NEW a \in Attempt
    PROVE  /\ Append(t, a) \in Seq(Attempt) /\ DOMAIN Append(t, a) = 1..(Len(t) + 1)
           /\ Len(Append(t, a)) = Len(t) + 1
           /\ \A i \in DOMAIN t : Append(t, a)[i] = t[i]
           /\ Append(t, a)[Len(t) + 1] = a
           /\ Append(t, a) # <<>>
<1>1. Append(t, a) \in Seq(Attempt) /\ Len(Append(t, a)) = Len(t) + 1 /\ Len(t) \in Nat /\ DOMAIN t = 1..Len(t)
  BY LenProperties
<1>2. DOMAIN Append(t, a) = 1..(Len(t) + 1)
  BY <1>1, LenProperties
<1> QED BY <1>1, <1>2, EmptySeq

\* An attempt of the step that is due, begun when the clock shows c.
LEMMA AttemptMade ==
    ASSUME NEW t \in Seq(Attempt), NEW c \in Nat, Timely(t, c), Numbered(t), Retried(t),
           NEW a \in Attempt, NEW e \in Nat, a.started = c, a.started <= a.ended, a.ended <= e,
           a.n = Cardinality(OfStep(t, a.step)) + 1,
           t # <<>> /\ ~ t[Len(t)].ok => t[Len(t)].step = a.step
    PROVE  Timely(Append(t, a), e) /\ Numbered(Append(t, a)) /\ Retried(Append(t, a))
<1> DEFINE u == Append(t, a)
           N == Len(t)
<1>1. /\ N \in Nat /\ DOMAIN t = 1..N
      /\ \A i \in DOMAIN t : /\ t[i].step \in Placed /\ t[i].n \in Nat /\ t[i].ok \in BOOLEAN
                             /\ t[i].started \in Nat /\ t[i].ended \in Nat
      /\ a.step \in Placed /\ a.n \in Nat /\ a.started \in Nat /\ a.ended \in Nat
      /\ N > 0 => t # <<>>
  <2>1. a.step \in Placed /\ a.n \in Nat /\ a.started \in Nat /\ a.ended \in Nat
    BY DEF Attempt
  <2> QED BY <2>1, AttemptsTyped, EmptySeq
<1>2. /\ DOMAIN u = 1..(N + 1) /\ (\A i \in DOMAIN t : u[i] = t[i]) /\ u[N + 1] = a
  BY Appended
<1> HIDE DEF u, N
<1>3. Timely(u, e)
  <2>1. ASSUME NEW i \in DOMAIN u PROVE u[i].started <= u[i].ended /\ u[i].ended <= e
    <3>1. CASE i = N + 1
      BY <1>2, <3>1
    <3>2. CASE i # N + 1
      <4>1. i \in DOMAIN t /\ u[i] = t[i]
        BY <1>1, <1>2, <3>2
      <4>2. t[i].started <= t[i].ended /\ t[i].ended <= c
        BY <4>1 DEF Timely
      <4> QED BY <1>1, <4>1, <4>2
    <3> QED BY <3>1, <3>2
  <2>2. ASSUME NEW i \in DOMAIN u, NEW j \in DOMAIN u, i < j PROVE u[i].ended <= u[j].started
    <3>1. i \in DOMAIN t /\ u[i] = t[i]
      BY <1>1, <1>2, <2>2
    <3>2. CASE j = N + 1
      BY <1>2, <3>1, <3>2 DEF Timely
    <3>3. CASE j # N + 1
      <4>1. j \in DOMAIN t /\ u[j] = t[j]
        BY <1>1, <1>2, <3>3
      <4> QED BY <2>2, <3>1, <4>1 DEF Timely
    <3> QED BY <3>2, <3>3
  <2> QED BY <2>1, <2>2 DEF Timely
<1>4. /\ OfStep(u, a.step) = OfStep(t, a.step) \cup {a}
      /\ \A s : s # a.step => OfStep(u, s) = OfStep(t, s)
  <2>1. \A x : x \in {u[i] : i \in DOMAIN u} <=> x \in {t[i] : i \in DOMAIN t} \/ x = a
    <3>1. ASSUME NEW i \in DOMAIN u PROVE u[i] \in {t[k] : k \in DOMAIN t} \/ u[i] = a
      <4>1. CASE i = N + 1
        BY <1>2, <4>1
      <4>2. CASE i # N + 1
        BY <1>1, <1>2, <4>2
      <4> QED BY <4>1, <4>2
    <3>2. ASSUME NEW i \in DOMAIN t PROVE t[i] \in {u[k] : k \in DOMAIN u}
      BY <1>1, <1>2
    <3>3. a \in {u[k] : k \in DOMAIN u}
      BY <1>1, <1>2
    <3> QED BY <3>1, <3>2, <3>3
  <2> QED BY <2>1 DEF OfStep
<1>5. \A i \in DOMAIN t : t[i].step = a.step => t[i].n < a.n
  BY <1>1, FS_CardinalityType DEF Numbered
<1>6. a \notin OfStep(t, a.step)
  BY <1>1, <1>5 DEF OfStep
<1>7. /\ IsFiniteSet(OfStep(t, a.step)) /\ IsFiniteSet(OfStep(u, a.step))
      /\ Cardinality(OfStep(t, a.step)) \in Nat
      /\ Cardinality(OfStep(u, a.step)) = Cardinality(OfStep(t, a.step)) + 1
  BY <1>1, <1>4, <1>6, FS_AddElement, FS_CardinalityType DEF Numbered
<1>8. Numbered(u)
  <2>1. \A s \in Placed : IsFiniteSet(OfStep(u, s))
    BY <1>4, <1>7 DEF Numbered
  <2>2. ASSUME NEW i \in DOMAIN u PROVE u[i].n <= Cardinality(OfStep(u, u[i].step))
    <3>1. CASE i = N + 1
      BY <1>2, <1>7, <3>1
    <3>2. CASE i # N + 1
      <4>1. i \in DOMAIN t /\ u[i] = t[i]
        BY <1>1, <1>2, <3>2
      <4>2. t[i].n <= Cardinality(OfStep(t, t[i].step))
        BY <4>1 DEF Numbered
      <4>3. CASE t[i].step = a.step
        BY <1>1, <1>7, <4>1, <4>2, <4>3
      <4>4. CASE t[i].step # a.step
        BY <1>4, <4>1, <4>2, <4>4
      <4> QED BY <4>3, <4>4
    <3> QED BY <3>1, <3>2
  <2>3. ASSUME NEW i \in DOMAIN u, NEW j \in DOMAIN u, i < j, u[i].step = u[j].step PROVE u[i].n < u[j].n
    <3>1. i \in DOMAIN t /\ u[i] = t[i]
      BY <1>1, <1>2, <2>3
    <3>2. CASE j = N + 1
      BY <1>2, <1>5, <2>3, <3>1, <3>2
    <3>3. CASE j # N + 1
      <4>1. j \in DOMAIN t /\ u[j] = t[j]
        BY <1>1, <1>2, <3>3
      <4> QED BY <2>3, <3>1, <4>1 DEF Numbered
    <3> QED BY <3>2, <3>3
  <2> QED BY <2>1, <2>2, <2>3 DEF Numbered
<1>9. Retried(u)
  <2>1. SUFFICES ASSUME NEW i \in DOMAIN u, i + 1 \in DOMAIN u, ~ u[i].ok PROVE u[i + 1].step = u[i].step
    BY DEF Retried
  <2>2. i \in DOMAIN t /\ u[i] = t[i]
    BY <1>1, <1>2, <2>1
  <2>3. CASE i = N
    BY <1>1, <1>2, <2>1, <2>2, <2>3 DEF N
  <2>4. CASE i # N
    BY <1>1, <1>2, <2>1, <2>2, <2>4 DEF Retried
  <2> QED BY <2>3, <2>4
<1> QED BY <1>3, <1>8, <1>9 DEF u

-----------------------------------------------------------------------------
(* The runs                                                                *)

States == {"running", "succeeded", "canceled", "failed"}

RunType == [msg : Msgs, wf : DOMAIN Workflows, state : States, tried : Seq(Attempt), clock : Nat]

\* The step whose attempt failed is the one to come, if the run goes on.
Awaits(r) ==
    r.tried # <<>> /\ ~ r.tried[Len(r.tried)].ok =>
        Pos(r) <= Len(Steps(r)) /\ Steps(r)[Pos(r)] = r.tried[Len(r.tried)].step

RunOK(r) ==
    /\ Timely(r.tried, r.clock) /\ Numbered(r.tried) /\ Retried(r.tried) /\ Awaits(r)
    /\ r.state = "succeeded" => Pos(r) > Len(Steps(r))

LEMMA RunFields ==
    ASSUME NEW r \in RunType
    PROVE  /\ r.msg \in Msgs /\ r.wf \in DOMAIN Workflows /\ r.state \in States
           /\ r.tried \in Seq(Attempt) /\ r.clock \in Nat
           /\ Pos(r) \in Nat /\ Pos(r) >= 1
<1>1. r.msg \in Msgs /\ r.wf \in DOMAIN Workflows /\ r.state \in States /\ r.tried \in Seq(Attempt) /\ r.clock \in Nat
  BY DEF RunType
<1>2. Len(r.tried) \in Nat /\ DOMAIN r.tried = 1..Len(r.tried)
  BY <1>1, AttemptsTyped
<1> DEFINE S == {i \in DOMAIN r.tried : r.tried[i].ok}
<1>3. S \in SUBSET (1..Len(r.tried)) /\ IsFiniteSet(1..Len(r.tried))
  BY <1>2, FS_Interval
<1>4. IsFiniteSet(S)
  <2> HIDE DEF S
  <2> QED BY <1>3, FS_Subset
<1>5. Cardinality(S) \in Nat
  <2> HIDE DEF S
  <2> QED BY <1>4, FS_CardinalityType
<1> QED BY <1>1, <1>5 DEF Pos

\* What an attempt makes of a run.
LEMMA RunGoesOn ==
    ASSUME NEW r \in RunType, RunOK(r), Pos(r) <= Len(Steps(r)),
           NEW ok \in BOOLEAN, NEW d \in {0, 1}, NEW g \in {0, 1}, NEW q, NEW a,
           a = [step |-> a.step, n |-> a.n, ok |-> a.ok, started |-> a.started, ended |-> a.ended],
           a.step = Steps(r)[Pos(r)], a.n = Cardinality(OfStep(r.tried, a.step)) + 1, a.ok = ok,
           a.started = r.clock, a.ended = r.clock + d,
           q.tried = Append(r.tried, a), q.clock = r.clock + d + g, q.wf = r.wf, q.state # "succeeded"
    PROVE  RunOK(q) /\ q.tried \in Seq(Attempt) /\ q.clock \in Nat
<1> DEFINE t == r.tried
           s == Steps(r)[Pos(r)]
<1>1. /\ t \in Seq(Attempt) /\ r.clock \in Nat /\ Pos(r) \in Nat /\ Pos(r) >= 1 /\ r.wf \in DOMAIN Workflows
      /\ Timely(t, r.clock) /\ Numbered(t) /\ Retried(t) /\ Awaits(r)
  BY RunFields DEF RunOK
<1>2. s \in Placed
  BY <1>1, ConstantsOK DEF Steps, Placed
<1>3. a.n = Cardinality(OfStep(t, s)) + 1 /\ a.step = s /\ a.ok = ok /\ a.started = r.clock /\ a.ended = r.clock + d
  OBVIOUS
<1>4. a \in Attempt
  <2>1. Cardinality(OfStep(t, s)) \in Nat
    BY <1>1, <1>2, FS_CardinalityType DEF Numbered
  <2>2. a = [step |-> s, n |-> a.n, ok |-> ok, started |-> r.clock, ended |-> r.clock + d] /\ a.n \in Nat
    BY <1>3, <2>1
  <2>3. r.clock + d \in Nat
    BY <1>1
  <2> HIDE DEF s, t
  <2> QED BY <1>1, <1>2, <2>2, <2>3 DEF Attempt
<1>5. t # <<>> /\ ~ t[Len(t)].ok => t[Len(t)].step = a.step
  BY <1>1, <1>3 DEF Awaits
<1>6. q.clock \in Nat /\ a.started <= a.ended /\ a.ended <= q.clock
  BY <1>1, <1>3
<1>7. Timely(q.tried, q.clock) /\ Numbered(q.tried) /\ Retried(q.tried)
  <2> HIDE DEF s
  <2> QED BY <1>1, <1>3, <1>4, <1>5, <1>6, AttemptMade
<1>8. /\ q.tried \in Seq(Attempt) /\ Len(q.tried) = Len(t) + 1 /\ DOMAIN q.tried = 1..(Len(t) + 1)
      /\ q.tried[Len(t) + 1] = a /\ \A i \in DOMAIN t : q.tried[i] = t[i]
      /\ Len(t) \in Nat /\ DOMAIN t = 1..Len(t)
  BY <1>1, <1>4, Appended, AttemptsTyped
<1>9. Awaits(q)
  <2>1. CASE ok
    BY <1>3, <1>8, <2>1 DEF Awaits
  <2>2. CASE ~ ok
    <3>1. {i \in DOMAIN q.tried : q.tried[i].ok} = {i \in DOMAIN t : t[i].ok}
      <4> HIDE DEF s, t
      <4>1. ASSUME NEW i \in DOMAIN q.tried, q.tried[i].ok PROVE i \in DOMAIN t
        BY <1>3, <1>8, <2>2, <4>1
      <4>2. DOMAIN t \subseteq DOMAIN q.tried
        BY <1>8
      <4> QED BY <1>8, <4>1, <4>2
    <3>2. Pos(q) = Pos(r)
      BY <3>1 DEF Pos
    <3> QED BY <1>3, <1>8, <3>2 DEF Awaits, Steps
  <2> QED BY <2>1, <2>2
<1> QED BY <1>6, <1>7, <1>8, <1>9 DEF RunOK

-----------------------------------------------------------------------------
(* The replies                                                             *)

Shown(o) == o.what \in {"output", "completed"}

\* The step a reply shows is the last one made, or one in the same seconds.
ShowsLast(o, t) ==
    \/ o.step = t[Len(t)].step
    \/ \E i \in DOMAIN t :
          t[i].step = o.step /\ t[i].started = t[Len(t)].started /\ t[i].ended = t[Len(t)].ended

LEMMA SaysFields == ASSUME NEW w, NEW s PROVE Says(w, s).what = w /\ Says(w, s).step = s
BY DEF Says

LEMMA ShowsStep == ASSUME NEW a PROVE Shows(a).step = a.step
BY SaysFields DEF Shows

LEMMA LifecycleShows ==
    ASSUME NEW r \in RunType, RunOK(r), NEW state \in {"succeeded", "canceled", "failed"},
           state = "succeeded" => Pos(r) > Len(Steps(r)),
           NEW says \in workflow_lifecycle_messages(Tried(r), state), NEW x \in says, Shown(x)
    PROVE  ShowsLast(x, r.tried)
<1> DEFINE t == r.tried
           A == Tried(r)
           last == step_attempts_last(A)
<1>1. /\ t \in Seq(Attempt) /\ Pos(r) \in Nat /\ r.wf \in DOMAIN Workflows
      /\ Timely(t, r.clock) /\ Numbered(t) /\ Retried(t) /\ Awaits(r)
  BY RunFields DEF RunOK
<1>2. A # {}
  <2>1. SUFFICES ASSUME A = {} PROVE FALSE
    OBVIOUS
  <2>2. says = {Says("started", "none")}
    BY <2>1 DEF workflow_lifecycle_messages
  <2> QED BY <2>2, SaysFields DEF Shown
<1>3. t # <<>>
  BY <1>2 DEF Tried
<1>4. PICK i \in DOMAIN t :
          /\ last = t[i] /\ t[i].started = t[Len(t)].started /\ t[i].ended = t[Len(t)].ended
          /\ t[Len(t)].ok => t[i].ok
  BY <1>1, <1>3, LastFact DEF Tried
<1>5. PICK final \in final_user_message(A, state) :
          says = {Says("retrying", a.step) : a \in {b \in A : ~ b.ok}} \cup {final}
  BY <1>2 DEF workflow_lifecycle_messages
<1>6. x = final
  <2>1. ASSUME NEW a PROVE ~ Shown(Says("retrying", a.step))
    BY SaysFields DEF Shown
  <2> HIDE DEF A
  <2> QED BY <1>5, <2>1
<1>7. CASE last.ok
  <2>1. final = Shows(last)
    <3> HIDE DEF last
    <3>1. step_attempts_last(A) = last
      BY DEF last
    <3> QED BY <1>7, <3>1 DEF final_user_message
  <2> QED BY <1>4, <1>6, <2>1, ShowsStep DEF ShowsLast
<1>8. CASE ~ last.ok /\ state # "succeeded"
  <2>1. final = Says(state, "none")
    BY <1>8 DEF final_user_message
  <2> QED BY <1>6, <2>1, SaysFields DEF Shown
<1>9. CASE ~ last.ok /\ state = "succeeded"
  <2>1. ~ t[Len(t)].ok
    BY <1>4, <1>9
  <2>2. Pos(r) <= Len(Steps(r)) /\ Pos(r) > Len(Steps(r))
    BY <1>1, <1>3, <1>9, <2>1 DEF Awaits
  <2> QED BY <1>1, <2>2, ConstantsOK DEF Steps
<1> QED BY <1>7, <1>8, <1>9

ShownOK == \A o \in out : Shown(o) =>
    o.run \in DOMAIN runs /\ Terminal(o.run) /\ ShowsLast(o, runs[o.run].tried)

RunsOK == runs \in Seq(RunType) /\ \A k \in DOMAIN runs : RunOK(runs[k])

\* A handler in the engine has a run, and one that will start a workflow has one that is declared.
Startable(w) ==
    /\ w.pick.action = "workflow_start" => w.pick.of \in DOMAIN Workflows
    /\ w.pc = "acked" => w.pick.action = "workflow_start"

WorkerOK(w, R) == (w.pc = "engine" => w.run \in R) /\ Startable(w)

RunsInv == RunsOK /\ ShownOK /\ \A p \in Handlers : WorkerOK(worker[p], DOMAIN runs)

\* No handler enters the engine, and what one is about to start is declared.
Unmoved ==
    \A q \in Handlers : worker'[q] = worker[q] \/ (worker'[q].pc # "engine" /\ Startable(worker'[q]))

\* A step that leaves the runs alone and shows no output.
Calm ==
    /\ UNCHANGED runs /\ \A o \in out' \ out : ~ Shown(o)
    /\ Unmoved

LEMMA CalmKeeps == ASSUME RunsInv, Calm PROVE RunsInv'
<1>1. RunsOK' /\ DOMAIN runs' = DOMAIN runs
  BY DEF RunsInv, RunsOK, Calm, Unmoved
<1>2. ShownOK'
  BY DEF RunsInv, ShownOK, Calm, Unmoved, Terminal
<1>3. \A p \in Handlers : WorkerOK(worker'[p], DOMAIN runs)
  BY DEF RunsInv, WorkerOK, Calm, Unmoved
<1> QED BY <1>1, <1>2, <1>3 DEF RunsInv

LEMMA CompleteOut ==
    ASSUME NEW p \in Handlers, NEW says, NEW k, Complete(p, says, k)
    PROVE  \A o \in out' \ out : o.run = k /\ \E x \in says : o.what = x.what /\ o.step = x.step
<1>1. PICK some \in SUBSET says : Adds(p, some, k)
  BY DEF Complete, Completed, CompletionFails, Adds
<1>2. SUFFICES ASSUME NEW o \in out' \ out PROVE o.run = k /\ \E x \in says : o.what = x.what /\ o.step = x.step
  OBVIOUS
<1>3. PICK x \in some : o = [Reply(Mine(p), x) EXCEPT !.run = k]
  BY <1>1, <1>2 DEF Adds
<1>4. o = [msg |-> Mine(p), what |-> x.what, step |-> x.step, run |-> k]
  BY <1>3 DEF Reply
<1> QED BY <1>4

LEMMA IdleHarmless == Idle.pc # "engine" /\ Startable(Idle) /\ NoAnswer.action # "workflow_start"
BY DEF Idle, NoAnswer, Startable

LEMMA EndIdle ==
    ASSUME Typed, NEW p \in Handlers, worker' = [worker EXCEPT ![p] = Idle]
    PROVE  Unmoved
<1>1. worker'[p] = Idle /\ \A q \in Handlers \ {p} : worker'[q] = worker[q]
  BY Replaced DEF Typed
<1> QED BY <1>1, IdleHarmless DEF Unmoved

LEMMA CompleteIdles ==
    ASSUME Typed, NEW p \in Handlers, NEW says, NEW k, Complete(p, says, k)
    PROVE  Unmoved
<1>1. worker' = [worker EXCEPT ![p] = Idle]
  BY DEF Complete, Completed, CompletionFails, End
<1> QED BY <1>1, EndIdle

LEMMA CompleteCalm ==
    ASSUME Typed, NEW p \in Handlers, NEW w, w \notin {"output", "completed"}, NEW k,
           Complete(p, Plain(w), k) \/ Complete(p, {}, k), UNCHANGED runs
    PROVE  Calm
<1>1. \A o \in out' \ out : ~ Shown(o)
  <2>1. \A x \in Plain(w) : x.what = w
    BY SaysFields DEF Plain
  <2> QED BY <2>1, CompleteOut DEF Shown
<1> QED BY <1>1, CompleteIdles DEF Calm

\* A handler's record with its place replaced, and its run or what was active.
LEMMA Moved ==
    ASSUME Typed, NEW p \in Handlers, NEW pc, worker' = [worker EXCEPT ![p].pc = pc]
    PROVE  /\ worker'[p].pc = pc /\ worker'[p].pick = worker[p].pick
           /\ \A q \in Handlers \ {p} : worker'[q] = worker[q]
<1>1. PICK a, b, c, d, e, f, g : worker[p] = [pc |-> a, msg |-> b, name |-> c, n |-> d, active |-> e, run |-> f, pick |-> g]
  BY DEF Typed, HandlersTyped, Shaped
<1>2. worker'[p] = [worker[p] EXCEPT !.pc = pc] /\ \A q \in Handlers \ {p} : worker'[q] = worker[q]
  BY DEF Typed, HandlersTyped
<1>3. worker'[p] = [pc |-> pc, msg |-> b, name |-> c, n |-> d, active |-> e, run |-> f, pick |-> g]
  BY <1>1, <1>2
<1> QED BY <1>1, <1>2, <1>3

LEMMA MovedActive ==
    ASSUME Typed, NEW p \in Handlers, NEW pc, NEW k, worker' = [worker EXCEPT ![p].active = k, ![p].pc = pc]
    PROVE  /\ worker'[p].pc = pc /\ worker'[p].pick = worker[p].pick
           /\ \A q \in Handlers \ {p} : worker'[q] = worker[q]
<1> DEFINE r == [worker[p] EXCEPT !.active = k]
<1>1. PICK a, b, c, d, e, f, g : worker[p] = [pc |-> a, msg |-> b, name |-> c, n |-> d, active |-> e, run |-> f, pick |-> g]
  BY DEF Typed, HandlersTyped, Shaped
<1>2. worker'[p] = [r EXCEPT !.pc = pc] /\ \A q \in Handlers \ {p} : worker'[q] = worker[q]
  BY DEF Typed, HandlersTyped
<1>3. r = [pc |-> a, msg |-> b, name |-> c, n |-> d, active |-> k, run |-> f, pick |-> g]
  BY <1>1
<1> HIDE DEF r
<1>4. worker'[p] = [pc |-> pc, msg |-> b, name |-> c, n |-> d, active |-> k, run |-> f, pick |-> g]
  BY <1>2, <1>3
<1>5. worker'[p].pick = g /\ worker'[p].pc = pc /\ worker[p].pick = g
  BY <1>1, <1>4
<1> QED BY <1>2, <1>5

LEMMA MovedRun ==
    ASSUME Typed, NEW p \in Handlers, NEW pc, NEW k, worker' = [worker EXCEPT ![p].pc = pc, ![p].run = k]
    PROVE  /\ worker'[p].pc = pc /\ worker'[p].pick = worker[p].pick /\ worker'[p].run = k
           /\ \A q \in Handlers \ {p} : worker'[q] = worker[q]
<1> DEFINE r == [worker[p] EXCEPT !.pc = pc]
<1>1. PICK a, b, c, d, e, f, g : worker[p] = [pc |-> a, msg |-> b, name |-> c, n |-> d, active |-> e, run |-> f, pick |-> g]
  BY DEF Typed, HandlersTyped, Shaped
<1>2. worker'[p] = [r EXCEPT !.run = k] /\ \A q \in Handlers \ {p} : worker'[q] = worker[q]
  BY DEF Typed, HandlersTyped
<1>3. r = [pc |-> pc, msg |-> b, name |-> c, n |-> d, active |-> e, run |-> f, pick |-> g]
  BY <1>1
<1> HIDE DEF r
<1>4. worker'[p] = [pc |-> pc, msg |-> b, name |-> c, n |-> d, active |-> e, run |-> k, pick |-> g]
  BY <1>2, <1>3
<1>5. worker'[p].pc = pc /\ worker'[p].pick = g /\ worker'[p].run = k /\ worker[p].pick = g
  BY <1>1, <1>4
<1> QED BY <1>2, <1>5

\* What the selector's answer makes of a handler.
LEMMA ConsiderStartable ==
    ASSUME Typed, NEW p \in Handlers, At(p, "select"), Startable(worker[p]), NEW a
    PROVE  Consider(p, a).pc # "engine" /\ Startable(Consider(p, a))
<1> DEFINE m == Mine(p)
           Good(x) == x.action = "workflow_start" => x.of \in DOMAIN Workflows
<1>0. PICK b, c, d, e, f, g : worker[p] = [pc |-> "select", msg |-> b, name |-> c, n |-> d, active |-> e, run |-> f, pick |-> g]
  BY DEF Typed, HandlersTyped, Shaped, At
<1>1. /\ \A x : Good(x) => Good(enforce_no_response_policy(m, x))
      /\ Good(Fallback(m))
      /\ a.action # "none" /\ Valid(m, a) => Good(a)
  BY ConstantsOK DEF enforce_no_response_policy, Fallback, Valid
<1>2. ASSUME NEW x, Good(x), Consider(p, a) = [worker[p] EXCEPT !.pc = "selected", !.pick = x]
      PROVE  Consider(p, a).pc # "engine" /\ Startable(Consider(p, a))
  <2> DEFINE r == [worker[p] EXCEPT !.pc = "selected"]
  <2>1. r = [pc |-> "selected", msg |-> b, name |-> c, n |-> d, active |-> e, run |-> f, pick |-> g]
    BY <1>0
  <2>2. Consider(p, a) = [r EXCEPT !.pick = x]
    BY <1>2
  <2> HIDE DEF r
  <2>3. Consider(p, a) = [pc |-> "selected", msg |-> b, name |-> c, n |-> d, active |-> e, run |-> f, pick |-> x]
    BY <2>1, <2>2
  <2> QED BY <1>2, <2>3 DEF Startable
<1>3. CASE Consider(p, a) = [worker[p] EXCEPT !.n = @ + 1]
  <2>1. Consider(p, a) = [pc |-> "select", msg |-> b, name |-> c, n |-> d + 1, active |-> e, run |-> f, pick |-> g]
    BY <1>0, <1>3
  <2>2. Consider(p, a).pick = worker[p].pick /\ Consider(p, a).pc = "select"
    BY <1>0, <2>1
  <2> QED BY <2>2 DEF Startable
<1>4. \/ /\ a.action # "none" /\ Valid(m, a)
         /\ Consider(p, a) = [worker[p] EXCEPT !.pc = "selected", !.pick = enforce_no_response_policy(m, a)]
      \/ Consider(p, a) = [worker[p] EXCEPT !.n = @ + 1]
      \/ Consider(p, a) = [worker[p] EXCEPT !.pc = "selected", !.pick = enforce_no_response_policy(m, Fallback(m))]
  BY DEF Consider
<1> HIDE DEF Good, m
<1> QED BY <1>1, <1>2, <1>3, <1>4

\* One run changes, and new replies that show a step are about it, after it has ended.
LEMMA RunChanges ==
    ASSUME RunsInv, NEW k \in DOMAIN runs, NEW r \in RunType, RunOK(r), runs' = [runs EXCEPT ![k] = r],
           Terminal(k) => r.state # "running" /\ r.tried = runs[k].tried,
           \A o \in out' \ out : Shown(o) => o.run = k /\ r.state # "running" /\ ShowsLast(o, r.tried),
           Unmoved
    PROVE  RunsInv'
<1>1. /\ Len(runs) \in Nat /\ DOMAIN runs = 1..Len(runs) /\ runs \in Seq(RunType)
  BY LenProperties DEF RunsInv, RunsOK
<1>2. /\ runs' \in Seq(RunType) /\ Len(runs') = Len(runs)
      /\ \A j \in 1..Len(runs) : runs'[j] = IF j = k THEN r ELSE runs[j]
  BY <1>1, ExceptSeq
<1>3. DOMAIN runs' = DOMAIN runs
  BY <1>1, <1>2, LenProperties
<1>4. RunsOK'
  BY <1>1, <1>2, <1>3 DEF RunsInv, RunsOK
<1>5. ShownOK'
  <2>1. SUFFICES ASSUME NEW o \in out', Shown(o)
                 PROVE  o.run \in DOMAIN runs' /\ runs'[o.run].state # "running" /\ ShowsLast(o, runs'[o.run].tried)
    BY DEF ShownOK, Terminal
  <2>2. CASE o \in out
    <3>1. o.run \in DOMAIN runs /\ runs[o.run].state # "running" /\ ShowsLast(o, runs[o.run].tried)
      BY <2>1, <2>2 DEF RunsInv, ShownOK, Terminal
    <3> QED BY <1>1, <1>2, <1>3, <3>1 DEF Terminal
  <2>3. CASE o \notin out
    BY <1>1, <1>2, <1>3, <2>1, <2>3
  <2> QED BY <2>2, <2>3
<1>6. \A p \in Handlers : WorkerOK(worker'[p], DOMAIN runs)
  BY DEF RunsInv, WorkerOK, Unmoved
<1> QED BY <1>3, <1>4, <1>5, <1>6 DEF RunsInv

\* A run with another state.
LEMMA StateSet ==
    ASSUME NEW r \in RunType, RunOK(r), NEW x \in States, x = "succeeded" => Pos(r) > Len(Steps(r)), NEW q,
           q = [r EXCEPT !.state = x]
    PROVE  q \in RunType /\ RunOK(q) /\ q.state = x /\ q.tried = r.tried
<1>1. q \in RunType /\ q.state = x /\ q.tried = r.tried /\ q.clock = r.clock /\ q.wf = r.wf
  BY DEF RunType
<1>2. Pos(q) = Pos(r) /\ Steps(q) = Steps(r)
  BY <1>1 DEF Pos, Steps
<1> QED BY <1>1, <1>2 DEF RunOK, Awaits

\* A handler moves on, and neither to the engine nor to the start of a run.
LEMMA GotoCalm ==
    ASSUME Typed, RunsInv, NEW p \in Handlers, NEW pc, pc \notin {"engine", "acked"}, Goto(p, pc)
    PROVE  Unmoved
<1>1. /\ worker'[p].pc = pc /\ worker'[p].pick = worker[p].pick
      /\ \A q \in Handlers \ {p} : worker'[q] = worker[q]
  BY Moved DEF Goto
<1> QED BY <1>1 DEF Unmoved, RunsInv, WorkerOK, Startable

LEMMA BeginRuns == ASSUME Typed, RunsInv, NEW p \in Handlers, Begin(p) PROVE Calm
<1>1. PICK k, pc : /\ worker' = [worker EXCEPT ![p].active = k, ![p].pc = pc] /\ pc \in {"resume", "select"}
  <2>1. PICK k : worker' = [worker EXCEPT ![p].active = k,
            ![p].pc = IF Msg(Mine(p)).run /= 0 /\ Msg(Mine(p)).text /= "status" THEN "resume" ELSE "select"]
    BY DEF Begin
  <2> QED BY <2>1
<1>2. UNCHANGED <<runs, out>>
  BY DEF Begin, store
<1>3. worker'[p].pc = pc /\ worker'[p].pick = worker[p].pick /\ \A q \in Handlers \ {p} : worker'[q] = worker[q]
  BY <1>1, MovedActive
<1>4. Startable(worker'[p])
  BY <1>1, <1>3 DEF RunsInv, WorkerOK, Startable
<1> QED BY <1>1, <1>2, <1>3, <1>4 DEF Calm, Unmoved

LEMMA ResumeRuns == ASSUME Typed, RunsInv, NEW p \in Handlers, Resume(p) PROVE RunsInv'
<1> DEFINE k == Msg(Mine(p)).run
<1>1. CASE UNCHANGED runs /\ (Complete(p, Plain("missing"), 0) \/ Complete(p, Plain("status"), k))
  <2>1. Calm
    <3> HIDE DEF k
    <3> QED BY <1>1, CompleteCalm
  <2> QED BY <2>1, CalmKeeps
<1>2. CASE /\ k \in DOMAIN runs /\ worker' = [worker EXCEPT ![p].pc = "engine", ![p].run = k]
           /\ UNCHANGED <<scenario, queue, batch, chat, up, store, budget, ghosts>>
  <2>1. UNCHANGED <<runs, out>>
    BY <1>2 DEF store
  <2>2. /\ worker'[p].pc = "engine" /\ worker'[p].run = k /\ worker'[p].pick = worker[p].pick
        /\ \A q \in Handlers \ {p} : worker'[q] = worker[q]
    <3>1. PICK j : j = k
      OBVIOUS
    <3>2. worker' = [worker EXCEPT ![p].pc = "engine", ![p].run = j]
      BY <1>2, <3>1
    <3>3. /\ worker'[p].pc = "engine" /\ worker'[p].run = j /\ worker'[p].pick = worker[p].pick
          /\ \A q \in Handlers \ {p} : worker'[q] = worker[q]
      <4> HIDE DEF k
      <4> QED BY <3>2, MovedRun
    <3> QED BY <3>1, <3>3
  <2> HIDE DEF k
  <2>3. \A q \in Handlers : WorkerOK(worker'[q], DOMAIN runs)
    BY <1>2, <2>2 DEF RunsInv, WorkerOK, Startable
  <2>4. RunsOK' /\ ShownOK'
    BY <2>1 DEF RunsInv, RunsOK, ShownOK, Terminal
  <2> QED BY <2>1, <2>3, <2>4 DEF RunsInv
<1> QED BY <1>1, <1>2 DEF Resume

LEMMA SelectRuns == ASSUME Typed, RunsInv, NEW p \in Handlers, Select(p) PROVE Calm
<1>1. /\ At(p, "select") /\ UNCHANGED <<runs, out>>
      /\ \E a : worker' = [worker EXCEPT ![p] = Consider(p, a)]
  BY DEF Select, SelectorWrites, SelectorSilent, SelectorFails, store
<1>2. PICK a : worker' = [worker EXCEPT ![p] = Consider(p, a)]
  BY <1>1
<1>3. worker'[p] = Consider(p, a) /\ \A q \in Handlers \ {p} : worker'[q] = worker[q]
  BY <1>2, Replaced DEF Typed
<1>4. Startable(worker[p])
  BY DEF RunsInv, WorkerOK
<1> QED BY <1>1, <1>3, <1>4, ConsiderStartable DEF Calm, Unmoved

LEMMA AcknowledgeRuns == ASSUME Typed, RunsInv, NEW p \in Handlers, Acknowledge(p) PROVE Calm
<1>1. /\ worker[p].pick.action = "workflow_start" /\ worker' = [worker EXCEPT ![p].pc = "acked"]
      /\ out' \subseteq out \cup {Reply(Mine(p), Says("ack", "none"))} /\ UNCHANGED runs
  BY DEF Acknowledge, Picked, Goto
<1>2. /\ worker'[p].pc = "acked" /\ worker'[p].pick = worker[p].pick
      /\ \A q \in Handlers \ {p} : worker'[q] = worker[q]
  BY <1>1, Moved
<1>3. Reply(Mine(p), Says("ack", "none")).what = "ack"
  BY SaysFields DEF Reply
<1>4. \A o \in out' \ out : ~ Shown(o)
  BY <1>1, <1>3 DEF Shown
<1> QED BY <1>1, <1>2, <1>4 DEF Calm, Unmoved, RunsInv, WorkerOK, Startable

LEMMA StartRuns == ASSUME Typed, RunsInv, NEW p \in Handlers, StartRun(p) PROVE RunsInv'
<1> DEFINE w == worker[p].pick.of
           r == [msg |-> Mine(p), wf |-> w, state |-> "running", tried |-> <<>>, clock |-> 0]
<1>1. /\ worker[p].pc = "acked" /\ UNCHANGED out
      /\ runs' = Append(runs, r)
      /\ worker' = [worker EXCEPT ![p].pc = "engine", ![p].run = Len(runs) + 1]
  BY DEF StartRun, At
<1>2. Mine(p) \in Msgs /\ w \in DOMAIN Workflows
  BY <1>1 DEF Typed, HandlersTyped, At, RunsInv, WorkerOK, Startable
<1>3. r \in RunType
  <2>1. <<>> \in Seq(Attempt)
    BY EmptySeq
  <2> HIDE DEF w
  <2> QED BY <1>2, <2>1 DEF RunType, States
<1>4. RunOK(r)
  <2>1. r.tried = <<>> /\ r.state = "running" /\ DOMAIN r.tried = {}
    <3>1. DOMAIN <<>> = {}
      OBVIOUS
    <3> QED BY <3>1
  <2> HIDE DEF r
  <2>2. \A s : OfStep(r.tried, s) = {}
    BY <2>1 DEF OfStep
  <2>3. Timely(r.tried, r.clock) /\ Retried(r.tried) /\ Awaits(r)
    BY <2>1 DEF Timely, Retried, Awaits
  <2>4. Numbered(r.tried)
    BY <2>1, <2>2, FS_EmptySet DEF Numbered
  <2> QED BY <2>1, <2>3, <2>4 DEF RunOK
<1> HIDE DEF r
<1>5. /\ Len(runs) \in Nat /\ DOMAIN runs = 1..Len(runs)
      /\ runs' \in Seq(RunType) /\ Len(runs') = Len(runs) + 1 /\ DOMAIN runs' = 1..(Len(runs) + 1)
      /\ (\A i \in 1..Len(runs) : runs'[i] = runs[i]) /\ runs'[Len(runs) + 1] = r
  <2>1. runs \in Seq(RunType) /\ Len(runs) \in Nat /\ DOMAIN runs = 1..Len(runs)
    BY LenProperties DEF RunsInv, RunsOK
  <2>2. runs' \in Seq(RunType) /\ Len(runs') = Len(runs) + 1
    BY <1>1, <1>3, <2>1
  <2>3. DOMAIN runs' = 1..(Len(runs) + 1)
    BY <2>2, LenProperties
  <2> QED BY <1>1, <1>3, <2>1, <2>2, <2>3
<1>6. RunsOK'
  <2>1. \A i \in DOMAIN runs' : RunOK(runs'[i])
    <3>1. SUFFICES ASSUME NEW i \in DOMAIN runs' PROVE RunOK(runs'[i])
      OBVIOUS
    <3>2. CASE i = Len(runs) + 1
      BY <1>4, <1>5, <3>2
    <3>3. CASE i # Len(runs) + 1
      BY <1>5, <3>1, <3>3 DEF RunsInv, RunsOK
    <3> QED BY <3>2, <3>3
  <2> QED BY <1>5, <2>1 DEF RunsOK
<1>7. ShownOK'
  BY <1>1, <1>5 DEF RunsInv, ShownOK, Terminal
<1>8. \A q \in Handlers : WorkerOK(worker'[q], DOMAIN runs')
  <2>1. /\ worker'[p].pc = "engine" /\ worker'[p].run = Len(runs) + 1 /\ worker'[p].pick = worker[p].pick
        /\ \A q \in Handlers \ {p} : worker'[q] = worker[q]
    <3>1. PICK j : j = Len(runs) + 1
      OBVIOUS
    <3>2. worker' = [worker EXCEPT ![p].pc = "engine", ![p].run = j]
      BY <1>1, <3>1
    <3> QED BY <3>1, <3>2, MovedRun
  <2> QED BY <1>5, <2>1 DEF RunsInv, WorkerOK, Startable
<1> QED BY <1>6, <1>7, <1>8 DEF RunsInv

LEMMA CancelRuns ==
    ASSUME Typed, RunsInv, NEW p \in Handlers, NEW k, NEW ends \in {"invoked", "fail"}, InvokeCancel(p, k, ends)
    PROVE  RunsInv'
<1>1. CASE k \notin DOMAIN runs
  <2>1. Goto(p, "fail") /\ UNCHANGED <<runs, out>>
    BY <1>1 DEF InvokeCancel
  <2>2. Calm
    BY <2>1, GotoCalm DEF Calm
  <2> QED BY <2>2, CalmKeeps
<1>2. CASE k \in DOMAIN runs
  <2>1. /\ runs' = IF Terminal(k) THEN runs ELSE [runs EXCEPT ![k].state = "canceled"]
        /\ Goto(p, ends) /\ UNCHANGED out
    BY <1>2 DEF InvokeCancel
  <2>3. Unmoved
    BY <2>1, GotoCalm
  <2>4. CASE Terminal(k)
    <3>1. Calm
      BY <2>1, <2>3, <2>4 DEF Calm, Unmoved
    <3> QED BY <3>1, CalmKeeps
  <2>5. CASE ~ Terminal(k)
    <3> DEFINE r == [runs[k] EXCEPT !.state = "canceled"]
    <3>1. runs' = [runs EXCEPT ![k] = r]
      BY <2>1, <2>5
    <3>2. runs[k] \in RunType /\ RunOK(runs[k])
      BY <1>2, ElementOfSeq, LenProperties DEF RunsInv, RunsOK
    <3>3. r \in RunType /\ RunOK(r)
      BY <3>2, StateSet DEF States
    <3> HIDE DEF r
    <3> QED BY <1>2, <2>1, <2>3, <2>5, <3>1, <3>3, RunChanges
  <2> QED BY <2>4, <2>5
<1> QED BY <1>1, <1>2

LEMMA StopRuns ==
    ASSUME Typed, RunsInv, NEW p \in Handlers, NEW ends \in {"invoked", "fail"}, InvokeStop(p, ends)
    PROVE  Calm
<1>1. UNCHANGED <<runs, out>>
  BY DEF InvokeStop, store
<1>2. SUFFICES ASSUME NEW q \in Handlers
               PROVE  worker'[q] = worker[q] \/ (worker'[q].pc # "engine" /\ Startable(worker'[q]))
  BY <1>1 DEF Calm, Unmoved
<1>3. worker'[q] = IF q \in Threads THEN Idle
                   ELSE IF q = p THEN [worker[q] EXCEPT !.pc = ends] ELSE worker[q]
  BY DEF InvokeStop
<1>4. CASE worker'[q] = [worker[q] EXCEPT !.pc = ends]
  <2>1. PICK a, b, c, d, e, f, g : worker[q] = [pc |-> a, msg |-> b, name |-> c, n |-> d, active |-> e, run |-> f, pick |-> g]
    BY DEF Typed, HandlersTyped, Shaped
  <2>2. worker'[q] = [pc |-> ends, msg |-> b, name |-> c, n |-> d, active |-> e, run |-> f, pick |-> g]
    BY <1>4, <2>1
  <2>3. worker'[q].pc = ends /\ worker'[q].pick = worker[q].pick
    BY <2>1, <2>2
  <2> QED BY <2>3 DEF RunsInv, WorkerOK, Startable
<1> QED BY <1>3, <1>4, IdleHarmless

LEMMA RouteRuns == ASSUME Typed, RunsInv, NEW p \in Handlers, Route(p) PROVE RunsInv'
<1>1. CASE ReportStatus(p)
  <2>1. PICK w, k : /\ w \in {"status", "inactive", "missing"} /\ Complete(p, Plain(w), k) /\ UNCHANGED runs
    BY <1>1 DEF ReportStatus
  <2> QED BY <2>1, CompleteCalm, CalmKeeps
<1>2. CASE StaySilent(p)
  <2>1. Complete(p, {}, 0) /\ UNCHANGED runs
    BY <1>2 DEF StaySilent
  <2>2. Calm
    <3>1. "status" \notin {"output", "completed"}
      OBVIOUS
    <3> QED BY <2>1, <3>1, CompleteCalm
  <2> QED BY <2>2, CalmKeeps
<1>3. ASSUME NEW ends \in {"invoked", "fail"}, InvokePlain(p, ends) PROVE RunsInv'
  <2>1. Goto(p, ends) /\ UNCHANGED <<runs, out>>
    BY <1>3 DEF InvokePlain, store
  <2>2. Calm
    BY <2>1, GotoCalm DEF Calm
  <2> QED BY <2>2, CalmKeeps
<1>4. CASE CommandDone(p)
  <2>1. Complete(p, Plain("command"), 0) /\ UNCHANGED runs
    BY <1>4 DEF CommandDone
  <2> QED BY <2>1, CompleteCalm, CalmKeeps
<1> QED BY <1>1, <1>2, <1>3, <1>4, AcknowledgeRuns, StartRuns, CancelRuns, StopRuns, CalmKeeps DEF Route

LEMMA StepRuns ==
    ASSUME Typed, RunsInv, NEW p \in Handlers, NEW ok \in BOOLEAN, NEW d \in {0, 1}, NEW g \in {0, 1},
           EngineStep(p, ok, d, g)
    PROVE  RunsInv'
<1> DEFINE k == worker[p].run
           r == runs[k]
           s == Steps(r)[Pos(r)]
           a == [step |-> s, n |-> Cardinality({b \in Tried(r) : b.step = s}) + 1,
                 ok |-> ok, started |-> r.clock, ended |-> r.clock + d]
           tried == Append(r.tried, a)
           next == [r EXCEPT !.tried = tried, !.clock = r.clock + d + g]
<1>1. /\ worker[p].pc = "engine" /\ r.state = "running" /\ Pos(r) <= Len(Steps(r))
      /\ \/ runs' = [runs EXCEPT ![k] = next] /\ UNCHANGED <<worker, out>>
         \/ /\ runs' = [runs EXCEPT ![k] = [next EXCEPT !.state = "failed"]]
            /\ Goto(p, "fail") /\ UNCHANGED out
  BY DEF EngineStep, At, Run
<1>2. k \in DOMAIN runs
  BY <1>1 DEF RunsInv, WorkerOK
<1>3. r \in RunType /\ RunOK(r)
  BY <1>2, ElementOfSeq, LenProperties DEF RunsInv, RunsOK
<1>4. PICK x : x = a
  OBVIOUS
<1>5. PICK m, wf, c : r = [msg |-> m, wf |-> wf, state |-> "running", tried |-> r.tried, clock |-> c]
  BY <1>1, <1>3 DEF RunType
<1>6. m = r.msg /\ wf = r.wf /\ c = r.clock
  BY <1>5
<1>7. PICK t, e : t = tried /\ e = r.clock + d + g
  OBVIOUS
<1>8. next = [msg |-> m, wf |-> wf, state |-> "running", tried |-> t, clock |-> e]
  <2> DEFINE half == [r EXCEPT !.tried = t]
  <2>1. next = [half EXCEPT !.clock = e]
    BY <1>7
  <2> HIDE DEF r, tried, next
  <2>2. half = [msg |-> m, wf |-> wf, state |-> "running", tried |-> t, clock |-> c]
    BY <1>5
  <2> HIDE DEF half
  <2> QED BY <2>1, <2>2
<1>9. [next EXCEPT !.state = "failed"] = [msg |-> m, wf |-> wf, state |-> "failed", tried |-> t, clock |-> e]
  <2> HIDE DEF next
  <2> QED BY <1>8
<1>10. PICK state, q :
         /\ state \in {"running", "failed"}
         /\ q = [msg |-> m, wf |-> wf, state |-> state, tried |-> t, clock |-> e]
         /\ runs' = [runs EXCEPT ![k] = q]
         /\ UNCHANGED out /\ (UNCHANGED worker \/ Goto(p, "fail"))
  <2> HIDE DEF next, k
  <2> QED BY <1>1, <1>8, <1>9
<1>11. q.tried = t /\ q.clock = e /\ q.wf = r.wf /\ q.state = state
  BY <1>6, <1>10
<1>12. RunOK(q) /\ q.tried \in Seq(Attempt) /\ q.clock \in Nat
  <2>1. /\ x = [step |-> x.step, n |-> x.n, ok |-> x.ok, started |-> x.started, ended |-> x.ended]
        /\ x.step = Steps(r)[Pos(r)] /\ x.ok = ok /\ x.started = r.clock /\ x.ended = r.clock + d
        /\ x.n = Cardinality(OfStep(r.tried, x.step)) + 1
    BY <1>4 DEF OfStep, Tried
  <2>3. q.tried = Append(r.tried, x) /\ q.clock = r.clock + d + g
    BY <1>4, <1>7, <1>11
  <2>2. q.wf = r.wf /\ q.state # "succeeded"
    BY <1>10, <1>11
  <2>4. Pos(r) <= Len(Steps(r))
    BY <1>1
  <2> HIDE DEF r, k, s, a, tried, next
  <2> QED BY <1>3, <2>1, <2>2, <2>3, <2>4, RunGoesOn
<1>13. m \in Msgs /\ wf \in DOMAIN Workflows
  BY <1>3, <1>6, RunFields
<1>14. q \in RunType
  BY <1>10, <1>11, <1>12, <1>13 DEF RunType, States
<1>15. Unmoved /\ \A o \in out' \ out : ~ Shown(o)
  BY <1>10, GotoCalm DEF Unmoved
<1>16. ~ Terminal(k)
  BY <1>1 DEF Terminal
<1> HIDE DEF k
<1> QED BY <1>2, <1>10, <1>12, <1>14, <1>15, <1>16, RunChanges

LEMMA ReturnRuns == ASSUME Typed, RunsInv, NEW p \in Handlers, EngineReturns(p) PROVE RunsInv'
<1> DEFINE k == worker[p].run
           r == runs[k]
           state == IF r.state = "running" THEN "succeeded" ELSE r.state
           q == [r EXCEPT !.state = state]
<1>1. /\ worker[p].pc = "engine" /\ (r.state # "running" \/ Pos(r) > Len(Steps(r)))
      /\ runs' = [runs EXCEPT ![k].state = state]
      /\ \/ Complete(p, Plain("status"), k)
         \/ \E says \in workflow_lifecycle_messages(Tried(r), state) : Complete(p, says, k)
  BY DEF EngineReturns, At, Run
<1>2. k \in DOMAIN runs
  BY <1>1 DEF RunsInv, WorkerOK
<1>3. r \in RunType /\ RunOK(r)
  BY <1>2, ElementOfSeq, LenProperties DEF RunsInv, RunsOK
<1>4. state \in {"succeeded", "canceled", "failed"} /\ (state = "succeeded" => Pos(r) > Len(Steps(r)))
  BY <1>1, <1>3, RunFields DEF RunOK, States
<1>5. runs' = [runs EXCEPT ![k] = q]
  BY <1>1
<1>6. q \in RunType /\ RunOK(q) /\ q.state = state /\ q.tried = r.tried
  <2> HIDE DEF state, r
  <2> QED BY <1>3, <1>4, StateSet DEF States
<1> HIDE DEF q, state
<1>7. Unmoved
  BY <1>1, CompleteIdles
<1>8. ASSUME NEW o \in out' \ out, Shown(o) PROVE o.run = k /\ ShowsLast(o, r.tried)
  <2>1. CASE Complete(p, Plain("status"), k)
    <3>1. \A x \in Plain("status") : x.what = "status"
      BY SaysFields DEF Plain
    <3>2. \E x \in Plain("status") : o.what = x.what
      BY <2>1, CompleteOut
    <3> QED BY <1>8, <3>1, <3>2 DEF Shown
  <2>2. ASSUME NEW says \in workflow_lifecycle_messages(Tried(r), state), Complete(p, says, k)
        PROVE  o.run = k /\ ShowsLast(o, r.tried)
    <3>1. PICK x \in says : o.what = x.what /\ o.step = x.step /\ o.run = k
      BY <2>2, CompleteOut
    <3>2. ShowsLast(x, r.tried)
      <4> HIDE DEF r
      <4>1. Shown(x)
        BY <1>8, <3>1 DEF Shown
      <4> QED BY <1>3, <1>4, <4>1, LifecycleShows
    <3> QED BY <3>1, <3>2 DEF ShowsLast
  <2> QED BY <1>1, <2>1, <2>2
<1> QED
  <2>1. Terminal(k) => q.state # "running" /\ q.tried = runs[k].tried
    BY <1>4, <1>6
  <2>2. \A o \in out' \ out : Shown(o) => o.run = k /\ q.state # "running" /\ ShowsLast(o, q.tried)
    BY <1>4, <1>6, <1>8
  <2> HIDE DEF k
  <2> QED BY <1>2, <1>5, <1>6, <1>7, <2>1, <2>2, RunChanges

LEMMA GiveUpRuns == ASSUME Typed, RunsInv, NEW p \in Handlers, GiveUp(p) PROVE Calm
<1>1. UNCHANGED runs /\ (Goto(p, "fail") \/ Goto(p, "notify") \/ worker' = [worker EXCEPT ![p] = Idle])
  BY DEF GiveUp, Refused, Requeue, DeadLetter, FailureFails, Notify, End, store
<1>2. \A o \in out' \ out : ~ Shown(o)
  <2>1. out' \subseteq out \cup {Reply(Mine(p), Says("failure", "none"))}
    BY DEF GiveUp, Refused, Requeue, DeadLetter, FailureFails, Notify, store
  <2>2. Reply(Mine(p), Says("failure", "none")).what = "failure"
    BY SaysFields DEF Reply
  <2> QED BY <2>1, <2>2 DEF Shown
<1>3. Unmoved
  BY <1>1, GotoCalm, EndIdle
<1> QED BY <1>1, <1>2, <1>3 DEF Calm

LEMMA RunsNext == ASSUME Typed, RunsInv, [Next]_vars PROVE RunsInv'
<1>1. ASSUME NEW p \in Handlers, Handle(p) PROVE RunsInv'
  BY <1>1, BeginRuns, ResumeRuns, SelectRuns, RouteRuns, StepRuns, ReturnRuns, GiveUpRuns, CalmKeeps
     DEF Handle, Execute
<1>2. ASSUME NEW p \in Handlers, NEW m \in Msgs, Claim(p, m) PROVE RunsInv'
  <2>1. Takes(p, m, name[m]) /\ UNCHANGED runs
    BY <1>2, ClaimTakes DEF Claim, store
  <2>2. Calm
    BY <2>1, IdleHarmless DEF Takes, Calm, Unmoved, Startable
  <2> QED BY <2>2, CalmKeeps
<1>3. ASSUME NEW c \in batch, DrainBegin(c) PROVE RunsInv'
  <2>1. Takes("chat", c[1], c[2]) /\ UNCHANGED runs
    BY <1>3, DrainTakes DEF DrainBegin, store
  <2>2. Calm
    BY <2>1, IdleHarmless DEF Takes, Calm, Unmoved, Startable
  <2> QED BY <2>2, CalmKeeps
<1>4. CASE ChatQuit
  <2>1. worker' = [worker EXCEPT !["chat"] = Idle] /\ UNCHANGED <<runs, out>>
    BY <1>4 DEF ChatQuit, store
  <2>2. worker'["chat"] = Idle /\ \A q \in Handlers \ {"chat"} : worker'[q] = worker[q]
    BY <2>1, Replaced, ChatIsNoThread DEF Typed
  <2>3. Calm
    BY <2>1, <2>2, IdleHarmless DEF Calm, Unmoved
  <2> QED BY <2>3, CalmKeeps
<1>5. CASE Crash
  <2>1. Calm
    BY <1>5, IdleHarmless DEF Crash, Calm, Unmoved, store
  <2> QED BY <2>1, CalmKeeps
<1>6. CASE UNCHANGED <<runs, worker>> /\ out' \subseteq out
  <2>1. Calm
    BY <1>6 DEF Calm, Unmoved
  <2> QED BY <2>1, CalmKeeps
<1>7. CASE Chat
  <2>1. CASE \E m \in Msgs : ChatSend(m) \/ DrainClaim(m)
    BY <1>6, <2>1 DEF ChatSend, DrainClaim, store
  <2>2. CASE DrainClaimed \/ DrainDone \/ ChatReturns
    BY <1>6, <2>2 DEF DrainClaimed, DrainDone, ChatReturns, store
  <2>3. CASE ChatPoll \/ \E o \in out : ChatPollFails(o)
    BY <1>6, <2>3 DEF ChatPoll, ChatPollFails
  <2> QED BY <1>3, <1>4, <1>7, <2>1, <2>2, <2>3 DEF Chat
<1>8. CASE \E m \in Msgs : Arrive(m) \/ HeartbeatTick(m) \/ \E by \in {"daemon", "chat"} : ClaimFails(m, by)
  BY <1>6, <1>8 DEF Arrive, HeartbeatTick, ClaimFails, store
<1>9. CASE (\E o \in out : Deliver(o)) \/ Start
  BY <1>6, <1>9 DEF Deliver, Start, store
<1>10. CASE UNCHANGED vars
  BY <1>6, <1>10 DEF vars, store
<1> QED BY <1>1, <1>2, <1>5, <1>7, <1>8, <1>9, <1>10 DEF Next

\* Whatever times and step ids the attempts of a run have, the output a reply shows is
\* that of the last attempt, or of one that began and ended in the same seconds
\* (step_attempts_by_time, latest_succeeded_attempts, final_user_message).
THEOREM RepliesShowTheLastStep == Spec => []ReplyFromLastStep
<1>1. Init => Typed /\ RunsInv
  <2>1. ASSUME Init PROVE RunsInv
    <3>1. runs = <<>> /\ out = {} /\ worker = [p \in Handlers |-> Idle]
      BY <2>1 DEF Init
    <3>2. RunsOK
      <4>1. <<>> \in Seq(RunType) /\ DOMAIN <<>> = {}
        BY EmptySeq
      <4> QED BY <3>1, <4>1 DEF RunsOK
    <3>3. \A p \in Handlers : worker[p] = Idle
      BY <3>1
    <3> QED BY <3>1, <3>2, <3>3, IdleHarmless DEF RunsInv, ShownOK, WorkerOK
  <2> QED BY <2>1, TypedInit
<1>2. Typed /\ RunsInv /\ [Next]_vars => (Typed /\ RunsInv)'
  BY RunsNext, NextKinds, TypedNext
<1>3. Typed /\ RunsInv => ReplyFromLastStep
  BY DEF RunsInv, ShownOK, ShowsLast, Shown, ReplyFromLastStep
<1> QED BY <1>1, <1>2, <1>3, PTL DEF Spec
=============================================================================
