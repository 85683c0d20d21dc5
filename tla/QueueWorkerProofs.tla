------------------------- MODULE QueueWorkerProofs -------------------------
(***************************************************************************)
(* Safety of QueueWorker for every set of messages and every bound.        *)
(***************************************************************************)
EXTENDS QueueRefinement, FiniteSetTheorems, TLAPS

LEMMA BudgetType == ClaimBudget \in Nat
BY ConstantsOK DEF ClaimBudget

\* A requeue keeps the retry count within what a file name can carry.
LEMMA NextAttemptType ==
    ASSUME TypeOK, NEW m \in Msg
    PROVE  NextAttempt(m) \in 0..AttemptCeiling
BY ConstantsOK DEF TypeOK, NextAttempt

LEMMA TypingInit == Init => TypeOK
<1>1. SUFFICES ASSUME Init PROVE TypeOK
  OBVIOUS
<1>2. 0 \in 0..ClaimBudget /\ 0 \in 0..AttemptCeiling /\ 0 \in 0..MaxReplies
      /\ 0 \in 0..MaxStarts /\ 0 \in 0..MaxIoErrors
  BY BudgetType, ConstantsOK
<1>3. QED
  BY <1>1, <1>2 DEF Init, TypeOK, LoopPc, TaskPc

LEMMA TypingTask ==
    ASSUME TypeOK, NEW m \in Msg, TaskStep(m)
    PROVE  TypeOK'
<1> USE DEF TypeOK, GoTo, LoopUnchanged, TaskPc, files, sched, tasks, hist, env
<1>1. CASE RouteAck(m)
  BY <1>1, ConstantsOK DEF RouteAck, OutFile, OutKind
<1>2. CASE RouteFailed(m)
  BY <1>2 DEF RouteFailed
<1>3. CASE RouteNoResponse(m)
  BY <1>3 DEF RouteNoResponse
<1>4. CASE \E n \in 1..MaxReplies : RouteReplies(m, n)
  BY <1>4, ConstantsOK DEF RouteReplies
<1>5. CASE WriteReply(m)
  <2>1. Dec(left[m]) \in 0..MaxReplies
    BY ConstantsOK DEF Dec
  <2>2. left' \in [Msg -> 0..MaxReplies]
    BY <1>5, <2>1 DEF WriteReply
  <2>3. QED
    BY <1>5, <2>2 DEF WriteReply, OutFile, OutKind
<1>6. CASE Unlink(m)
  BY <1>6 DEF Unlink
<1>7. CASE RequeueFailure(m)
  BY <1>7, NextAttemptType DEF RequeueFailure, RequeueFile
<1>8. CASE DeadLetter(m)
  BY <1>8 DEF DeadLetter
<1>9. CASE Bury(m)
  BY <1>9 DEF Bury
<1>10. CASE Notify(m)
  BY <1>10, ConstantsOK DEF Notify, OutFile, OutKind
<1>11. CASE TaskIoError(m)
  BY <1>11, ConstantsOK DEF TaskIoError
<1>12. QED
  BY <1>1, <1>2, <1>3, <1>4, <1>5, <1>6, <1>7, <1>8, <1>9, <1>10, <1>11 DEF TaskStep

LEMMA TypingRecoverFiles ==
    ASSUME TypeOK, NEW S \in SUBSET processing, RecoverFiles(S)
    PROVE  /\ incoming' \subseteq Msg /\ processing' \subseteq Msg /\ failed' \subseteq Msg
           /\ outgoing' \subseteq OutFile
           /\ body' \in [Msg -> {"none", "partial", "full"}]
           /\ mtime' \in [Msg -> Nat]
           /\ attempt' \in [Msg -> 0..AttemptCeiling]
           /\ tries' \in [Msg -> Nat]
           /\ replied' \subseteq Msg /\ answered' \subseteq Msg /\ silent' \subseteq Msg
           /\ before' \subseteq Msg \X Msg
BY ConstantsOK DEF TypeOK, RecoverFiles

LEMMA TypingLoop ==
    ASSUME TypeOK, LoopStep
    PROVE  TypeOK'
<1> USE DEF TypeOK, LoopPc, files, sched, tasks, hist, env
<1>1. CASE Recover
  BY <1>1, TypingRecoverFiles DEF Recover
<1>2. CASE NewRound
  BY <1>2, BudgetType DEF NewRound
<1>3. CASE ClaimIoError
  BY <1>3, BudgetType, ConstantsOK DEF ClaimIoError
<1>4. CASE ClaimEnd
  BY <1>4, BudgetType DEF ClaimEnd
<1>5. CASE Dispatch
  <2>1. Runnable \subseteq Msg
    BY DEF Runnable, FirstOfIdleKey
  <2>2. Cardinality(Runnable) \in Nat
    BY <2>1, ConstantsOK, FS_Subset, FS_CardinalityType
  <2>3. QED
    BY <1>5, <2>1, <2>2 DEF Dispatch, TaskPc
<1>6. CASE CollectEnd
  BY <1>6 DEF CollectEnd
<1>7. CASE DrainEnd
  BY <1>7 DEF DrainEnd
<1>8. CASE \E S \in SUBSET processing : RecoverError(S)
  <2>1. PICK S \in SUBSET processing : RecoverError(S)
    BY <1>8
  <2>2. ioErrors' \in 0..MaxIoErrors
    BY <2>1, ConstantsOK DEF RecoverError
  <2>3. QED
    BY <2>1, <2>2, TypingRecoverFiles DEF RecoverError
<1>9. ASSUME NEW m \in Msg, Claim(m) PROVE TypeOK'
  BY <1>9 DEF Claim
<1>10. ASSUME NEW m \in Msg, Enqueue(m) PROVE TypeOK'
  <2>1. Dec(budget) \in 0..ClaimBudget
    BY BudgetType DEF Dec
  <2>2. QED
    BY <1>10, <2>1 DEF Enqueue
<1>11. ASSUME NEW m \in Msg, Unparsable(m) PROVE TypeOK'
  BY <1>11, BudgetType, NextAttemptType DEF Unparsable, RequeueFile
<1>12. ASSUME NEW m \in Msg, Collect(m) PROVE TypeOK'
  <2>1. Dec(inflight) \in Nat
    BY DEF Dec
  <2>2. QED
    BY <1>12, <2>1 DEF Collect, TaskPc
<1>13. ASSUME NEW m \in Msg, DrainPending(m) PROVE TypeOK'
  BY <1>13, NextAttemptType DEF DrainPending, RequeueFile
<1>14. ASSUME NEW m \in Msg, DrainIoError(m) PROVE TypeOK'
  BY <1>14, ConstantsOK DEF DrainIoError
<1>15. QED
  BY <1>1, <1>2, <1>3, <1>4, <1>5, <1>6, <1>7, <1>8, <1>9, <1>10, <1>11, <1>12,
     <1>13, <1>14 DEF LoopStep

LEMMA TypingOutside ==
    ASSUME TypeOK, Outside
    PROVE  TypeOK'
<1> USE DEF TypeOK, LoopPc, files, sched, tasks, hist, env
<1>1. ASSUME NEW m \in Msg, CreateFile(m) PROVE TypeOK'
  <2>1. PICK k \in Msg : mtime' = [mtime EXCEPT ![m] = mtime[k] + 1]
    BY <1>1 DEF CreateFile, Touch
  <2>2. mtime' \in [Msg -> Nat]
    BY <2>1
  <2>3. {<<x, m>> : x \in {n \in Msg : body[n] = "full"}} \subseteq Msg \X Msg
    OBVIOUS
  <2>4. before' \subseteq Msg \X Msg
    BY <1>1, <2>3 DEF CreateFile
  <2>5. QED
    BY <1>1, <2>2, <2>4 DEF CreateFile
<1>2. ASSUME NEW m \in Msg, FinishWrite(m) PROVE TypeOK'
  <2>1. PICK k \in Msg : mtime' = [mtime EXCEPT ![m] = mtime[k] + 1]
    BY <1>2 DEF FinishWrite, Touch
  <2>2. mtime' \in [Msg -> Nat]
    BY <2>1
  <2>3. QED
    BY <1>2, <2>2 DEF FinishWrite
<1>3. ASSUME NEW f \in outgoing, Deliver(f) PROVE TypeOK'
  BY <1>3 DEF Deliver
<1>4. ASSUME NEW S \in SUBSET processing, RecoverCrash(S) PROVE TypeOK'
  BY <1>4, TypingRecoverFiles DEF RecoverCrash
<1>5. CASE Start
  <2>1. starts' \in 0..MaxStarts
    BY <1>5, ConstantsOK DEF Start
  <2>2. QED
    BY <1>5, <2>1 DEF Start
<1>6. CASE Stop
  BY <1>6 DEF Stop
<1>7. CASE Crash
  <2>1. budget' \in 0..ClaimBudget
    BY <1>7, BudgetType DEF Crash
  <2>2. /\ left' \in [Msg -> 0..MaxReplies] /\ task' \in [Msg -> TaskPc]
        /\ pending' \in [Msg -> Nat]
    BY <1>7, ConstantsOK DEF Crash, TaskPc
  <2>3. QED
    BY <1>7, <2>1, <2>2 DEF Crash
<1>8. QED
  BY <1>1, <1>2, <1>3, <1>4, <1>5, <1>6, <1>7 DEF Outside

\* Type correctness of the queue worker: file sets, names' retry counts, the
\* scheduler and the task threads stay in their domains.
THEOREM Typing == Spec => []TypeOK
<1>1. Init => TypeOK
  BY TypingInit
<1>2. TypeOK /\ [Next]_vars => TypeOK'
  <2>1. ASSUME TypeOK, UNCHANGED vars PROVE TypeOK'
    BY <2>1 DEF TypeOK, vars, files, sched, tasks, hist, env
  <2>2. QED
    BY <2>1, TypingTask, TypingLoop, TypingOutside DEF Next
<1>3. QED
  BY <1>1, <1>2, PTL DEF Spec

-----------------------------------------------------------------------------
(***************************************************************************)
(* No message is lost.  A task removes the processing file only in its     *)
(* "unlink" and "bury" steps; the invariant says that by then the outcome  *)
(* is on disk, and that a queued reply witnesses one.                      *)
(***************************************************************************)
OutcomeFirst ==
    /\ NoMessageLost
    /\ \A m \in Msg : task[m] = "unlink" => m \in replied \cup silent
    /\ \A m \in Msg : task[m] \in {"bury", "notify"} => m \in failed
    /\ \A f \in outgoing : /\ f.kind = "reply" => f.msg \in replied
                           /\ f.kind = "summary" => f.msg \in failed

LEMMA OutcomeTask ==
    ASSUME TypeOK, OutcomeFirst, NEW m \in Msg, TaskStep(m)
    PROVE  OutcomeFirst'
<1> USE DEF OutcomeFirst, NoMessageLost, Settled, Accepted, TypeOK, GoTo, files, hist
<1>1. CASE RouteAck(m)
  BY <1>1 DEF RouteAck, OutFile
<1>2. CASE RouteFailed(m)
  BY <1>2 DEF RouteFailed
<1>3. CASE RouteNoResponse(m)
  BY <1>3 DEF RouteNoResponse
<1>4. CASE \E n \in 1..MaxReplies : RouteReplies(m, n)
  BY <1>4 DEF RouteReplies
<1>5. CASE WriteReply(m)
  BY <1>5 DEF WriteReply, OutFile
<1>6. CASE Unlink(m)
  BY <1>6 DEF Unlink
<1>7. CASE RequeueFailure(m)
  BY <1>7 DEF RequeueFailure, RequeueFile
<1>8. CASE DeadLetter(m)
  BY <1>8 DEF DeadLetter
<1>9. CASE Bury(m)
  BY <1>9 DEF Bury
<1>10. CASE Notify(m)
  BY <1>10 DEF Notify, OutFile
<1>11. CASE TaskIoError(m)
  BY <1>11 DEF TaskIoError
<1>12. QED
  BY <1>1, <1>2, <1>3, <1>4, <1>5, <1>6, <1>7, <1>8, <1>9, <1>10, <1>11 DEF TaskStep

\* Recovery drops a file only when a queued reply witnesses its outcome.
LEMMA OutcomeRecovery ==
    ASSUME TypeOK, OutcomeFirst, NEW S \in SUBSET processing, RecoverFiles(S), task' = task
    PROVE  OutcomeFirst'
<1>1. \A m \in Msg : ReplyKeyQueued(m) => Settled(m)
  BY DEF OutcomeFirst, ReplyKeyQueued, Settled
<1>2. QED
  BY <1>1 DEF OutcomeFirst, NoMessageLost, Settled, Accepted, TypeOK, RecoverFiles

LEMMA OutcomeLoop ==
    ASSUME TypeOK, OutcomeFirst, LoopStep
    PROVE  OutcomeFirst'
<1> USE DEF OutcomeFirst, NoMessageLost, Settled, Accepted, TypeOK, files, tasks, hist
<1>1. CASE Recover
  BY <1>1, OutcomeRecovery DEF Recover
<1>2. CASE NewRound \/ ClaimIoError \/ ClaimEnd \/ CollectEnd \/ DrainEnd
  BY <1>2 DEF NewRound, ClaimIoError, ClaimEnd, CollectEnd, DrainEnd
<1>3. CASE Dispatch
  BY <1>3 DEF Dispatch
<1>4. CASE \E S \in SUBSET processing : RecoverError(S)
  BY <1>4, OutcomeRecovery DEF RecoverError
<1>5. ASSUME NEW m \in Msg, Claim(m) \/ Enqueue(m) \/ DrainIoError(m) PROVE OutcomeFirst'
  BY <1>5 DEF Claim, Enqueue, DrainIoError
<1>6. ASSUME NEW m \in Msg, Unparsable(m) \/ DrainPending(m) PROVE OutcomeFirst'
  BY <1>6 DEF Unparsable, DrainPending, RequeueFile
<1>7. ASSUME NEW m \in Msg, Collect(m) PROVE OutcomeFirst'
  BY <1>7 DEF Collect
<1>8. QED
  BY <1>1, <1>2, <1>3, <1>4, <1>5, <1>6, <1>7 DEF LoopStep

LEMMA OutcomeOutside ==
    ASSUME TypeOK, OutcomeFirst, Outside
    PROVE  OutcomeFirst'
<1> USE DEF OutcomeFirst, NoMessageLost, Settled, Accepted, TypeOK, files, tasks, hist
<1>1. ASSUME NEW m \in Msg, CreateFile(m) PROVE OutcomeFirst'
  BY <1>1 DEF CreateFile
<1>2. ASSUME NEW m \in Msg, FinishWrite(m) PROVE OutcomeFirst'
  BY <1>2 DEF FinishWrite
<1>3. ASSUME NEW f \in outgoing, Deliver(f) PROVE OutcomeFirst'
  BY <1>3 DEF Deliver
<1>4. ASSUME NEW S \in SUBSET processing, RecoverCrash(S) PROVE OutcomeFirst'
  BY <1>4, OutcomeRecovery DEF RecoverCrash
<1>5. CASE Start \/ Stop
  BY <1>5 DEF Start, Stop
<1>6. CASE Crash
  BY <1>6 DEF Crash
<1>7. QED
  BY <1>1, <1>2, <1>3, <1>4, <1>5, <1>6 DEF Outside

LEMMA OutcomeAlways == Spec => []OutcomeFirst
<1>1. Init => OutcomeFirst
  BY DEF Init, OutcomeFirst, NoMessageLost, Accepted
<1>2. TypeOK /\ OutcomeFirst /\ [Next]_vars => OutcomeFirst'
  <2>1. ASSUME OutcomeFirst, UNCHANGED vars PROVE OutcomeFirst'
    BY <2>1 DEF OutcomeFirst, NoMessageLost, Settled, Accepted, vars, files, tasks, hist
  <2>2. QED
    BY <2>1, OutcomeTask, OutcomeLoop, OutcomeOutside DEF Next
<1>3. QED
  BY <1>1, <1>2, Typing, PTL DEF Spec

\* Whatever crashes, restarts and file errors occur, a message a producer wrote
\* is in the queue or has an outcome: replied to, silent on purpose, dead letter.
THEOREM MessagesAreKept == Spec => []NoMessageLost
<1>1. OutcomeFirst => NoMessageLost
  BY DEF OutcomeFirst
<1>2. QED
  BY <1>1, OutcomeAlways, PTL

-----------------------------------------------------------------------------
(***************************************************************************)
(* Slots and keys.  dequeue_runnable picks at most one message per key     *)
(* because the places in the pending queue are distinct, and no more than  *)
(* the free slots because a message's rank among the candidates is below   *)
(* their number.                                                           *)
(***************************************************************************)
Occupied == {m \in Msg : Busy(m)}

KeysHeld ==
    /\ active = {OrderingKey(m) : m \in Occupied}
    /\ \A m, n \in Msg : Busy(m) /\ Busy(n) /\ m # n => OrderingKey(m) # OrderingKey(n)
    /\ \A m, n \in Msg : Queued(m) /\ m # n => pending[m] # pending[n]

SlotsHeld ==
    /\ inflight = Cardinality(Occupied)
    /\ inflight <= MaxConcurrency

\* The members of a finite set whose rank under an injective numbering is below
\* k are at most k.
LEMMA RankBound ==
    ASSUME NEW F, IsFiniteSet(F), NEW p \in [F -> Nat], NEW k \in Nat,
           \A m, n \in F : m # n => p[m] # p[n]
    PROVE  Cardinality({m \in F : Cardinality({n \in F : p[n] < p[m]}) < k}) <= k
<1> DEFINE Below(m) == {n \in F : p[n] < p[m]}
           R == {m \in F : Cardinality(Below(m)) < k}
           rank == [m \in R |-> Cardinality(Below(m))]
<1>1. IsFiniteSet(R) /\ Cardinality(R) \in Nat
  BY FS_Subset, FS_CardinalityType
<1>2. \A m \in F : IsFiniteSet(Below(m)) /\ Cardinality(Below(m)) \in Nat
  BY FS_Subset, FS_CardinalityType
<1>3. ASSUME NEW m \in F, NEW n \in F, p[m] < p[n]
      PROVE  Cardinality(Below(m)) # Cardinality(Below(n))
  <2>1. Below(m) \in SUBSET Below(n) /\ m \in Below(n) /\ m \notin Below(m)
    BY <1>3
  <2>2. IsFiniteSet(Below(n))
    BY <1>2
  <2> HIDE DEF Below
  <2>3. Cardinality(Below(n)) = Cardinality(Below(m)) => Below(n) = Below(m)
    BY <2>1, <2>2, FS_Subset
  <2>4. QED
    BY <2>1, <2>3
<1>4. rank \in [R -> 0..(k - 1)]
  <2> HIDE DEF Below
  <2>1. \A m \in R : Cardinality(Below(m)) \in 0..(k - 1)
    BY <1>2
  <2>2. QED
    BY <2>1
<1>5. IsFiniteSet(0..(k - 1)) /\ Cardinality(0..(k - 1)) = k
  <2>1. k - 1 \in Int
    OBVIOUS
  <2>2. QED
    BY <2>1, FS_Interval
<1>6. ASSUME Cardinality(R) > k PROVE FALSE
  <2>1. PICK m \in R, n \in R : m # n /\ rank[m] = rank[n]
    <3> HIDE DEF rank, R
    <3>1. QED
      BY <1>1, <1>4, <1>5, <1>6, FS_PigeonHole
  <2>2. m \in F /\ n \in F /\ Cardinality(Below(m)) = Cardinality(Below(n))
    <3> HIDE DEF Below
    <3>1. QED
      BY <2>1
  <2>3. p[m] < p[n] \/ p[n] < p[m]
    BY <2>1, <2>2
  <2> HIDE DEF Below, R, rank
  <2>4. QED
    BY <2>2, <2>3, <1>3
<1>7. Cardinality(R) <= k
  <2> HIDE DEF R
  <2>1. QED
    BY <1>1, <1>6
<1>8. QED
  BY <1>7

\* A task step moves one busy task to another step of its own.
LEMMA TaskKeepsSlots ==
    ASSUME TypeOK, NEW m \in Msg, TaskStep(m)
    PROVE  Occupied' = Occupied /\ UNCHANGED sched
<1> USE DEF Occupied, Busy, TypeOK, GoTo, LoopUnchanged, sched
<1>1. CASE RouteAck(m) \/ RouteFailed(m) \/ RouteNoResponse(m)
  BY <1>1 DEF RouteAck, RouteFailed, RouteNoResponse, Routing
<1>2. CASE \E n \in 1..MaxReplies : RouteReplies(m, n)
  BY <1>2 DEF RouteReplies, Routing
<1>3. CASE WriteReply(m) \/ Unlink(m) \/ RequeueFailure(m)
  BY <1>3 DEF WriteReply, Unlink, RequeueFailure
<1>4. CASE DeadLetter(m) \/ Bury(m) \/ Notify(m) \/ TaskIoError(m)
  BY <1>4 DEF DeadLetter, Bury, Notify, TaskIoError
<1>5. QED
  BY <1>1, <1>2, <1>3, <1>4 DEF TaskStep

\* The steps of the worker and of its environment that touch neither the
\* scheduler nor a task.
Quiet ==
    \/ Recover \/ NewRound \/ ClaimIoError \/ ClaimEnd \/ CollectEnd \/ DrainEnd
    \/ \E S \in SUBSET processing : RecoverError(S) \/ RecoverCrash(S)
    \/ \E m \in Msg : Claim(m) \/ Unparsable(m) \/ CreateFile(m) \/ FinishWrite(m)
    \/ \E f \in outgoing : Deliver(f)
    \/ Start \/ Stop

LEMMA QuietSteps == Quiet => UNCHANGED <<sched, tasks>>
BY DEF Quiet, Recover, NewRound, ClaimIoError, ClaimEnd, CollectEnd, DrainEnd, RecoverError,
       RecoverCrash, Claim, Unparsable, CreateFile, FinishWrite, Deliver, Start, Stop

LEMMA NextSplit ==
    ASSUME [Next]_vars
    PROVE  \/ Quiet \/ UNCHANGED vars \/ Dispatch \/ Crash
           \/ \E m \in Msg : TaskStep(m) \/ Enqueue(m) \/ Collect(m) \/ DrainPending(m)
                                \/ DrainIoError(m)
BY DEF Next, LoopStep, Outside, Quiet

\* What Dispatch selects: idle messages of distinct idle keys.
LEMMA RunnableFacts ==
    ASSUME TypeOK, KeysHeld
    PROVE  /\ Runnable \subseteq Msg
           /\ \A m \in Runnable : ~Busy(m) /\ Queued(m) /\ OrderingKey(m) \notin active
           /\ \A m, n \in Runnable : m # n => OrderingKey(m) # OrderingKey(n)
<1>1. Runnable \subseteq FirstOfIdleKey
  BY DEF Runnable
<1>2. \A m \in FirstOfIdleKey : m \in Msg /\ ~Busy(m) /\ Queued(m) /\ OrderingKey(m) \notin active
  BY DEF FirstOfIdleKey, KeysHeld, Occupied
<1>3. ASSUME NEW m \in FirstOfIdleKey, NEW n \in FirstOfIdleKey, m # n
      PROVE  OrderingKey(m) # OrderingKey(n)
  <2>1. SUFFICES ASSUME OrderingKey(m) = OrderingKey(n) PROVE FALSE
    OBVIOUS
  <2>2. pending[m] <= pending[n] /\ pending[n] <= pending[m]
    BY <2>1 DEF FirstOfIdleKey
  <2>3. m \in Msg /\ n \in Msg /\ Queued(m)
    BY <1>2
  <2>4. pending[m] # pending[n]
    BY <1>3, <2>3 DEF KeysHeld
  <2>5. pending[m] \in Nat /\ pending[n] \in Nat
    BY <2>3 DEF TypeOK
  <2>6. QED
    BY <2>2, <2>4, <2>5
<1>4. QED
  BY <1>1, <1>2, <1>3

LEMMA KeysStep ==
    ASSUME TypeOK, KeysHeld, [Next]_vars
    PROVE  KeysHeld'
<1>1. CASE Quiet \/ UNCHANGED vars
  BY <1>1, QuietSteps DEF KeysHeld, Occupied, Busy, Queued, sched, tasks, vars
<1>2. ASSUME NEW m \in Msg, TaskStep(m) PROVE KeysHeld'
  <2>1. \A n \in Msg : Busy(n)' <=> Busy(n)
    BY <1>2, TaskKeepsSlots DEF Occupied
  <2>2. QED
    BY <1>2, <2>1, TaskKeepsSlots DEF KeysHeld, Queued, sched
<1>3. ASSUME NEW m \in Msg, Enqueue(m) PROVE KeysHeld'
  <2>1. PICK k \in Msg : IsLatest(pending, k) /\ pending' = [pending EXCEPT ![m] = pending[k] + 1]
    BY <1>3 DEF Enqueue
  <2>2. \A n \in Msg : pending[n] \in Nat /\ pending[n] < pending'[m]
    BY <2>1 DEF IsLatest, TypeOK
  <2>3. \A n \in Msg : n # m => pending'[n] = pending[n]
    BY <2>1 DEF TypeOK
  <2>4. ASSUME NEW x \in Msg, NEW y \in Msg, Queued(x)', x # y PROVE pending'[x] # pending'[y]
    BY <2>2, <2>3, <2>4 DEF KeysHeld, Queued
  <2>5. UNCHANGED <<task, active>>
    BY <1>3 DEF Enqueue, tasks
  <2>6. QED
    BY <2>4, <2>5 DEF KeysHeld, Occupied, Busy
<1>4. ASSUME NEW m \in Msg, DrainPending(m) \/ DrainIoError(m) PROVE KeysHeld'
  <2>1. pending' = [pending EXCEPT ![m] = 0] /\ UNCHANGED <<task, active>>
    BY <1>4 DEF DrainPending, DrainIoError, tasks
  <2>2. ASSUME NEW x \in Msg, NEW y \in Msg, Queued(x)', x # y PROVE pending'[x] # pending'[y]
    BY <2>1, <2>2 DEF KeysHeld, Queued, TypeOK
  <2>3. QED
    BY <2>1, <2>2 DEF KeysHeld, Occupied, Busy
<1>5. ASSUME NEW m \in Msg, Collect(m) PROVE KeysHeld'
  <2>1. Occupied' = Occupied \ {m} /\ m \in Occupied
    BY <1>5 DEF Collect, Occupied, Busy, TypeOK
  <2>2. active' = {OrderingKey(n) : n \in Occupied'}
    BY <1>5, <2>1 DEF Collect, KeysHeld, Occupied
  <2>3. \A n \in Msg : Busy(n)' => Busy(n)
    BY <2>1 DEF Occupied
  <2>4. pending' = pending
    BY <1>5 DEF Collect
  <2>5. QED
    BY <2>2, <2>3, <2>4 DEF KeysHeld, Queued
<1>6. CASE Crash
  BY <1>6 DEF Crash, KeysHeld, Occupied, Busy, Queued
<1>7. CASE Dispatch
  <2>1. Occupied' = Occupied \cup Runnable
    BY <1>7, RunnableFacts DEF Dispatch, Occupied, Busy, TypeOK
  <2>2. active' = {OrderingKey(n) : n \in Occupied'}
    BY <1>7, <2>1 DEF Dispatch, KeysHeld
  <2>3. ASSUME NEW x \in Msg, NEW y \in Msg, Busy(x)', Busy(y)', x # y
        PROVE  OrderingKey(x) # OrderingKey(y)
    <3>1. x \in Occupied \cup Runnable /\ y \in Occupied \cup Runnable
      BY <2>1, <2>3 DEF Occupied
    <3>2. \A n \in Occupied : OrderingKey(n) \in active
      BY DEF KeysHeld
    <3>3. QED
      BY <2>3, <3>1, <3>2, RunnableFacts DEF KeysHeld, Occupied
  <2>4. ASSUME NEW x \in Msg, NEW y \in Msg, Queued(x)', x # y PROVE pending'[x] # pending'[y]
    <3>1. \A n \in Msg : pending'[n] = IF n \in Runnable THEN 0 ELSE pending[n]
      BY <1>7 DEF Dispatch
    <3>2. Queued(x) /\ pending'[x] = pending[x] /\ pending'[x] > 0
      BY <2>4, <3>1 DEF Queued, TypeOK
    <3>3. pending'[y] = 0 \/ pending'[y] = pending[y]
      BY <3>1
    <3>4. QED
      BY <2>4, <3>2, <3>3 DEF KeysHeld, TypeOK
  <2>5. QED
    BY <2>2, <2>3, <2>4 DEF KeysHeld
<1>8. QED
  BY <1>1, <1>2, <1>3, <1>4, <1>5, <1>6, <1>7, NextSplit

LEMMA OccupiedFinite == IsFiniteSet(Occupied) /\ Cardinality(Occupied) \in Nat
<1>1. Occupied \in SUBSET Msg
  BY DEF Occupied
<1>2. QED
  BY <1>1, ConstantsOK, FS_Subset, FS_CardinalityType

\* dequeue_runnable(available_slots) returns at most available_slots messages.
LEMMA RunnableFits ==
    ASSUME TypeOK, KeysHeld, inflight <= MaxConcurrency
    PROVE  IsFiniteSet(Runnable) /\ Cardinality(Runnable) \in Nat
           /\ Cardinality(Runnable) <= MaxConcurrency - inflight
<1> DEFINE F == FirstOfIdleKey
           p == [m \in F |-> pending[m]]
           k == MaxConcurrency - inflight
<1>1. F \in SUBSET Msg /\ \A m \in F : Queued(m)
  BY DEF FirstOfIdleKey
<1>2. IsFiniteSet(F)
  BY <1>1, ConstantsOK, FS_Subset
<1>3. p \in [F -> Nat]
  BY <1>1 DEF TypeOK
<1>4. k \in Nat
  BY ConstantsOK DEF TypeOK
<1>5. \A m, n \in F : m # n => p[m] # p[n]
  BY <1>1 DEF KeysHeld
<1>6. Cardinality({m \in F : Cardinality({n \in F : p[n] < p[m]}) < k}) <= k
  <2> HIDE DEF F, p, k
  <2>1. QED
    BY <1>2, <1>3, <1>4, <1>5, RankBound
<1>7. \A m \in F : {n \in F : p[n] < p[m]} = {n \in F : pending[n] < pending[m]}
  OBVIOUS
<1>8. Runnable = {m \in F : Cardinality({n \in F : p[n] < p[m]}) < k}
  BY <1>7 DEF Runnable
<1>9. Runnable \in SUBSET F
  BY DEF Runnable
<1>10. QED
  BY <1>2, <1>6, <1>8, <1>9, FS_Subset, FS_CardinalityType

LEMMA SlotsStep ==
    ASSUME TypeOK, KeysHeld, SlotsHeld, [Next]_vars
    PROVE  SlotsHeld'
<1>1. CASE Quiet \/ UNCHANGED vars
  BY <1>1, QuietSteps DEF SlotsHeld, Occupied, Busy, sched, tasks, vars
<1>2. ASSUME NEW m \in Msg, TaskStep(m) PROVE SlotsHeld'
  BY <1>2, TaskKeepsSlots DEF SlotsHeld, sched
<1>3. ASSUME NEW m \in Msg, Enqueue(m) \/ DrainPending(m) \/ DrainIoError(m) PROVE SlotsHeld'
  BY <1>3 DEF Enqueue, DrainPending, DrainIoError, SlotsHeld, Occupied, Busy, tasks
<1>4. ASSUME NEW m \in Msg, Collect(m) PROVE SlotsHeld'
  <2>1. Occupied' = Occupied \ {m} /\ m \in Occupied
    BY <1>4 DEF Collect, Occupied, Busy, TypeOK
  <2>2. Cardinality(Occupied') = Cardinality(Occupied) - 1
    BY <2>1, OccupiedFinite, FS_RemoveElement
  <2>3. Cardinality(Occupied) # 0
    BY <2>1, OccupiedFinite, FS_EmptySet
  <2>4. inflight' = Dec(inflight)
    BY <1>4 DEF Collect
  <2>5. QED
    BY <2>2, <2>3, <2>4, OccupiedFinite, ConstantsOK DEF SlotsHeld, Dec
<1>5. CASE Crash
  <2>1. Occupied' = {}
    BY <1>5 DEF Crash, Occupied, Busy
  <2>2. QED
    BY <1>5, <2>1, FS_EmptySet, ConstantsOK DEF Crash, SlotsHeld
<1>6. CASE Dispatch
  <2>1. Occupied' = Occupied \cup Runnable /\ Occupied \cap Runnable = {}
    BY <1>6, RunnableFacts DEF Dispatch, Occupied, Busy, TypeOK
  <2>2. /\ IsFiniteSet(Runnable) /\ Cardinality(Runnable) \in Nat
        /\ Cardinality(Runnable) <= MaxConcurrency - inflight
    BY RunnableFits DEF SlotsHeld
  <2>3. Cardinality(Occupied') = Cardinality(Occupied) + Cardinality(Runnable)
    <3>1. Cardinality(Occupied \cup Runnable)
            = Cardinality(Occupied) + Cardinality(Runnable) - Cardinality(Occupied \cap Runnable)
      BY <2>2, OccupiedFinite, FS_Union
    <3>2. QED
      BY <2>1, <2>2, <3>1, OccupiedFinite, FS_EmptySet
  <2>4. inflight' = inflight + Cardinality(Runnable)
    BY <1>6 DEF Dispatch
  <2>5. QED
    BY <2>2, <2>3, <2>4, OccupiedFinite, ConstantsOK DEF SlotsHeld
<1>7. QED
  BY <1>1, <1>2, <1>3, <1>4, <1>5, <1>6, NextSplit

LEMMA KeysAndSlots == Spec => [](KeysHeld /\ SlotsHeld)
<1>1. Init => KeysHeld /\ SlotsHeld
  <2>1. SUFFICES ASSUME Init PROVE KeysHeld /\ SlotsHeld
    OBVIOUS
  <2>2. Occupied = {}
    BY <2>1 DEF Init, Occupied, Busy
  <2>3. QED
    BY <2>1, <2>2, FS_EmptySet, ConstantsOK DEF Init, KeysHeld, SlotsHeld, Queued, Occupied
<1>2. TypeOK /\ KeysHeld /\ SlotsHeld /\ [Next]_vars => KeysHeld' /\ SlotsHeld'
  BY KeysStep, SlotsStep
<1>3. QED
  BY <1>1, <1>2, Typing, PTL DEF Spec

\* in_flight is the number of live tasks, at most the configured concurrency,
\* and active_keys are exactly the keys of the live tasks.
THEOREM SlotsAreCounted == Spec => []SlotAccounting
<1>1. KeysHeld /\ SlotsHeld => SlotAccounting
  BY DEF KeysHeld, SlotsHeld, SlotAccounting, Occupied
<1>2. QED
  BY <1>1, KeysAndSlots, PTL

\* PerKeyScheduler: messages of one workflow run, and messages without a run of
\* one conversation, are never executed at the same time.
THEOREM KeysAreExclusive == Spec => []KeyExclusion
<1>1. KeysHeld => KeyExclusion
  <2>1. SUFFICES ASSUME KeysHeld, NEW m \in Msg, NEW n \in Msg, Busy(m), Busy(n), m # n
                 PROVE  /\ Payload[m].run # Blank => Payload[m].run # Payload[n].run
                        /\ /\ Payload[m].run = Blank /\ Payload[n].run = Blank
                           /\ Payload[m].profile # Blank /\ Payload[m].conversation # Blank
                           => \/ Payload[m].channel # Payload[n].channel
                              \/ Payload[m].profile # Payload[n].profile
                              \/ Payload[m].conversation # Payload[n].conversation
    BY DEF KeyExclusion
  <2>2. OrderingKey(m) # OrderingKey(n)
    BY <2>1 DEF KeysHeld
  <2>3. QED
    BY <2>2 DEF OrderingKey
<1>2. QED
  BY <1>1, KeysAndSlots, PTL

-----------------------------------------------------------------------------
(***************************************************************************)
(* One stage per message.  Besides OneStage itself the invariant ties each *)
(* stage to the place of the file, and says that nothing is claimed or     *)
(* running while the worker is down, recovering or stopped, which is what  *)
(* makes recovery safe.                                                    *)
(***************************************************************************)
Asleep == pc \in {"down", "recover", "stopped"}

Stages ==
    /\ OneStage
    /\ hand \subseteq processing
    /\ \A m \in Msg : Queued(m) => m \in processing
    /\ \A m \in Msg : task[m] \in {"route", "run", "reply", "unlink", "fail", "bury"}
                         => m \in processing
    /\ \A m \in Msg : body[m] = "none" => m \notin incoming \cup processing /\ task[m] = "none"
    /\ pc # "parse" => hand = {}
    /\ Asleep => \A m \in Msg : ~Queued(m) /\ ~Busy(m)

LEMMA StagesTask ==
    ASSUME TypeOK, Stages, NEW m \in Msg, TaskStep(m)
    PROVE  Stages'
<1> USE DEF Stages, OneStage, Asleep, Queued, Busy, TypeOK, GoTo, LoopUnchanged, Routing, files, sched
<1>1. CASE RouteAck(m) \/ RouteFailed(m) \/ RouteNoResponse(m)
  BY <1>1 DEF RouteAck, RouteFailed, RouteNoResponse
<1>2. CASE \E n \in 1..MaxReplies : RouteReplies(m, n)
  BY <1>2 DEF RouteReplies
<1>3. CASE WriteReply(m)
  BY <1>3 DEF WriteReply
<1>4. CASE Unlink(m)
  BY <1>4 DEF Unlink
<1>5. CASE RequeueFailure(m)
  BY <1>5 DEF RequeueFailure, RequeueFile
<1>6. CASE DeadLetter(m)
  BY <1>6 DEF DeadLetter
<1>7. CASE Bury(m)
  BY <1>7 DEF Bury
<1>8. CASE Notify(m)
  BY <1>8 DEF Notify
<1>9. CASE TaskIoError(m)
  BY <1>9 DEF TaskIoError
<1>10. QED
  BY <1>1, <1>2, <1>3, <1>4, <1>5, <1>6, <1>7, <1>8, <1>9 DEF TaskStep

LEMMA StagesRecovery ==
    ASSUME TypeOK, Stages, NEW S \in SUBSET processing, RecoverFiles(S), pc = "recover",
           pc' \in {"round", "down"}, UNCHANGED <<hand, sched, tasks>>
    PROVE  Stages'
BY DEF Stages, OneStage, Asleep, Queued, Busy, TypeOK, RecoverFiles, sched, tasks

LEMMA StagesLoop ==
    ASSUME TypeOK, KeysHeld, SlotsHeld, Stages, LoopStep
    PROVE  Stages'
<1> USE DEF Stages, OneStage, Asleep, Queued, Busy, TypeOK, files, sched, tasks
<1>1. CASE Recover \/ \E S \in SUBSET processing : RecoverError(S)
  BY <1>1, StagesRecovery DEF Recover, RecoverError
<1>2. CASE NewRound \/ ClaimIoError \/ ClaimEnd \/ CollectEnd
  BY <1>2 DEF NewRound, ClaimIoError, ClaimEnd, CollectEnd
<1>3. CASE DrainEnd
  <2>1. Occupied = {}
    BY <1>3, OccupiedFinite, FS_EmptySet DEF DrainEnd, SlotsHeld
  <2>2. QED
    BY <1>3, <2>1 DEF DrainEnd, Occupied
<1>4. CASE Dispatch
  BY <1>4, RunnableFacts DEF Dispatch
<1>5. ASSUME NEW m \in Msg, Claim(m) PROVE Stages'
  BY <1>5 DEF Claim, IsOldest
<1>6. ASSUME NEW m \in Msg, Enqueue(m) PROVE Stages'
  <2>1. PICK k \in Msg : pending' = [pending EXCEPT ![m] = pending[k] + 1]
    BY <1>6 DEF Enqueue
  <2>2. QED
    BY <1>6, <2>1 DEF Enqueue
<1>7. ASSUME NEW m \in Msg, Unparsable(m) PROVE Stages'
  BY <1>7 DEF Unparsable, RequeueFile
<1>8. ASSUME NEW m \in Msg, Collect(m) PROVE Stages'
  BY <1>8 DEF Collect
<1>9. ASSUME NEW m \in Msg, DrainPending(m) PROVE Stages'
  BY <1>9 DEF DrainPending, RequeueFile
<1>10. ASSUME NEW m \in Msg, DrainIoError(m) PROVE Stages'
  BY <1>10 DEF DrainIoError
<1>11. QED
  BY <1>1, <1>2, <1>3, <1>4, <1>5, <1>6, <1>7, <1>8, <1>9, <1>10 DEF LoopStep

LEMMA StagesOutside ==
    ASSUME TypeOK, Stages, Outside
    PROVE  Stages'
<1> USE DEF Stages, OneStage, Asleep, Queued, Busy, TypeOK, Up, files, sched, tasks
<1>1. ASSUME NEW m \in Msg, CreateFile(m) PROVE Stages'
  BY <1>1 DEF CreateFile
<1>2. ASSUME NEW m \in Msg, FinishWrite(m) PROVE Stages'
  BY <1>2 DEF FinishWrite
<1>3. ASSUME NEW f \in outgoing, Deliver(f) PROVE Stages'
  BY <1>3 DEF Deliver
<1>4. ASSUME NEW S \in SUBSET processing, RecoverCrash(S) PROVE Stages'
  BY <1>4, StagesRecovery DEF RecoverCrash
<1>5. CASE Start \/ Stop
  BY <1>5 DEF Start, Stop
<1>6. CASE Crash
  BY <1>6 DEF Crash
<1>7. QED
  BY <1>1, <1>2, <1>3, <1>4, <1>5, <1>6 DEF Outside

LEMMA StagesAlways == Spec => []Stages
<1>1. Init => Stages
  BY DEF Init, Stages, OneStage, Asleep, Queued, Busy
<1>2. TypeOK /\ KeysHeld /\ SlotsHeld /\ Stages /\ [Next]_vars => Stages'
  <2>1. ASSUME Stages, UNCHANGED vars PROVE Stages'
    BY <2>1 DEF Stages, OneStage, Asleep, Queued, Busy, vars, files, sched, tasks
  <2>2. QED
    BY <2>1, StagesTask, StagesLoop, StagesOutside DEF Next
<1>3. QED
  BY <1>1, <1>2, Typing, KeysAndSlots, PTL DEF Spec

\* Renames move a message from stage to stage: it is never both queued and
\* claimed, nor handled twice at the same time.
THEOREM StagesAreDisjoint == Spec => []OneStage
<1>1. Stages => OneStage
  BY DEF Stages
<1>2. QED
  BY <1>1, StagesAlways, PTL

-----------------------------------------------------------------------------
(***************************************************************************)
(* The retry limit.  While a message waits, its executions are at most the *)
(* retry count its name carries and below the limit; the last execution    *)
(* either settles it or dead-letters it.                                   *)
(***************************************************************************)
RetriesCounted ==
    \A m \in Msg :
        /\ tries[m] <= MaxAttempts
        /\ m \in incoming \cup hand \/ Queued(m) => tries[m] <= attempt[m] /\ tries[m] < MaxAttempts
        /\ task[m] \in {"route", "run", "fail"} => tries[m] <= attempt[m] + 1
        /\ body[m] = "none" => tries[m] = 0

LEMMA RetriesTask ==
    ASSUME TypeOK, Stages, RetriesCounted, NEW m \in Msg, TaskStep(m)
    PROVE  RetriesCounted'
<1> USE ConstantsOK DEF RetriesCounted, Queued, TypeOK, GoTo, LoopUnchanged, Routing, files, sched, hist
<1>1. CASE RouteAck(m) \/ RouteFailed(m) \/ RouteNoResponse(m)
  BY <1>1 DEF RouteAck, RouteFailed, RouteNoResponse
<1>2. CASE \E n \in 1..MaxReplies : RouteReplies(m, n)
  BY <1>2 DEF RouteReplies
<1>3. CASE WriteReply(m) \/ Unlink(m)
  BY <1>3 DEF WriteReply, Unlink
<1>4. CASE RequeueFailure(m)
  <2>1. attempt' = [attempt EXCEPT ![m] = attempt[m] + 1] /\ attempt[m] + 1 < MaxAttempts
    <3>1. NextAttempt(m) < MaxAttempts /\ attempt[m] \in 0..AttemptCeiling
      BY <1>4 DEF RequeueFailure
    <3>2. NextAttempt(m) = attempt[m] + 1
      BY <3>1 DEF NextAttempt
    <3>3. QED
      BY <1>4, <3>1, <3>2 DEF RequeueFailure, RequeueFile
  <2>2. QED
    BY <1>4, <2>1 DEF RequeueFailure, RequeueFile
<1>5. CASE DeadLetter(m) \/ Bury(m) \/ Notify(m)
  BY <1>5 DEF DeadLetter, Bury, Notify
<1>6. CASE TaskIoError(m)
  BY <1>6 DEF TaskIoError
<1>7. QED
  BY <1>1, <1>2, <1>3, <1>4, <1>5, <1>6 DEF TaskStep

LEMMA RetriesRecovery ==
    ASSUME TypeOK, RetriesCounted, NEW S \in SUBSET processing, RecoverFiles(S),
           UNCHANGED <<hand, sched, tasks>>
    PROVE  RetriesCounted'
BY ConstantsOK DEF RetriesCounted, Queued, TypeOK, RecoverFiles, sched, tasks

LEMMA RetriesLoop ==
    ASSUME TypeOK, KeysHeld, Stages, RetriesCounted, LoopStep
    PROVE  RetriesCounted'
<1> USE DEF RetriesCounted, Queued, TypeOK, files, sched, tasks, hist
<1>1. CASE Recover \/ \E S \in SUBSET processing : RecoverError(S)
  BY <1>1, RetriesRecovery DEF Recover, RecoverError
<1>2. CASE NewRound \/ ClaimIoError \/ ClaimEnd \/ CollectEnd \/ DrainEnd
  BY <1>2 DEF NewRound, ClaimIoError, ClaimEnd, CollectEnd, DrainEnd
<1>3. CASE Dispatch
  <2>1. \A n \in Runnable : n \in Msg /\ Queued(n) /\ n \notin incoming \cup hand
                            /\ body[n] # "none"
    BY RunnableFacts DEF Stages, OneStage
  <2>2. \A n \in Runnable : tries'[n] = tries[n] + 1 /\ ~Queued(n)'
    BY <1>3, <2>1 DEF Dispatch
  <2>3. \A n \in Msg \ Runnable : tries'[n] = tries[n] /\ task'[n] = task[n] /\ pending'[n] = pending[n]
    BY <1>3 DEF Dispatch
  <2>4. incoming' = incoming /\ hand' = hand /\ attempt' = attempt /\ body' = body
    BY <1>3 DEF Dispatch
  <2>5. QED
    BY <2>1, <2>2, <2>3, <2>4, ConstantsOK
<1>4. ASSUME NEW m \in Msg, Claim(m) PROVE RetriesCounted'
  BY <1>4 DEF Claim, IsOldest
<1>5. ASSUME NEW m \in Msg, Enqueue(m) PROVE RetriesCounted'
  <2>1. PICK k \in Msg : pending' = [pending EXCEPT ![m] = pending[k] + 1]
    BY <1>5 DEF Enqueue
  <2>2. QED
    BY <1>5, <2>1 DEF Enqueue
<1>6. ASSUME NEW m \in Msg, Unparsable(m) \/ DrainPending(m) PROVE RetriesCounted'
  <2>1. NextAttempt(m) \in Nat /\ NextAttempt(m) >= attempt[m]
    BY ConstantsOK DEF NextAttempt
  <2>2. attempt' = [attempt EXCEPT ![m] = NextAttempt(m)] /\ incoming' = incoming \cup {m}
    BY <1>6 DEF Unparsable, DrainPending, RequeueFile
  <2>3. CASE Unparsable(m)
    BY <2>1, <2>2, <2>3, ConstantsOK DEF Unparsable
  <2>4. CASE DrainPending(m)
    BY <2>1, <2>2, <2>4, ConstantsOK DEF DrainPending
  <2>5. QED
    BY <1>6, <2>3, <2>4
<1>7. ASSUME NEW m \in Msg, Collect(m) PROVE RetriesCounted'
  BY <1>7 DEF Collect
<1>8. ASSUME NEW m \in Msg, DrainIoError(m) PROVE RetriesCounted'
  BY <1>8 DEF DrainIoError
<1>9. QED
  BY <1>1, <1>2, <1>3, <1>4, <1>5, <1>6, <1>7, <1>8 DEF LoopStep

LEMMA RetriesOutside ==
    ASSUME TypeOK, RetriesCounted, Outside
    PROVE  RetriesCounted'
<1> USE ConstantsOK DEF RetriesCounted, Queued, TypeOK, files, sched, tasks, hist
<1>1. ASSUME NEW m \in Msg, CreateFile(m) PROVE RetriesCounted'
  BY <1>1 DEF CreateFile
<1>2. ASSUME NEW m \in Msg, FinishWrite(m) PROVE RetriesCounted'
  BY <1>2 DEF FinishWrite
<1>3. ASSUME NEW f \in outgoing, Deliver(f) PROVE RetriesCounted'
  BY <1>3 DEF Deliver
<1>4. ASSUME NEW S \in SUBSET processing, RecoverCrash(S) PROVE RetriesCounted'
  BY <1>4, RetriesRecovery DEF RecoverCrash
<1>5. CASE Start \/ Stop \/ Crash
  BY <1>5 DEF Start, Stop, Crash
<1>6. QED
  BY <1>1, <1>2, <1>3, <1>4, <1>5 DEF Outside

\* requeue_or_dead_letter_failure stops after MaxAttempts executions, whatever
\* shutdowns and half-written claims added to the count in the name.
THEOREM RetriesAreBounded == Spec => []RetryBound
<1>1. Init => RetriesCounted
  BY ConstantsOK DEF Init, RetriesCounted, Queued
<1>2. TypeOK /\ KeysHeld /\ Stages /\ RetriesCounted /\ [Next]_vars => RetriesCounted'
  <2>1. ASSUME RetriesCounted, UNCHANGED vars PROVE RetriesCounted'
    BY <2>1 DEF RetriesCounted, Queued, vars, files, sched, tasks, hist
  <2>2. QED
    BY <2>1, RetriesTask, RetriesLoop, RetriesOutside DEF Next
<1>3. RetriesCounted => RetryBound
  BY DEF RetriesCounted, RetryBound
<1>4. QED
  BY <1>1, <1>2, <1>3, Typing, KeysAndSlots, StagesAlways, PTL DEF Spec

-----------------------------------------------------------------------------
(***************************************************************************)
(* A message whose reply waits in outgoing is not executed again.  The     *)
(* invariant adds that such a message is not about to be requeued, and     *)
(* that nothing is settled before its file exists.                         *)
(***************************************************************************)
NotRerun ==
    /\ NoRerunWhileReplyQueued
    /\ \A m \in Msg : ReplyKeyQueued(m) => task[m] # "fail"

WrittenFirst == \A m \in Msg : body[m] = "none" => ~Settled(m)

LEMMA WrittenFirstStep ==
    ASSUME TypeOK, Stages, WrittenFirst, [Next]_vars
    PROVE  WrittenFirst'
<1> USE DEF WrittenFirst, Settled, TypeOK, files, hist
<1>1. ASSUME NEW m \in Msg, TaskStep(m) PROVE WrittenFirst'
  <2>1. task[m] # "none" => body[m] # "none"
    BY DEF Stages
  <2>2. CASE RouteAck(m) \/ RouteFailed(m) \/ RouteNoResponse(m)
    BY <2>1, <2>2 DEF RouteAck, RouteFailed, RouteNoResponse, Routing
  <2>3. CASE \E n \in 1..MaxReplies : RouteReplies(m, n)
    BY <2>3 DEF RouteReplies
  <2>4. CASE WriteReply(m) \/ Unlink(m) \/ RequeueFailure(m)
    BY <2>1, <2>4 DEF WriteReply, Unlink, RequeueFailure
  <2>5. CASE DeadLetter(m) \/ Bury(m) \/ Notify(m) \/ TaskIoError(m)
    BY <2>1, <2>5 DEF DeadLetter, Bury, Notify, TaskIoError
  <2>6. QED
    BY <1>1, <2>2, <2>3, <2>4, <2>5 DEF TaskStep
<1>2. CASE LoopStep
  BY <1>2 DEF LoopStep, Recover, NewRound, ClaimIoError, ClaimEnd, Dispatch, CollectEnd, DrainEnd,
     RecoverError, RecoverFiles, Claim, Enqueue, Unparsable, Collect, DrainPending, DrainIoError
<1>3. CASE Outside
  BY <1>3 DEF Outside, CreateFile, FinishWrite, Deliver, RecoverCrash, RecoverFiles, Start, Stop, Crash
<1>4. CASE UNCHANGED vars
  BY <1>4 DEF vars
<1>5. QED
  BY <1>1, <1>2, <1>3, <1>4 DEF Next

LEMMA NotRerunTask ==
    ASSUME TypeOK, Stages, NotRerun, NEW m \in Msg, TaskStep(m)
    PROVE  NotRerun'
<1> USE DEF NotRerun, NoRerunWhileReplyQueued, ReplyKeyQueued, Stages, OneStage, Queued, Routing,
            TypeOK, GoTo, LoopUnchanged, files, sched
<1>1. CASE RouteAck(m)
  BY <1>1 DEF RouteAck
<1>2. CASE RouteFailed(m) \/ RouteNoResponse(m)
  BY <1>2 DEF RouteFailed, RouteNoResponse
<1>3. CASE \E n \in 1..MaxReplies : RouteReplies(m, n)
  BY <1>3 DEF RouteReplies
<1>4. CASE WriteReply(m)
  BY <1>4 DEF WriteReply
<1>5. CASE Unlink(m) \/ DeadLetter(m) \/ Bury(m)
  BY <1>5 DEF Unlink, DeadLetter, Bury
<1>6. CASE RequeueFailure(m)
  BY <1>6 DEF RequeueFailure, RequeueFile
<1>7. CASE Notify(m)
  BY <1>7 DEF Notify
<1>8. CASE TaskIoError(m)
  BY <1>8 DEF TaskIoError
<1>9. QED
  BY <1>1, <1>2, <1>3, <1>4, <1>5, <1>6, <1>7, <1>8 DEF TaskStep

LEMMA NotRerunRecovery ==
    ASSUME TypeOK, NotRerun, NEW S \in SUBSET processing, RecoverFiles(S),
           UNCHANGED <<hand, sched, tasks>>
    PROVE  NotRerun'
BY DEF NotRerun, NoRerunWhileReplyQueued, ReplyKeyQueued, Queued, Routing, RecoverFiles, sched, tasks

LEMMA NotRerunLoop ==
    ASSUME TypeOK, KeysHeld, NotRerun, LoopStep
    PROVE  NotRerun'
<1> USE DEF NotRerun, NoRerunWhileReplyQueued, ReplyKeyQueued, Queued, Routing, TypeOK, files, sched, tasks
<1>1. CASE Recover \/ \E S \in SUBSET processing : RecoverError(S)
  BY <1>1, NotRerunRecovery DEF Recover, RecoverError
<1>2. CASE NewRound \/ ClaimIoError \/ ClaimEnd \/ CollectEnd \/ DrainEnd
  BY <1>2 DEF NewRound, ClaimIoError, ClaimEnd, CollectEnd, DrainEnd
<1>3. CASE Dispatch
  BY <1>3, RunnableFacts DEF Dispatch
<1>4. ASSUME NEW m \in Msg, Claim(m) PROVE NotRerun'
  BY <1>4 DEF Claim, IsOldest
<1>5. ASSUME NEW m \in Msg, Enqueue(m) PROVE NotRerun'
  <2>1. PICK k \in Msg : pending' = [pending EXCEPT ![m] = pending[k] + 1]
    BY <1>5 DEF Enqueue
  <2>2. QED
    BY <1>5, <2>1 DEF Enqueue
<1>6. ASSUME NEW m \in Msg, Unparsable(m) \/ DrainPending(m) PROVE NotRerun'
  BY <1>6 DEF Unparsable, DrainPending, RequeueFile
<1>7. ASSUME NEW m \in Msg, Collect(m) PROVE NotRerun'
  BY <1>7 DEF Collect
<1>8. ASSUME NEW m \in Msg, DrainIoError(m) PROVE NotRerun'
  BY <1>8 DEF DrainIoError
<1>9. QED
  BY <1>1, <1>2, <1>3, <1>4, <1>5, <1>6, <1>7, <1>8 DEF LoopStep

LEMMA NotRerunOutside ==
    ASSUME TypeOK, OutcomeFirst, WrittenFirst, NotRerun, Outside
    PROVE  NotRerun'
<1> USE DEF NotRerun, NoRerunWhileReplyQueued, ReplyKeyQueued, Queued, Routing, TypeOK, files, sched, tasks
<1>1. ASSUME NEW m \in Msg, CreateFile(m) PROVE NotRerun'
  <2>1. ~ReplyKeyQueued(m)
    BY <1>1 DEF CreateFile, OutcomeFirst, WrittenFirst, Settled
  <2>2. QED
    BY <1>1, <2>1 DEF CreateFile
<1>2. ASSUME NEW m \in Msg, FinishWrite(m) PROVE NotRerun'
  BY <1>2 DEF FinishWrite
<1>3. ASSUME NEW f \in outgoing, Deliver(f) PROVE NotRerun'
  BY <1>3 DEF Deliver
<1>4. ASSUME NEW S \in SUBSET processing, RecoverCrash(S) PROVE NotRerun'
  BY <1>4, NotRerunRecovery DEF RecoverCrash
<1>5. CASE Start \/ Stop
  BY <1>5 DEF Start, Stop
<1>6. CASE Crash
  BY <1>6 DEF Crash
<1>7. QED
  BY <1>1, <1>2, <1>3, <1>4, <1>5, <1>6 DEF Outside

LEMMA WrittenAlways == Spec => []WrittenFirst
<1>1. Init => WrittenFirst
  BY DEF Init, WrittenFirst, Settled
<1>2. TypeOK /\ Stages /\ WrittenFirst /\ [Next]_vars => WrittenFirst'
  BY WrittenFirstStep
<1>3. QED
  BY <1>1, <1>2, Typing, StagesAlways, PTL DEF Spec

\* The duplicate check of recover_queue_processing_paths works for every crash
\* and every failing file operation: while a reply or a failure summary of a
\* message is queued under its own key, no execution of it is pending or begins.
THEOREM RepliedIsNotRerun == Spec => []NoRerunWhileReplyQueued
<1>1. Init => NotRerun
  BY DEF Init, NotRerun, NoRerunWhileReplyQueued, ReplyKeyQueued
<1>2. TypeOK /\ KeysHeld /\ Stages /\ OutcomeFirst /\ WrittenFirst /\ NotRerun /\ [Next]_vars => NotRerun'
  <2>1. ASSUME NotRerun, UNCHANGED vars PROVE NotRerun'
    BY <2>1 DEF NotRerun, NoRerunWhileReplyQueued, ReplyKeyQueued, Queued, Routing, vars, files, sched, tasks
  <2>2. QED
    BY <2>1, NotRerunTask, NotRerunLoop, NotRerunOutside DEF Next
<1>3. NotRerun => NoRerunWhileReplyQueued
  BY DEF NotRerun
<1>4. QED
  BY <1>1, <1>2, <1>3, Typing, KeysAndSlots, StagesAlways, OutcomeAlways, WrittenAlways, PTL DEF Spec

-----------------------------------------------------------------------------
(***************************************************************************)
(* First in, first out per key.  The order of two messages is carried by   *)
(* their mtimes while they wait in incoming and by their places once they  *)
(* are queued; the invariant says that the handover from one to the other  *)
(* never lets the younger one past an older one that was not requeued.     *)
(***************************************************************************)
Waiting(m) == m \in incoming \cup hand \/ Queued(m)

Elder(x, y) == <<x, y>> \in before /\ OrderingKey(x) = OrderingKey(y)

Aged ==
    \A x, y \in Msg : <<x, y>> \in before =>
        body[x] = "full" /\ body[y] # "none" /\ mtime[x] < mtime[y]

InOrder ==
    \A x, y \in Msg : Elder(x, y) /\ Waiting(x) /\ attempt[x] = 0 =>
        /\ ~Busy(y)
        /\ y \in hand => Queued(x)
        /\ Queued(y) => Queued(x) /\ pending[x] < pending[y]

\* Only the producers change ages and the order in which files were written.
LEMMA AgesKept ==
    ASSUME \/ LoopStep \/ \E m \in Msg : TaskStep(m)
           \/ \E f \in outgoing : Deliver(f)
           \/ \E S \in SUBSET processing : RecoverCrash(S)
           \/ Start \/ Stop \/ Crash \/ UNCHANGED vars
    PROVE  UNCHANGED <<body, mtime, before>>
<1> USE DEF files, hist
<1>1. CASE LoopStep
  BY <1>1 DEF LoopStep, Recover, NewRound, ClaimIoError, ClaimEnd, Dispatch, CollectEnd, DrainEnd,
     RecoverError, RecoverFiles, Claim, Enqueue, Unparsable, Collect, DrainPending, DrainIoError
<1>2. ASSUME NEW m \in Msg, TaskStep(m) PROVE UNCHANGED <<body, mtime, before>>
  BY <1>2 DEF TaskStep, RouteAck, RouteFailed, RouteNoResponse, RouteReplies, WriteReply, Unlink,
     RequeueFailure, DeadLetter, Bury, Notify, TaskIoError
<1>3. CASE UNCHANGED vars
  BY <1>3 DEF vars
<1>4. QED
  BY <1>1, <1>2, <1>3 DEF Deliver, RecoverCrash, RecoverFiles, Start, Stop, Crash

LEMMA AgedStep ==
    ASSUME TypeOK, Aged, [Next]_vars
    PROVE  Aged'
<1>1. ASSUME NEW m \in Msg, CreateFile(m) PROVE Aged'
  <2>1. PICK k \in Msg : IsLatest(mtime, k) /\ mtime' = [mtime EXCEPT ![m] = mtime[k] + 1]
    BY <1>1 DEF CreateFile, Touch
  <2>2. \A n \in Msg : mtime[n] < mtime'[m] /\ (n # m => mtime'[n] = mtime[n])
    BY <2>1 DEF IsLatest, TypeOK
  <2>3. body' = [body EXCEPT ![m] = "partial"] /\ body[m] = "none"
    BY <1>1 DEF CreateFile
  <2>4. \A x, y \in Msg : <<x, y>> \in before' => <<x, y>> \in before \/ (y = m /\ body[x] = "full")
    BY <1>1 DEF CreateFile
  <2>5. QED
    BY <2>2, <2>3, <2>4 DEF Aged, TypeOK
<1>2. ASSUME NEW m \in Msg, FinishWrite(m) PROVE Aged'
  <2>1. PICK k \in Msg : IsLatest(mtime, k) /\ mtime' = [mtime EXCEPT ![m] = mtime[k] + 1]
    BY <1>2 DEF FinishWrite, Touch
  <2>2. \A n \in Msg : mtime[n] < mtime'[m] /\ (n # m => mtime'[n] = mtime[n])
    BY <2>1 DEF IsLatest, TypeOK
  <2>3. body' = [body EXCEPT ![m] = "full"] /\ body[m] = "partial" /\ before' = before
    BY <1>2 DEF FinishWrite, hist
  <2>4. QED
    BY <2>2, <2>3 DEF Aged, TypeOK
<1>3. CASE UNCHANGED <<body, mtime, before>>
  BY <1>3 DEF Aged
<1>4. QED
  BY <1>1, <1>2, <1>3, AgesKept DEF Next, Outside

LEMMA InOrderTask ==
    ASSUME TypeOK, InOrder, NEW m \in Msg, TaskStep(m)
    PROVE  InOrder'
<1>1. \A n \in Msg : Busy(n)' <=> Busy(n)
  BY TaskKeepsSlots DEF Occupied
<1>2. UNCHANGED <<pending, hand, before>>
  <2>1. hand' = hand
    BY DEF TaskStep, RouteAck, RouteFailed, RouteNoResponse, RouteReplies, WriteReply, Unlink,
       RequeueFailure, DeadLetter, Bury, Notify, TaskIoError, LoopUnchanged
  <2>2. QED
    BY <2>1, TaskKeepsSlots, AgesKept DEF sched
<1>3. \/ UNCHANGED <<incoming, attempt>>
      \/ incoming' = incoming \cup {m} /\ attempt' = [attempt EXCEPT ![m] = NextAttempt(m)]
  BY DEF TaskStep, RouteAck, RouteFailed, RouteNoResponse, RouteReplies, WriteReply, Unlink,
     RequeueFailure, DeadLetter, Bury, Notify, TaskIoError, RequeueFile, files
<1>4. NextAttempt(m) # 0
  BY ConstantsOK DEF NextAttempt, TypeOK
<1>5. QED
  BY <1>1, <1>2, <1>3, <1>4 DEF InOrder, Elder, Waiting, Queued, TypeOK

\* Recovery runs while nothing is claimed, queued or executed.
LEMMA InOrderRecovery ==
    ASSUME TypeOK, Stages, NEW S \in SUBSET processing, RecoverFiles(S), pc = "recover",
           UNCHANGED <<hand, sched, tasks>>
    PROVE  InOrder'
BY DEF InOrder, Stages, Asleep, Waiting, Queued, Busy, TypeOK, sched, tasks

LEMMA InOrderDispatch ==
    ASSUME TypeOK, KeysHeld, Stages, InOrder, Dispatch
    PROVE  InOrder'
<1>1. SUFFICES ASSUME NEW x \in Msg, NEW y \in Msg, Elder(x, y), Waiting(x)', attempt[x] = 0
               PROVE  /\ ~Busy(y)'
                      /\ y \in hand' => Queued(x)'
                      /\ Queued(y)' => Queued(x)' /\ pending'[x] < pending'[y]
  BY DEF Dispatch, InOrder, Elder, files
<1>2. \A n \in Msg : /\ n \in Runnable => pending'[n] = 0 /\ task'[n] = "route"
                     /\ n \notin Runnable => pending'[n] = pending[n] /\ task'[n] = task[n]
  BY DEF Dispatch
<1>3. UNCHANGED <<incoming, hand>> /\ hand = {}
  BY DEF Dispatch, Stages, files
<1>4. x \notin Runnable /\ Waiting(x)
  BY <1>1, <1>2, <1>3, RunnableFacts DEF Waiting, Queued, Stages, OneStage
<1>5. ~Busy(y) /\ (Queued(y) => Queued(x) /\ pending[x] < pending[y])
  BY <1>1, <1>4 DEF InOrder
<1>6. y \notin Runnable
  <2>1. SUFFICES ASSUME y \in Runnable PROVE FALSE
    OBVIOUS
  <2>2. Queued(x) /\ pending[x] < pending[y]
    BY <1>5, <2>1, RunnableFacts
  <2>3. pending[y] <= pending[x]
    BY <1>1, <2>1, <2>2 DEF Runnable, FirstOfIdleKey, Elder
  <2>4. QED
    BY <2>2, <2>3 DEF TypeOK
<1>7. QED
  BY <1>2, <1>3, <1>4, <1>5, <1>6 DEF Busy, Queued

LEMMA InOrderLoop ==
    ASSUME TypeOK, KeysHeld, Stages, Aged, InOrder, LoopStep
    PROVE  InOrder'
<1> USE DEF Elder, Waiting, Queued, Busy, files, sched, tasks
<1>1. CASE Recover \/ \E S \in SUBSET processing : RecoverError(S)
  BY <1>1, InOrderRecovery DEF Recover, RecoverError
<1>2. CASE NewRound \/ ClaimIoError \/ ClaimEnd \/ CollectEnd \/ DrainEnd
  BY <1>2, AgesKept DEF NewRound, ClaimIoError, ClaimEnd, CollectEnd, DrainEnd, InOrder
<1>3. ASSUME NEW m \in Msg, Claim(m) PROVE InOrder'
  <2>1. \A n \in incoming : mtime[m] <= mtime[n]
    BY <1>3 DEF Claim, IsOldest
  <2>2. hand = {} /\ hand' = {m} /\ m \in incoming /\ incoming' = incoming \ {m}
    BY <1>3 DEF Claim, IsOldest, Stages
  <2>3. UNCHANGED <<pending, task, attempt, before>>
    BY <1>3, AgesKept DEF Claim
  <2>4. ASSUME NEW x \in Msg, <<x, m>> \in before, Waiting(x) PROVE Queued(x)
    BY <2>1, <2>2, <2>4 DEF Aged, TypeOK
  <2>5. \A x \in Msg : <<x, x>> \notin before
    BY DEF Aged, TypeOK
  <2>6. ~Queued(m)
    BY <2>2 DEF Stages, OneStage
  <2>7. QED
    BY <2>2, <2>3, <2>4, <2>5, <2>6 DEF InOrder
<1>4. ASSUME NEW m \in Msg, Enqueue(m) PROVE InOrder'
  <2>1. PICK k \in Msg : IsLatest(pending, k) /\ pending' = [pending EXCEPT ![m] = pending[k] + 1]
    BY <1>4 DEF Enqueue
  <2>2. \A n \in Msg : pending[n] < pending'[m] /\ (n # m => pending'[n] = pending[n])
    BY <2>1 DEF IsLatest, TypeOK
  <2>3. hand = {m} /\ hand' = {} /\ UNCHANGED <<incoming, task, attempt, before>>
    BY <1>4, AgesKept DEF Enqueue
  <2>4. \A x \in Msg : <<x, x>> \notin before
    BY DEF Aged, TypeOK
  <2>5. ~Queued(m)
    BY <2>3 DEF Stages, OneStage
  <2>6. QED
    BY <2>2, <2>3, <2>4, <2>5 DEF InOrder, TypeOK
<1>5. ASSUME NEW m \in Msg, Unparsable(m) PROVE InOrder'
  <2>1. \A y \in Msg : <<m, y>> \notin before
    BY <1>5 DEF Unparsable, Aged
  <2>2. hand' = {} /\ UNCHANGED <<pending, task, before>> /\ incoming' = incoming \cup {m}
    BY <1>5, AgesKept DEF Unparsable, RequeueFile
  <2>3. \A x \in Msg : x # m => attempt'[x] = attempt[x]
    BY <1>5 DEF Unparsable, RequeueFile, TypeOK
  <2>4. QED
    BY <2>1, <2>2, <2>3 DEF InOrder
<1>6. ASSUME NEW m \in Msg, DrainPending(m) \/ DrainIoError(m) PROVE InOrder'
  <2>1. pending' = [pending EXCEPT ![m] = 0] /\ UNCHANGED <<hand, task, before>>
    BY <1>6, AgesKept DEF DrainPending, DrainIoError
  <2>2. \/ UNCHANGED <<incoming, attempt>>
        \/ incoming' = incoming \cup {m} /\ attempt' = [attempt EXCEPT ![m] = NextAttempt(m)]
    BY <1>6 DEF DrainPending, DrainIoError, RequeueFile
  <2>3. NextAttempt(m) # 0
    BY ConstantsOK DEF NextAttempt, TypeOK
  <2>4. Queued(m) /\ m \notin incoming \cup hand
    BY <1>6 DEF DrainPending, DrainIoError, Stages, OneStage
  <2>5. QED
    BY <2>1, <2>2, <2>3, <2>4 DEF InOrder, TypeOK
<1>7. ASSUME NEW m \in Msg, Collect(m) PROVE InOrder'
  <2>1. \A n \in Msg : task'[n] # "none" => task[n] # "none"
    BY <1>7 DEF Collect, TypeOK
  <2>2. UNCHANGED <<incoming, hand, pending, attempt, before>>
    BY <1>7, AgesKept DEF Collect
  <2>3. QED
    BY <2>1, <2>2 DEF InOrder
<1>8. QED
  BY <1>1, <1>2, <1>3, <1>4, <1>5, <1>6, <1>7, InOrderDispatch DEF LoopStep

LEMMA InOrderOutside ==
    ASSUME TypeOK, Stages, Aged, InOrder, Outside
    PROVE  InOrder'
<1> USE DEF Elder, Waiting, Queued, Busy, files, sched, tasks
<1>1. ASSUME NEW m \in Msg, CreateFile(m) PROVE InOrder'
  <2>1. \A x, y \in Msg : <<x, y>> \in before' => <<x, y>> \in before \/ (y = m /\ body[x] = "full")
    BY <1>1 DEF CreateFile
  <2>2. body[m] = "none" /\ UNCHANGED <<hand, pending, task, attempt>> /\ incoming' = incoming \cup {m}
    BY <1>1 DEF CreateFile
  <2>3. ~Busy(m) /\ ~Queued(m) /\ m \notin hand
    BY <2>2 DEF Stages
  <2>4. QED
    BY <2>1, <2>2, <2>3 DEF InOrder, Aged
<1>2. ASSUME NEW m \in Msg, FinishWrite(m) PROVE InOrder'
  BY <1>2 DEF FinishWrite, InOrder, hist
<1>3. ASSUME NEW f \in outgoing, Deliver(f) PROVE InOrder'
  BY <1>3 DEF Deliver, InOrder, hist
<1>4. ASSUME NEW S \in SUBSET processing, RecoverCrash(S) PROVE InOrder'
  BY <1>4, InOrderRecovery DEF RecoverCrash
<1>5. CASE Start \/ Stop
  BY <1>5 DEF Start, Stop, InOrder, hist
<1>6. CASE Crash
  BY <1>6 DEF Crash, InOrder
<1>7. QED
  BY <1>1, <1>2, <1>3, <1>4, <1>5, <1>6 DEF Outside

\* claim_oldest, enqueue and dequeue_runnable together keep each key first in,
\* first out: a message overtakes an older one of its key only if the older one
\* was requeued, whatever crashes, half-written files and failing renames occur.
THEOREM OvertakingIsByRetry == Spec => []OvertakenOnlyIfRetried
<1>1. Init => Aged /\ InOrder
  BY DEF Init, Aged, InOrder, Elder
<1>2. TypeOK /\ KeysHeld /\ Stages /\ Aged /\ InOrder /\ [Next]_vars => Aged' /\ InOrder'
  <2>1. ASSUME InOrder, UNCHANGED vars PROVE InOrder'
    BY <2>1 DEF InOrder, Elder, Waiting, Queued, Busy, vars, files, sched, tasks, hist
  <2>2. QED
    BY <2>1, AgedStep, InOrderTask, InOrderLoop, InOrderOutside DEF Next
<1>3. TypeOK /\ InOrder => OvertakenOnlyIfRetried
  BY DEF InOrder, Elder, Waiting, OvertakenOnlyIfRetried, Queued, TypeOK
<1>4. QED
  BY <1>1, <1>2, <1>3, Typing, KeysAndSlots, StagesAlways, PTL DEF Spec

-----------------------------------------------------------------------------
(***************************************************************************)
(* The queue implements its contract.  Each step is one of the contract's  *)
(* or changes nothing the contract sees; the invariants above give the     *)
(* contract's guards.                                                      *)
(***************************************************************************)
Holding == incoming \cup processing
Outcome == replied \cup silent \cup failed

\* The contract's next-state relation, spelled out under the mapping.
LEMMA ContractSteps ==
    ASSUME \/ \E m \in Msg : /\ m \notin Holding \cup Outcome
                             /\ Holding' = Holding \cup {m}
                             /\ Occupied' = Occupied /\ Outcome' = Outcome
           \/ \E m \in Occupied : /\ Outcome' = Outcome \cup {m}
                                  /\ Holding' = Holding /\ Occupied' = Occupied
           \/ \E S \in SUBSET Holding : /\ S \subseteq Outcome
                                        /\ Holding' = Holding \ S
                                        /\ Occupied' = Occupied /\ Outcome' = Outcome
           \/ \E S \in SUBSET Occupied : /\ Occupied' = Occupied \ S
                                         /\ Holding' = Holding /\ Outcome' = Outcome
           \/ Holding' = Holding /\ Occupied' = Occupied /\ Outcome' = Outcome
    PROVE  [Contract!Next]_(Contract!vars)
<1>1. CASE \E m \in Msg : /\ m \notin Holding \cup Outcome /\ Holding' = Holding \cup {m}
                          /\ Occupied' = Occupied /\ Outcome' = Outcome
  <2>1. \E m \in Msg : Contract!Accept(m)
    BY <1>1 DEF Contract!Accept, Holding, Occupied, Outcome
  <2>2. QED
    BY <2>1 DEF Contract!Next
<1>2. CASE \E m \in Occupied : /\ Outcome' = Outcome \cup {m}
                               /\ Holding' = Holding /\ Occupied' = Occupied
  <2>1. \E m \in Msg : Contract!Settle(m)
    BY <1>2 DEF Contract!Settle, Holding, Occupied, Outcome
  <2>2. QED
    BY <2>1 DEF Contract!Next
<1>3. CASE \E S \in SUBSET Holding : /\ S \subseteq Outcome /\ Holding' = Holding \ S
                                     /\ Occupied' = Occupied /\ Outcome' = Outcome
  <2>1. \E S \in SUBSET Holding : Contract!Release(S)
    BY <1>3 DEF Contract!Release, Holding, Occupied, Outcome
  <2>2. QED
    BY <2>1 DEF Contract!Next, Holding
<1>4. CASE \E S \in SUBSET Occupied : /\ Occupied' = Occupied \ S
                                      /\ Holding' = Holding /\ Outcome' = Outcome
  <2>1. \E S \in SUBSET Occupied : Contract!Finish(S)
    BY <1>4 DEF Contract!Finish, Holding, Occupied, Outcome
  <2>2. QED
    BY <2>1 DEF Contract!Next, Occupied
<1>5. CASE Holding' = Holding /\ Occupied' = Occupied /\ Outcome' = Outcome
  BY <1>5 DEF Contract!vars, Holding, Occupied, Outcome
<1>6. QED
  BY <1>1, <1>2, <1>3, <1>4, <1>5

LEMMA ContractTask ==
    ASSUME TypeOK, Stages, OutcomeFirst, NEW m \in Msg, TaskStep(m)
    PROVE  [Contract!Next]_(Contract!vars)
<1>1. Occupied' = Occupied
  BY TaskKeepsSlots
<1>2. m \in Occupied
  BY DEF TaskStep, RouteAck, RouteFailed, RouteNoResponse, RouteReplies, WriteReply, Unlink,
     RequeueFailure, DeadLetter, Bury, Notify, TaskIoError, Routing, Occupied, Busy
<1> USE DEF Holding, Outcome, files, hist
<1>3. CASE RouteAck(m) \/ RouteFailed(m) \/ Notify(m) \/ TaskIoError(m)
  <2>1. Holding' = Holding /\ Outcome' = Outcome
    BY <1>3 DEF RouteAck, RouteFailed, Notify, TaskIoError
  <2>2. QED
    BY <1>1, <2>1, ContractSteps
<1>4. CASE \E n \in 1..MaxReplies : RouteReplies(m, n)
  <2>1. Holding' = Holding /\ Outcome' = Outcome
    BY <1>4 DEF RouteReplies
  <2>2. QED
    BY <1>1, <2>1, ContractSteps
<1>5. CASE RequeueFailure(m)
  <2>1. m \in processing
    BY <1>5 DEF RequeueFailure, Stages
  <2>2. Holding' = Holding /\ Outcome' = Outcome
    BY <1>5, <2>1 DEF RequeueFailure, RequeueFile
  <2>3. QED
    BY <1>1, <2>2, ContractSteps
<1>6. CASE RouteNoResponse(m) \/ WriteReply(m) \/ DeadLetter(m)
  <2>1. Holding' = Holding /\ Outcome' = Outcome \cup {m}
    BY <1>6 DEF RouteNoResponse, WriteReply, DeadLetter
  <2>2. QED
    BY <1>1, <1>2, <2>1, ContractSteps
<1>7. CASE Unlink(m) \/ Bury(m)
  <2>1. m \in processing /\ m \notin incoming
    BY <1>7 DEF Unlink, Bury, Stages, OneStage
  <2>2. m \in Outcome
    BY <1>7 DEF Unlink, Bury, OutcomeFirst
  <2>3. Holding' = Holding \ {m} /\ Outcome' = Outcome
    BY <1>7, <2>1 DEF Unlink, Bury
  <2>4. {m} \in SUBSET Holding /\ {m} \subseteq Outcome
    BY <2>1, <2>2
  <2>5. QED
    BY <1>1, <2>3, <2>4, ContractSteps
<1>8. QED
  BY <1>3, <1>4, <1>5, <1>6, <1>7 DEF TaskStep

\* Recovery lets go of the files it drops, and each of them has a reply.
LEMMA ContractRecovery ==
    ASSUME TypeOK, Stages, OutcomeFirst, NEW S \in SUBSET processing, RecoverFiles(S),
           UNCHANGED <<sched, tasks>>
    PROVE  [Contract!Next]_(Contract!vars)
<1> DEFINE D == {m \in S : ReplyKeyQueued(m)}
<1>1. D \subseteq Outcome
  <2>1. ASSUME NEW m \in D PROVE m \in Outcome
    <3>1. PICK f \in outgoing : f.msg = m /\ f.kind \in {"reply", "summary"}
      BY <2>1 DEF ReplyKeyQueued
    <3>2. QED
      BY <3>1 DEF OutcomeFirst, Outcome
  <2>2. QED
    BY <2>1
<1>2. S \cap incoming = {}
  BY DEF Stages, OneStage, TypeOK
<1>3. Holding' = Holding \ D /\ D \in SUBSET Holding
  BY <1>2 DEF RecoverFiles, Holding
<1>4. Occupied' = Occupied /\ Outcome' = Outcome
  BY DEF RecoverFiles, Occupied, Busy, Outcome, tasks
<1>5. QED
  BY <1>1, <1>3, <1>4, ContractSteps

LEMMA SameCardinality == \A S : Contract!Cardinality(S) = Cardinality(S)
BY DEF Contract!Cardinality, Cardinality

\* What Dispatch starts is held, apart by key and within the slots.
LEMMA ContractDispatch ==
    ASSUME TypeOK, KeysHeld, SlotsHeld, Stages, KeysHeld', SlotsHeld', Dispatch
    PROVE  \E S \in SUBSET Holding : Contract!Execute(S)
<1>1. Occupied' = Occupied \cup Runnable
  BY RunnableFacts DEF Dispatch, Occupied, Busy, TypeOK
<1>2. Runnable \subseteq Holding \ Occupied
  BY RunnableFacts DEF Stages, Holding, Occupied
<1>3. \A m, n \in Occupied' : OrderingKey(m) = OrderingKey(n) => m = n
  BY DEF KeysHeld, Occupied
<1>4. Cardinality(Occupied') <= MaxConcurrency
  BY DEF SlotsHeld
<1>5. Holding' = Holding /\ Outcome' = Outcome
  BY DEF Dispatch, Holding, Outcome, files, hist
<1>6. Contract!Execute(Runnable)
  BY <1>1, <1>2, <1>3, <1>4, <1>5, SameCardinality
     DEF Contract!Execute, Contract!Apart, Holding, Occupied, Outcome
<1>7. QED
  BY <1>2, <1>6

LEMMA ContractLoop ==
    ASSUME TypeOK, KeysHeld, SlotsHeld, Stages, OutcomeFirst, KeysHeld', SlotsHeld', LoopStep
    PROVE  [Contract!Next]_(Contract!vars)
<1> USE DEF Holding, Occupied, Busy, Outcome, files, tasks, hist
<1>1. CASE Recover \/ \E S \in SUBSET processing : RecoverError(S)
  BY <1>1, ContractRecovery DEF Recover, RecoverError
<1>2. CASE Dispatch
  BY <1>2, ContractDispatch DEF Contract!Next
<1>3. CASE NewRound \/ ClaimIoError \/ ClaimEnd \/ CollectEnd \/ DrainEnd
  <2>1. Holding' = Holding /\ Occupied' = Occupied /\ Outcome' = Outcome
    BY <1>3 DEF NewRound, ClaimIoError, ClaimEnd, CollectEnd, DrainEnd
  <2>2. QED
    BY <2>1, ContractSteps
<1>4. ASSUME NEW m \in Msg, Claim(m) \/ Enqueue(m) \/ DrainIoError(m)
      PROVE  [Contract!Next]_(Contract!vars)
  <2>1. Holding' = Holding /\ Occupied' = Occupied /\ Outcome' = Outcome
    BY <1>4 DEF Claim, IsOldest, Enqueue, DrainIoError
  <2>2. QED
    BY <2>1, ContractSteps
<1>5. ASSUME NEW m \in Msg, Unparsable(m) \/ DrainPending(m)
      PROVE  [Contract!Next]_(Contract!vars)
  <2>1. m \in processing
    BY <1>5 DEF Unparsable, DrainPending, Stages
  <2>2. Holding' = Holding /\ Occupied' = Occupied /\ Outcome' = Outcome
    BY <1>5, <2>1 DEF Unparsable, DrainPending, RequeueFile
  <2>3. QED
    BY <2>2, ContractSteps
<1>6. ASSUME NEW m \in Msg, Collect(m) PROVE [Contract!Next]_(Contract!vars)
  <2>1. Holding' = Holding /\ Outcome' = Outcome
    BY <1>6 DEF Collect
  <2>2. Occupied' = Occupied \ {m} /\ {m} \in SUBSET Occupied
    BY <1>6 DEF Collect, TypeOK
  <2> HIDE DEF Holding, Occupied, Outcome
  <2>3. QED
    BY <2>1, <2>2, ContractSteps
<1>7. QED
  BY <1>1, <1>2, <1>3, <1>4, <1>5, <1>6 DEF LoopStep

LEMMA ContractOutside ==
    ASSUME TypeOK, Stages, OutcomeFirst, WrittenFirst, Outside
    PROVE  [Contract!Next]_(Contract!vars)
<1>1. ASSUME NEW m \in Msg, CreateFile(m) PROVE [Contract!Next]_(Contract!vars)
  <2>1. m \notin Holding \cup Outcome
    BY <1>1 DEF CreateFile, Stages, WrittenFirst, Settled, Holding, Outcome
  <2>2. Holding' = Holding \cup {m} /\ Occupied' = Occupied /\ Outcome' = Outcome
    BY <1>1 DEF CreateFile, Holding, Outcome, Occupied, Busy, tasks
  <2>3. QED
    BY <2>1, <2>2, ContractSteps
<1>2. CASE \/ \E m \in Msg : FinishWrite(m)
           \/ \E f \in outgoing : Deliver(f)
           \/ Start \/ Stop
  <2>1. Holding' = Holding /\ Occupied' = Occupied /\ Outcome' = Outcome
    BY <1>2 DEF FinishWrite, Deliver, Start, Stop, Holding, Outcome, Occupied, Busy, files, tasks, hist
  <2>2. QED
    BY <2>1, ContractSteps
<1>3. ASSUME NEW S \in SUBSET processing, RecoverCrash(S) PROVE [Contract!Next]_(Contract!vars)
  BY <1>3, ContractRecovery DEF RecoverCrash
<1>4. CASE Crash
  <2>1. Holding' = Holding /\ Outcome' = Outcome
    BY <1>4 DEF Crash, Holding, Outcome, files, hist
  <2>2. Occupied' = Occupied \ Occupied /\ Occupied \in SUBSET Occupied
    BY <1>4 DEF Crash, Occupied, Busy
  <2>3. QED
    BY <2>1, <2>2, ContractSteps
<1>5. QED
  BY <1>1, <1>2, <1>3, <1>4 DEF Outside

\* Every behaviour of the file queue and its worker is one the queue's contract
\* allows, for every set of messages, every concurrency and every retry limit.
THEOREM QueueImplementsContract == Spec => ImplementsContract
<1>1. Init => Contract!Init
  BY DEF Init, Contract!Init, Busy
<1>2. /\ TypeOK /\ KeysHeld /\ SlotsHeld /\ Stages /\ OutcomeFirst /\ WrittenFirst
      /\ [Next]_vars
      => [Contract!Next]_(Contract!vars)
  <2>1. ASSUME TypeOK, KeysHeld, SlotsHeld, Stages, OutcomeFirst, WrittenFirst, [Next]_vars
        PROVE  [Contract!Next]_(Contract!vars)
    <3>1. KeysHeld' /\ SlotsHeld'
      BY <2>1, KeysStep, SlotsStep
    <3>2. CASE UNCHANGED vars
      BY <3>2 DEF vars, files, tasks, hist, Contract!vars, Busy
    <3>3. QED
      BY <2>1, <3>1, <3>2, ContractTask, ContractLoop, ContractOutside DEF Next
  <2>2. QED
    BY <2>1
<1>3. QED
  BY <1>1, <1>2, Typing, KeysAndSlots, StagesAlways, OutcomeAlways, WrittenAlways, PTL
     DEF Spec, ImplementsContract, Contract!Spec
=============================================================================
