------------------------- MODULE JobSchedulerProofs -------------------------
(***************************************************************************)
(* Theorems about JobScheduler for every set of jobs and threads and every *)
(* number of crashes, errors and commands.                                 *)
(***************************************************************************)
EXTENDS JobScheduler, TLAPS

(***************************************************************************)
(* Types.  Beyond TypeOK: every copy of the state file respects the limit  *)
(* of recent ids, a thread at work has a trigger, a command a job, and the *)
(* job being dispatched is due.                                            *)
(***************************************************************************)
Typed ==
    /\ TypeOK
    /\ Len(tickState.recent) <= MaxRecent /\ Len(tickBase.recent) <= MaxRecent
    /\ \A w \in Worker : Len(wbase[w].recent) <= MaxRecent
    /\ \A w \in Worker : wpc[w] # "idle" => wtrig[w] \in Trigger
    /\ cliPc = "save" => cliJob \in Job
    /\ tickPc \in {"persist", "record"} => \A j \in todo : (\A k \in todo : j <= k) => Due(j)

LEMMA OrElseType ==
  ASSUME NEW o \in Optional, NEW d \in Nat PROVE OrElse(o, d) \in Nat
  BY DEF OrElse, Optional

LEMMA SingleType == ASSUME NEW n \in Nat PROVE {n} \in Optional
  BY DEF Optional

LEMMA DivType == ASSUME NEW n \in Nat, NEW d \in Nat \ {0} PROVE (n \div d + 1) * d \in Nat
  <1>1. n \div d \in Nat OBVIOUS
  <1> QED BY <1>1

LEMMA NextRunType ==
  ASSUME NEW s \in Schedule, NEW now \in Nat, NEW last \in Optional
  PROVE  NextRun(s, now, last) \in Optional
  <1>0. {} \in Optional BY DEF Optional
  <1>1. CASE s \in [type : {"once"}, at : Nat]
    BY <1>0, <1>1, SingleType DEF NextRun
  <1>2. CASE s \in [type : {"interval"}, every : Nat \ {0}, anchor : Optional]
    <2>1. OrElse(last, OrElse(s.anchor, now)) + s.every \in Nat
      BY <1>2, OrElseType
    <2> QED BY <1>2, <2>1, SingleType DEF NextRun
  <1>3. CASE s \in [type : {"cron"}, every : Nat \ {0}]
    <2>1. (OrElse(last, now) \div s.every + 1) * s.every \in Nat
      BY <1>3, OrElseType, DivType
    <2> QED BY <1>3, <2>1, SingleType DEF NextRun
  <1> QED BY <1>1, <1>2, <1>3 DEF Schedule

LEMMA RecoveryType ==
  ASSUME NEW s \in Schedule, NEW now \in Nat PROVE RecoveryNext(s, now) \in Optional
  <1>1. {} \in Optional BY DEF Optional
  <1> QED BY <1>1, NextRunType, SingleType DEF RecoveryNext

LEMMA RecordTypes ==
  ASSUME NEW r \in JobRec, NEW t \in Nat, NEW now \in Nat
  PROVE  Dispatched(r, t, now) \in JobRec /\ SkippedMissed(r, now) \in JobRec
  <1>1. r.schedule \in Schedule BY DEF JobRec
  <1>2. NextAfterDispatch(r, t, now) \in Optional
    BY <1>1, NextRunType, RecoveryType, SingleType DEF NextAfterDispatch
  <1>3. ASSUME NEW q \in JobRec PROVE Settle(q) \in JobRec
    BY DEF Settle, JobRec, State
  <1>4. [r EXCEPT !.last = {now}, !.next = NextAfterDispatch(r, t, now)] \in JobRec
    BY <1>2, SingleType DEF JobRec
  <1>5. [r EXCEPT !.next = RecoveryNext(r.schedule, now)] \in JobRec
    BY <1>1, RecoveryType DEF JobRec
  <1> QED BY <1>3, <1>4, <1>5 DEF Dispatched, SkippedMissed

LEMMA PushRecentType ==
  ASSUME NEW s \in Seq(Exec), Len(s) <= MaxRecent, NEW e \in Exec
  PROVE  PushRecent(s, e) \in Seq(Exec) /\ Len(PushRecent(s, e)) <= MaxRecent
  <1> DEFINE p == Append(s, e)
  <1>1. p \in Seq(Exec) /\ Len(p) = Len(s) + 1 /\ Len(s) \in Nat
    OBVIOUS
  <1>2. CASE Len(p) > MaxRecent
    <2> DEFINE a == Len(p) - MaxRecent + 1
    <2>1. a \in Nat /\ a >= 1 /\ a <= Len(p) + 1 /\ MaxRecent \in Nat
      BY <1>1, <1>2, ConstantsOK
    <2>2. /\ SubSeq(p, a, Len(p)) \in Seq(Exec)
          /\ Len(SubSeq(p, a, Len(p))) = IF a <= Len(p) THEN Len(p) - a + 1 ELSE 0
      <3> HIDE DEF p, a
      <3> QED BY <1>1, <2>1
    <2> QED BY <1>1, <1>2, <2>1, <2>2 DEF PushRecent
  <1>3. CASE ~(Len(p) > MaxRecent)
    BY <1>1, <1>3, ConstantsOK DEF PushRecent
  <1> QED BY <1>2, <1>3

LEMMA Blanks ==
  /\ NoJob \in JobRec /\ NoState \in SchedState /\ Len(NoState.recent) <= MaxRecent
  <1>1. [type |-> "once", at |-> 0] \in Schedule /\ {} \in Optional
    BY DEF Schedule, Optional
  <1>2. NoJob \in JobRec
    BY <1>1 DEF NoJob, JobRec, State, Policy
  <1>3. <<>> \in Seq(Exec) /\ Len(<<>>) = 0
    OBVIOUS
  <1> QED BY <1>2, <1>3, ConstantsOK DEF NoState, SchedState

LEMMA TypedInit == Init => Typed
  <1> SUFFICES ASSUME Init PROVE Typed
    OBVIOUS
  <1>1. 0 \in Time /\ 0 \in 0..MaxOps /\ 0 \in 0..MaxCuts /\ 0 \in 0..MaxFailures
    BY ConstantsOK DEF Time
  <1>2. /\ job \in [Job -> JobRec] /\ snapshot \in [Job -> JobRec]
        /\ wbase \in [Worker -> SchedState] /\ wjob \in [Worker -> JobRec]
        /\ wtrig \in [Worker -> Trigger \cup {NoTrigger}]
        /\ dispatches \in [Exec -> Nat]
    BY Blanks DEF Init
  <1>3. TypeOK
    BY <1>1, <1>2, Blanks DEF Init, TypeOK, WorkerPc
  <1>4. Len(tickState.recent) <= MaxRecent /\ Len(tickBase.recent) <= MaxRecent
    BY Blanks DEF Init
  <1>5. \A w \in Worker : Len(wbase[w].recent) <= MaxRecent /\ wpc[w] = "idle"
    BY Blanks DEF Init
  <1> QED BY <1>3, <1>4, <1>5 DEF Init, Typed

LEMMA WriteJobType ==
  ASSUME TypeOK, NEW j \in Job, NEW base, NEW r \in JobRec, WriteJob(j, base, r)
  PROVE  /\ job' \in [Job -> JobRec] /\ tornJobs' \subseteq Job
         /\ mishaps' \subseteq Mishap \X Job
  <1>1. job' \in [Job -> JobRec] /\ tornJobs' \subseteq Job
    BY DEF TypeOK, WriteJob
  <1>2. <<"stale_job", j>> \in Mishap \X Job
    BY DEF Mishap
  <1> QED BY <1>1, <1>2 DEF TypeOK, WriteJob

LEMMA WriteStateType ==
  ASSUME TypeOK, NEW base, NEW s \in SchedState, Len(s.recent) <= MaxRecent,
         WriteState(base, s)
  PROVE  /\ stateFile' \in SchedState /\ Len(stateFile'.recent) <= MaxRecent
         /\ tornState' \in BOOLEAN /\ mishaps' \subseteq Mishap \X Job
  <1>1. \A j \in Job : <<"stale_state", j>> \in Mishap \X Job
    BY DEF Mishap
  <1>2. {<<"stale_state", j>> : j \in Job} \subseteq Mishap \X Job
    BY <1>1
  <1>3. mishaps' \subseteq Mishap \X Job
    BY <1>2 DEF TypeOK, WriteState
  <1>4. stateFile' = s /\ tornState' = FALSE
    BY DEF WriteState
  <1> QED BY <1>3, <1>4

LEMMA TickIdleType ==
  ASSUME TickIdle
  PROVE  /\ tickPc' = "idle" /\ tickNow' \in Time
         /\ tickBase' \in SchedState /\ tickState' \in SchedState
         /\ Len(tickBase'.recent) <= MaxRecent /\ Len(tickState'.recent) <= MaxRecent
         /\ snapshot' \in [Job -> JobRec] /\ todo' \subseteq Job
  BY Blanks, ConstantsOK DEF TickIdle, Time

\* The job a tick dispatches is due at a time the clock has reached.
LEMMA DueType ==
  ASSUME Typed, NEW j \in Job, Due(j)
  PROVE  DueAt(j) \in Nat /\ ExecId(j) \in Exec
  <1>1. snapshot[j].next \in Optional /\ tickNow \in Time
    BY DEF Typed, TypeOK, JobRec
  <1>2. PICK t \in snapshot[j].next : t <= tickNow
    BY DEF Due
  <1>3. DueAt(j) = t /\ t \in Nat
    BY <1>1, <1>2 DEF DueAt, Optional
  <1>4. t \in Time
    BY <1>1, <1>2, <1>3, ConstantsOK DEF Time
  <1> QED BY <1>3, <1>4 DEF ExecId, Exec

LEMMA TypedTickJob ==
  ASSUME Typed, NEW j \in Job,
         \/ TickPass(j) \/ TickSkipMissed(j) \/ TickDuplicate(j)
         \/ TickEnqueue(j) \/ TickPersist(j) \/ TickRecord(j)
  PROVE  Typed'
  <1> USE DEF tick, work, cli, count, files
  <1>0. /\ snapshot[j] \in JobRec /\ tickNow \in Nat
        /\ \A S \in SUBSET Job : todo \ S \subseteq Job
    BY ConstantsOK DEF Typed, TypeOK, Time
  <1>1. CASE TickPass(j)
    BY <1>1, <1>0 DEF TickPass, AtJob, Typed, TypeOK
  <1>2. CASE TickSkipMissed(j)
    <2>1. SkippedMissed(snapshot[j], tickNow) \in JobRec
      BY <1>0, RecordTypes
    <2>2. /\ job' \in [Job -> JobRec] /\ tornJobs' \subseteq Job
          /\ mishaps' \subseteq Mishap \X Job
      BY <1>2, <2>1, WriteJobType DEF TickSkipMissed, Typed
    <2> QED BY <1>0, <1>2, <2>2 DEF TickSkipMissed, AtJob, Typed, TypeOK
  <1>3. CASE TickDuplicate(j)
    <2>1. ExecId(j) \in Exec BY <1>3, DueType DEF TickDuplicate
    <2> QED BY <1>0, <1>3, <2>1 DEF TickDuplicate, AtJob, Typed, TypeOK
  <1>4. CASE TickEnqueue(j)
    <2>1. ExecId(j) \in Exec BY <1>4, DueType DEF TickEnqueue
    <2>2. queued' \subseteq Trigger
      BY <1>4, <2>1 DEF TickEnqueue, Trigger, Typed, TypeOK
    <2>3. dispatches' \in [Exec -> Nat]
      BY <1>4, <2>1 DEF TickEnqueue, Typed, TypeOK
    <2>4. mishaps' \subseteq Mishap \X Job
      BY <1>4 DEF TickEnqueue, Typed, TypeOK, Mishap
    <2>5. \A i \in todo' : (\A k \in todo' : i <= k) => Due(i)'
      <3> SUFFICES ASSUME NEW i \in todo, \A k \in todo : i <= k PROVE Due(i)'
        BY <1>4 DEF TickEnqueue
      <3>1. i \in Nat /\ j \in Nat /\ i <= j /\ j <= i
        BY <1>4, ConstantsOK DEF TickEnqueue, AtJob, Typed, TypeOK
      <3>2. i = j BY <3>1
      <3> QED BY <1>4, <3>2 DEF TickEnqueue, Due
    <2> QED BY <1>4, <2>2, <2>3, <2>4, <2>5 DEF TickEnqueue, Typed, TypeOK
  <1>5. CASE TickPersist(j)
    <2>1. Due(j)
      BY <1>5 DEF TickPersist, AtDispatch, Typed
    <2>2. Dispatched(snapshot[j], DueAt(j), tickNow) \in JobRec
      BY <1>0, <2>1, DueType, RecordTypes
    <2>3. /\ job' \in [Job -> JobRec] /\ tornJobs' \subseteq Job
          /\ mishaps' \subseteq Mishap \X Job
      BY <1>5, <2>2, WriteJobType DEF TickPersist, Typed
    <2>4. \A i \in todo' : (\A k \in todo' : i <= k) => Due(i)'
      BY <1>5 DEF TickPersist, AtDispatch, Typed, Due
    <2> QED BY <1>5, <2>3, <2>4 DEF TickPersist, Typed, TypeOK
  <1>6. CASE TickRecord(j)
    <2>1. Due(j)
      BY <1>6 DEF TickRecord, AtDispatch, Typed
    <2>2. ExecId(j) \in Exec
      BY <2>1, DueType
    <2>3. tickState.recent \in Seq(Exec) /\ Len(tickState.recent) <= MaxRecent
      BY DEF Typed, TypeOK, SchedState
    <2>4. /\ PushRecent(tickState.recent, ExecId(j)) \in Seq(Exec)
          /\ Len(PushRecent(tickState.recent, ExecId(j))) <= MaxRecent
      BY <2>2, <2>3, PushRecentType
    <2>5. tickState' \in SchedState /\ Len(tickState'.recent) <= MaxRecent
      BY <1>6, <2>2, <2>4 DEF TickRecord, Typed, TypeOK, SchedState
    <2> QED BY <1>0, <1>6, <2>2, <2>5 DEF TickRecord, Typed, TypeOK
  <1> QED BY <1>1, <1>2, <1>3, <1>4, <1>5, <1>6

LEMMA TypedTick == Typed /\ (TickStep \/ TickError) => Typed'
  <1> SUFFICES ASSUME Typed, TickStep \/ TickError PROVE Typed'
    OBVIOUS
  <1> USE DEF tick, work, cli, count, files
  <1>1. CASE TickLoad
    <2> DEFINE s == WithoutStale(stateFile, clock)
    <2>1. s \in SchedState /\ s.recent = stateFile.recent /\ s.active \subseteq stateFile.active
      BY DEF WithoutStale, Typed, TypeOK, SchedState
    <2>2. mishaps' \subseteq Mishap \X Job
      <3>1. ASSUME NEW a \in stateFile.active PROVE <<"expired", JobOf(a.exec)>> \in Mishap \X Job
        BY DEF Typed, TypeOK, SchedState, Exec, JobOf, Mishap
      <3> QED BY <1>1, <3>1 DEF TickLoad, Typed, TypeOK
    <2> QED BY <1>1, <2>1, <2>2 DEF TickLoad, Typed, TypeOK
  <1>2. CASE TickList
    <2>1. CASE tornJobs = {}
      BY <1>2, <2>1 DEF TickList, Typed, TypeOK
    <2>2. CASE tornJobs # {}
      BY <1>2, <2>2, TickIdleType DEF TickList, Typed, TypeOK
    <2> QED BY <2>1, <2>2
  <1>3. CASE TickSave
    <2>1. /\ stateFile' \in SchedState /\ Len(stateFile'.recent) <= MaxRecent
          /\ tornState' \in BOOLEAN /\ mishaps' \subseteq Mishap \X Job
      BY <1>3, WriteStateType DEF TickSave, Typed, TypeOK
    <2> QED BY <1>3, <2>1, TickIdleType DEF TickSave, Typed, TypeOK
  <1>4. CASE TickError
    <2>1. cuts' \in 0..MaxCuts
      BY <1>4, ConstantsOK DEF TickError, Typed, TypeOK
    <2>2. mishaps' \subseteq Mishap \X Job
      BY <1>4 DEF TickError, Typed, TypeOK, Mishap
    <2> QED BY <1>4, <2>1, <2>2, TickIdleType DEF TickError, Typed, TypeOK
  <1>5. ASSUME NEW j \in Job, TickUnreadable(j) PROVE Typed'
    BY <1>5, TickIdleType DEF TickUnreadable, Typed, TypeOK
  <1> QED BY <1>1, <1>2, <1>3, <1>4, <1>5, TypedTickJob DEF TickStep

LEMMA TypedComplete ==
  ASSUME Typed, NEW w \in Worker, CompleteStep(w) \/ CompleteError(w)
  PROVE  Typed'
  <1> USE DEF tick, work, cli, count, files, WorkerPc
  <1>0. wpc[w] # "idle" => wtrig[w] \in Trigger /\ JobOf(wtrig[w].exec) \in Job
    BY DEF Typed, Trigger, Exec, JobOf
  <1>1. ASSUME NEW g \in queued, WorkerTake(w, g) PROVE Typed'
    <2>1. g \in Trigger BY DEF Typed, TypeOK
    <2>2. /\ wtrig' \in [Worker -> Trigger \cup {NoTrigger}]
          /\ \A v \in Worker : wpc'[v] # "idle" => wtrig'[v] \in Trigger
      BY <1>1, <2>1 DEF WorkerTake, Typed, TypeOK
    <2> QED BY <1>1, <2>2 DEF WorkerTake, Typed, TypeOK, Due
  <1>2. ASSUME NEW ok \in BOOLEAN, CompleteLoadState(w, ok) PROVE Typed'
    <2>1. /\ wbase' \in [Worker -> SchedState]
          /\ \A v \in Worker : Len(wbase'[v].recent) <= MaxRecent
      BY <1>2 DEF CompleteLoadState, Typed, TypeOK
    <2>2. /\ wok' \in [Worker -> BOOLEAN]
          /\ wpc' \in [Worker -> WorkerPc]
          /\ \A v \in Worker : wpc'[v] # "idle" => wtrig'[v] \in Trigger
      BY <1>2, <1>0 DEF CompleteLoadState, Typed, TypeOK
    <2> QED BY <1>2, <2>1, <2>2 DEF CompleteLoadState, Typed, TypeOK, Due
  <1>3. CASE CompleteSaveState(w)
    <2> DEFINE s == [wbase[w] EXCEPT !.active = {a \in wbase[w].active : a.exec # wtrig[w].exec}]
    <2>1. s \in SchedState /\ s.recent = wbase[w].recent
      BY DEF Typed, TypeOK, SchedState
    <2>2. WriteState(wbase[w], s)
      BY <1>3 DEF CompleteSaveState
    <2>3. /\ stateFile' \in SchedState /\ Len(stateFile'.recent) <= MaxRecent
          /\ tornState' \in BOOLEAN /\ mishaps' \subseteq Mishap \X Job
      <3>1. Len(s.recent) <= MaxRecent BY <2>1 DEF Typed
      <3> HIDE DEF s
      <3> QED BY <2>1, <2>2, <3>1, WriteStateType DEF Typed
    <2>4. /\ wbase' \in [Worker -> SchedState]
          /\ \A v \in Worker : Len(wbase'[v].recent) <= MaxRecent
      BY <1>3, Blanks DEF CompleteSaveState, Typed, TypeOK
    <2>5. /\ wpc' \in [Worker -> WorkerPc]
          /\ \A v \in Worker : wpc'[v] # "idle" => wtrig'[v] \in Trigger
      BY <1>3, <1>0 DEF CompleteSaveState, Typed, TypeOK
    <2> QED BY <1>3, <2>3, <2>4, <2>5 DEF CompleteSaveState, Typed, TypeOK, Due
  <1>4. CASE CompleteLoadJob(w)
    <2>1. wjob' \in [Worker -> JobRec]
      BY <1>4, <1>0 DEF CompleteLoadJob, Typed, TypeOK
    <2>2. /\ wpc' \in [Worker -> WorkerPc]
          /\ \A v \in Worker : wpc'[v] # "idle" => wtrig'[v] \in Trigger
      BY <1>4, <1>0 DEF CompleteLoadJob, Typed, TypeOK
    <2> QED BY <1>4, <2>1, <2>2 DEF CompleteLoadJob, Typed, TypeOK, Due
  <1>5. CASE CompleteSaveJob(w)
    <2>1. /\ job' \in [Job -> JobRec] /\ tornJobs' \subseteq Job
          /\ mishaps' \subseteq Mishap \X Job
      BY <1>5, <1>0, WriteJobType DEF CompleteSaveJob, Typed, TypeOK
    <2>3. wjob' \in [Worker -> JobRec]
      BY <1>5, Blanks DEF CompleteSaveJob, Typed, TypeOK
    <2>4. /\ wpc' \in [Worker -> WorkerPc]
          /\ \A v \in Worker : wpc'[v] # "idle" => wtrig'[v] \in Trigger
      BY <1>5, <1>0 DEF CompleteSaveJob, Typed, TypeOK
    <2> QED BY <1>5, <2>1, <2>3, <2>4 DEF CompleteSaveJob, Typed, TypeOK, Due
  <1>6. ASSUME WorkerIdle(w)
        PROVE  /\ wpc' \in [Worker -> WorkerPc]
               /\ wtrig' \in [Worker -> Trigger \cup {NoTrigger}]
               /\ wok' \in [Worker -> BOOLEAN] /\ UNCHANGED <<wbase, wjob>>
               /\ \A v \in Worker : wpc'[v] # "idle" => wtrig'[v] \in Trigger
    BY <1>6 DEF WorkerIdle, Typed, TypeOK
  <1>7. CASE WorkerEnd(w)
    BY <1>6, <1>7 DEF WorkerEnd, Typed, TypeOK, Due
  <1>8. CASE WorkerRetry(w)
    <2>1. copies' \in Nat /\ failures' \in 0..MaxFailures
      BY <1>8, ConstantsOK DEF WorkerRetry, Typed, TypeOK
    <2>2. Renamed(wtrig[w]) \in Trigger
      BY <1>8, <1>0 DEF WorkerRetry, Renamed, Trigger, Typed, TypeOK
    <2>3. mishaps' \subseteq Mishap \X Job
      <3>1. <<"failed", JobOf(wtrig[w].exec)>> \in Mishap \X Job
        BY <1>8, <1>0 DEF WorkerRetry, Mishap
      <3> QED BY <1>8, <3>1 DEF WorkerRetry, Typed, TypeOK
    <2> QED BY <1>6, <1>8, <2>1, <2>2, <2>3 DEF WorkerRetry, Typed, TypeOK, Due
  <1>9. CASE CompleteError(w)
    <2>1. cuts' \in 0..MaxCuts
      BY <1>9, ConstantsOK DEF CompleteError, Typed, TypeOK
    <2>2. mishaps' \subseteq Mishap \X Job
      <3>1. <<"cut", JobOf(wtrig[w].exec)>> \in Mishap \X Job
        BY <1>9, <1>0 DEF CompleteError, Mishap
      <3> QED BY <1>9, <3>1 DEF CompleteError, Typed, TypeOK
    <2>3. /\ wbase' \in [Worker -> SchedState] /\ wjob' \in [Worker -> JobRec]
          /\ \A v \in Worker : Len(wbase'[v].recent) <= MaxRecent
      BY <1>9, Blanks DEF CompleteError, Typed, TypeOK
    <2>4. /\ wpc' \in [Worker -> WorkerPc]
          /\ wok' \in [Worker -> BOOLEAN]
          /\ \A v \in Worker : wpc'[v] # "idle" => wtrig'[v] \in Trigger
      BY <1>9, <1>0 DEF CompleteError, Typed, TypeOK
    <2> QED BY <1>9, <2>1, <2>2, <2>3, <2>4 DEF CompleteError, Typed, TypeOK, Due
  <1>10. CASE RouteRefused(w)
    <2>1. /\ wpc' \in [Worker -> WorkerPc]
          /\ \A v \in Worker : wpc'[v] # "idle" => wtrig'[v] \in Trigger
      BY <1>10, <1>0 DEF RouteRefused, Typed, TypeOK
    <2> QED BY <1>10, <2>1 DEF RouteRefused, Typed, TypeOK, Due
  <1>11. CASE CompleteRecord(w)
    <2>1. history' \subseteq Exec
      BY <1>11, <1>0 DEF CompleteRecord, Typed, TypeOK, Trigger
    <2>2. /\ wpc' \in [Worker -> WorkerPc]
          /\ \A v \in Worker : wpc'[v] # "idle" => wtrig'[v] \in Trigger
      BY <1>11, <1>0 DEF CompleteRecord, Typed, TypeOK
    <2> QED BY <1>11, <2>1, <2>2 DEF CompleteRecord, Typed, TypeOK, Due
  <1> QED
    BY <1>1, <1>2, <1>3, <1>4, <1>5, <1>7, <1>8, <1>9, <1>10, <1>11 DEF CompleteStep

LEMMA TypedClient == Typed /\ ClientStep => Typed'
  <1> SUFFICES ASSUME Typed, ClientStep PROVE Typed'
    OBVIOUS
  <1> USE DEF tick, work, cli, count, files
  <1>0. clock \in Nat
    BY ConstantsOK DEF Typed, TypeOK, Time
  <1>1. ASSUME NEW j \in Job, NEW r \in JobRec, CliLoad(j, r)
        PROVE  /\ cliPc' = "save" /\ cliJob' \in Job /\ cliBase' \in JobRec
               /\ cliNew' \in JobRec /\ ops' \in 0..MaxOps
    BY <1>1, ConstantsOK DEF CliLoad, Typed, TypeOK
  <1>2. ASSUME NEW j \in Job, NEW s \in Schedules, NEW p \in Policies, NEW o \in Overlaps,
               JobCreate(j, s, p, o)
        PROVE  Typed'
    <2> DEFINE r == [state |-> "enabled", schedule |-> s, policy |-> p, overlap |-> o,
                     next |-> NextRun(s, clock, {}), last |-> {}]
    <2>1. {} \in Optional /\ s \in Schedule /\ p \in Policy /\ o \in BOOLEAN
      BY ConstantsOK DEF Optional
    <2>2. r \in JobRec
      BY <1>0, <2>1, NextRunType DEF JobRec, State
    <2>3. WriteJob(j, NoJob, r) BY <1>2 DEF JobCreate
    <2>4. /\ job' \in [Job -> JobRec] /\ tornJobs' \subseteq Job
          /\ mishaps' \subseteq Mishap \X Job
      <3> HIDE DEF r
      <3> QED BY <2>2, <2>3, WriteJobType DEF Typed
    <2>5. ops' \in 0..MaxOps
      BY <1>2, ConstantsOK DEF JobCreate, Typed, TypeOK
    <2> QED BY <1>2, <2>4, <2>5 DEF JobCreate, Typed, TypeOK, Due
  <1>3. ASSUME NEW j \in Job, NEW p \in Policies, NEW o \in Overlaps, JobUpdate(j, p, o)
        PROVE  Typed'
    <2>1. [job[j] EXCEPT !.policy = p, !.overlap = o] \in JobRec
      BY ConstantsOK DEF Typed, TypeOK, JobRec
    <2> QED BY <1>1, <1>3, <2>1 DEF JobUpdate, Typed, TypeOK, Due
  <1>4. ASSUME NEW j \in Job, NEW s \in Schedules, JobReschedule(j, s)
        PROVE  Typed'
    <2>1. job[j] \in JobRec /\ job[j].last \in Optional /\ s \in Schedule
      BY ConstantsOK DEF Typed, TypeOK, JobRec
    <2>2. NextRun(s, clock, job[j].last) \in Optional
      BY <1>0, <2>1, NextRunType
    <2>3. [job[j] EXCEPT !.schedule = s, !.next = NextRun(s, clock, job[j].last)] \in JobRec
      BY <2>1, <2>2 DEF JobRec
    <2> QED BY <1>1, <1>4, <2>3 DEF JobReschedule, Typed, TypeOK, Due
  <1>5. ASSUME NEW j \in Job, NEW to \in State, JobTransition(j, to) PROVE Typed'
    <2>1. [job[j] EXCEPT !.state = to] \in JobRec
      BY DEF Typed, TypeOK, JobRec
    <2> QED BY <1>1, <1>5, <2>1 DEF JobTransition, Typed, TypeOK, Due
  <1>6. ASSUME NEW j \in Job, JobRunNow(j) PROVE Typed'
    <2>1. [job[j] EXCEPT !.next = {clock}] \in JobRec
      BY <1>0, SingleType DEF Typed, TypeOK, JobRec
    <2>2. mishaps' \subseteq Mishap \X Job
      <3>1. <<"same_second", j>> \in Mishap \X Job BY DEF Mishap
      <3> QED BY <1>6, <3>1 DEF JobRunNow, Typed, TypeOK
    <2> QED BY <1>1, <1>6, <2>1, <2>2 DEF JobRunNow, Typed, TypeOK, Due
  <1>7. CASE CliSave
    <2>1. /\ job' \in [Job -> JobRec] /\ tornJobs' \subseteq Job
          /\ mishaps' \subseteq Mishap \X Job
      BY <1>7, WriteJobType DEF CliSave, Typed, TypeOK
    <2> QED BY <1>7, <2>1, Blanks DEF CliSave, Typed, TypeOK, Due
  <1>8. ASSUME NEW j \in Job, CliCut(j) PROVE Typed'
    <2>1. ops' \in 0..MaxOps /\ tornJobs' \subseteq Job
      BY <1>8, ConstantsOK DEF CliCut, Typed, TypeOK
    <2> QED BY <1>8, <2>1, Blanks DEF CliCut, Typed, TypeOK, Due
  <1> QED BY <1>2, <1>3, <1>4, <1>5, <1>6, <1>7, <1>8 DEF ClientStep

LEMMA TypedCrash ==
  ASSUME Typed, NEW torn \in BOOLEAN, NEW S \in SUBSET WritingJobs,
         NEW R \in SUBSET WritingRuns, Crash(torn, S, R)
  PROVE  Typed'
  <1> USE DEF tick, work, cli, count, files, WorkerPc
  <1>0. ASSUME NEW w \in Worker, wpc[w] # "idle"
        PROVE  wtrig[w] \in Trigger /\ JobOf(wtrig[w].exec) \in Job
    BY <1>0 DEF Typed, Trigger, Exec, JobOf
  <1>1. WritingJobs \subseteq Job /\ WritingRuns \subseteq Job
    BY <1>0 DEF WritingJobs, WritingRuns
  <1>2. tornState' \in BOOLEAN /\ tornJobs' \subseteq Job /\ tornRuns' \subseteq Job
    BY <1>1 DEF Crash, Typed, TypeOK
  <1>3. cuts' \in 0..MaxCuts /\ copies' \in Nat
    BY ConstantsOK DEF Crash, Typed, TypeOK
  <1>4. mishaps' \subseteq Mishap \X Job
    BY DEF Crash, Typed, TypeOK, Mishap
  <1>5. queued' \subseteq Trigger
    <2>1. ASSUME NEW w \in Worker, Running(w) PROVE Renamed(wtrig[w]) \in Trigger
      BY <1>0, <2>1 DEF Running, Renamed, Trigger, Typed, TypeOK
    <2> QED BY <2>1 DEF Crash, Typed, TypeOK
  <1>6. /\ wpc' = [w \in Worker |-> "idle"] /\ wtrig' = [w \in Worker |-> NoTrigger]
        /\ wok' = [w \in Worker |-> FALSE] /\ wbase' = [w \in Worker |-> NoState]
        /\ wjob' = [w \in Worker |-> NoJob]
    BY DEF Crash
  <1>7. /\ wbase' \in [Worker -> SchedState] /\ wjob' \in [Worker -> JobRec]
        /\ wtrig' \in [Worker -> Trigger \cup {NoTrigger}] /\ wok' \in [Worker -> BOOLEAN]
        /\ wpc' \in [Worker -> WorkerPc]
        /\ \A v \in Worker : Len(wbase'[v].recent) <= MaxRecent /\ wpc'[v] = "idle"
    BY <1>6, Blanks
  <1>8. /\ tickPc' = "idle" /\ tickNow' \in Time
        /\ tickBase' \in SchedState /\ tickState' \in SchedState
        /\ Len(tickBase'.recent) <= MaxRecent /\ Len(tickState'.recent) <= MaxRecent
        /\ snapshot' \in [Job -> JobRec] /\ todo' \subseteq Job
    BY TickIdleType DEF Crash
  <1>9. UNCHANGED <<clock, job, stateFile, history, cli, ops, failures, dispatches>>
    BY DEF Crash
  <1> QED BY <1>2, <1>3, <1>4, <1>5, <1>7, <1>8, <1>9 DEF Typed, TypeOK

LEMMA TypedNext == Typed /\ [Next]_vars => Typed'
  <1> SUFFICES ASSUME Typed, [Next]_vars PROVE Typed'
    OBVIOUS
  <1>1. CASE Advance
    BY <1>1, ConstantsOK DEF Advance, Typed, TypeOK, Time, Due, tick, work, cli, count, files
  <1>2. CASE UNCHANGED vars
    BY <1>2 DEF Typed, TypeOK, Due, vars, tick, work, cli, count, files
  <1> QED BY <1>1, <1>2, TypedTick, TypedClient, TypedComplete, TypedCrash DEF Next

\* Types are kept by every thread, client and crash; in particular the list of
\* recent executions never outgrows its limit.
THEOREM Typing == Spec => []TypeOK
  <1>1. Typed => TypeOK
    BY DEF Typed
  <1> QED BY <1>1, TypedInit, TypedNext, PTL DEF Spec

(***************************************************************************)
(* Duplicate dispatch is bounded by the number of cuts.                    *)
(*                                                                         *)
(* DispatchBound is not inductive: what makes a second dispatch impossible *)
(* is that the execution is in the history, or is the one the tick is      *)
(* about to record.  An execution that is neither has used up a cut for    *)
(* each of its dispatches.                                                 *)
(***************************************************************************)
AtRecord(e) ==
    /\ tickPc \in {"persist", "record"}
    /\ \E j \in todo : (\A k \in todo : j <= k) /\ e = ExecId(j)

DispatchesPaid ==
    /\ cuts \in Nat /\ dispatches \in [Exec -> Nat] /\ todo \subseteq Job
    /\ \A e \in Exec : dispatches[e] <= 1 + cuts
    /\ \A e \in Exec : e \notin history /\ ~AtRecord(e) => dispatches[e] <= cuts

\* What most steps leave alone.
DispatchFrame == UNCHANGED <<cuts, dispatches, tickPc, snapshot, todo>>

LEMMA PaidInit == Init => DispatchesPaid
  BY DEF Init, DispatchesPaid, AtRecord

LEMMA PaidFrame ==
  DispatchesPaid /\ DispatchFrame /\ history \subseteq history' => DispatchesPaid'
  BY DEF DispatchesPaid, DispatchFrame, AtRecord, ExecId, DueAt

\* A cut pays for the dispatch it interrupts.
LEMMA PaidCut ==
  ASSUME DispatchesPaid, cuts' = cuts + 1, dispatches' = dispatches, TickIdle,
         history' = history
  PROVE  DispatchesPaid'
  <1>1. cuts' \in Nat /\ dispatches' \in [Exec -> Nat] /\ todo' \subseteq Job
    BY DEF DispatchesPaid, TickIdle
  <1>2. ASSUME NEW e \in Exec PROVE dispatches'[e] <= cuts'
    BY DEF DispatchesPaid
  <1>3. ASSUME NEW e \in Exec PROVE dispatches'[e] <= 1 + cuts'
    BY <1>1, <1>2
  <1> QED BY <1>1, <1>2, <1>3 DEF DispatchesPaid

LEMMA PaidEnqueue ==
  ASSUME DispatchesPaid, NEW j \in Job, TickEnqueue(j)
  PROVE  DispatchesPaid'
  <1> USE DEF TickEnqueue, AtJob
  <1> DEFINE x == ExecId(j)
  <1>1. /\ tickPc = "job" /\ tickPc' = "persist" /\ x \notin history
        /\ history' = history /\ cuts' = cuts /\ todo' = todo /\ snapshot' = snapshot
    BY DEF AlreadyRun, count
  <1>2. dispatches' \in [Exec -> Nat] /\ cuts' \in Nat /\ todo' \subseteq Job
    <2>1. dispatches \in [Exec -> Nat] /\ dispatches' = [dispatches EXCEPT ![x] = @ + 1]
      BY DEF DispatchesPaid
    <2>2. cuts' \in Nat /\ todo' \subseteq Job
      BY <1>1 DEF DispatchesPaid
    <2>3. ASSUME NEW e \in Exec
          PROVE  [dispatches EXCEPT ![x] = dispatches[x] + 1][e] \in Nat
      <3> HIDE DEF x, TickEnqueue
      <3>1. CASE e = x BY <2>1, <3>1
      <3>2. CASE e # x BY <2>1, <3>2
      <3> QED BY <3>1, <3>2
    <2> HIDE DEF x, TickEnqueue
    <2> QED BY <2>1, <2>2, <2>3
  <1>3. ExecId(j)' = x
    BY <1>1 DEF ExecId, DueAt
  <1>4. ASSUME NEW e, e = x PROVE AtRecord(e)'
    BY <1>1, <1>3, <1>4 DEF AtRecord
  <1>5. ASSUME NEW e \in Exec, e # x PROVE dispatches'[e] = dispatches[e]
    BY <1>5 DEF DispatchesPaid
  <1>6. ASSUME x \in Exec PROVE dispatches[x] <= cuts /\ dispatches'[x] = dispatches[x] + 1
    BY <1>1, <1>6 DEF DispatchesPaid, AtRecord
  <1>7. ASSUME NEW e \in Exec PROVE dispatches'[e] <= 1 + cuts'
    BY <1>1, <1>2, <1>5, <1>6, <1>7 DEF DispatchesPaid
  <1>8. ASSUME NEW e \in Exec, e \notin history', ~AtRecord(e)' PROVE dispatches'[e] <= cuts'
    <2>1. e # x BY <1>4, <1>8
    <2>2. ~AtRecord(e) BY <1>1 DEF AtRecord
    <2> QED BY <1>1, <1>5, <1>8, <2>1, <2>2 DEF DispatchesPaid
  <1> HIDE DEF x
  <1> QED BY <1>2, <1>7, <1>8 DEF DispatchesPaid

LEMMA PaidRecord ==
  ASSUME DispatchesPaid, NEW j \in Job, TickRecord(j)
  PROVE  DispatchesPaid'
  <1> USE DEF TickRecord, AtDispatch
  <1>1. /\ history' = history \cup {ExecId(j)} /\ cuts' = cuts /\ dispatches' = dispatches
        /\ todo' \subseteq Job
    BY DEF DispatchesPaid, count
  <1>2. ASSUME NEW e \in Exec, AtRecord(e) PROVE e \in history'
    <2>1. PICK i \in todo : (\A k \in todo : i <= k) /\ e = ExecId(i)
      BY <1>2 DEF AtRecord
    <2>2. i <= j /\ j <= i /\ i \in Nat /\ j \in Nat
      BY <2>1, ConstantsOK DEF DispatchesPaid
    <2>3. i = j BY <2>2
    <2> QED BY <1>1, <2>1, <2>3
  <1> QED BY <1>1, <1>2 DEF DispatchesPaid

LEMMA PaidTick == DispatchesPaid /\ TickStep => DispatchesPaid'
  <1> SUFFICES ASSUME DispatchesPaid, TickStep PROVE DispatchesPaid'
    OBVIOUS
  <1>1. CASE TickLoad
    BY <1>1 DEF TickLoad, DispatchesPaid, AtRecord, count, files
  <1>2. CASE TickList
    BY <1>2 DEF TickList, TickIdle, DispatchesPaid, AtRecord, count, files
  <1>3. CASE TickSave
    BY <1>3 DEF TickSave, TickIdle, DispatchesPaid, AtRecord, count
  <1>4. ASSUME NEW j \in Job, TickPass(j) PROVE DispatchesPaid'
    BY <1>4 DEF TickPass, AtJob, DispatchesPaid, AtRecord, count, files
  <1>5. ASSUME NEW j \in Job, TickSkipMissed(j) PROVE DispatchesPaid'
    BY <1>5 DEF TickSkipMissed, AtJob, DispatchesPaid, AtRecord, count
  <1>6. ASSUME NEW j \in Job, TickDuplicate(j) PROVE DispatchesPaid'
    BY <1>6 DEF TickDuplicate, AtJob, DispatchesPaid, AtRecord, count
  <1>7. ASSUME NEW j \in Job, TickPersist(j) PROVE DispatchesPaid'
    <2>1. ASSUME NEW e PROVE AtRecord(e)' <=> AtRecord(e)
      BY <1>7 DEF TickPersist, AtDispatch, AtRecord, ExecId, DueAt
    <2> QED BY <1>7, <2>1 DEF TickPersist, DispatchesPaid, count
  <1>8. ASSUME NEW j \in Job, TickUnreadable(j) PROVE DispatchesPaid'
    BY <1>8 DEF TickUnreadable, TickIdle, AtJob, DispatchesPaid, AtRecord, count, files
  <1> QED
    BY <1>1, <1>2, <1>3, <1>4, <1>5, <1>6, <1>7, <1>8, PaidEnqueue, PaidRecord DEF TickStep

LEMMA PaidComplete ==
  ASSUME DispatchesPaid, NEW w \in Worker, CompleteStep(w)
  PROVE  DispatchesPaid'
  <1> USE DEF DispatchFrame, tick, count, files
  <1>1. ASSUME NEW g \in queued, WorkerTake(w, g) PROVE DispatchesPaid'
    BY <1>1, PaidFrame DEF WorkerTake
  <1>2. ASSUME NEW ok \in BOOLEAN, CompleteLoadState(w, ok) PROVE DispatchesPaid'
    BY <1>2, PaidFrame DEF CompleteLoadState
  <1>3. CASE CompleteSaveState(w) BY <1>3, PaidFrame DEF CompleteSaveState
  <1>4. CASE CompleteLoadJob(w)   BY <1>4, PaidFrame DEF CompleteLoadJob
  <1>5. CASE CompleteSaveJob(w)   BY <1>5, PaidFrame DEF CompleteSaveJob
  <1>6. CASE WorkerEnd(w)         BY <1>6, PaidFrame DEF WorkerEnd
  <1>7. CASE WorkerRetry(w)       BY <1>7, PaidFrame DEF WorkerRetry
  <1>8. CASE RouteRefused(w)      BY <1>8, PaidFrame DEF RouteRefused
  <1>9. CASE CompleteRecord(w)    BY <1>9, PaidFrame DEF CompleteRecord
  <1> QED BY <1>1, <1>2, <1>3, <1>4, <1>5, <1>6, <1>7, <1>8, <1>9 DEF CompleteStep

LEMMA PaidClient == DispatchesPaid /\ ClientStep => DispatchesPaid'
  <1> SUFFICES ASSUME DispatchesPaid, ClientStep PROVE DispatchesPaid'
    OBVIOUS
  <1> USE DEF DispatchFrame, tick, count, files
  <1>1. ASSUME NEW j \in Job, NEW s \in Schedules, NEW p \in Policies, NEW o \in Overlaps,
               JobCreate(j, s, p, o) \/ JobUpdate(j, p, o) \/ JobReschedule(j, s)
        PROVE  DispatchesPaid'
    BY <1>1, PaidFrame DEF JobCreate, JobUpdate, JobReschedule
  <1>2. ASSUME NEW j \in Job, NEW to \in State, JobTransition(j, to) PROVE DispatchesPaid'
    BY <1>2, PaidFrame DEF JobTransition
  <1>3. ASSUME NEW j \in Job, JobRunNow(j) PROVE DispatchesPaid'
    BY <1>3, PaidFrame DEF JobRunNow
  <1>4. CASE CliSave BY <1>4, PaidFrame DEF CliSave
  <1>5. ASSUME NEW j \in Job, CliCut(j) PROVE DispatchesPaid'
    BY <1>5, PaidFrame DEF CliCut
  <1> QED BY <1>1, <1>2, <1>3, <1>4, <1>5 DEF ClientStep

LEMMA PaidNext == DispatchesPaid /\ [Next]_vars => DispatchesPaid'
  <1> SUFFICES ASSUME DispatchesPaid, [Next]_vars PROVE DispatchesPaid'
    OBVIOUS
  <1>1. CASE Advance
    BY <1>1, PaidFrame DEF Advance, DispatchFrame, tick, count, files
  <1>2. CASE TickError
    BY <1>2, PaidCut DEF TickError, files
  <1>3. ASSUME NEW w \in Worker, CompleteError(w) PROVE DispatchesPaid'
    BY <1>3 DEF CompleteError, DispatchesPaid, AtRecord, ExecId, DueAt, tick, files
  <1>4. ASSUME NEW torn \in BOOLEAN, NEW S \in SUBSET WritingJobs,
         NEW R \in SUBSET WritingRuns, Crash(torn, S, R)
        PROVE  DispatchesPaid'
    BY <1>4, PaidCut DEF Crash
  <1>5. CASE UNCHANGED vars
    BY <1>5, PaidFrame DEF vars, DispatchFrame, tick, count, files
  <1> QED
    BY <1>1, <1>2, <1>3, <1>4, <1>5, PaidTick, PaidClient, PaidComplete DEF Next

\* Whatever crashes, fails or is overwritten, an execution of a scheduled job is
\* put in the queue at most once more than ticks and processes were cut off.
THEOREM DispatchesAreBounded == Spec => []DispatchBound
  <1>1. Spec => []DispatchesPaid
    BY PaidInit, PaidNext, PTL DEF Spec
  <1>2. DispatchesPaid => DispatchBound
    BY DEF DispatchesPaid, DispatchBound
  <1> QED BY <1>1, <1>2, PTL

(***************************************************************************)
(* What was dispatched.  The history, the queue, the task threads and the  *)
(* lists of recent executions hold only executions that were dispatched,   *)
(* none of them before its time.                                           *)
(***************************************************************************)
Ran(e) == dispatches[e] > 0

Traced ==
    /\ \A e \in history : Ran(e)
    /\ \A g \in queued : Ran(g.exec)
    /\ \A w \in Worker : wpc[w] # "idle" => Ran(wtrig[w].exec)
    /\ \A e \in Exec : AtRecord(e) => Ran(e)

RecentRan(s) == \A i \in DOMAIN s.recent : Ran(s.recent[i])

RecentTraced ==
    /\ RecentRan(stateFile) /\ RecentRan(tickState)
    /\ \A w \in Worker : RecentRan(wbase[w])

InTime == tickNow <= clock /\ \A j \in Job, u \in Time : Ran(<<j, u>>) => u <= clock

LEMMA TracedInit == Init => Traced /\ RecentTraced /\ InTime
  <1> SUFFICES ASSUME Init PROVE Traced /\ RecentTraced /\ InTime
    OBVIOUS
  <1>1. DOMAIN <<>> = {}
    OBVIOUS
  <1>2. Traced
    BY DEF Init, Traced, AtRecord
  <1>3. RecentTraced
    BY <1>1 DEF Init, RecentTraced, RecentRan, NoState
  <1>4. InTime
    BY DEF Init, InTime, Ran, Exec
  <1> QED BY <1>2, <1>3, <1>4

LEMMA SameRecord ==
  ASSUME UNCHANGED <<tickPc, snapshot, todo>>
  PROVE  \A e : AtRecord(e)' <=> AtRecord(e)
  BY DEF AtRecord, ExecId, DueAt

LEMMA TracedFrame ==
  ASSUME Traced, dispatches' = dispatches,
         \A e \in history' : e \in history \/ Ran(e),
         \A g \in queued' : g \in queued \/ Ran(g.exec),
         \A w \in Worker : wpc'[w] # "idle" =>
            (wpc[w] # "idle" /\ wtrig'[w] = wtrig[w]) \/ Ran(wtrig'[w].exec),
         \A e \in Exec : AtRecord(e)' => AtRecord(e)
  PROVE  Traced'
  BY DEF Traced, Ran

LEMMA RecentFrame ==
  ASSUME RecentTraced, dispatches' = dispatches,
         stateFile' = stateFile \/ RecentRan(stateFile'), tickState' = tickState \/ RecentRan(tickState'),
         \A w \in Worker : wbase'[w] = wbase[w] \/ RecentRan(wbase'[w])
  PROVE  RecentTraced'
  BY DEF RecentTraced, RecentRan, Ran

LEMMA NoneRecent == RecentRan(NoState)
  <1>1. DOMAIN <<>> = {}
    OBVIOUS
  <1> QED BY <1>1 DEF RecentRan, NoState

\* What is pushed on the recent list is the new execution or was there before.
LEMMA PushRecentOf ==
  ASSUME NEW s \in Seq(Exec), NEW e \in Exec, NEW i \in DOMAIN PushRecent(s, e)
  PROVE  PushRecent(s, e)[i] = e \/ \E k \in DOMAIN s : PushRecent(s, e)[i] = s[k]
  <1> DEFINE p == Append(s, e)
  <1>1. p \in Seq(Exec) /\ Len(p) = Len(s) + 1 /\ Len(s) \in Nat
    OBVIOUS
  <1>2. \A k \in 1..Len(p) : p[k] = e \/ \E m \in DOMAIN s : p[k] = s[m]
    OBVIOUS
  <1>3. CASE Len(p) > MaxRecent
    <2> DEFINE a == Len(p) - MaxRecent + 1
               q == SubSeq(p, a, Len(p))
    <2>1. a \in Nat /\ a >= 1 /\ a <= Len(p) + 1 /\ MaxRecent \in Nat
      BY <1>1, <1>3, ConstantsOK
    <2>2. PushRecent(s, e) = q
      BY <1>3 DEF PushRecent
    <2>3. \A k \in DOMAIN q : a + k - 1 \in 1..Len(p) /\ q[k] = p[a + k - 1]
      <3> HIDE DEF p, a
      <3> QED BY <1>1, <2>1
    <2> HIDE DEF p, a, q
    <2> QED BY <1>2, <2>2, <2>3
  <1>4. CASE ~(Len(p) > MaxRecent)
    <2>1. PushRecent(s, e) = p
      BY <1>4 DEF PushRecent
    <2> QED BY <1>1, <1>2, <2>1
  <1> QED BY <1>3, <1>4

LEMMA TracedTickJob ==
  ASSUME Typed, Traced, RecentTraced, NEW j \in Job,
         \/ TickPass(j) \/ TickSkipMissed(j) \/ TickDuplicate(j)
         \/ TickPersist(j) \/ TickRecord(j)
  PROVE  Traced' /\ RecentTraced'
  <1> USE DEF work, files
  <1>0. /\ dispatches' = dispatches /\ queued' = queued /\ wpc' = wpc /\ wtrig' = wtrig
        /\ wbase' = wbase /\ stateFile' = stateFile
    BY DEF TickPass, TickSkipMissed, TickDuplicate, TickPersist, TickRecord
  <1>1. CASE TickPass(j) \/ TickSkipMissed(j) \/ TickDuplicate(j)
    <2>1. \A e : ~AtRecord(e)' /\ tickState' = tickState
      BY <1>1 DEF TickPass, TickSkipMissed, TickDuplicate, AtJob, AtRecord
    <2>2. \A e \in history' : e \in history \/ Ran(e)
      BY <1>1 DEF TickPass, TickSkipMissed, TickDuplicate, AlreadyRun, RecentTraced, RecentRan
    <2> QED BY <1>0, <2>1, <2>2, TracedFrame, RecentFrame
  <1>2. CASE TickPersist(j)
    <2>1. tickState' = tickState /\ history' = history /\ \A e : AtRecord(e)' => AtRecord(e)
      BY <1>2 DEF TickPersist, AtDispatch, AtRecord, ExecId, DueAt
    <2> QED BY <1>0, <2>1, TracedFrame, RecentFrame
  <1>3. CASE TickRecord(j)
    <2>1. /\ tickState' = [recent |-> PushRecent(tickState.recent, ExecId(j)),
                active |-> tickState.active \cup {[exec |-> ExecId(j), started |-> tickNow]}]
          /\ history' = history \cup {ExecId(j)} /\ \A e : ~AtRecord(e)'
      BY <1>3 DEF TickRecord, AtRecord
    <2>2. ExecId(j) \in Exec /\ tickState.recent \in Seq(Exec)
      <3>1. Due(j)
        BY <1>3 DEF TickRecord, AtDispatch, Typed
      <3> QED BY <3>1, DueType DEF Typed, TypeOK, SchedState
    <2>3. Ran(ExecId(j))
      BY <1>3, <2>2 DEF TickRecord, AtDispatch, AtRecord, Traced
    <2>4. RecentRan(tickState')
      <3> SUFFICES ASSUME NEW i \in DOMAIN PushRecent(tickState.recent, ExecId(j))
                   PROVE  Ran(PushRecent(tickState.recent, ExecId(j))[i])
        BY <2>1 DEF RecentRan
      <3> QED BY <2>2, <2>3, PushRecentOf DEF RecentTraced, RecentRan
    <2> QED BY <1>0, <2>1, <2>3, <2>4, TracedFrame, RecentFrame
  <1> QED BY <1>1, <1>2, <1>3

LEMMA TracedEnqueue ==
  ASSUME Typed, Traced, RecentTraced, InTime, NEW j \in Job, TickEnqueue(j)
  PROVE  Traced' /\ RecentTraced' /\ InTime'
  <1> USE DEF work, files, count
  <1> DEFINE x == ExecId(j)
  <1>1. Due(j) /\ x \in Exec /\ x = <<j, DueAt(j)>>
    BY DueType DEF TickEnqueue, ExecId
  <1>2. /\ dispatches \in [Exec -> Nat] /\ dispatches' = [dispatches EXCEPT ![x] = @ + 1]
        /\ history \subseteq Exec /\ queued \subseteq Trigger
        /\ \A w \in Worker : wpc[w] # "idle" => wtrig[w] \in Trigger
    BY DEF TickEnqueue, Typed, TypeOK
  <1>3. /\ history' = history /\ queued' = queued \cup {[exec |-> x, copy |-> 0]}
        /\ wpc' = wpc /\ wtrig' = wtrig /\ wbase' = wbase /\ stateFile' = stateFile
        /\ tickState' = tickState /\ tickNow' = tickNow /\ clock' = clock
    BY DEF TickEnqueue
  <1>4. tickPc' = "persist" /\ todo' = todo /\ snapshot' = snapshot /\ AtJob(j)
    BY DEF TickEnqueue
  <1>5. DueAt(j) <= tickNow
    <2>1. snapshot[j].next \in Optional
      BY DEF Typed, TypeOK, JobRec
    <2> QED BY <1>1, <2>1 DEF Due, DueAt, Optional
  <1>6. \A e \in Exec : AtRecord(e)' => e = x
    <2> SUFFICES ASSUME NEW e \in Exec, NEW i \in todo, \A k \in todo : i <= k, e = ExecId(i)
                 PROVE  e = x
      BY <1>4 DEF AtRecord, ExecId, DueAt
    <2>1. i \in Nat /\ j \in Nat /\ i <= j /\ j <= i
      BY <1>4, ConstantsOK DEF AtJob, Typed, TypeOK
    <2>2. i = j
      BY <2>1
    <2> QED BY <2>2
  <1> HIDE DEF x
  <1>7. /\ \A e \in Exec : Ran(e) => Ran(e)'
        /\ \A e \in Exec : Ran(e)' => Ran(e) \/ e = x
    <2> SUFFICES ASSUME NEW e \in Exec
                 PROVE  (dispatches[e] > 0 => dispatches'[e] > 0)
                        /\ (dispatches'[e] > 0 => dispatches[e] > 0 \/ e = x)
      BY DEF Ran
    <2>1. dispatches'[e] = IF e = x THEN dispatches[e] + 1 ELSE dispatches[e]
      BY <1>2
    <2>2. dispatches[e] \in Nat
      BY <1>2
    <2> QED BY <2>1, <2>2
  <1>8. dispatches'[x] > 0
    <2>1. dispatches'[x] = dispatches[x] + 1 /\ dispatches[x] \in Nat
      BY <1>1, <1>2
    <2> QED BY <2>1
  <1>9. Traced'
    <2>1. \A e \in history' : Ran(e)'
      BY <1>2, <1>3, <1>7 DEF Traced
    <2>2. ASSUME NEW g \in queued' PROVE Ran(g.exec)'
      <3>1. CASE g \in queued
        <4>1. g.exec \in Exec /\ Ran(g.exec)
          BY <1>2, <3>1 DEF Traced, Trigger
        <4> QED BY <1>7, <4>1 DEF Ran
      <3>2. CASE g = [exec |-> x, copy |-> 0]
        BY <1>8, <3>2 DEF Ran
      <3> QED BY <1>3, <3>1, <3>2
    <2>3. ASSUME NEW w \in Worker, wpc'[w] # "idle" PROVE Ran(wtrig[w].exec)'
      <3>1. wtrig[w].exec \in Exec /\ Ran(wtrig[w].exec)
        BY <1>2, <1>3, <2>3 DEF Traced, Trigger
      <3> QED BY <1>3, <1>7, <3>1 DEF Ran
    <2>4. \A e \in Exec : AtRecord(e)' => Ran(e)'
      BY <1>6, <1>8 DEF Ran
    <2> QED BY <2>1, <2>2, <2>3, <2>4 DEF Traced
  <1>10. ASSUME NEW s \in SchedState, RecentRan(s) PROVE RecentRan(s)'
    <2>1. \A i \in DOMAIN s.recent : s.recent[i] \in Exec
      BY DEF SchedState
    <2> QED BY <1>7, <1>10, <2>1 DEF RecentRan
  <1>11. RecentTraced'
    <2>1. /\ stateFile \in SchedState /\ tickState \in SchedState
          /\ \A w \in Worker : wbase[w] \in SchedState
      BY DEF Typed, TypeOK
    <2>2. \A s \in SchedState : RecentRan(s) => RecentRan(s)'
      BY <1>10
    <2>3. RecentRan(stateFile)' /\ RecentRan(tickState)'
      BY <1>3, <2>1, <2>2 DEF RecentTraced, RecentRan, Ran
    <2>4. \A w \in Worker : RecentRan(wbase[w])'
      BY <1>3, <2>1, <2>2 DEF RecentTraced, RecentRan, Ran
    <2> QED BY <2>3, <2>4 DEF RecentTraced
  <1>12. InTime'
    <2>1. tickNow \in Nat /\ clock \in Nat
      BY ConstantsOK DEF Typed, TypeOK, Time
    <2> SUFFICES ASSUME NEW i \in Job, NEW u \in Time, Ran(<<i, u>>)' PROVE u <= clock
      BY <1>3 DEF InTime
    <2>2. <<i, u>> \in Exec
      BY DEF Exec
    <2>3. CASE Ran(<<i, u>>)
      BY <2>3 DEF InTime
    <2>4. CASE <<i, u>> = x
      <3>1. u = DueAt(j)
        BY <1>1, <2>4
      <3> QED BY <1>5, <2>1, <3>1, ConstantsOK DEF InTime, Time
    <2> QED BY <1>7, <2>2, <2>3, <2>4
  <1> QED BY <1>9, <1>11, <1>12

LEMMA InTimeFrame ==
  ASSUME Typed, InTime, clock' = clock \/ clock' = clock + 1, dispatches' = dispatches,
         tickNow' = tickNow \/ tickNow' = clock \/ tickNow' = 0
  PROVE  InTime'
  <1>1. clock \in Nat /\ tickNow \in Nat
    BY ConstantsOK DEF Typed, TypeOK, Time
  <1>2. tickNow' <= clock' /\ clock <= clock'
    BY <1>1 DEF InTime
  <1>3. ASSUME NEW j \in Job, NEW u \in Time, Ran(<<j, u>>)' PROVE u <= clock'
    <2>1. u <= clock /\ u \in Nat
      BY <1>3, ConstantsOK DEF InTime, Ran, Time
    <2> QED BY <1>1, <1>2, <2>1
  <1> QED BY <1>2, <1>3 DEF InTime

\* A record of some job does not parse and ends the tick.
Unreadable == \E j \in Job : TickUnreadable(j)

LEMMA TracedTick ==
  ASSUME Typed, Traced, RecentTraced, TickLoad \/ TickList \/ TickSave \/ TickError \/ Unreadable
  PROVE  Traced' /\ RecentTraced'
  <1> USE DEF work, files
  <1>1. /\ dispatches' = dispatches /\ queued' = queued /\ wpc' = wpc /\ wtrig' = wtrig
        /\ wbase' = wbase /\ history' = history
    BY DEF TickLoad, TickList, TickSave, TickError, Unreadable, TickUnreadable
  <1>2. \A e : ~AtRecord(e)'
    BY DEF TickLoad, TickList, TickSave, TickError, Unreadable, TickUnreadable, TickIdle, AtRecord
  <1>3. Traced'
    BY <1>1, <1>2, TracedFrame
  <1>4. stateFile' = stateFile \/ RecentRan(stateFile')
    BY DEF TickLoad, TickList, TickSave, TickError, Unreadable, TickUnreadable, WriteState, RecentTraced
  <1>5. tickState' = tickState \/ RecentRan(tickState')
    <2>1. CASE TickLoad
      <3>1. tickState'.recent = stateFile.recent
        BY <2>1 DEF TickLoad, WithoutStale, Typed, TypeOK, SchedState
      <3> QED BY <3>1 DEF RecentTraced, RecentRan
    <2>2. CASE TickList \/ TickSave \/ TickError \/ Unreadable
      BY <2>2, NoneRecent DEF TickList, TickSave, TickError, Unreadable, TickUnreadable, TickIdle
    <2> QED BY <2>1, <2>2
  <1> QED BY <1>1, <1>3, <1>4, <1>5, RecentFrame

LEMMA TracedComplete ==
  ASSUME Typed, Traced, RecentTraced, NEW w \in Worker, CompleteStep(w) \/ CompleteError(w)
  PROVE  Traced' /\ RecentTraced'
  <1> USE DEF tick, files
  <1>1. dispatches' = dispatches /\ UNCHANGED <<tickPc, snapshot, todo, tickState>>
    BY DEF CompleteStep, WorkerTake, RouteRefused, CompleteLoadState, CompleteSaveState,
           CompleteLoadJob, CompleteSaveJob, CompleteRecord, CompleteError, WorkerEnd, WorkerRetry
  <1>2. \A e \in Exec : AtRecord(e)' => AtRecord(e)
    BY <1>1, SameRecord
  <1>3. wpc \in [Worker -> WorkerPc]
        /\ wtrig \in [Worker -> Trigger \cup {NoTrigger}] /\ wbase \in [Worker -> SchedState]
    BY DEF Typed, TypeOK
  <1>4. ASSUME NEW g \in queued, WorkerTake(w, g) PROVE Traced' /\ RecentTraced'
    <2>1. \A v \in Worker : wpc'[v] # "idle" =>
            (wpc[v] # "idle" /\ wtrig'[v] = wtrig[v]) \/ Ran(wtrig'[v].exec)
      BY <1>3, <1>4 DEF WorkerTake, Traced
    <2> QED BY <1>1, <1>2, <1>4, <2>1, TracedFrame, RecentFrame DEF WorkerTake
  <1>5. ASSUME wtrig' = wtrig, queued' = queued, wpc[w] # "idle",
               \A v \in Worker : v # w => wpc'[v] = wpc[v], \A e \in history' : e \in history \/ Ran(e)
        PROVE  Traced'
    BY <1>1, <1>2, <1>5, TracedFrame
  <1>6. ASSUME NEW ok \in BOOLEAN, CompleteLoadState(w, ok) PROVE Traced' /\ RecentTraced'
    <2>1. Traced'
      BY <1>3, <1>5, <1>6 DEF CompleteLoadState
    <2>2. \A v \in Worker : wbase'[v] = wbase[v] \/ RecentRan(wbase'[v])
      BY <1>3, <1>6 DEF CompleteLoadState, RecentTraced
    <2> QED BY <1>1, <1>6, <2>1, <2>2, RecentFrame DEF CompleteLoadState
  <1>7. CASE CompleteSaveState(w)
    <2>1. Traced'
      BY <1>3, <1>5, <1>7 DEF CompleteSaveState
    <2>2. stateFile'.recent = wbase[w].recent
      BY <1>3, <1>7 DEF CompleteSaveState, WriteState, SchedState
    <2>3. RecentRan(stateFile')
      BY <2>2 DEF RecentTraced, RecentRan
    <2>4. \A v \in Worker : wbase'[v] = wbase[v] \/ RecentRan(wbase'[v])
      BY <1>3, <1>7, NoneRecent DEF CompleteSaveState
    <2> QED BY <1>1, <2>1, <2>3, <2>4, RecentFrame
  <1>8. CASE CompleteLoadJob(w)
    <2>1. Traced'
      BY <1>3, <1>5, <1>8 DEF CompleteLoadJob
    <2> QED BY <1>1, <1>8, <2>1, RecentFrame DEF CompleteLoadJob
  <1>9. CASE CompleteSaveJob(w) \/ CompleteRecord(w)
    <2>1. Traced'
      BY <1>3, <1>5, <1>9 DEF CompleteSaveJob, CompleteRecord, Traced
    <2> QED BY <1>1, <1>9, <2>1, RecentFrame DEF CompleteSaveJob, CompleteRecord
  <1>10. CASE CompleteError(w)
    <2>1. Traced'
      BY <1>3, <1>5, <1>10 DEF CompleteError
    <2>2. \A v \in Worker : wbase'[v] = wbase[v] \/ RecentRan(wbase'[v])
      BY <1>3, <1>10, NoneRecent DEF CompleteError
    <2> QED BY <1>1, <1>10, <2>1, <2>2, RecentFrame DEF CompleteError
  <1>11. CASE RouteRefused(w)
    <2>1. Traced'
      BY <1>3, <1>5, <1>11 DEF RouteRefused
    <2> QED BY <1>1, <1>11, <2>1, RecentFrame DEF RouteRefused
  <1>12. CASE WorkerEnd(w) \/ WorkerRetry(w)
    <2>1. \A v \in Worker : wpc'[v] # "idle" => wpc[v] # "idle" /\ wtrig'[v] = wtrig[v]
      BY <1>3, <1>12 DEF WorkerEnd, WorkerRetry, WorkerIdle
    <2>2. \A g \in queued' : g \in queued \/ Ran(g.exec)
      BY <1>12 DEF WorkerEnd, WorkerRetry, Renamed, Traced
    <2>3. history' = history /\ wbase' = wbase /\ stateFile' = stateFile
      BY <1>12 DEF WorkerEnd, WorkerRetry, WorkerIdle
    <2> QED BY <1>1, <1>2, <2>1, <2>2, <2>3, TracedFrame, RecentFrame
  <1> QED
    BY <1>4, <1>6, <1>7, <1>8, <1>9, <1>10, <1>11, <1>12 DEF CompleteStep

LEMMA TracedNext ==
  Typed /\ Traced /\ RecentTraced /\ InTime /\ [Next]_vars => Traced' /\ RecentTraced' /\ InTime'
  <1> SUFFICES ASSUME Typed, Traced, RecentTraced, InTime, [Next]_vars
               PROVE  Traced' /\ RecentTraced' /\ InTime'
    OBVIOUS
  <1>1. CASE Advance \/ ClientStep \/ UNCHANGED vars
    <2>1. /\ clock' = clock \/ clock' = clock + 1
          /\ UNCHANGED <<dispatches, history, queued, stateFile, tick, work>>
      BY <1>1 DEF Advance, ClientStep, JobCreate, JobUpdate, JobReschedule, JobTransition,
                  JobRunNow, CliSave, CliCut, vars, files
    <2>2. \A e \in Exec : AtRecord(e)' => AtRecord(e)
      BY <2>1, SameRecord DEF tick
    <2> QED BY <2>1, <2>2, TracedFrame, RecentFrame, InTimeFrame DEF tick, work
  <1>2. CASE TickLoad \/ TickList \/ TickSave \/ TickError \/ Unreadable
    <2>1. InTime'
      <3>1. /\ dispatches' = dispatches /\ clock' = clock
            /\ tickNow' = tickNow \/ tickNow' = clock \/ tickNow' = 0
        BY <1>2 DEF TickLoad, TickList, TickSave, TickError, Unreadable, TickUnreadable, TickIdle
      <3> QED BY <3>1, InTimeFrame
    <2> QED BY <1>2, <2>1, TracedTick
  <1>3. ASSUME NEW j \in Job, \/ TickPass(j) \/ TickSkipMissed(j) \/ TickDuplicate(j)
                              \/ TickPersist(j) \/ TickRecord(j)
        PROVE  Traced' /\ RecentTraced' /\ InTime'
    <2>1. dispatches' = dispatches /\ clock' = clock /\ tickNow' = tickNow
      BY <1>3 DEF TickPass, TickSkipMissed, TickDuplicate, TickPersist, TickRecord
    <2> QED BY <1>3, <2>1, TracedTickJob, InTimeFrame
  <1>4. ASSUME NEW w \in Worker, CompleteStep(w) \/ CompleteError(w)
        PROVE  Traced' /\ RecentTraced' /\ InTime'
    <2>1. dispatches' = dispatches /\ clock' = clock /\ tickNow' = tickNow
      BY <1>4 DEF CompleteStep, WorkerTake, RouteRefused, CompleteLoadState,
           CompleteSaveState, CompleteLoadJob, CompleteSaveJob, CompleteRecord, CompleteError, WorkerEnd,
           WorkerRetry, tick
    <2> QED BY <1>4, <2>1, TracedComplete, InTimeFrame
  <1>5. ASSUME NEW torn \in BOOLEAN, NEW S \in SUBSET WritingJobs,
         NEW R \in SUBSET WritingRuns, Crash(torn, S, R)
        PROVE  Traced' /\ RecentTraced' /\ InTime'
    <2>1. /\ dispatches' = dispatches /\ clock' = clock /\ tickNow' = 0
          /\ stateFile' = stateFile /\ history' = history /\ tickState' = NoState
          /\ \A w \in Worker : wpc'[w] = "idle" /\ wbase'[w] = NoState
          /\ \A e : ~AtRecord(e)'
      BY <1>5 DEF Crash, TickIdle, AtRecord
    <2>2. \A g \in queued' : g \in queued \/ Ran(g.exec)
      BY <1>5 DEF Crash, Running, Renamed, Traced
    <2> QED BY <2>1, <2>2, TracedFrame, RecentFrame, InTimeFrame, NoneRecent
  <1> QED
    BY <1>1, <1>2, <1>3, <1>4, <1>5, TracedEnqueue DEF Next, TickStep, Unreadable

(***************************************************************************)
(* Wedged jobs.  While none of the three accidents has befallen job j, all *)
(* its executions lie before its next run and not after its last, the one  *)
(* being dispatched excepted until the job file is rewritten.  A command   *)
(* keeps this so: what it writes fits too, or the tick has moved the job   *)
(* on and the write is one of stale content.                               *)
(***************************************************************************)
Orderly(j) == {<<"stale_job", j>>, <<"same_second", j>>, <<"cut", j>>} \cap mishaps = {}

Past(j) == {u \in Time : Ran(<<j, u>>) /\ ~(AtDispatch(j, "persist") /\ u = DueAt(j))}

Before(S, r) == \A u \in S : (\A t \in r.next : u < t) /\ \E l \in r.last : u <= l

Later(r, b) == b.next # {} /\ \A t \in r.next, v \in b.next : v < t

CommandFits(j) ==
    cliPc = "save" /\ cliJob = j =>
        /\ Exists(j)
        /\ Later(job[j], cliBase) \/ (job[j] = cliBase /\ Before(Past(j), cliNew))

JobsAhead == \A j \in Job : Orderly(j) => Before(Past(j), job[j]) /\ CommandFits(j)

LEMMA DivIsLater == ASSUME NEW n \in Nat, NEW d \in Nat \ {0} PROVE n < (n \div d + 1) * d
  <1>1. PICK q \in Nat : q = n \div d
    OBVIOUS
  <1>2. n < d * q + d
    BY <1>1
  <1>3. (q + 1) * d = d * q + d
    OBVIOUS
  <1> QED BY <1>1, <1>2, <1>3

\* A schedule never gives the time it counts from.
LEMMA NextIsLater ==
  ASSUME NEW s \in Schedule, NEW now \in Nat, NEW l \in Nat, NEW t \in NextRun(s, now, {l})
  PROVE  l < t
  <1>1. \A d : OrElse({l}, d) = l
    BY DEF OrElse
  <1>2. CASE s \in [type : {"once"}, at : Nat]
    BY <1>2 DEF NextRun
  <1>3. CASE s \in [type : {"interval"}, every : Nat \ {0}, anchor : Optional]
    <2>1. t = OrElse({l}, OrElse(s.anchor, now)) + s.every /\ s.every \in Nat \ {0}
      BY <1>3 DEF NextRun
    <2> QED BY <1>1, <2>1
  <1>4. CASE s \in [type : {"cron"}, every : Nat \ {0}]
    <2>1. s.every \in Nat \ {0} /\ t = (l \div s.every + 1) * s.every
      BY <1>1, <1>4 DEF NextRun
    <2> QED BY <2>1, DivIsLater
  <1> QED BY <1>2, <1>3, <1>4 DEF Schedule

LEMMA RecoveryIsLater ==
  ASSUME NEW s \in Schedule, NEW now \in Nat, NEW t \in RecoveryNext(s, now)
  PROVE  now < t
  BY NextIsLater DEF RecoveryNext

LEMMA AheadInit == Init => JobsAhead
  BY DEF Init, JobsAhead, Before, Past, Ran, Exec, CommandFits

\* What befell a job is not forgotten.
LEMMA MishapsGrow == [Next]_vars => mishaps \subseteq mishaps'
  <1> SUFFICES ASSUME [Next]_vars PROVE mishaps \subseteq mishaps'
    OBVIOUS
  <1>1. CASE TickStep \/ TickError
    BY <1>1 DEF TickStep, TickLoad, TickList, TickSave, TickPass, TickSkipMissed, TickDuplicate,
                TickUnreadable, TickEnqueue, TickPersist, TickRecord, TickError, WriteJob,
                WriteState
  <1>2. CASE ClientStep
    BY <1>2 DEF ClientStep, JobCreate, JobUpdate, JobReschedule, JobTransition, JobRunNow,
                CliSave, CliCut, WriteJob
  <1>3. ASSUME NEW w \in Worker, CompleteStep(w) \/ CompleteError(w)
        PROVE  mishaps \subseteq mishaps'
    BY <1>3 DEF CompleteStep, WorkerTake, RouteRefused, CompleteLoadState, CompleteSaveState,
           CompleteLoadJob, CompleteSaveJob, CompleteRecord, CompleteError, WorkerEnd, WorkerRetry, WriteJob,
           WriteState
  <1>4. ASSUME NEW torn \in BOOLEAN, NEW S \in SUBSET WritingJobs,
         NEW R \in SUBSET WritingRuns, Crash(torn, S, R)
        PROVE  mishaps \subseteq mishaps'
    BY <1>4 DEF Crash
  <1> QED BY <1>1, <1>2, <1>3, <1>4 DEF Next, Advance, vars

\* A job file that is not overwritten with stale content.
LEMMA OrderlyWrite ==
  ASSUME NEW j, NEW base, NEW r, WriteJob(j, base, r), Orderly(j)'
  PROVE  job[j] = base
  BY DEF WriteJob, Orderly

\* Steps that dispatch nothing keep what is past.
LEMMA SamePast ==
  ASSUME NEW j, dispatches' = dispatches,
         AtDispatch(j, "persist") => AtDispatch(j, "persist")' /\ snapshot' = snapshot
  PROVE  Past(j)' \subseteq Past(j)
  BY DEF Past, Ran, DueAt

LEMMA BeforeLess ==
  ASSUME NEW S, NEW T, T \subseteq S, NEW r, Before(S, r) PROVE Before(T, r)
  BY DEF Before

\* A step that leaves a job, the command and its past alone.
LEMMA AheadFrame ==
  ASSUME NEW j, Before(Past(j), job[j]), CommandFits(j),
         Past(j)' \subseteq Past(j), job'[j] = job[j], UNCHANGED cli
  PROVE  Before(Past(j), job[j])' /\ CommandFits(j)'
  BY BeforeLess DEF CommandFits, Exists, cli

\* The tick moves job j on, past the time it was due.
LEMMA AheadMoved ==
  ASSUME Typed, NEW j \in Job, Due(j), Before(Past(j), job[j]), CommandFits(j), job[j] = snapshot[j],
         UNCHANGED cli, job'[j].state # "absent",
         \A t \in job'[j].next : t \in Nat /\ DueAt(j) < t,
         \A u \in Past(j)' : u \in Past(j) \/ u = DueAt(j),
         \A u \in Past(j)' : \E l \in job'[j].last : u <= l
  PROVE  Before(Past(j), job[j])' /\ CommandFits(j)'
  <1>1. DueAt(j) \in Nat /\ job[j].next = {DueAt(j)}
    <2>1. snapshot[j].next \in Optional
      BY DEF Typed, TypeOK, JobRec
    <2> QED BY <2>1, DueType DEF Due, DueAt, Optional
  <1>2. Past(j) \subseteq Nat
    BY ConstantsOK DEF Past, Time
  <1>3. \A u \in Past(j) : u < DueAt(j)
    BY <1>1 DEF Before
  <1>4. Before(Past(j), job[j])'
    <2> SUFFICES ASSUME NEW u \in Past(j)' PROVE \A t \in job'[j].next : u < t
      BY DEF Before
    <2> QED BY <1>1, <1>2, <1>3
  <1>5. CommandFits(j)'
    <2> SUFFICES ASSUME cliPc = "save", cliJob = j PROVE Later(job'[j], cliBase)
      BY DEF CommandFits, Exists, cli
    <2>1. cliBase.next \in Optional
      BY DEF Typed, TypeOK, JobRec
    <2>2. cliBase.next # {} /\ \A v \in cliBase.next : v \in Nat /\ v <= DueAt(j)
      BY <1>1, <2>1 DEF CommandFits, Later, Optional
    <2> QED BY <1>1, <2>2 DEF Later
  <1> QED BY <1>4, <1>5

LEMMA AheadSkip ==
  ASSUME Typed, NEW j \in Job, Before(Past(j), job[j]), CommandFits(j), TickSkipMissed(j), Orderly(j)'
  PROVE  Before(Past(j), job[j])' /\ CommandFits(j)'
  <1>1. Due(j) /\ Missed(j) /\ WriteJob(j, snapshot[j], SkippedMissed(snapshot[j], tickNow))
    BY DEF TickSkipMissed
  <1>2. job[j] = snapshot[j]
    BY <1>1, OrderlyWrite
  <1>3. snapshot[j] \in JobRec /\ snapshot[j].schedule \in Schedule /\ tickNow \in Nat
    BY ConstantsOK DEF Typed, TypeOK, JobRec, Time
  <1> DEFINE n == RecoveryNext(snapshot[j].schedule, tickNow)
  <1>4. /\ job'[j].next = n /\ job'[j].last = job[j].last
        /\ job'[j].state \in {"disabled", snapshot[j].state}
    <2>1. job'[j] = SkippedMissed(snapshot[j], tickNow)
      BY <1>1 DEF WriteJob, Typed, TypeOK
    <2> HIDE DEF n
    <2>2. SkippedMissed(snapshot[j], tickNow) = Settle([snapshot[j] EXCEPT !.next = n])
      BY DEF SkippedMissed, n
    <2> DEFINE q == [snapshot[j] EXCEPT !.next = n]
    <2>3. /\ q.next = n /\ q.last = snapshot[j].last /\ q.state = snapshot[j].state
          /\ DOMAIN q = DOMAIN snapshot[j]
      BY <1>3 DEF JobRec
    <2>4. {"next", "last", "state"} \subseteq DOMAIN snapshot[j]
      BY <1>3 DEF JobRec
    <2> HIDE DEF q
    <2>5. job'[j] = IF q.next = {} THEN [q EXCEPT !.state = "disabled"] ELSE q
      BY <2>1, <2>2 DEF Settle, q
    <2> QED BY <1>2, <2>3, <2>4, <2>5
  <1>5. n \subseteq Nat /\ \A t \in n : tickNow < t
    BY <1>3, RecoveryType, RecoveryIsLater DEF Optional
  <1>6. DueAt(j) \in Nat /\ DueAt(j) < tickNow
    BY <1>1, DueType DEF Missed
  <1>7. Past(j)' \subseteq Past(j)
    BY SamePast DEF TickSkipMissed, AtJob, AtDispatch
  <1>8. snapshot[j].state # "absent"
    BY <1>1 DEF Due
  <1> HIDE DEF n
  <1>9. \A t \in job'[j].next : t \in Nat /\ DueAt(j) < t
    <2> SUFFICES ASSUME NEW t \in n PROVE t \in Nat /\ DueAt(j) < t
      BY <1>4
    <2>1. t \in Nat /\ tickNow < t
      BY <1>5
    <2> QED BY <1>3, <1>6, <2>1
  <1>10. \A u \in Past(j)' : \E l \in job'[j].last : u <= l
    BY <1>4, <1>7 DEF Before
  <1> QED BY <1>1, <1>2, <1>4, <1>7, <1>8, <1>9, <1>10, AheadMoved DEF TickSkipMissed

LEMMA AheadPersist ==
  ASSUME Typed, NEW j \in Job, Before(Past(j), job[j]), CommandFits(j), TickPersist(j), Orderly(j)'
  PROVE  Before(Past(j), job[j])' /\ CommandFits(j)'
  <1>1. Due(j) /\ WriteJob(j, snapshot[j], Dispatched(snapshot[j], DueAt(j), tickNow))
    BY DEF TickPersist, AtDispatch, Typed
  <1>2. job[j] = snapshot[j]
    BY <1>1, OrderlyWrite
  <1>3. snapshot[j] \in JobRec /\ snapshot[j].schedule \in Schedule /\ tickNow \in Nat
    BY ConstantsOK DEF Typed, TypeOK, JobRec, Time
  <1> DEFINE n == NextAfterDispatch(snapshot[j], DueAt(j), tickNow)
  <1>4. /\ job'[j].next = n /\ job'[j].last = {tickNow}
        /\ job'[j].state \in {"disabled", snapshot[j].state}
    <2>1. job'[j] = Dispatched(snapshot[j], DueAt(j), tickNow)
      BY <1>1 DEF WriteJob, Typed, TypeOK
    <2> HIDE DEF n
    <2>2. job'[j] = Settle([snapshot[j] EXCEPT !.last = {tickNow}, !.next = n])
      BY <2>1 DEF Dispatched, n
    <2> DEFINE q == [snapshot[j] EXCEPT !.last = {tickNow}, !.next = n]
    <2>3. q.next = n /\ q.last = {tickNow} /\ q.state = snapshot[j].state
          /\ DOMAIN q = DOMAIN snapshot[j]
      BY <1>3 DEF JobRec
    <2>4. {"next", "last", "state"} \subseteq DOMAIN snapshot[j]
      BY <1>3 DEF JobRec
    <2> HIDE DEF q
    <2>5. job'[j] = IF q.next = {} THEN [q EXCEPT !.state = "disabled"] ELSE q
      BY <2>2 DEF Settle, q
    <2> QED BY <2>3, <2>4, <2>5
  <1>5. DueAt(j) \in Nat /\ DueAt(j) <= tickNow
    <2>1. snapshot[j].next \in Optional
      BY DEF Typed, TypeOK, JobRec
    <2> QED BY <1>1, <2>1, DueType DEF Due, DueAt, Optional
  <1>6. n \subseteq Nat /\ \A t \in n : DueAt(j) < t
    <2>1. CASE DueAt(j) < tickNow /\ snapshot[j].policy = "fire_once_on_recovery"
      <3>1. n = RecoveryNext(snapshot[j].schedule, tickNow)
        BY <2>1 DEF NextAfterDispatch
      <3>2. n \subseteq Nat /\ \A t \in n : tickNow < t
        BY <1>3, <3>1, RecoveryType, RecoveryIsLater DEF Optional
      <3> HIDE DEF n
      <3>3. ASSUME NEW t \in n PROVE DueAt(j) < t
        <4>1. t \in Nat /\ tickNow < t
          BY <3>2
        <4> QED BY <1>3, <1>5, <4>1
      <3> QED BY <3>2, <3>3
    <2>2. CASE ~(DueAt(j) < tickNow /\ snapshot[j].policy = "fire_once_on_recovery")
      <3>1. n = NextRun(snapshot[j].schedule, tickNow, {DueAt(j)})
        BY <2>2 DEF NextAfterDispatch
      <3>2. n \in Optional
        BY <1>3, <1>5, <3>1, NextRunType, SingleType
      <3>3. \A t \in n : DueAt(j) < t
        BY <1>3, <1>5, <3>1, NextIsLater
      <3> HIDE DEF n
      <3> QED BY <3>2, <3>3 DEF Optional
    <2> QED BY <2>1, <2>2
  <1>7. \A u \in Past(j)' : u \in Past(j) \/ u = DueAt(j)
    <2>1. dispatches' = dispatches
      BY DEF TickPersist
    <2> QED BY <2>1 DEF Past, Ran
  <1>8. job[j].next = {DueAt(j)} /\ Past(j) \subseteq Nat
    <2>1. snapshot[j].next \in Optional
      BY DEF Typed, TypeOK, JobRec
    <2> QED BY <1>1, <1>2, <2>1, ConstantsOK DEF Due, DueAt, Optional, Past, Time
  <1>9. \A u \in Past(j)' : u <= tickNow
    BY <1>3, <1>5, <1>7, <1>8 DEF Before
  <1>10. snapshot[j].state # "absent"
    BY <1>1 DEF Due
  <1> HIDE DEF n
  <1>11. \A t \in job'[j].next : t \in Nat /\ DueAt(j) < t
    BY <1>4, <1>6
  <1> QED BY <1>1, <1>2, <1>4, <1>7, <1>9, <1>10, <1>11, AheadMoved DEF TickPersist

LEMMA AheadEnqueue ==
  ASSUME Typed, NEW j \in Job, NEW i \in Job, TickEnqueue(i)
  PROVE  Past(j)' \subseteq Past(j)
  <1>1. ~AtDispatch(j, "persist") /\ snapshot' = snapshot /\ AtDispatch(i, "persist")'
    BY DEF TickEnqueue, AtJob, AtDispatch
  <1>2. dispatches' = [dispatches EXCEPT ![<<i, DueAt(i)>>] = @ + 1]
    BY DEF TickEnqueue, ExecId
  <1> SUFFICES ASSUME NEW u \in Time, Ran(<<j, u>>)', ~(AtDispatch(j, "persist")' /\ u = DueAt(j))
               PROVE  Ran(<<j, u>>)
    BY <1>1 DEF Past, DueAt
  <1>3. <<j, u>> # <<i, DueAt(i)>>
    BY <1>1
  <1>4. <<j, u>> \in Exec /\ dispatches \in [Exec -> Nat]
    BY DEF Exec, Typed, TypeOK
  <1> QED BY <1>2, <1>3, <1>4 DEF Ran

\* A command has loaded job j and will write r, with the last run unchanged.
LEMMA AheadLoad ==
  ASSUME NEW j \in Job, NEW i \in Job, NEW r, CliLoad(i, r), UNCHANGED <<job, tick, dispatches>>,
         Before(Past(j), job[j]), j = i => Before(Past(j), r)
  PROVE  Before(Past(j), job[j])' /\ CommandFits(j)'
  <1>1. Past(j)' = Past(j)
    BY DEF Past, Ran, AtDispatch, DueAt, tick
  <1> QED BY <1>1 DEF CliLoad, CommandFits, Exists

LEMMA AheadClient ==
  ASSUME Typed, InTime, NEW j \in Job, Before(Past(j), job[j]), CommandFits(j), ClientStep,
         Orderly(j)'
  PROVE  Before(Past(j), job[j])' /\ CommandFits(j)'
  <1> USE DEF files
  <1>0. /\ job \in [Job -> JobRec] /\ clock \in Nat /\ Past(j) \subseteq Nat
        /\ {"next", "last", "state", "schedule", "policy", "overlap"} \subseteq DOMAIN job[j]
        /\ job[j].next \subseteq Nat /\ job[j].last \in Optional
    BY ConstantsOK DEF Typed, TypeOK, Time, Past, JobRec, Optional
  <1>1. ASSUME NEW i \in Job, NEW s \in Schedules, NEW p \in Policies, NEW o \in Overlaps,
               JobCreate(i, s, p, o)
        PROVE  Before(Past(j), job[j])' /\ CommandFits(j)'
    <2>1. Past(j)' \subseteq Past(j) /\ UNCHANGED cli
      BY <1>1, SamePast DEF JobCreate, AtDispatch, tick
    <2>2. CASE i # j
      <3>1. job'[j] = job[j]
        BY <1>0, <1>1, <2>2 DEF JobCreate, WriteJob
      <3> QED BY <2>1, <3>1, AheadFrame
    <2>3. CASE i = j
      <3>1. job[j] = NoJob
        BY <1>1, <2>3, OrderlyWrite DEF JobCreate
      <3>2. Past(j) = {}
        BY <3>1 DEF Before, NoJob
      <3>3. ~Exists(j)
        BY <1>1, <2>3 DEF JobCreate
      <3> QED BY <2>1, <3>2, <3>3 DEF Before, CommandFits, cli
    <2> QED BY <2>2, <2>3
  <1>2. ASSUME NEW i \in Job, NEW p \in Policies, NEW o \in Overlaps, JobUpdate(i, p, o)
        PROVE  Before(Past(j), job[j])' /\ CommandFits(j)'
    <2> DEFINE r == [job[i] EXCEPT !.policy = p, !.overlap = o]
    <2>1. CliLoad(i, r) /\ UNCHANGED <<job, tick, dispatches>>
      BY <1>2 DEF JobUpdate
    <2>2. j = i => r.next = job[j].next /\ r.last = job[j].last
      BY <1>0
    <2> HIDE DEF r
    <2>3. j = i => Before(Past(j), r)
      BY <2>2 DEF Before
    <2> QED BY <2>1, <2>3, AheadLoad
  <1>3. ASSUME NEW i \in Job, NEW s \in Schedules, JobReschedule(i, s)
        PROVE  Before(Past(j), job[j])' /\ CommandFits(j)'
    <2> DEFINE n == NextRun(s, clock, job[i].last)
               r == [job[i] EXCEPT !.schedule = s, !.next = n]
    <2>1. CliLoad(i, r) /\ UNCHANGED <<job, tick, dispatches>>
      BY <1>3 DEF JobReschedule
    <2>2. j = i => r.next = n /\ r.last = job[j].last
      <3> HIDE DEF n
      <3> QED BY <1>0
    <2> HIDE DEF r
    <2>3. ASSUME j = i PROVE Before(Past(j), r)
      <3> SUFFICES ASSUME NEW u \in Past(j), NEW t \in n PROVE u < t
        BY <2>2, <2>3 DEF Before
      <3>1. PICK l \in job[j].last : u <= l
        BY DEF Before
      <3>2. job[j].last = {l} /\ l \in Nat
        BY <1>0 DEF Optional
      <3>3. s \in Schedule /\ n = NextRun(s, clock, {l})
        BY <2>3, <3>2, ConstantsOK
      <3>4. n \in Optional
        BY <1>0, <3>2, <3>3, NextRunType, SingleType
      <3>5. l < t
        BY <1>0, <3>2, <3>3, NextIsLater
      <3> HIDE DEF n
      <3> QED BY <1>0, <3>1, <3>2, <3>4, <3>5 DEF Optional
    <2> QED BY <2>1, <2>3, AheadLoad
  <1>4. ASSUME NEW i \in Job, NEW to \in State, JobTransition(i, to)
        PROVE  Before(Past(j), job[j])' /\ CommandFits(j)'
    <2> DEFINE r == [job[i] EXCEPT !.state = to]
    <2>1. CliLoad(i, r) /\ UNCHANGED <<job, tick, dispatches>>
      BY <1>4 DEF JobTransition
    <2>2. j = i => r.next = job[j].next /\ r.last = job[j].last
      BY <1>0
    <2> HIDE DEF r
    <2>3. j = i => Before(Past(j), r)
      BY <2>2 DEF Before
    <2> QED BY <2>1, <2>3, AheadLoad
  <1>5. ASSUME NEW i \in Job, JobRunNow(i)
        PROVE  Before(Past(j), job[j])' /\ CommandFits(j)'
    <2> DEFINE r == [job[i] EXCEPT !.next = {clock}]
    <2>1. CliLoad(i, r) /\ UNCHANGED <<job, tick, dispatches>>
      BY <1>5 DEF JobRunNow
    <2>2. j = i => r.next = {clock} /\ r.last = job[j].last
      BY <1>0
    <2> HIDE DEF r
    <2>3. ASSUME j = i PROVE Before(Past(j), r)
      <3>1. ~Ran(<<j, clock>>)
        BY <1>5, <2>3 DEF JobRunNow, Orderly, Ran
      <3>2. ASSUME NEW u \in Past(j) PROVE u < clock
        <4>1. u <= clock /\ u # clock /\ u \in Nat
          BY <1>0, <3>1 DEF Past, InTime
        <4> QED BY <1>0, <4>1
      <3> QED BY <2>2, <2>3, <3>2 DEF Before
    <2> QED BY <2>1, <2>3, AheadLoad
  <1>6. CASE CliSave
    <2>1. Past(j)' \subseteq Past(j) /\ cliPc' = "idle"
      BY <1>6, SamePast DEF CliSave, AtDispatch, tick
    <2>2. CASE cliJob # j
      <3>1. job'[j] = job[j]
        BY <1>0, <1>6, <2>2 DEF CliSave, WriteJob
      <3> QED BY <2>1, <3>1, BeforeLess DEF CommandFits
    <2>3. CASE cliJob = j
      <3>1. job[j] = cliBase /\ job'[j] = cliNew /\ cliPc = "save"
        BY <1>0, <1>6, <2>3, OrderlyWrite DEF CliSave, WriteJob
      <3>2. ~Later(job[j], cliBase)
        BY <1>0, <3>1 DEF Later
      <3> QED BY <2>1, <2>3, <3>1, <3>2, BeforeLess DEF CommandFits
    <2> QED BY <2>2, <2>3
  <1>7. ASSUME NEW i \in Job, CliCut(i) PROVE Before(Past(j), job[j])' /\ CommandFits(j)'
    <2>1. UNCHANGED <<dispatches, tick, job>> /\ cliPc' = "idle"
      BY <1>7 DEF CliCut
    <2>2. Past(j)' \subseteq Past(j)
      BY <2>1, SamePast DEF AtDispatch, tick
    <2> QED BY <2>1, <2>2, BeforeLess DEF CommandFits
  <1> QED BY <1>1, <1>2, <1>3, <1>4, <1>5, <1>6, <1>7 DEF ClientStep

LEMMA AheadNext == Typed /\ InTime /\ JobsAhead /\ [Next]_vars => JobsAhead'
  <1> SUFFICES ASSUME Typed, InTime, JobsAhead, [Next]_vars, NEW j \in Job, Orderly(j)'
               PROVE  Before(Past(j), job[j])' /\ CommandFits(j)'
    BY DEF JobsAhead
  <1> USE DEF tick, files
  <1>0. Orderly(j)
    BY MishapsGrow DEF Orderly
  <1>1. Before(Past(j), job[j]) /\ CommandFits(j)
    BY <1>0 DEF JobsAhead
  <1>2. job \in [Job -> JobRec]
    BY DEF Typed, TypeOK
  <1>3. CASE Advance \/ UNCHANGED vars
    <2>1. UNCHANGED <<dispatches, tick, job, cli>>
      BY <1>3 DEF Advance, vars
    <2> QED BY <1>1, <2>1, SamePast, AheadFrame DEF AtDispatch
  <1>4. CASE TickLoad \/ TickList \/ TickSave \/ Unreadable
    <2>1. /\ UNCHANGED <<dispatches, job, cli>>
          /\ ~AtDispatch(j, "persist")
      BY <1>4 DEF TickLoad, TickList, TickSave, Unreadable, TickUnreadable, AtJob, AtDispatch
    <2> QED BY <1>1, <2>1, SamePast, AheadFrame
  <1>5. ASSUME NEW i \in Job, TickPass(i) \/ TickDuplicate(i) \/ TickRecord(i)
        PROVE  Before(Past(j), job[j])' /\ CommandFits(j)'
    <2>1. UNCHANGED <<dispatches, job, cli>> /\ ~AtDispatch(j, "persist")
      BY <1>5 DEF TickPass, TickDuplicate, TickRecord, AtJob, AtDispatch
    <2> QED BY <1>1, <2>1, SamePast, AheadFrame
  <1>6. ASSUME NEW i \in Job, TickEnqueue(i)
        PROVE  Before(Past(j), job[j])' /\ CommandFits(j)'
    <2>1. UNCHANGED <<job, cli>>
      BY <1>6 DEF TickEnqueue
    <2> QED BY <1>1, <1>6, <2>1, AheadEnqueue, AheadFrame
  <1>7. ASSUME NEW i \in Job, TickSkipMissed(i) \/ TickPersist(i)
        PROVE  Before(Past(j), job[j])' /\ CommandFits(j)'
    <2>1. CASE i = j
      BY <1>1, <1>7, <2>1, AheadSkip, AheadPersist
    <2>2. CASE i # j
      <3>1. UNCHANGED <<dispatches, cli>> /\ job'[j] = job[j]
        BY <1>2, <1>7, <2>2 DEF TickSkipMissed, TickPersist, WriteJob
      <3>2. ~AtDispatch(j, "persist")
        <4>1. i \in Nat /\ j \in Nat
          BY ConstantsOK
        <4>2. j \in todo => i <= j /\ (j <= i => i = j)
          BY <1>7, <4>1 DEF TickSkipMissed, TickPersist, AtJob, AtDispatch
        <4> QED BY <1>7, <2>2, <4>1, <4>2 DEF TickSkipMissed, TickPersist, AtJob, AtDispatch
      <3> QED BY <1>1, <3>1, <3>2, SamePast, AheadFrame
    <2> QED BY <2>1, <2>2
  <1>8. ~TickError /\ \A torn, S, R : ~Crash(torn, S, R)
    BY DEF TickError, Crash, Orderly
  <1>9. ASSUME NEW w \in Worker, CompleteStep(w) \/ CompleteError(w)
        PROVE  Before(Past(j), job[j])' /\ CommandFits(j)'
    <2>1. UNCHANGED <<dispatches, cli, tick>>
      BY <1>9 DEF CompleteStep, WorkerTake, RouteRefused, CompleteLoadState,
           CompleteSaveState, CompleteLoadJob, CompleteSaveJob, CompleteRecord, CompleteError, WorkerEnd,
           WorkerRetry
    <2>2. job'[j] = job[j]
      <3>1. CASE CompleteSaveJob(w)
        BY <1>2, <3>1, OrderlyWrite DEF CompleteSaveJob, WriteJob
      <3>2. CASE ~CompleteSaveJob(w)
        BY <1>9, <3>2 DEF CompleteStep, WorkerTake, RouteRefused, CompleteLoadState,
           CompleteSaveState, CompleteLoadJob, CompleteRecord, CompleteError, WorkerEnd,
           WorkerRetry
      <3> QED BY <3>1, <3>2
    <2> QED BY <1>1, <2>1, <2>2, SamePast, AheadFrame DEF AtDispatch
  <1>10. CASE ClientStep
    BY <1>1, <1>10, AheadClient
  <1> QED BY <1>3, <1>4, <1>5, <1>6, <1>7, <1>8, <1>9, <1>10 DEF Next, TickStep, Unreadable

\* A job is due under an execution its history already knows, so that every tick
\* skips it as a duplicate, only after a write of stale content, a run-now in the
\* second of an earlier dispatch, or a tick cut off in the middle of a dispatch.
THEOREM WedgingNeedsRace == Spec => []WedgedOnlyByRace
  <1> DEFINE I == Typed /\ Traced /\ RecentTraced /\ InTime /\ JobsAhead
  <1>1. Init => I
    BY TypedInit, TracedInit, AheadInit
  <1>2. I /\ [Next]_vars => I'
    BY TypedNext, TracedNext, AheadNext
  <1>3. I => WedgedOnlyByRace
    <2> SUFFICES ASSUME I, NEW j \in Job, Wedged(j), ~AtDispatch(j, "persist"), Orderly(j)
                 PROVE  FALSE
      BY DEF WedgedOnlyByRace, Orderly
    <2>1. PICK t \in job[j].next : <<j, t>> \in history
      BY DEF Wedged
    <2>2. t \in Time /\ Ran(<<j, t>>)
      BY <2>1 DEF Typed, TypeOK, Exec, Traced
    <2>3. t \in Past(j)
      BY <2>2 DEF Past
    <2>4. t < t
      BY <2>1, <2>3 DEF JobsAhead, Before
    <2> QED BY <2>2, <2>4, ConstantsOK DEF Time
  <1> HIDE DEF I
  <1> QED BY <1>1, <1>2, <1>3, PTL DEF Spec

(***************************************************************************)
(* Overlap.  While nothing of what excuses an overlap has befallen job j,  *)
(* every trigger of it is the only one of its execution, and one that is   *)
(* under way has an active entry where the next dispatch will look: in the *)
(* tick's state, or in the file the next tick loads.                       *)
(***************************************************************************)
Causes == {"overlap_allowed", "failed", "cut", "stale_state", "expired"}

Regular(j) == \A k \in Causes : <<k, j>> \notin mishaps

OfJob(j, g) == JobOf(g.exec) = j

Known == {e \in Exec : e \in history \/ AtRecord(e)}

TriggersOnce(j) ==
    /\ \A g \in queued : OfJob(j, g) => g.exec \in Known
    /\ \A w \in Worker : Running(w) /\ OfJob(j, wtrig[w]) => wtrig[w].exec \in Known
    /\ \A g, h \in queued : OfJob(j, g) /\ g.exec = h.exec => g = h
    /\ \A g \in queued, w \in Worker : OfJob(j, g) /\ Running(w) => g.exec # wtrig[w].exec
    /\ \A v, w \in Worker :
          Running(v) /\ Running(w) /\ OfJob(j, wtrig[v]) /\ wtrig[v].exec = wtrig[w].exec => v = w

Entry(s, e) == \E a \in s.active : a.exec = e

Covered == {e \in Exec :
    /\ tickPc \in {"idle", "list"} => Entry(stateFile, e)
    /\ tickPc # "idle" => Entry(tickState, e) \/ AtRecord(e)}

Guarded(j) == \A g \in Outstanding : OfJob(j, g) => g.exec \in Covered

OneUnderWay(j) == \A g, h \in Outstanding : OfJob(j, g) /\ OfJob(j, h) => g = h

Alone(j) == TriggersOnce(j) /\ Guarded(j) /\ OneUnderWay(j)

RegularAlone == \A j \in Job : Regular(j) => Alone(j)

LEMMA AloneInit == Init => RegularAlone
  BY DEF Init, RegularAlone, Alone, TriggersOnce, Guarded, OneUnderWay, Outstanding, Running

\* Steps that put no trigger of job j in the queue and give none to a thread.
LEMMA AloneFrame ==
  ASSUME NEW j, Alone(j),
         \A g \in queued' : OfJob(j, g) => g \in queued,
         \A w \in Worker : wpc'[w] # "idle" => wpc[w] # "idle" /\ wtrig'[w] = wtrig[w],
         \A w \in Worker : wpc'[w] = "routing" => wpc[w] = "routing",
         Known \subseteq Known',
         \A g \in Outstanding : OfJob(j, g) /\ g.exec \in Covered => g.exec \in Covered'
  PROVE  Alone(j)'
  <1>1. TriggersOnce(j)'
    BY DEF Alone, TriggersOnce, OfJob, Running
  <1>2. \A g \in Outstanding' : OfJob(j, g) => g \in Outstanding
    BY DEF Outstanding
  <1> QED BY <1>1, <1>2 DEF Alone, Guarded, OneUnderWay, OfJob

\* The execution a tick records is that of the first job it has still to visit.
LEMMA AtRecordOf ==
  ASSUME Typed, NEW j \in Job, tickPc \in {"persist", "record"}, j \in todo,
         \A k \in todo : j <= k
  PROVE  \A e : AtRecord(e) <=> e = ExecId(j)
  <1> SUFFICES ASSUME NEW i \in todo, \A k \in todo : i <= k PROVE i = j
    BY DEF AtRecord
  <1>1. i \in Nat /\ j \in Nat /\ i <= j /\ j <= i
    BY ConstantsOK DEF Typed, TypeOK
  <1> QED BY <1>1

LEMMA AloneEnqueue ==
  ASSUME Typed, NEW j \in Job, Alone(j), NEW i \in Job, TickEnqueue(i), Regular(j)'
  PROVE  Alone(j)'
  <1> USE DEF work, files
  <1> DEFINE x == ExecId(i)
             n == [exec |-> x, copy |-> 0]
  <1>1. x \in Exec /\ JobOf(x) = i /\ x \notin history
    BY DueType DEF TickEnqueue, ExecId, JobOf, AlreadyRun
  <1>2. /\ queued' = queued \cup {n} /\ history' = history /\ wpc' = wpc /\ wtrig' = wtrig
        /\ tickPc = "job" /\ tickPc' = "persist" /\ tickState' = tickState
    BY DEF TickEnqueue, AtJob
  <1>3. \A e : ~AtRecord(e)
    BY <1>2 DEF AtRecord
  <1>4. \A e : AtRecord(e)' <=> e = x
    <2>1. ExecId(i)' = x /\ i \in todo' /\ \A k \in todo' : i <= k
      BY DEF TickEnqueue, AtJob, ExecId, DueAt
    <2>2. AtRecord(x)'
      BY <1>2, <2>1 DEF AtRecord
    <2>3. ASSUME NEW e, AtRecord(e)' PROVE e = x
      <3>1. PICK k \in todo : (\A m \in todo : k <= m) /\ e = ExecId(k)'
        BY <2>3 DEF AtRecord, TickEnqueue
      <3>2. k \in Nat /\ i \in Nat /\ k <= i /\ i <= k
        BY <3>1, ConstantsOK DEF TickEnqueue, AtJob, Typed, TypeOK
      <3>3. k = i
        BY <3>2
      <3> QED BY <2>1, <3>1, <3>3
    <2> QED BY <2>2, <2>3
  <1>5. Known' = Known \cup {x} /\ x \notin Known
    BY <1>1, <1>2, <1>3, <1>4 DEF Known
  <1>6. Covered \subseteq Covered' /\ x \in Covered'
    BY <1>1, <1>2, <1>3, <1>4 DEF Covered
  <1>7. Outstanding' = Outstanding \cup {n}
    BY <1>2 DEF Outstanding
  <1>8. n.exec = x
    OBVIOUS
  <1> HIDE DEF x, n
  <1>9. CASE i # j
    <2>1. ~OfJob(j, n)
      BY <1>1, <1>8, <1>9 DEF OfJob
    <2> QED BY <1>2, <1>5, <1>6, <2>1, AloneFrame
  <1>10. CASE i = j
    <2>1. TriggersOnce(j)'
      <3>1. \A g \in queued : OfJob(j, g) => g.exec # x
        BY <1>5 DEF Alone, TriggersOnce
      <3>2. \A w \in Worker : Running(w) /\ OfJob(j, wtrig[w]) => wtrig[w].exec # x
        BY <1>5 DEF Alone, TriggersOnce
      <3>3. \A g : g.exec = x => OfJob(j, g)
        BY <1>1, <1>10 DEF OfJob
      <3> QED BY <1>2, <1>5, <1>8, <3>1, <3>2, <3>3 DEF Alone, TriggersOnce, Running
    <2>2. Guarded(j)'
      BY <1>6, <1>7, <1>8 DEF Alone, Guarded
    <2>3. \A g \in Outstanding : ~OfJob(j, g)
      <3>1. ~Blocked(j) /\ ~snapshot[j].overlap
        BY <1>10 DEF TickEnqueue, Regular, Causes
      <3> SUFFICES ASSUME NEW g \in Outstanding, OfJob(j, g) PROVE FALSE
        OBVIOUS
      <3>2. Entry(tickState, g.exec)
        BY <1>2, <1>3 DEF Alone, Guarded, Covered
      <3> QED BY <3>1, <3>2 DEF Blocked, Entry, OfJob
    <2>4. OneUnderWay(j)'
      BY <1>7, <2>3 DEF OneUnderWay
    <2> QED BY <2>1, <2>2, <2>4 DEF Alone
  <1> QED BY <1>9, <1>10

LEMMA AloneTickJob ==
  ASSUME Typed, NEW j \in Job, Alone(j), NEW i \in Job,
         \/ TickPass(i) \/ TickSkipMissed(i) \/ TickDuplicate(i)
         \/ TickPersist(i) \/ TickRecord(i)
  PROVE  Alone(j)'
  <1> USE DEF work, files
  <1>0. queued' = queued /\ wpc' = wpc /\ wtrig' = wtrig /\ history \subseteq history'
    BY DEF TickPass, TickSkipMissed, TickDuplicate, TickPersist, TickRecord
  <1>1. CASE TickPass(i) \/ TickSkipMissed(i) \/ TickDuplicate(i)
    <2>1. tickPc = "job" /\ tickPc' = "job" /\ tickState' = tickState
      BY <1>1 DEF TickPass, TickSkipMissed, TickDuplicate, AtJob
    <2>2. \A e : ~AtRecord(e) /\ ~AtRecord(e)'
      BY <2>1 DEF AtRecord
    <2> QED BY <1>0, <2>1, <2>2, AloneFrame DEF Known, Covered
  <1>2. CASE TickPersist(i)
    <2>1. /\ tickPc = "persist" /\ tickPc' = "record" /\ tickState' = tickState
          /\ UNCHANGED <<snapshot, todo>>
      BY <1>2 DEF TickPersist, AtDispatch
    <2>2. \A e : AtRecord(e)' <=> AtRecord(e)
      BY <2>1 DEF AtRecord, ExecId, DueAt
    <2> QED BY <1>0, <2>1, <2>2, AloneFrame DEF Known, Covered
  <1>3. CASE TickRecord(i)
    <2>1. /\ tickPc = "record" /\ tickPc' = "job" /\ history' = history \cup {ExecId(i)}
          /\ tickState'.active =
                tickState.active \cup {[exec |-> ExecId(i), started |-> tickNow]}
      BY <1>3 DEF TickRecord, AtDispatch
    <2>2. \A e : AtRecord(e) => e = ExecId(i)
      BY <1>3, AtRecordOf DEF TickRecord, AtDispatch
    <2>3. \A e : Entry(tickState, e) \/ e = ExecId(i) => Entry(tickState', e)
      <3>1. \E a \in tickState'.active : a.exec = ExecId(i)
        <4>1. [exec |-> ExecId(i), started |-> tickNow].exec = ExecId(i)
          OBVIOUS
        <4>2. [exec |-> ExecId(i), started |-> tickNow] \in tickState'.active
          BY <2>1
        <4> QED BY <4>1, <4>2
      <3>2. tickState.active \subseteq tickState'.active
        BY <2>1
      <3> QED BY <3>1, <3>2 DEF Entry
    <2>4. Known \subseteq Known'
      BY <2>1, <2>2 DEF Known
    <2>5. Covered \subseteq Covered'
      BY <2>1, <2>2, <2>3 DEF Covered
    <2> QED BY <1>0, <2>4, <2>5, AloneFrame
  <1> QED BY <1>1, <1>2, <1>3

LEMMA AloneTick ==
  ASSUME Typed, NEW j \in Job, Alone(j), TickLoad \/ TickList \/ TickSave, Regular(j)'
  PROVE  Alone(j)'
  <1> USE DEF work, files
  <1>0. /\ queued' = queued /\ wpc' = wpc /\ wtrig' = wtrig /\ history' = history
        /\ tickPc \in {"idle", "list", "job"} /\ tickPc' \in {"idle", "list", "job"}
    BY DEF TickLoad, TickList, TickSave, TickIdle
  <1>1. \A e : ~AtRecord(e) /\ ~AtRecord(e)'
    BY <1>0 DEF AtRecord
  <1>2. Known \subseteq Known'
    BY <1>0, <1>1 DEF Known
  <1>3. CASE TickLoad
    <2>1. /\ tickPc = "idle" /\ tickPc' = "list" /\ stateFile' = stateFile
          /\ mishaps' = mishaps \cup
               {<<"expired", JobOf(a.exec)>> : a \in stateFile.active \ tickState'.active}
      BY <1>3 DEF TickLoad
    <2>2. ASSUME NEW e, JobOf(e) = j, Entry(stateFile, e) PROVE Entry(tickState', e)
      <3>1. PICK a \in stateFile.active : a.exec = e
        BY <2>2 DEF Entry
      <3>2. <<"expired", j>> \notin mishaps'
        BY DEF Regular, Causes
      <3>3. a \in tickState'.active
        BY <2>1, <2>2, <3>1, <3>2
      <3> QED BY <3>1, <3>3 DEF Entry
    <2>3. \A g \in Outstanding : OfJob(j, g) /\ g.exec \in Covered => g.exec \in Covered'
      BY <2>1, <2>2 DEF Covered, OfJob
    <2> QED BY <1>0, <1>2, <2>3, AloneFrame
  <1>4. CASE TickList
    <2>1. /\ tickPc = "list" /\ stateFile' = stateFile
          /\ (tickPc' = "job" /\ tickState' = tickState) \/ tickPc' = "idle"
      BY <1>4 DEF TickList, TickIdle
    <2>2. Covered \subseteq Covered'
      BY <1>1, <2>1 DEF Covered
    <2> QED BY <1>0, <1>2, <2>2, AloneFrame
  <1>5. CASE TickSave
    <2>1. tickPc = "job" /\ tickPc' = "idle" /\ stateFile' = tickState
      BY <1>5 DEF TickSave, TickIdle, WriteState
    <2>2. Covered \subseteq Covered'
      BY <1>1, <2>1 DEF Covered
    <2> QED BY <1>0, <1>2, <2>2, AloneFrame
  <1> QED BY <1>3, <1>4, <1>5

LEMMA AloneTake ==
  ASSUME Typed, NEW j \in Job, Alone(j), NEW w \in Worker, NEW g \in queued, WorkerTake(w, g)
  PROVE  Alone(j)'
  <1> USE DEF tick
  <1>1. /\ wpc[w] = "idle" /\ wpc'[w] = "routing" /\ wtrig'[w] = g /\ queued' = queued \ {g}
        /\ \A v \in Worker : v # w => wpc'[v] = wpc[v] /\ wtrig'[v] = wtrig[v]
    BY DEF WorkerTake, Running, Typed, TypeOK
  <1>2. Known' = Known /\ Covered' = Covered
    BY DEF WorkerTake, Known, Covered, AtRecord, ExecId, DueAt
  <1>3. Outstanding' \subseteq Outstanding
    <2> SUFFICES ASSUME NEW v \in Worker, wpc'[v] = "routing" PROVE wtrig'[v] \in Outstanding
      BY <1>1 DEF Outstanding
    <2> QED BY <1>1 DEF Outstanding
  <1>4. TriggersOnce(j)'
    <2>1. \A h \in queued' : OfJob(j, h) => h.exec \in Known'
      BY <1>1, <1>2 DEF Alone, TriggersOnce
    <2>2. \A v \in Worker : wpc'[v] # "idle" /\ OfJob(j, wtrig'[v]) => wtrig'[v].exec \in Known'
      BY <1>1, <1>2 DEF Alone, TriggersOnce, Running
    <2>3. \A h, k \in queued' : OfJob(j, h) /\ h.exec = k.exec => h = k
      BY <1>1 DEF Alone, TriggersOnce
    <2>4. \A h \in queued', v \in Worker : OfJob(j, h) /\ wpc'[v] # "idle" => h.exec # wtrig'[v].exec
      BY <1>1 DEF Alone, TriggersOnce, Running
    <2>5. ASSUME NEW u \in Worker, NEW v \in Worker, wpc'[u] # "idle", wpc'[v] # "idle",
                 OfJob(j, wtrig'[u]), wtrig'[u].exec = wtrig'[v].exec
          PROVE  u = v
      <3>1. OfJob(j, wtrig'[v])
        BY <2>5 DEF OfJob
      <3> QED BY <1>1, <2>5, <3>1 DEF Alone, TriggersOnce, Running
    <2> QED BY <2>1, <2>2, <2>3, <2>4, <2>5 DEF TriggersOnce, OfJob, Running
  <1> QED BY <1>2, <1>3, <1>4 DEF Alone, Guarded, OneUnderWay, OfJob

LEMMA AloneComplete ==
  ASSUME Typed, NEW j \in Job, Alone(j), NEW w \in Worker, CompleteStep(w) \/ CompleteError(w),
         Regular(j)'
  PROVE  Alone(j)'
  <1> USE DEF files
  <1>0. /\ wpc \in [Worker -> WorkerPc]
        /\ wtrig \in [Worker -> Trigger \cup {NoTrigger}]
    BY DEF Typed, TypeOK
  <1>1. UNCHANGED tick /\ history \subseteq history'
    BY DEF CompleteStep, WorkerTake, RouteRefused, CompleteLoadState, CompleteSaveState,
           CompleteLoadJob, CompleteSaveJob, CompleteRecord, CompleteError, WorkerEnd, WorkerRetry
  <1>2. \A e : AtRecord(e)' <=> AtRecord(e)
    BY <1>1, SameRecord DEF tick
  <1>3. Known \subseteq Known'
    BY <1>1, <1>2 DEF Known
  <1>4. stateFile' = stateFile => Covered \subseteq Covered'
    BY <1>1, <1>2 DEF Covered, tick
  <1>5. ASSUME NEW ok \in BOOLEAN,
               \/ CompleteLoadState(w, ok) \/ CompleteLoadJob(w) \/ CompleteSaveJob(w)
               \/ CompleteRecord(w)
               \/ RouteRefused(w) \/ CompleteError(w) \/ WorkerEnd(w)
        PROVE  Alone(j)'
    <2>1. queued' = queued /\ stateFile' = stateFile
      BY <1>5 DEF CompleteLoadState, CompleteLoadJob, CompleteSaveJob, CompleteRecord, RouteRefused,
                  CompleteError, WorkerEnd
    <2>2. \A v \in Worker : /\ wpc'[v] # "idle" => wpc[v] # "idle" /\ wtrig'[v] = wtrig[v]
                            /\ wpc'[v] = "routing" => wpc[v] = "routing"
      BY <1>0, <1>5 DEF CompleteLoadState, CompleteLoadJob, CompleteSaveJob, CompleteRecord, RouteRefused,
                  CompleteError, WorkerEnd, WorkerIdle
    <2> QED BY <1>3, <1>4, <2>1, <2>2, AloneFrame
  <1>6. CASE CompleteSaveState(w)
    <2>1. /\ queued' = queued /\ wtrig' = wtrig /\ wpc[w] = "saveState"
          /\ \A v \in Worker : /\ wpc'[v] # "idle" => wpc[v] # "idle"
                               /\ wpc'[v] = "routing" => wpc[v] = "routing"
      BY <1>0, <1>6 DEF CompleteSaveState
    <2>2. stateFile = wbase[w]
      BY <1>6 DEF CompleteSaveState, WriteState, Regular, Causes
    <2>3. stateFile'.active = {a \in stateFile.active : a.exec # wtrig[w].exec}
      BY <1>6, <2>2 DEF CompleteSaveState, WriteState, Typed, TypeOK, SchedState
    <2>4. ASSUME NEW g \in Outstanding, OfJob(j, g) PROVE g.exec # wtrig[w].exec
      <3>1. CASE g \in queued
        BY <2>1, <2>4, <3>1 DEF Alone, TriggersOnce, Running
      <3>2. ASSUME NEW v \in Worker, wpc[v] = "routing", g = wtrig[v] PROVE g.exec # wtrig[w].exec
        BY <2>1, <2>4, <3>2 DEF Alone, TriggersOnce, Running
      <3> QED BY <3>1, <3>2 DEF Outstanding
    <2>5. ASSUME NEW g \in Outstanding, OfJob(j, g), Entry(stateFile, g.exec)
          PROVE  Entry(stateFile', g.exec)
      BY <2>3, <2>4, <2>5 DEF Entry
    <2>6. \A g \in Outstanding : OfJob(j, g) /\ g.exec \in Covered => g.exec \in Covered'
      BY <1>1, <1>2, <2>5 DEF Covered, tick
    <2> QED BY <1>3, <2>1, <2>6, AloneFrame
  <1>7. CASE WorkerRetry(w)
    <2>1. /\ queued' = queued \cup {Renamed(wtrig[w])} /\ stateFile' = stateFile
          /\ \A v \in Worker : /\ wpc'[v] # "idle" => wpc[v] # "idle" /\ wtrig'[v] = wtrig[v]
                               /\ wpc'[v] = "routing" => wpc[v] = "routing"
      BY <1>0, <1>7 DEF WorkerRetry, WorkerIdle
    <2>2. JobOf(wtrig[w].exec) # j
      BY <1>7 DEF WorkerRetry, Regular, Causes
    <2>3. \A g \in queued' : OfJob(j, g) => g \in queued
      BY <2>1, <2>2 DEF OfJob, Renamed
    <2> QED BY <1>3, <1>4, <2>1, <2>3, AloneFrame
  <1> QED BY <1>5, <1>6, <1>7, AloneTake DEF CompleteStep

\* Only a crash leaves a run record half written.
TornAfterCut == tornRuns # {} => \A j \in Job : <<"cut", j>> \in mishaps

LEMMA TornInit == Init => TornAfterCut
  BY DEF Init, TornAfterCut

LEMMA TornNext == TornAfterCut /\ [Next]_vars => TornAfterCut'
  <1> SUFFICES ASSUME TornAfterCut, [Next]_vars PROVE TornAfterCut'
    OBVIOUS
  <1>1. CASE \E torn, S, R : Crash(torn, S, R)
    BY <1>1 DEF Crash, TornAfterCut
  <1>2. CASE ~\E torn, S, R : Crash(torn, S, R)
    <2> USE DEF files
    <2>1. ASSUME TickStep \/ TickError PROVE tornRuns' = tornRuns
      BY <2>1 DEF TickStep, TickLoad, TickList, TickSave, TickPass, TickSkipMissed,
           TickDuplicate, TickUnreadable, TickEnqueue, TickPersist, TickRecord, TickError
    <2>2. ASSUME ClientStep \/ Advance \/ UNCHANGED vars PROVE tornRuns' = tornRuns
      BY <2>2 DEF ClientStep, JobCreate, JobUpdate, JobReschedule, JobTransition, JobRunNow,
           CliSave, CliCut, Advance, vars
    <2>3. ASSUME NEW w \in Worker, CompleteStep(w) \/ CompleteError(w)
          PROVE  tornRuns' = tornRuns
      BY <2>3 DEF CompleteStep, WorkerTake, RouteRefused, CompleteLoadState,
           CompleteSaveState, CompleteLoadJob, CompleteSaveJob, CompleteRecord,
           CompleteError, WorkerEnd, WorkerRetry
    <2>4. tornRuns' = tornRuns
      BY <1>2, <2>1, <2>2, <2>3 DEF Next
    <2> QED BY <2>4, MishapsGrow DEF TornAfterCut
  <1> QED BY <1>1, <1>2

LEMMA AloneNext == Typed /\ TornAfterCut /\ RegularAlone /\ [Next]_vars => RegularAlone'
  <1> SUFFICES ASSUME Typed, TornAfterCut, RegularAlone, [Next]_vars, NEW j \in Job, Regular(j)'
               PROVE  Alone(j)'
    BY DEF RegularAlone
  <1>1. Alone(j)
    <2>1. Regular(j)
      BY MishapsGrow DEF Regular
    <2> QED BY <2>1 DEF RegularAlone
  <1>2. CASE Advance \/ ClientStep \/ UNCHANGED vars
    <2>1. UNCHANGED <<history, queued, stateFile, tick, work>>
      BY <1>2 DEF Advance, ClientStep, JobCreate, JobUpdate, JobReschedule, JobTransition,
                  JobRunNow, CliSave, CliCut, vars, files
    <2>2. \A e : AtRecord(e)' <=> AtRecord(e)
      BY <2>1, SameRecord DEF tick
    <2>3. Known' = Known /\ Covered' = Covered
      BY <2>1, <2>2 DEF Known, Covered, tick
    <2> QED BY <1>1, <2>1, <2>3, AloneFrame DEF work
  <1>3. ~TickError /\ \A torn, S, R : ~Crash(torn, S, R)
    BY DEF TickError, Crash, Regular, Causes
  <1>4. \A i \in Job : ~TickUnreadable(i)
    BY MishapsGrow DEF TickUnreadable, TornAfterCut, Regular, Causes
  <1> QED
    BY <1>1, <1>2, <1>3, <1>4, AloneTick, AloneTickJob, AloneEnqueue, AloneComplete
    DEF Next, TickStep

\* Two triggers of one job are under way at once only if overlap was allowed, a
\* trigger was retried, a thread was cut off, scheduler_state.json was overwritten
\* with stale content or an execution outlived its entry.
THEOREM OverlapsHaveCause == Spec => []OverlapHasCause
  <1>1. RegularAlone => OverlapHasCause
    BY DEF RegularAlone, Alone, OneUnderWay, OverlapHasCause, Overlapping, OfJob, Regular, Causes
  <1> QED
    BY <1>1, TypedInit, TypedNext, TornInit, TornNext, AloneInit, AloneNext, PTL DEF Spec

=============================================================================
