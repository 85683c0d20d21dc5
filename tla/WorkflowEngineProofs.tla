------------------------ MODULE WorkflowEngineProofs ------------------------
(***************************************************************************)
(* Theorems about WorkflowEngine for every workflow, any limits and any    *)
(* number of engines, resumes, cancels, crashes and errors.                *)
(***************************************************************************)
EXTENDS WorkflowEngine, TLAPS

(***************************************************************************)
(* Types.  Beyond TypeOK: an engine that executes an attempt knows which,  *)
(* and one that has its outcome may retry only below the limit.            *)
(***************************************************************************)
HasStep(e) ==
    \/ pc[e] \in {"guard", "exec", "record", "count", "reload", "judge"}
    \/ pc[e] \in {"save", "progress"} /\ cont[e] \in {"guard", "reload"}

HasOutcome(e) ==
    \/ pc[e] \in {"record", "count", "reload", "judge"}
    \/ pc[e] \in {"save", "progress"} /\ cont[e] = "reload"

Typed ==
    /\ TypeOK
    /\ \A e \in Engine : HasStep(e) => at[e].step \in Step /\ at[e].attempt \in Attempt
    /\ \A e \in Engine : HasOutcome(e) =>
          /\ out[e].status \in Status
          /\ out[e].status = "failed_retryable" => at[e].attempt <= MaxRetries

LEMMA Blanks ==
  /\ NoRun \in RunRec /\ NoResult \in Result
  /\ Nowhere \in [step : Step \cup {NoStep}, attempt : 0..(MaxRetries + 1)]
  /\ NoWrite \in [to : RunRec, from : RunRec]
  <1>1. 0 \in 0..(MaxRetries + 1) BY ConstantsOK
  <1>2. NoRun \in RunRec BY <1>1 DEF NoRun, RunRec
  <1>3. NoResult \in Result BY DEF NoResult, Result
  <1> QED BY <1>1, <1>2, <1>3 DEF Nowhere, NoWrite

LEMMA RecTypes ==
  ASSUME NEW r \in RunRec
  PROVE  /\ \A s \in RunState : [r EXCEPT !.state = s] \in RunRec
         /\ \A s \in Step \cup {NoStep}, a \in 0..(MaxRetries + 1) :
               [r EXCEPT !.step = s, !.attempt = a] \in RunRec
         /\ [r EXCEPT !.iter = @ + 1] \in RunRec
  <1>1. ASSUME NEW s \in RunState PROVE [r EXCEPT !.state = s] \in RunRec
    BY DEF RunRec
  <1>2. ASSUME NEW s \in Step \cup {NoStep}, NEW a \in 0..(MaxRetries + 1)
        PROVE  [r EXCEPT !.step = s, !.attempt = a] \in RunRec
    BY DEF RunRec
  <1>3. [r EXCEPT !.iter = @ + 1] \in RunRec
    <2>1. r.iter + 1 \in Nat BY DEF RunRec
    <2> QED BY <2>1 DEF RunRec
  <1> QED BY <1>1, <1>2, <1>3

LEMMA PersistType ==
  ASSUME TypeOK, NEW e \in Engine, NEW r \in RunRec, NEW b \in RunRec, NEW c \in ContPc,
         write' = [write EXCEPT ![e] = [to |-> r, from |-> b]],
         cont' = [cont EXCEPT ![e] = c], pc' = [pc EXCEPT ![e] = "save"]
  PROVE  /\ write' \in [Engine -> [to : RunRec, from : RunRec]]
         /\ cont' \in [Engine -> ContPc] /\ cont'[e] = c
         /\ pc' \in [Engine -> EnginePc] /\ pc'[e] = "save"
         /\ \A f \in Engine \ {e} : pc'[f] = pc[f] /\ cont'[f] = cont[f] /\ write'[f] = write[f]
         /\ write'[e] = [to |-> r, from |-> b]
  <1>1. "save" \in EnginePc BY DEF EnginePc
  <1> QED BY <1>1 DEF TypeOK

LEMMA LeaveType ==
  ASSUME TypeOK, NEW e \in Engine, Leave(e)
  PROVE  /\ pc' \in [Engine -> EnginePc] /\ cont' \in [Engine -> ContPc]
         /\ run' \in [Engine -> RunRec] /\ base' \in [Engine -> RunRec]
         /\ write' \in [Engine -> [to : RunRec, from : RunRec]]
         /\ at' \in [Engine -> [step : Step \cup {NoStep}, attempt : 0..(MaxRetries + 1)]]
         /\ out' \in [Engine -> Result] /\ prev' \in [Engine -> Nat]
         /\ pc'[e] = "idle"
         /\ \A f \in Engine \ {e} : /\ pc'[f] = pc[f] /\ cont'[f] = cont[f] /\ at'[f] = at[f]
                                    /\ out'[f] = out[f]
  <1>1. "idle" \in EnginePc /\ "idle" \in ContPc BY DEF EnginePc, ContPc
  <1> QED BY <1>1, Blanks DEF TypeOK, Leave, Goto

LEMMA TypedInit == Init => Typed
  <1> SUFFICES ASSUME Init PROVE Typed
    OBVIOUS
  <1>1. /\ 0 \in 0..MaxResumes /\ 0 \in 0..MaxCancels /\ 0 \in 0..MaxCuts
        /\ "idle" \in EnginePc /\ "idle" \in ContPc
    BY ConstantsOK DEF EnginePc, ContPc
  <1>2. result \in [Step -> [Attempt -> Result]]
    BY Blanks DEF Init
  <1>3. last \in [step : Step \cup {NoStep}, status : Status \cup {"none"},
                  next : Step \cup {NoStep}]
    BY DEF Init
  <1>4. TypeOK
    BY <1>1, <1>2, <1>3, Blanks DEF Init, TypeOK
  <1> QED BY <1>4 DEF Init, Typed, HasStep, HasOutcome

\* The parts of Typed that a step of engine e alone can disturb.
LEMMA TypedOthers ==
  ASSUME Typed, TypeOK', NEW e \in Engine,
         \A f \in Engine \ {e} : /\ pc'[f] = pc[f] /\ cont'[f] = cont[f] /\ at'[f] = at[f]
                                 /\ out'[f] = out[f],
         HasStep(e)' => at'[e].step \in Step /\ at'[e].attempt \in Attempt,
         HasOutcome(e)' => /\ out'[e].status \in Status
                           /\ out'[e].status = "failed_retryable" => at'[e].attempt <= MaxRetries
  PROVE  Typed'
  <1>1. ASSUME NEW f \in Engine \ {e}
        PROVE  (HasStep(f)' <=> HasStep(f)) /\ (HasOutcome(f)' <=> HasOutcome(f))
    BY DEF HasStep, HasOutcome
  <1> QED BY <1>1 DEF Typed

LEMMA MarkTyped ==
  ASSUME Typed, NEW e \in Engine, NEW s \in Step, NEW a \in Attempt,
         run' = [run EXCEPT ![e] = [run[e] EXCEPT !.step = s, !.attempt = a]],
         at' = [at EXCEPT ![e] = [step |-> s, attempt |-> a]],
         write' = [write EXCEPT ![e] = [to |-> [run[e] EXCEPT !.step = s, !.attempt = a],
                                        from |-> base[e]]],
         cont' = [cont EXCEPT ![e] = "guard"], pc' = [pc EXCEPT ![e] = "save"],
         prev' \in [Engine -> Nat], UNCHANGED <<files, base, out, cancel, env, hist>>
  PROVE  Typed'
  <1> DEFINE r == [run[e] EXCEPT !.step = s, !.attempt = a]
  <1>1. /\ TypeOK /\ a \in 0..(MaxRetries + 1) /\ run[e] \in RunRec /\ base[e] \in RunRec
        /\ "guard" \in ContPc
    BY ConstantsOK DEF Attempt, Typed, TypeOK, ContPc
  <1>2. r \in RunRec
    BY <1>1, RecTypes
  <1>3. run' = [run EXCEPT ![e] = r] /\ write' = [write EXCEPT ![e] = [to |-> r, from |-> base[e]]]
    OBVIOUS
  <1> HIDE DEF r
  <1>4. run' \in [Engine -> RunRec]
    BY <1>1, <1>2, <1>3 DEF TypeOK
  <1>5. /\ at' \in [Engine -> [step : Step \cup {NoStep}, attempt : 0..(MaxRetries + 1)]]
        /\ at'[e].step \in Step /\ at'[e].attempt \in Attempt
        /\ \A f \in Engine \ {e} : at'[f] = at[f]
    BY <1>1 DEF TypeOK
  <1>6. /\ write' \in [Engine -> [to : RunRec, from : RunRec]]
        /\ cont' \in [Engine -> ContPc] /\ cont'[e] = "guard"
        /\ pc' \in [Engine -> EnginePc] /\ pc'[e] = "save"
        /\ \A f \in Engine \ {e} : pc'[f] = pc[f] /\ cont'[f] = cont[f]
    BY <1>1, <1>2, <1>3, PersistType
  <1>7. TypeOK'
    BY <1>1, <1>4, <1>5, <1>6 DEF TypeOK, files, cancel, env, hist
  <1> QED BY <1>5, <1>6, <1>7, TypedOthers DEF HasStep, HasOutcome

LEMMA FinishType ==
  ASSUME TypeOK, NEW e \in Engine, Finish(e)
  PROVE  /\ run' \in [Engine -> RunRec] /\ at' = at
         /\ write' \in [Engine -> [to : RunRec, from : RunRec]]
         /\ cont' \in [Engine -> ContPc] /\ pc' \in [Engine -> EnginePc]
         /\ pc'[e] = "fail" \/ (pc'[e] = "save" /\ cont'[e] = "check")
         /\ \A f \in Engine \ {e} : pc'[f] = pc[f] /\ cont'[f] = cont[f]
  <1> DEFINE r == [run[e] EXCEPT !.step = NoStep, !.attempt = 0]
             t == [r EXCEPT !.state = "succeeded"]
  <1>1. /\ run[e] \in RunRec /\ base[e] \in RunRec /\ 0 \in 0..(MaxRetries + 1)
        /\ "check" \in ContPc /\ "fail" \in EnginePc /\ "succeeded" \in RunState
    BY ConstantsOK DEF TypeOK, ContPc, EnginePc, RunState
  <1>2. r \in RunRec
    BY <1>1, RecTypes
  <1>3. t \in RunRec
    BY <1>1, <1>2, RecTypes
  <1>4. CASE CanTransitionTo(r.state, "succeeded")
    <2>1. Persist(e, t, base[e], "check") /\ run' = [run EXCEPT ![e] = t] /\ at' = at
      BY <1>4 DEF Finish
    <2> HIDE DEF t
    <2>2. run' \in [Engine -> RunRec]
      BY <1>3, <2>1 DEF TypeOK
    <2>3. /\ write' \in [Engine -> [to : RunRec, from : RunRec]]
          /\ cont' \in [Engine -> ContPc] /\ cont'[e] = "check"
          /\ pc' \in [Engine -> EnginePc] /\ pc'[e] = "save"
          /\ \A f \in Engine \ {e} : pc'[f] = pc[f] /\ cont'[f] = cont[f]
      BY <1>1, <1>3, <2>1, PersistType DEF Persist, Goto
    <2> QED BY <2>1, <2>2, <2>3
  <1>5. CASE ~CanTransitionTo(r.state, "succeeded")
    <2>1. /\ pc' = [pc EXCEPT ![e] = "fail"] /\ run' = [run EXCEPT ![e] = r]
          /\ write' = write /\ cont' = cont /\ at' = at
      BY <1>5 DEF Finish, Goto
    <2> HIDE DEF r
    <2>2. run' \in [Engine -> RunRec]
      BY <1>2, <2>1 DEF TypeOK
    <2>3. /\ pc' \in [Engine -> EnginePc] /\ pc'[e] = "fail"
          /\ \A f \in Engine \ {e} : pc'[f] = pc[f]
      BY <1>1, <2>1 DEF TypeOK
    <2>4. write' \in [Engine -> [to : RunRec, from : RunRec]] /\ cont' \in [Engine -> ContPc]
      BY <2>1 DEF TypeOK
    <2> QED BY <2>1, <2>2, <2>3, <2>4
  <1> QED BY <1>4, <1>5

LEMMA SharedType == TypeOK => Shared \subseteq {"stale", "outdated", "shared", "cut"}
  BY DEF TypeOK, Shared

LEMMA CutType ==
  ASSUME TypeOK, NEW E, Cut(E)
  PROVE  torn' \in BOOLEAN /\ result' \in [Step -> [Attempt -> Result]]
  <1>1. [status |-> "torn", next |-> NoStep] \in Result
    BY DEF Result
  <1>2. torn' \in BOOLEAN
    BY Zenon DEF TypeOK, Cut
  <1>3. \A s \in Step, a \in Attempt : result[s][a] \in Result
    BY DEF TypeOK
  <1> QED BY <1>1, <1>2, <1>3 DEF Cut

LEMMA EntryTyped ==
  ASSUME Typed, NEW e \in Engine, Create(e) \/ Resume(e) PROVE Typed'
  <1>0. TypeOK
    BY DEF Typed
  <1>1. CASE Create(e)
    <2> DEFINE r == [NoRun EXCEPT !.state = "queued"]
    <2>1. r \in RunRec /\ NoRun \in RunRec /\ "load" \in ContPc
      BY Blanks, RecTypes DEF RunState, ContPc
    <2>2. Persist(e, r, NoRun, "load") /\ run' = [run EXCEPT ![e] = r]
          /\ UNCHANGED <<files, base, at, out, prev, cancel, env, hist>>
      BY <1>1 DEF Create
    <2> HIDE DEF r
    <2>3. /\ write' \in [Engine -> [to : RunRec, from : RunRec]]
          /\ cont' \in [Engine -> ContPc] /\ cont'[e] = "load"
          /\ pc' \in [Engine -> EnginePc] /\ pc'[e] = "save"
          /\ \A f \in Engine \ {e} : pc'[f] = pc[f] /\ cont'[f] = cont[f]
      BY <1>0, <2>1, <2>2, PersistType DEF Persist, Goto
    <2>4. TypeOK'
      BY <1>0, <2>1, <2>2, <2>3 DEF TypeOK, files, cancel, env, hist
    <2> QED BY <2>2, <2>3, <2>4, TypedOthers DEF HasStep, HasOutcome
  <1>2. CASE Resume(e)
    <2>1. /\ pc' = [pc EXCEPT ![e] = "load"] /\ "load" \in EnginePc
          /\ mishaps' \subseteq {"stale", "outdated", "shared", "cut"}
      BY <1>0, <1>2, SharedType DEF Resume, Goto, EnginePc
    <2>2. TypeOK'
      BY <1>0, <1>2, <2>1, ConstantsOK DEF Resume, TypeOK, files, cancel
    <2> QED BY <1>0, <1>2, <2>1, <2>2, TypedOthers DEF Resume, HasStep, HasOutcome, TypeOK
  <1> QED BY <1>1, <1>2

LEMMA LoadTyped ==
  ASSUME Typed, NEW e \in Engine, Load(e) PROVE Typed'
  <1>0. TypeOK
    BY DEF Typed
  <1>1. CASE torn \/ rec.state \in Terminal
    <2>1. Leave(e) /\ UNCHANGED <<files, cancel, env, hist>>
      BY <1>1 DEF Load
    <2>2. TypeOK'
      BY <1>0, <2>1, LeaveType DEF TypeOK, files, cancel, env, hist
    <2> QED BY <1>0, <2>1, <2>2, LeaveType, TypedOthers DEF HasStep, HasOutcome
  <1>2. CASE ~(torn \/ rec.state \in Terminal)
    <2> DEFINE r == [rec EXCEPT !.state = "running"]
    <2>1. /\ base' = [base EXCEPT ![e] = rec] /\ run' = [run EXCEPT ![e] = r]
          /\ UNCHANGED <<at, out, prev, files, cancel, env, hist>>
      BY <1>2 DEF Load
    <2>2. r \in RunRec /\ rec \in RunRec /\ "next" \in ContPc /\ "next" \in EnginePc
      BY <1>0, RecTypes DEF TypeOK, RunState, ContPc, EnginePc
    <2>3. /\ write' \in [Engine -> [to : RunRec, from : RunRec]]
          /\ cont' \in [Engine -> ContPc] /\ pc' \in [Engine -> EnginePc]
          /\ pc'[e] = "next" \/ (pc'[e] = "save" /\ cont'[e] = "next")
          /\ \A f \in Engine \ {e} : pc'[f] = pc[f] /\ cont'[f] = cont[f]
      <3>1. CASE CanTransitionTo(rec.state, "running")
        <4>1. Persist(e, r, rec, "next")
          BY <1>2, <3>1 DEF Load
        <4> HIDE DEF r
        <4> QED BY <1>0, <2>2, <4>1, PersistType DEF Persist, Goto
      <3>2. CASE ~CanTransitionTo(rec.state, "running")
        <4>1. pc' = [pc EXCEPT ![e] = "next"] /\ write' = write /\ cont' = cont
          BY <1>2, <3>2 DEF Load, Goto
        <4>2. /\ pc' \in [Engine -> EnginePc] /\ pc'[e] = "next"
              /\ \A f \in Engine \ {e} : pc'[f] = pc[f]
          BY <1>0, <2>2, <4>1 DEF TypeOK
        <4>3. write' \in [Engine -> [to : RunRec, from : RunRec]] /\ cont' \in [Engine -> ContPc]
          BY <1>0, <4>1 DEF TypeOK
        <4> QED BY <4>1, <4>2, <4>3
      <3> QED BY <3>1, <3>2
    <2> HIDE DEF r
    <2>4. TypeOK'
      BY <1>0, <2>1, <2>2, <2>3 DEF TypeOK, files, cancel, env, hist
    <2> QED BY <2>1, <2>3, <2>4, TypedOthers DEF HasStep, HasOutcome
  <1> QED BY <1>1, <1>2

LEMMA WritesTyped ==
  ASSUME Typed, NEW e \in Engine, Save(e) \/ Progress(e) PROVE Typed'
  <1>0. TypeOK /\ write[e].to \in RunRec
    BY DEF Typed, TypeOK
  <1>1. CASE Save(e)
    <2>1. /\ rec' \in RunRec /\ torn' \in BOOLEAN
          /\ mishaps' \subseteq {"stale", "outdated", "shared", "cut"}
      BY <1>0, <1>1 DEF Save, TypeOK
    <2>2. base' \in [Engine -> RunRec]
      BY <1>0, <1>1 DEF Save, TypeOK
    <2>3. /\ pc' \in [Engine -> EnginePc] /\ pc[e] = "save" /\ pc'[e] = "progress"
          /\ \A f \in Engine \ {e} : pc'[f] = pc[f]
      BY <1>0, <1>1 DEF Save, TypeOK, Goto, EnginePc
    <2>4. TypeOK'
      BY <1>0, <1>1, <2>1, <2>2, <2>3 DEF Save, TypeOK, cancel, env
    <2> QED BY <1>1, <2>3, <2>4, TypedOthers DEF Save, Typed, HasStep, HasOutcome
  <1>2. CASE Progress(e)
    <2>1. /\ progress' \in RunState \cup {"absent"}
          /\ mishaps' \subseteq {"stale", "outdated", "shared", "cut"}
      BY <1>0, <1>2 DEF Progress, TypeOK, RunRec
    <2>2. CASE cont[e] = "idle"
      <3>1. Leave(e) /\ UNCHANGED <<rec, torn, result, cancel, env, ran, ranLate, last>>
        BY <1>2, <2>2 DEF Progress
      <3>2. TypeOK'
        BY <1>0, <2>1, <3>1, LeaveType DEF TypeOK, cancel, env
      <3> QED BY <1>0, <3>1, <3>2, LeaveType, TypedOthers DEF HasStep, HasOutcome
    <2>3. CASE cont[e] # "idle"
      <3>1. /\ pc' = [pc EXCEPT ![e] = cont[e]] /\ cont' = [cont EXCEPT ![e] = "idle"]
            /\ write' = [write EXCEPT ![e] = NoWrite] /\ pc[e] = "progress"
            /\ UNCHANGED <<run, base, at, out, prev, rec, torn, result, cancel, env, ran, ranLate, last>>
        BY <1>2, <2>3 DEF Progress, Goto
      <3>2. cont[e] \in ContPc /\ cont[e] \in EnginePc /\ "idle" \in ContPc
        BY <1>0 DEF TypeOK, ContPc, EnginePc
      <3>3. write' \in [Engine -> [to : RunRec, from : RunRec]]
        BY <1>0, <3>1, Blanks DEF TypeOK
      <3>4. TypeOK'
        BY <1>0, <2>1, <3>1, <3>2, <3>3 DEF TypeOK, cancel, env
      <3>5. pc'[e] = cont[e] /\ \A f \in Engine \ {e} : pc'[f] = pc[f] /\ cont'[f] = cont[f]
        BY <1>0, <3>1 DEF TypeOK
      <3> QED BY <3>1, <3>2, <3>4, <3>5, TypedOthers DEF Typed, HasStep, HasOutcome, ContPc
    <2> QED BY <2>2, <2>3
  <1> QED BY <1>1, <1>2

\* A step of the engine to "fail" that changes nothing else.
LEMMA ToFailTyped ==
  ASSUME Typed, NEW e \in Engine, pc' = [pc EXCEPT ![e] = "fail"], prev' \in [Engine -> Nat],
         UNCHANGED <<files, cont, run, base, write, at, out, cancel, env, hist>>
  PROVE  Typed'
  <1>0. TypeOK
    BY DEF Typed
  <1>1. /\ pc' \in [Engine -> EnginePc] /\ pc'[e] = "fail"
        /\ \A f \in Engine \ {e} : pc'[f] = pc[f]
    BY <1>0 DEF TypeOK, EnginePc
  <1>2. TypeOK'
    BY <1>0, <1>1 DEF TypeOK, files, cancel, env, hist
  <1> QED BY <1>1, <1>2, TypedOthers DEF HasStep, HasOutcome

LEMMA FinishTyped ==
  ASSUME Typed, NEW e \in Engine, Finish(e), prev' \in [Engine -> Nat],
         UNCHANGED <<files, base, out, cancel, env, hist>>
  PROVE  Typed'
  <1>0. TypeOK
    BY DEF Typed
  <1>1. TypeOK'
    BY <1>0, FinishType DEF TypeOK, files, cancel, env, hist
  <1> QED BY <1>0, <1>1, FinishType, TypedOthers DEF HasStep, HasOutcome

LEMMA ResolveTyped ==
  ASSUME Typed, NEW e \in Engine, Resolve(e) PROVE Typed'
  <1> DEFINE r == run[e]
             p == PointerResult(r)
  <1>0. /\ TypeOK /\ r \in RunRec /\ r.step \in Step \cup {NoStep}
        /\ r.attempt \in 0..(MaxRetries + 1) /\ r.iter \in Nat
    BY DEF Typed, TypeOK, RunRec
  <1>1. p \in Result
    <2>1. CASE r.step \in Step /\ r.attempt # 0
      <3>1. r.attempt \in Attempt
        BY <1>0, <2>1, ConstantsOK DEF Attempt
      <3> QED BY <1>0, <2>1, <3>1 DEF PointerResult, TypeOK
    <2>2. CASE ~(r.step \in Step /\ r.attempt # 0)
      BY <2>2, Blanks DEF PointerResult
    <2> QED BY <2>1, <2>2
  <1>2. prev' \in [Engine -> Nat] /\ UNCHANGED <<files, base, out, cancel, env, hist>>
    BY <1>0 DEF Resolve, TypeOK
  <1>3. CASE r.step = NoStep
    <2>1. Mark(e, First, 1)
      BY <1>3 DEF Resolve
    <2>2. First \in Step /\ 1 \in Attempt
      BY ConstantsOK DEF Attempt
    <2> QED BY <1>2, <2>1, <2>2, MarkTyped DEF Mark, Persist, Goto
  <1>4. CASE r.step # NoStep /\ p.status = "none"
    <2>1. Mark(e, r.step, IF r.attempt = 0 THEN 1 ELSE r.attempt)
      BY <1>4 DEF Resolve, Status
    <2>2. r.step \in Step /\ (IF r.attempt = 0 THEN 1 ELSE r.attempt) \in Attempt
      BY <1>0, <1>4, ConstantsOK DEF Attempt
    <2> QED BY <1>2, <2>1, <2>2, MarkTyped DEF Mark, Persist, Goto
  <1>5. CASE r.step # NoStep /\ p.status = "torn"
    <2>1. Goto(e, "fail") /\ UNCHANGED <<run, write, cont, at>>
      BY <1>5 DEF Resolve, Status
    <2> QED BY <1>2, <2>1, ToFailTyped DEF Goto
  <1>6. CASE r.step # NoStep /\ p.status \in Status /\ p.next # NoStep
    <2>1. Mark(e, p.next, 1)
      BY <1>6 DEF Resolve, Status
    <2>2. p.next \in Step /\ 1 \in Attempt
      BY <1>1, <1>6, ConstantsOK DEF Attempt, Result
    <2> HIDE DEF p
    <2> QED BY <1>2, <2>1, <2>2, MarkTyped DEF Mark, Persist, Goto
  <1>7. CASE r.step # NoStep /\ p.status \in Status /\ p.next = NoStep
    <2>1. Finish(e)
      BY <1>7 DEF Resolve, Status
    <2> QED BY <1>2, <2>1, FinishTyped
  <1>8. p.status \in Status \cup {"none", "torn"}
    BY <1>1 DEF Result
  <1> QED BY <1>3, <1>4, <1>5, <1>6, <1>7, <1>8

LEMMA RecordedType ==
  ASSUME NEW st \in Status, NEW a \in Attempt, NEW t \in Step \cup {NoStep}
  PROVE  /\ Recorded(st, a, t) \in Result /\ Recorded(st, a, t).status \in Status
         /\ Recorded(st, a, t).status = "failed_retryable" => a <= MaxRetries
  <1>1. a \in Nat /\ MaxRetries \in Nat
    BY ConstantsOK DEF Attempt
  <1> QED BY <1>1 DEF Recorded, Result, Status

\* The engine finds a record that does not parse.
TornRecord(e) ==
    /\ pc[e] \in {"count", "reload"} /\ torn
    /\ pc' = [pc EXCEPT ![e] = "fail"]
    /\ UNCHANGED <<files, cont, run, base, write, at, out, prev, cancel, env, hist>>

LEMMA TornSteps ==
  ASSUME NEW e \in Engine, Count(e) \/ Reload(e) PROVE ~torn \/ TornRecord(e)
  BY DEF Count, Reload, TornRecord, Goto

LEMMA AttemptTyped ==
  ASSUME Typed, NEW e \in Engine,
         \/ Guard(e) \/ Record(e) \/ Count(e) \/ Reload(e)
         \/ \E st \in Status, t \in Step \cup {NoStep} : Execute(e, st, t)
  PROVE  Typed'
  <1>0. TypeOK
    BY DEF Typed
  <1>1. CASE Guard(e)
    <2>1. /\ pc' \in [Engine -> EnginePc] /\ pc[e] = "guard" /\ pc'[e] \in {"fail", "exec"}
          /\ \A f \in Engine \ {e} : pc'[f] = pc[f]
      BY <1>0, <1>1 DEF Guard, Goto, TypeOK, EnginePc
    <2>2. TypeOK'
      BY <1>0, <1>1, <2>1 DEF Guard, TypeOK, files, cancel, env, hist
    <2> QED BY <1>1, <2>1, <2>2, TypedOthers DEF Guard, Typed, HasStep, HasOutcome
  <1>2. CASE \E st \in Status, t \in Step \cup {NoStep} : Execute(e, st, t)
    <2> PICK st \in Status, t \in Step \cup {NoStep} : Execute(e, st, t)
      BY <1>2
    <2> DEFINE o == Recorded(st, at[e].attempt, t)
    <2>1. pc[e] = "exec" /\ at[e].step \in Step /\ at[e].attempt \in Attempt
      BY DEF Execute, Typed, HasStep
    <2>2. /\ o \in Result /\ o.status \in Status
          /\ o.status = "failed_retryable" => at[e].attempt <= MaxRetries
      BY <2>1, RecordedType
    <2>3. out' = [out EXCEPT ![e] = o]
      BY DEF Execute
    <2> HIDE DEF o
    <2>4. /\ out' \in [Engine -> Result] /\ out'[e] = o
          /\ \A f \in Engine \ {e} : out'[f] = out[f]
      BY <1>0, <2>2, <2>3 DEF TypeOK
    <2>5. ran' \in Nat /\ ranLate' \in Nat
      BY <1>0 DEF Execute, TypeOK
    <2>6. /\ pc' \in [Engine -> EnginePc] /\ pc'[e] = "record"
          /\ \A f \in Engine \ {e} : pc'[f] = pc[f]
      BY <1>0 DEF Execute, Goto, TypeOK, EnginePc
    <2>7. TypeOK'
      BY <1>0, <2>4, <2>5, <2>6 DEF Execute, TypeOK, files, cancel, env
    <2> QED BY <2>1, <2>2, <2>4, <2>6, <2>7, TypedOthers DEF Execute, HasStep, HasOutcome
  <1>3. CASE Record(e)
    <2>1. /\ pc[e] = "record" /\ at[e].step \in Step /\ at[e].attempt \in Attempt
          /\ out[e] \in Result /\ out[e].status \in Status
      BY <1>3 DEF Record, Typed, TypeOK, HasStep, HasOutcome
    <2>2. result' \in [Step -> [Attempt -> Result]]
      BY <1>0, <1>3, <2>1 DEF Record, TypeOK
    <2>3. last' \in [step : Step \cup {NoStep}, status : Status \cup {"none"},
                     next : Step \cup {NoStep}]
      BY <1>3, <2>1 DEF Record, Result
    <2>4. /\ pc' \in [Engine -> EnginePc] /\ pc'[e] = "count"
          /\ \A f \in Engine \ {e} : pc'[f] = pc[f]
      BY <1>0, <1>3 DEF Record, Goto, TypeOK, EnginePc
    <2>5. TypeOK'
      BY <1>0, <1>3, <2>2, <2>3, <2>4 DEF Record, TypeOK, cancel, env
    <2> QED BY <1>3, <2>1, <2>4, <2>5, TypedOthers DEF Record, Typed, HasStep, HasOutcome
  <1>4. CASE Count(e) /\ ~torn
    <2> DEFINE r == [rec EXCEPT !.iter = @ + 1]
    <2>1. r \in RunRec /\ rec \in RunRec /\ "reload" \in ContPc
      BY <1>0, RecTypes DEF TypeOK, ContPc
    <2>2. /\ pc[e] = "count" /\ Persist(e, r, rec, "reload")
          /\ UNCHANGED <<files, run, base, at, out, prev, cancel, env, hist>>
      BY <1>4 DEF Count
    <2> HIDE DEF r
    <2>3. /\ write' \in [Engine -> [to : RunRec, from : RunRec]]
          /\ cont' \in [Engine -> ContPc] /\ cont'[e] = "reload"
          /\ pc' \in [Engine -> EnginePc] /\ pc'[e] = "save"
          /\ \A f \in Engine \ {e} : pc'[f] = pc[f] /\ cont'[f] = cont[f]
      BY <1>0, <2>1, <2>2, PersistType DEF Persist, Goto
    <2>4. TypeOK'
      BY <1>0, <2>2, <2>3 DEF TypeOK, files, cancel, env, hist
    <2> QED BY <2>2, <2>3, <2>4, TypedOthers DEF Typed, HasStep, HasOutcome
  <1>5. CASE Reload(e) /\ ~torn
    <2>0. run' = [run EXCEPT ![e] = rec] /\ base' = [base EXCEPT ![e] = rec]
      BY <1>5 DEF Reload
    <2>1. /\ run' \in [Engine -> RunRec] /\ base' \in [Engine -> RunRec]
      BY <1>0, <2>0 DEF TypeOK
    <2>2. /\ pc' \in [Engine -> EnginePc] /\ pc[e] = "reload" /\ pc'[e] = "judge"
          /\ \A f \in Engine \ {e} : pc'[f] = pc[f]
      BY <1>0, <1>5 DEF Reload, Goto, TypeOK, EnginePc
    <2>3. UNCHANGED <<files, cont, write, at, out, prev, cancel, env, hist>>
      BY <1>5 DEF Reload
    <2>4. TypeOK'
      BY <1>0, <2>1, <2>2, <2>3 DEF TypeOK, files, cancel, env, hist
    <2> QED BY <2>2, <2>3, <2>4, TypedOthers DEF Typed, HasStep, HasOutcome
  <1>6. CASE TornRecord(e)
    <2>1. prev' \in [Engine -> Nat]
      BY <1>0, <1>6 DEF TornRecord, TypeOK
    <2> QED BY <1>6, <2>1, ToFailTyped DEF TornRecord
  <1> QED BY <1>1, <1>2, <1>3, <1>4, <1>5, <1>6, TornSteps

LEMMA JudgeTyped ==
  ASSUME Typed, NEW e \in Engine, NEW late \in BOOLEAN, Judge(e, late) PROVE Typed'
  <1>0. /\ TypeOK /\ pc[e] = "judge" /\ at[e].step \in Step /\ at[e].attempt \in Attempt
        /\ out[e] \in Result /\ out[e].status \in Status
        /\ out[e].status = "failed_retryable" => at[e].attempt <= MaxRetries
        /\ UNCHANGED <<files, base, out, prev, cancel, env, hist>>
    BY DEF Judge, Typed, TypeOK, HasStep, HasOutcome
  <1>1. prev' \in [Engine -> Nat]
    BY <1>0 DEF TypeOK
  <1>2. CASE Goto(e, "fail") /\ UNCHANGED <<run, write, cont, at>>
    BY <1>0, <1>1, <1>2, ToFailTyped DEF Goto
  <1>3. CASE Finish(e)
    BY <1>0, <1>1, <1>3, FinishTyped
  <1>4. CASE CanRetry(e) /\ Mark(e, at[e].step, at[e].attempt + 1)
    <2>1. at[e].attempt + 1 \in Attempt
      BY <1>0, <1>4, ConstantsOK DEF CanRetry, Attempt
    <2> QED BY <1>0, <1>1, <1>4, <2>1, MarkTyped DEF Mark, Persist, Goto
  <1>5. CASE /\ out[e].next # NoStep
             /\ run' = [run EXCEPT ![e] = AdvanceTo(run[e], out[e].next)]
             /\ Persist(e, AdvanceTo(run[e], out[e].next), base[e], "check") /\ at' = at
    <2> DEFINE r == AdvanceTo(run[e], out[e].next)
    <2>1. /\ out[e].next \in Step \cup {NoStep} /\ 0 \in 0..(MaxRetries + 1)
          /\ run[e] \in RunRec /\ base[e] \in RunRec /\ "check" \in ContPc
      BY <1>0, ConstantsOK DEF Result, TypeOK, ContPc
    <2>2. r \in RunRec
      BY <2>1, RecTypes DEF AdvanceTo
    <2> HIDE DEF r
    <2>3. run' \in [Engine -> RunRec]
      BY <1>0, <1>5, <2>2 DEF TypeOK, r
    <2>4. /\ write' \in [Engine -> [to : RunRec, from : RunRec]]
          /\ cont' \in [Engine -> ContPc] /\ cont'[e] = "check"
          /\ pc' \in [Engine -> EnginePc] /\ pc'[e] = "save"
          /\ \A f \in Engine \ {e} : pc'[f] = pc[f] /\ cont'[f] = cont[f]
      <3>1. write' = [write EXCEPT ![e] = [to |-> r, from |-> base[e]]]
            /\ cont' = [cont EXCEPT ![e] = "check"] /\ pc' = [pc EXCEPT ![e] = "save"]
        BY <1>5 DEF Persist, Goto, r
      <3> QED BY <1>0, <2>1, <2>2, <3>1, PersistType
    <2>5. TypeOK'
      BY <1>0, <1>5, <2>3, <2>4 DEF TypeOK, files, cancel, env, hist
    <2> QED BY <1>0, <1>5, <2>4, <2>5, TypedOthers DEF HasStep, HasOutcome
  <1> QED BY <1>2, <1>3, <1>4, <1>5 DEF Judge

LEMMA EndTyped ==
  ASSUME Typed, NEW e \in Engine, Fail(e) \/ Check(e) PROVE Typed'
  <1>0. TypeOK
    BY DEF Typed
  <1>1. CASE Leave(e) /\ UNCHANGED <<files, cancel, env, hist>>
    <2>1. TypeOK'
      BY <1>0, <1>1, LeaveType DEF TypeOK, files, cancel, env, hist
    <2> QED BY <1>0, <1>1, <2>1, LeaveType, TypedOthers DEF HasStep, HasOutcome
  <1>2. CASE Fail(e) /\ run[e].state \notin Terminal
    <2> DEFINE r == [run[e] EXCEPT !.state = "failed"]
    <2>1. /\ r \in RunRec /\ base[e] \in RunRec /\ "idle" \in ContPc
      BY <1>0, RecTypes DEF TypeOK, RunState, ContPc
    <2>2. /\ Persist(e, r, base[e], "idle")
          /\ UNCHANGED <<run, base, at, out, prev, files, cancel, env, hist>>
      BY <1>2 DEF Fail
    <2> HIDE DEF r
    <2>3. /\ write' \in [Engine -> [to : RunRec, from : RunRec]]
          /\ cont' \in [Engine -> ContPc] /\ cont'[e] = "idle"
          /\ pc' \in [Engine -> EnginePc] /\ pc'[e] = "save"
          /\ \A f \in Engine \ {e} : pc'[f] = pc[f] /\ cont'[f] = cont[f]
      BY <1>0, <2>1, <2>2, PersistType DEF Persist, Goto
    <2>4. TypeOK'
      BY <1>0, <2>2, <2>3 DEF TypeOK, files, cancel, env, hist
    <2> QED BY <2>2, <2>3, <2>4, TypedOthers DEF HasStep, HasOutcome
  <1>3. CASE /\ run' = [run EXCEPT ![e] = rec] /\ base' = [base EXCEPT ![e] = rec]
             /\ out' = [out EXCEPT ![e] = NoResult] /\ at' = [at EXCEPT ![e] = Nowhere]
             /\ Goto(e, "next")
             /\ UNCHANGED <<cont, write, prev, files, cancel, env, hist>>
    <2>1. run' \in [Engine -> RunRec] /\ base' \in [Engine -> RunRec]
      BY <1>0, <1>3 DEF TypeOK
    <2>2. /\ out' \in [Engine -> Result]
          /\ at' \in [Engine -> [step : Step \cup {NoStep}, attempt : 0..(MaxRetries + 1)]]
          /\ \A f \in Engine \ {e} : out'[f] = out[f] /\ at'[f] = at[f]
      BY <1>0, <1>3, Blanks DEF TypeOK
    <2>3. /\ pc' \in [Engine -> EnginePc] /\ pc'[e] = "next"
          /\ \A f \in Engine \ {e} : pc'[f] = pc[f]
      BY <1>0, <1>3 DEF Goto, TypeOK, EnginePc
    <2>4. TypeOK'
      BY <1>0, <1>3, <2>1, <2>2, <2>3 DEF TypeOK, files, cancel, env, hist
    <2> QED BY <1>3, <2>2, <2>3, <2>4, TypedOthers DEF HasStep, HasOutcome
  <1> QED BY <1>1, <1>2, <1>3 DEF Fail, Check

LEMMA IoErrorTyped ==
  ASSUME Typed, NEW e \in Engine, NEW cut \in BOOLEAN, IoError(e, cut) PROVE Typed'
  <1>0. /\ TypeOK /\ cuts' \in 0..MaxCuts
        /\ mishaps' \subseteq {"stale", "outdated", "shared", "cut"}
    BY ConstantsOK DEF Typed, TypeOK, IoError
  <1>1. torn' \in BOOLEAN /\ result' \in [Step -> [Attempt -> Result]]
    BY <1>0, CutType DEF IoError
  <1>2. CASE InExecuteNext(e)
    <2>1. /\ pc' = [pc EXCEPT ![e] = "fail"] /\ cont' = [cont EXCEPT ![e] = "idle"]
          /\ write' = [write EXCEPT ![e] = NoWrite] /\ UNCHANGED <<run, base, at, out, prev>>
      BY <1>2 DEF IoError, Goto
    <2>2. write' \in [Engine -> [to : RunRec, from : RunRec]]
      BY <1>0, <2>1, Blanks DEF TypeOK
    <2>3. /\ pc' \in [Engine -> EnginePc] /\ cont' \in [Engine -> ContPc] /\ pc'[e] = "fail"
          /\ \A f \in Engine \ {e} : pc'[f] = pc[f] /\ cont'[f] = cont[f]
      BY <1>0, <2>1 DEF TypeOK, EnginePc, ContPc
    <2>4. TypeOK'
      BY <1>0, <1>1, <2>1, <2>2, <2>3 DEF IoError, TypeOK, cancel
    <2> QED BY <2>1, <2>3, <2>4, TypedOthers DEF HasStep, HasOutcome
  <1>3. CASE ~InExecuteNext(e)
    <2>1. Leave(e)
      BY <1>3 DEF IoError
    <2>2. TypeOK'
      BY <1>0, <1>1, <2>1, LeaveType DEF IoError, TypeOK, cancel
    <2> QED BY <1>0, <2>1, <2>2, LeaveType, TypedOthers DEF HasStep, HasOutcome
  <1> QED BY <1>2, <1>3

LEMMA EnvTyped ==
  ASSUME Typed,
         CancelLoad \/ CancelSave \/ CancelProgress \/ Expire \/ \E cut \in BOOLEAN : Crash(cut)
  PROVE  Typed'
  <1>0. TypeOK
    BY DEF Typed
  <1>1. CASE CancelLoad
    <2>1. TypeOK'
      BY <1>0, <1>1, ConstantsOK DEF CancelLoad, TypeOK, files, memory, hist
    <2> QED BY <1>1, <2>1 DEF CancelLoad, memory, Typed, HasStep, HasOutcome
  <1>2. CASE CancelSave
    <2>1. /\ rec' \in RunRec /\ mishaps' \subseteq {"stale", "outdated", "shared", "cut"}
      BY <1>0, <1>2, RecTypes DEF CancelSave, TypeOK, RunState
    <2>2. TypeOK'
      BY <1>0, <1>2, <2>1 DEF CancelSave, TypeOK, memory, env
    <2> QED BY <1>2, <2>2 DEF CancelSave, memory, Typed, HasStep, HasOutcome
  <1>3. CASE CancelProgress
    <2>1. TypeOK'
      BY <1>0, <1>3, Blanks DEF CancelProgress, TypeOK, memory, env, RunState
    <2> QED BY <1>3, <2>1 DEF CancelProgress, memory, Typed, HasStep, HasOutcome
  <1>4. CASE Expire
    <2>1. TypeOK'
      BY <1>0, <1>4 DEF Expire, TypeOK, files, memory, cancel, hist
    <2> QED BY <1>4, <2>1 DEF Expire, memory, Typed, HasStep, HasOutcome
  <1>5. CASE \E cut \in BOOLEAN : Crash(cut)
    <2> PICK cut \in BOOLEAN : Crash(cut)
      BY <1>5
    <2>1. torn' \in BOOLEAN /\ result' \in [Step -> [Attempt -> Result]]
      BY <1>0, CutType DEF Crash
    <2>2. /\ cuts' \in 0..MaxCuts /\ mishaps' \subseteq {"stale", "outdated", "shared", "cut"}
      BY <1>0, ConstantsOK DEF Crash, TypeOK
    <2>3. /\ pc' \in [Engine -> EnginePc] /\ cont' \in [Engine -> ContPc]
          /\ prev' \in [Engine -> Nat] /\ \A e \in Engine : pc'[e] = "idle"
      BY DEF Crash, EnginePc, ContPc
    <2>4. /\ run' \in [Engine -> RunRec] /\ base' \in [Engine -> RunRec]
          /\ write' \in [Engine -> [to : RunRec, from : RunRec]]
          /\ at' \in [Engine -> [step : Step \cup {NoStep}, attempt : 0..(MaxRetries + 1)]]
          /\ out' \in [Engine -> Result]
      BY Blanks DEF Crash
    <2>5. TypeOK'
      BY <1>0, <2>1, <2>2, <2>3, <2>4 DEF Crash, TypeOK, cancel
    <2> QED BY <2>3, <2>5 DEF Typed, HasStep, HasOutcome
  <1> QED BY <1>1, <1>2, <1>3, <1>4, <1>5

\* The engine's steps, with the three forms of Execute as one.
LEMMA EngineSteps ==
  ASSUME NEW e \in Engine, EngineStep(e)
  PROVE  \/ Load(e) \/ Save(e) \/ Progress(e) \/ Resolve(e) \/ Guard(e)
         \/ \E st \in Status, t \in Step \cup {NoStep} : Execute(e, st, t)
         \/ Record(e) \/ Count(e) \/ Reload(e)
         \/ \E late \in BOOLEAN : Judge(e, late)
         \/ Fail(e) \/ Check(e)
  BY DEF EngineStep, Status

LEMMA TypedNext == Typed /\ [Next]_vars => Typed'
  <1> SUFFICES ASSUME Typed, [Next]_vars PROVE Typed'
    OBVIOUS
  <1>1. ASSUME NEW e \in Engine, EngineStep(e) PROVE Typed'
    <2>1. CASE Load(e) BY <2>1, LoadTyped
    <2>2. CASE Save(e) \/ Progress(e) BY <2>2, WritesTyped
    <2>3. CASE Resolve(e) BY <2>3, ResolveTyped
    <2>4. CASE \/ Guard(e) \/ Record(e) \/ Count(e) \/ Reload(e)
               \/ \E st \in Status, t \in Step \cup {NoStep} : Execute(e, st, t)
      BY <2>4, AttemptTyped
    <2>5. CASE \E late \in BOOLEAN : Judge(e, late) BY <2>5, JudgeTyped
    <2>6. CASE Fail(e) \/ Check(e) BY <2>6, EndTyped
    <2> QED BY <1>1, <2>1, <2>2, <2>3, <2>4, <2>5, <2>6, EngineSteps
  <1>2. CASE UNCHANGED vars
    BY <1>2 DEF vars, files, memory, cancel, env, hist, Typed, TypeOK, HasStep, HasOutcome
  <1> QED BY <1>1, <1>2, EntryTyped, IoErrorTyped, EnvTyped DEF Next

\* Type correctness of the engine, with the limit on attempts: no attempt beyond
\* max_retries + 1 is made, whatever record or result file a resume starts from.
THEOREM Typing == Spec => []TypeOK
  <1>1. Init => Typed BY TypedInit
  <1>2. Typed /\ [Next]_vars => Typed' BY TypedNext
  <1>3. Typed => TypeOK BY DEF Typed
  <1> QED BY <1>1, <1>2, <1>3, PTL DEF Spec

(***************************************************************************)
(* Terminal states.  What an engine writes was made from a record that is  *)
(* not terminal or keeps its state: its copy carries the state of a        *)
(* terminal record, except on its way out, and so does every write.  And   *)
(* only the write of persist_step_attempt changes the iterations, by one.  *)
(***************************************************************************)
CopyAgrees(e) ==
    /\ \/ pc[e] = "progress" /\ cont[e] = "idle"
       \/ base[e].state \in Terminal => run[e].state = base[e].state
    /\ pc[e] = "idle" => base[e] = NoRun
    /\ run[e].iter = base[e].iter

LegalWrite(e) ==
    pc[e] = "save" =>
        /\ write[e].from.state \in Terminal => write[e].to.state = write[e].from.state
        /\ cont[e] \notin {"reload", "idle"} => write[e].to.state = run[e].state
        /\ cont[e] = "reload" => write[e].to.iter = write[e].from.iter + 1
        /\ cont[e] # "reload" => write[e].to.iter = run[e].iter /\ write[e].from.iter = run[e].iter

WritesAreLegal ==
    /\ \A e \in Engine : CopyAgrees(e) /\ LegalWrite(e)
    /\ cancelPc = "save" => cancelRun.state \notin Terminal

LEMMA LegalInit == Init => WritesAreLegal
  BY DEF Init, WritesAreLegal, CopyAgrees, LegalWrite

\* A step that leaves the other engines and the cancel command alone.
LEMMA LegalOthers ==
  ASSUME WritesAreLegal, NEW e \in Engine,
         \A f \in Engine \ {e} : /\ pc'[f] = pc[f] /\ cont'[f] = cont[f] /\ run'[f] = run[f]
                                 /\ base'[f] = base[f] /\ write'[f] = write[f],
         cancelPc' = cancelPc, cancelRun' = cancelRun, CopyAgrees(e)', LegalWrite(e)'
  PROVE  WritesAreLegal'
  <1>1. ASSUME NEW f \in Engine \ {e} PROVE (CopyAgrees(f) /\ LegalWrite(f))'
    BY DEF WritesAreLegal, CopyAgrees, LegalWrite
  <1> QED BY <1>1 DEF WritesAreLegal

LEMMA LegalLeave ==
  ASSUME TypeOK, WritesAreLegal, NEW e \in Engine, Leave(e), UNCHANGED cancel PROVE WritesAreLegal'
  <1>1. /\ pc'[e] = "idle" /\ run'[e] = NoRun /\ base'[e] = NoRun
        /\ \A f \in Engine \ {e} : /\ pc'[f] = pc[f] /\ cont'[f] = cont[f] /\ run'[f] = run[f]
                                   /\ base'[f] = base[f] /\ write'[f] = write[f]
    BY DEF Leave, Goto, TypeOK
  <1> QED BY <1>1, LegalOthers DEF CopyAgrees, LegalWrite, cancel

\* Engine e writes a copy of its own that keeps the state.
LEMMA LegalKeep ==
  ASSUME TypeOK, WritesAreLegal, NEW e \in Engine, NEW r \in RunRec, NEW c \in ContPc,
         pc[e] \notin {"save", "progress"}, r.state = run[e].state, r.iter = run[e].iter,
         c # "reload",
         run' = [run EXCEPT ![e] = r], pc' = [pc EXCEPT ![e] = "save"],
         cont' = [cont EXCEPT ![e] = c],
         write' = [write EXCEPT ![e] = [to |-> r, from |-> base[e]]],
         UNCHANGED <<base, cancel>>
  PROVE  WritesAreLegal'
  <1>1. /\ pc'[e] = "save" /\ cont'[e] = c /\ run'[e] = r
        /\ write'[e] = [to |-> r, from |-> base[e]]
        /\ \A f \in Engine \ {e} : /\ pc'[f] = pc[f] /\ cont'[f] = cont[f] /\ run'[f] = run[f]
                                   /\ base'[f] = base[f] /\ write'[f] = write[f]
    BY DEF TypeOK
  <1>2. /\ base[e].state \in Terminal => run[e].state = base[e].state
        /\ run[e].iter = base[e].iter
    BY DEF WritesAreLegal, CopyAgrees
  <1> QED BY <1>1, <1>2, LegalOthers DEF CopyAgrees, LegalWrite, cancel

LEMMA LegalMark ==
  ASSUME TypeOK, WritesAreLegal, NEW e \in Engine, NEW s \in Step, NEW a \in Attempt,
         pc[e] \notin {"save", "progress"},
         run' = [run EXCEPT ![e] = [run[e] EXCEPT !.step = s, !.attempt = a]],
         write' = [write EXCEPT ![e] = [to |-> [run[e] EXCEPT !.step = s, !.attempt = a],
                                        from |-> base[e]]],
         cont' = [cont EXCEPT ![e] = "guard"], pc' = [pc EXCEPT ![e] = "save"],
         UNCHANGED <<base, cancel>>
  PROVE  WritesAreLegal'
  <1> DEFINE r == [run[e] EXCEPT !.step = s, !.attempt = a]
  <1>1. a \in 0..(MaxRetries + 1) /\ run[e] \in RunRec /\ "guard" \in ContPc
    BY ConstantsOK DEF Attempt, TypeOK, ContPc
  <1>2. r \in RunRec /\ r.state = run[e].state /\ r.iter = run[e].iter
    BY <1>1, RecTypes DEF RunRec
  <1>3. run' = [run EXCEPT ![e] = r] /\ write' = [write EXCEPT ![e] = [to |-> r, from |-> base[e]]]
    OBVIOUS
  <1> HIDE DEF r
  <1> QED BY <1>1, <1>2, <1>3, LegalKeep

LEMMA LegalFinish ==
  ASSUME TypeOK, WritesAreLegal, NEW e \in Engine, pc[e] \notin {"save", "progress"}, Finish(e),
         UNCHANGED <<base, cancel>>
  PROVE  WritesAreLegal'
  <1> DEFINE r == [run[e] EXCEPT !.step = NoStep, !.attempt = 0]
             t == [r EXCEPT !.state = "succeeded"]
  <1>1. /\ run[e] \in RunRec /\ r.state = run[e].state /\ t.state = "succeeded"
        /\ r.iter = run[e].iter /\ t.iter = run[e].iter
    BY DEF TypeOK, RunRec
  <1>2. /\ base[e].state \in Terminal => run[e].state = base[e].state
        /\ run[e].iter = base[e].iter
    BY DEF WritesAreLegal, CopyAgrees
  <1>3. CASE CanTransitionTo(r.state, "succeeded")
    <2>1. /\ run' = [run EXCEPT ![e] = t] /\ pc' = [pc EXCEPT ![e] = "save"]
          /\ cont' = [cont EXCEPT ![e] = "check"]
          /\ write' = [write EXCEPT ![e] = [to |-> t, from |-> base[e]]]
      BY <1>3 DEF Finish, Persist, Goto
    <2>2. base[e].state \notin Terminal
      BY <1>1, <1>2, <1>3 DEF CanTransitionTo, Terminal
    <2> HIDE DEF r, t
    <2>3. /\ pc'[e] = "save" /\ cont'[e] = "check" /\ run'[e] = t /\ base' = base
          /\ write'[e] = [to |-> t, from |-> base[e]]
          /\ \A f \in Engine \ {e} : /\ pc'[f] = pc[f] /\ cont'[f] = cont[f] /\ run'[f] = run[f]
                                     /\ base'[f] = base[f] /\ write'[f] = write[f]
      BY <2>1 DEF TypeOK
    <2> QED BY <1>1, <1>2, <2>2, <2>3, LegalOthers DEF CopyAgrees, LegalWrite, cancel
  <1>4. CASE ~CanTransitionTo(r.state, "succeeded")
    <2>1. /\ run' = [run EXCEPT ![e] = r] /\ pc' = [pc EXCEPT ![e] = "fail"]
          /\ cont' = cont /\ write' = write
      BY <1>4 DEF Finish, Goto
    <2> HIDE DEF r
    <2>2. /\ pc'[e] = "fail" /\ run'[e] = r /\ base' = base
          /\ \A f \in Engine \ {e} : /\ pc'[f] = pc[f] /\ cont'[f] = cont[f] /\ run'[f] = run[f]
                                     /\ base'[f] = base[f] /\ write'[f] = write[f]
      BY <2>1 DEF TypeOK
    <2> QED BY <1>1, <1>2, <2>2, LegalOthers DEF CopyAgrees, LegalWrite, cancel
  <1> QED BY <1>3, <1>4

\* A step that moves engine e on and leaves copies and writes alone.
LEMMA LegalGoto ==
  ASSUME TypeOK, WritesAreLegal, NEW e \in Engine, NEW p \in EnginePc, p \notin {"save", "idle"},
         pc' = [pc EXCEPT ![e] = p], ~(pc[e] = "progress" /\ cont[e] = "idle"),
         UNCHANGED <<run, base, cancel>>,
         \A f \in Engine \ {e} : cont'[f] = cont[f] /\ write'[f] = write[f]
  PROVE  WritesAreLegal'
  <1>1. /\ pc'[e] = p /\ \A f \in Engine \ {e} : pc'[f] = pc[f]
    BY DEF TypeOK
  <1> QED BY <1>1, LegalOthers DEF WritesAreLegal, CopyAgrees, LegalWrite, cancel

LEMMA LegalEntry ==
  ASSUME TypeOK, WritesAreLegal, NEW e \in Engine, Create(e) \/ Resume(e) \/ Load(e)
  PROVE  WritesAreLegal'
  <1>1. CASE Create(e)
    <2> DEFINE r == [NoRun EXCEPT !.state = "queued"]
    <2>1. /\ r.state = "queued" /\ NoRun.state = "absent" /\ base[e] \in RunRec
          /\ r.iter = NoRun.iter
      BY DEF NoRun, TypeOK
    <2>2. /\ run' = [run EXCEPT ![e] = r] /\ pc' = [pc EXCEPT ![e] = "save"]
          /\ cont' = [cont EXCEPT ![e] = "load"]
          /\ write' = [write EXCEPT ![e] = [to |-> r, from |-> NoRun]]
          /\ base' = base /\ cancelPc' = cancelPc /\ cancelRun' = cancelRun /\ pc[e] = "idle"
      BY <1>1 DEF Create, Persist, Goto, cancel, Idle
    <2> HIDE DEF r
    <2>3. /\ pc'[e] = "save" /\ cont'[e] = "load" /\ run'[e] = r
          /\ write'[e] = [to |-> r, from |-> NoRun]
          /\ \A f \in Engine \ {e} : /\ pc'[f] = pc[f] /\ cont'[f] = cont[f] /\ run'[f] = run[f]
                                     /\ base'[f] = base[f] /\ write'[f] = write[f]
      BY <2>2 DEF TypeOK
    <2>4. base[e].state \notin Terminal /\ base[e] = NoRun
      BY <2>1, <2>2 DEF WritesAreLegal, CopyAgrees, Terminal
    <2> QED BY <2>1, <2>2, <2>3, <2>4, LegalOthers DEF CopyAgrees, LegalWrite, Terminal
  <1>2. CASE Resume(e)
    <2>1. /\ pc' = [pc EXCEPT ![e] = "load"] /\ "load" \in EnginePc /\ pc[e] = "idle"
          /\ UNCHANGED <<run, base, cancel, cont, write>>
      BY <1>2 DEF Resume, Goto, EnginePc
    <2> QED BY <2>1, LegalGoto
  <1>3. CASE Load(e)
    <2>1. CASE torn \/ rec.state \in Terminal
      BY <1>3, <2>1, LegalLeave DEF Load
    <2>2. CASE ~(torn \/ rec.state \in Terminal)
      <3> DEFINE r == [rec EXCEPT !.state = "running"]
      <3>1. /\ base' = [base EXCEPT ![e] = rec] /\ run' = [run EXCEPT ![e] = r]
            /\ cancelPc' = cancelPc /\ cancelRun' = cancelRun
            /\ \/ /\ pc' = [pc EXCEPT ![e] = "next"] /\ write' = write /\ cont' = cont
               \/ /\ pc' = [pc EXCEPT ![e] = "save"] /\ cont' = [cont EXCEPT ![e] = "next"]
                  /\ write' = [write EXCEPT ![e] = [to |-> r, from |-> rec]]
        BY <1>3, <2>2 DEF Load, Persist, Goto, cancel
      <3>0. r.iter = rec.iter /\ r.state = "running"
        BY DEF TypeOK, RunRec
      <3> HIDE DEF r
      <3>2. /\ run'[e] = r /\ base'[e] = rec
            /\ \/ pc'[e] = "next"
               \/ /\ pc'[e] = "save" /\ cont'[e] = "next"
                  /\ write'[e] = [to |-> r, from |-> rec]
            /\ \A f \in Engine \ {e} : /\ pc'[f] = pc[f] /\ cont'[f] = cont[f] /\ run'[f] = run[f]
                                       /\ base'[f] = base[f] /\ write'[f] = write[f]
        BY <3>1 DEF TypeOK
      <3> QED BY <2>2, <3>0, <3>1, <3>2, LegalOthers DEF CopyAgrees, LegalWrite
    <2> QED BY <2>1, <2>2
  <1> QED BY <1>1, <1>2, <1>3

LEMMA LegalWrites ==
  ASSUME TypeOK, WritesAreLegal, NEW e \in Engine, Save(e) \/ Progress(e)
  PROVE  WritesAreLegal'
  <1>1. CASE Save(e)
    <2>1. /\ pc'[e] = "progress" /\ run' = run /\ cont' = cont /\ write' = write
          /\ base'[e] = (IF cont[e] = "reload" THEN base[e] ELSE write[e].to)
          /\ \A f \in Engine \ {e} : pc'[f] = pc[f] /\ base'[f] = base[f]
          /\ pc[e] = "save" /\ UNCHANGED cancel
      BY <1>1 DEF Save, Goto, TypeOK
    <2>2. CopyAgrees(e) /\ LegalWrite(e)
      BY DEF WritesAreLegal
    <2> QED BY <2>1, <2>2, LegalOthers DEF CopyAgrees, LegalWrite, cancel
  <1>2. CASE Progress(e)
    <2>1. CASE cont[e] = "idle"
      BY <1>2, <2>1, LegalLeave DEF Progress
    <2>2. CASE cont[e] # "idle"
      <3>1. /\ pc' = [pc EXCEPT ![e] = cont[e]] /\ cont' = [cont EXCEPT ![e] = "idle"]
            /\ write' = [write EXCEPT ![e] = NoWrite] /\ UNCHANGED <<run, base, cancel>>
        BY <1>2, <2>2 DEF Progress, Goto
      <3>2. cont[e] \in EnginePc /\ cont[e] \notin {"save", "idle"}
        BY <2>2 DEF TypeOK, ContPc, EnginePc
      <3>3. \A f \in Engine \ {e} : cont'[f] = cont[f] /\ write'[f] = write[f]
        BY <3>1 DEF TypeOK
      <3> QED BY <2>2, <3>1, <3>2, <3>3, LegalGoto
    <2> QED BY <2>1, <2>2
  <1> QED BY <1>1, <1>2

LEMMA LegalResolve ==
  ASSUME Typed, WritesAreLegal, NEW e \in Engine, Resolve(e) PROVE WritesAreLegal'
  <1> DEFINE r == run[e]
             p == PointerResult(r)
  <1>0. /\ TypeOK /\ r.step \in Step \cup {NoStep} /\ r.attempt \in 0..(MaxRetries + 1)
        /\ pc[e] \notin {"save", "progress"} /\ UNCHANGED <<base, cancel>>
    BY DEF Typed, TypeOK, RunRec, Resolve
  <1>1. p.next \in Step \cup {NoStep}
    <2>1. CASE r.step \in Step /\ r.attempt # 0
      <3>1. r.attempt \in Attempt
        BY <1>0, <2>1, ConstantsOK DEF Attempt
      <3> QED BY <1>0, <2>1, <3>1 DEF PointerResult, TypeOK, Result
    <2>2. CASE ~(r.step \in Step /\ r.attempt # 0)
      BY <2>2, Blanks DEF PointerResult, Result
    <2> QED BY <2>1, <2>2
  <1>2. CASE Mark(e, First, 1)
    <2>1. First \in Step /\ 1 \in Attempt
      BY ConstantsOK DEF Attempt
    <2> QED BY <1>0, <1>2, <2>1, LegalMark DEF Mark, Persist, Goto
  <1>3. CASE r.step # NoStep /\ Mark(e, r.step, IF r.attempt = 0 THEN 1 ELSE r.attempt)
    <2>1. r.step \in Step /\ (IF r.attempt = 0 THEN 1 ELSE r.attempt) \in Attempt
      BY <1>0, <1>3, ConstantsOK DEF Attempt
    <2> QED BY <1>0, <1>3, <2>1, LegalMark DEF Mark, Persist, Goto
  <1>4. CASE Goto(e, "fail") /\ UNCHANGED <<run, write, cont, at>>
    BY <1>0, <1>4, LegalGoto DEF Goto, EnginePc
  <1>5. CASE p.next # NoStep /\ Mark(e, p.next, 1)
    <2>1. p.next \in Step /\ 1 \in Attempt
      BY <1>1, <1>5, ConstantsOK DEF Attempt
    <2> HIDE DEF p
    <2> QED BY <1>0, <1>5, <2>1, LegalMark DEF Mark, Persist, Goto
  <1>6. CASE Finish(e)
    BY <1>0, <1>6, LegalFinish
  <1> QED BY <1>2, <1>3, <1>4, <1>5, <1>6 DEF Resolve

LEMMA LegalAttempt ==
  ASSUME TypeOK, WritesAreLegal, NEW e \in Engine,
         \/ Guard(e) \/ Record(e) \/ Count(e) \/ Reload(e)
         \/ \E st \in Status, t \in Step \cup {NoStep} : Execute(e, st, t)
  PROVE  WritesAreLegal'
  <1>1. CASE Guard(e) \/ Record(e) \/ TornRecord(e)
             \/ \E st \in Status, t \in Step \cup {NoStep} : Execute(e, st, t)
    <2>1. \E p \in EnginePc : pc' = [pc EXCEPT ![e] = p] /\ p \notin {"save", "idle"}
      BY <1>1 DEF Guard, Record, TornRecord, Execute, Goto, EnginePc
    <2>2. UNCHANGED <<run, base, cancel, cont, write>> /\ pc[e] # "progress"
      BY <1>1 DEF Guard, Record, TornRecord, Execute
    <2> QED BY <2>1, <2>2, LegalGoto
  <1>2. CASE Count(e) /\ ~torn
    <2> DEFINE r == [rec EXCEPT !.iter = @ + 1]
    <2>1. /\ pc' = [pc EXCEPT ![e] = "save"] /\ cont' = [cont EXCEPT ![e] = "reload"]
          /\ write' = [write EXCEPT ![e] = [to |-> r, from |-> rec]]
          /\ UNCHANGED <<run, base, cancel>> /\ pc[e] = "count"
      BY <1>2 DEF Count, Persist, Goto
    <2>2. r.state = rec.state /\ r.iter = rec.iter + 1
      BY DEF TypeOK, RunRec
    <2> HIDE DEF r
    <2>3. /\ pc'[e] = "save" /\ cont'[e] = "reload" /\ write'[e] = [to |-> r, from |-> rec]
          /\ \A f \in Engine \ {e} : pc'[f] = pc[f] /\ cont'[f] = cont[f] /\ write'[f] = write[f]
      BY <2>1 DEF TypeOK
    <2> QED BY <2>1, <2>2, <2>3, LegalOthers DEF WritesAreLegal, CopyAgrees, LegalWrite, cancel
  <1>3. CASE Reload(e) /\ ~torn
    <2>1. /\ run'[e] = rec /\ base'[e] = rec /\ pc'[e] = "judge" /\ cont' = cont /\ write' = write
          /\ \A f \in Engine \ {e} : pc'[f] = pc[f] /\ run'[f] = run[f] /\ base'[f] = base[f]
          /\ UNCHANGED cancel
      BY <1>3 DEF Reload, Goto, TypeOK
    <2> QED BY <2>1, LegalOthers DEF CopyAgrees, LegalWrite, cancel
  <1> QED BY <1>1, <1>2, <1>3, TornSteps

LEMMA LegalJudge ==
  ASSUME Typed, WritesAreLegal, NEW e \in Engine, NEW late \in BOOLEAN, Judge(e, late)
  PROVE  WritesAreLegal'
  <1>0. /\ TypeOK /\ pc[e] = "judge" /\ at[e].step \in Step /\ at[e].attempt \in Attempt
        /\ out[e].next \in Step \cup {NoStep}
        /\ out[e].status = "failed_retryable" => at[e].attempt <= MaxRetries
        /\ UNCHANGED <<base, cancel>>
    BY DEF Judge, Typed, TypeOK, HasStep, HasOutcome, Result
  <1>1. CASE Goto(e, "fail") /\ UNCHANGED <<run, write, cont, at>>
    BY <1>0, <1>1, LegalGoto DEF Goto, EnginePc
  <1>2. CASE Finish(e)
    BY <1>0, <1>2, LegalFinish
  <1>3. CASE CanRetry(e) /\ Mark(e, at[e].step, at[e].attempt + 1)
    <2>1. at[e].attempt + 1 \in Attempt
      BY <1>0, <1>3, ConstantsOK DEF CanRetry, Attempt
    <2> QED BY <1>0, <1>3, <2>1, LegalMark DEF Mark, Persist, Goto
  <1>4. CASE /\ run' = [run EXCEPT ![e] = AdvanceTo(run[e], out[e].next)]
             /\ Persist(e, AdvanceTo(run[e], out[e].next), base[e], "check")
    <2> DEFINE r == AdvanceTo(run[e], out[e].next)
    <2>1. run[e] \in RunRec /\ 0 \in 0..(MaxRetries + 1) /\ "check" \in ContPc
      BY <1>0, ConstantsOK DEF TypeOK, ContPc
    <2>2. r \in RunRec /\ r.state = run[e].state /\ r.iter = run[e].iter
      BY <1>0, <2>1, RecTypes DEF AdvanceTo, RunRec
    <2>3. /\ run' = [run EXCEPT ![e] = r] /\ pc' = [pc EXCEPT ![e] = "save"]
          /\ cont' = [cont EXCEPT ![e] = "check"]
          /\ write' = [write EXCEPT ![e] = [to |-> r, from |-> base[e]]]
      BY <1>4 DEF Persist, Goto
    <2> HIDE DEF r
    <2> QED BY <1>0, <2>1, <2>2, <2>3, LegalKeep
  <1> QED BY <1>1, <1>2, <1>3, <1>4 DEF Judge

LEMMA LegalEnd ==
  ASSUME TypeOK, WritesAreLegal, NEW e \in Engine, Fail(e) \/ Check(e) PROVE WritesAreLegal'
  <1>1. CASE Leave(e) /\ UNCHANGED cancel
    BY <1>1, LegalLeave
  <1>2. CASE Fail(e) /\ run[e].state \notin Terminal
    <2> DEFINE r == [run[e] EXCEPT !.state = "failed"]
    <2>1. /\ pc' = [pc EXCEPT ![e] = "save"] /\ cont' = [cont EXCEPT ![e] = "idle"]
          /\ write' = [write EXCEPT ![e] = [to |-> r, from |-> base[e]]]
          /\ UNCHANGED <<run, base, cancel>> /\ pc[e] = "fail"
      BY <1>2 DEF Fail, Persist, Goto
    <2>0. r.iter = run[e].iter
      BY DEF TypeOK, RunRec
    <2> HIDE DEF r
    <2>2. /\ pc'[e] = "save" /\ cont'[e] = "idle" /\ write'[e] = [to |-> r, from |-> base[e]]
          /\ \A f \in Engine \ {e} : pc'[f] = pc[f] /\ cont'[f] = cont[f] /\ write'[f] = write[f]
      BY <2>1 DEF TypeOK
    <2>3. base[e].state \notin Terminal /\ run[e].iter = base[e].iter
      BY <1>2, <2>1 DEF WritesAreLegal, CopyAgrees
    <2> QED BY <2>0, <2>1, <2>2, <2>3, LegalOthers DEF CopyAgrees, LegalWrite, cancel
  <1>3. CASE /\ run' = [run EXCEPT ![e] = rec] /\ base' = [base EXCEPT ![e] = rec]
             /\ Goto(e, "next") /\ UNCHANGED <<cont, write, cancel>>
    <2>1. /\ run'[e] = rec /\ base'[e] = rec /\ pc'[e] = "next" /\ cont' = cont /\ write' = write
          /\ \A f \in Engine \ {e} : pc'[f] = pc[f] /\ run'[f] = run[f] /\ base'[f] = base[f]
      BY <1>3 DEF Goto, TypeOK
    <2> QED BY <1>3, <2>1, LegalOthers DEF CopyAgrees, LegalWrite, cancel
  <1> QED BY <1>1, <1>2, <1>3 DEF Fail, Check

LEMMA LegalIoError ==
  ASSUME TypeOK, WritesAreLegal, NEW e \in Engine, NEW cut \in BOOLEAN, IoError(e, cut)
  PROVE  WritesAreLegal'
  <1>1. CASE InExecuteNext(e)
    <2>1. /\ pc' = [pc EXCEPT ![e] = "fail"] /\ "fail" \in EnginePc
          /\ UNCHANGED <<run, base, cancel>> /\ ~(pc[e] = "progress" /\ cont[e] = "idle")
      BY <1>1 DEF IoError, InExecuteNext, Goto, EnginePc
    <2>2. \A f \in Engine \ {e} : cont'[f] = cont[f] /\ write'[f] = write[f]
      BY <1>1 DEF IoError, TypeOK
    <2> QED BY <2>1, <2>2, LegalGoto
  <1>2. CASE ~InExecuteNext(e)
    BY <1>2, LegalLeave DEF IoError
  <1> QED BY <1>1, <1>2

LEMMA LegalEnv ==
  ASSUME TypeOK, WritesAreLegal,
         CancelLoad \/ CancelSave \/ CancelProgress \/ Expire \/ \E cut \in BOOLEAN : Crash(cut)
  PROVE  WritesAreLegal'
  <1>1. CASE CancelLoad \/ CancelSave \/ CancelProgress \/ Expire
    <2>1. UNCHANGED memory
      BY <1>1 DEF CancelLoad, CancelSave, CancelProgress, Expire
    <2>2. \A e \in Engine : (CopyAgrees(e) /\ LegalWrite(e))'
      BY <2>1 DEF memory, WritesAreLegal, CopyAgrees, LegalWrite
    <2>3. (cancelPc = "save" => cancelRun.state \notin Terminal)'
      BY <1>1 DEF CancelLoad, CancelSave, CancelProgress, Expire, cancel, WritesAreLegal,
                  CanTransitionTo, Terminal
    <2> QED BY <2>2, <2>3 DEF WritesAreLegal
  <1>2. CASE \E cut \in BOOLEAN : Crash(cut)
    <2>1. /\ \A e \in Engine : pc'[e] = "idle" /\ run'[e] = NoRun /\ base'[e] = NoRun
          /\ UNCHANGED cancel
      BY <1>2 DEF Crash
    <2> QED BY <2>1 DEF WritesAreLegal, CopyAgrees, LegalWrite, cancel
  <1> QED BY <1>1, <1>2

LEMMA LegalNext == Typed /\ WritesAreLegal /\ [Next]_vars => WritesAreLegal'
  <1> SUFFICES ASSUME Typed, WritesAreLegal, [Next]_vars PROVE WritesAreLegal'
    OBVIOUS
  <1>0. TypeOK
    BY DEF Typed
  <1>1. ASSUME NEW e \in Engine, EngineStep(e) PROVE WritesAreLegal'
    <2>1. CASE Load(e) BY <1>0, <2>1, LegalEntry
    <2>2. CASE Save(e) \/ Progress(e) BY <1>0, <2>2, LegalWrites
    <2>3. CASE Resolve(e) BY <2>3, LegalResolve
    <2>4. CASE \/ Guard(e) \/ Record(e) \/ Count(e) \/ Reload(e)
               \/ \E st \in Status, t \in Step \cup {NoStep} : Execute(e, st, t)
      BY <1>0, <2>4, LegalAttempt
    <2>5. CASE \E late \in BOOLEAN : Judge(e, late) BY <2>5, LegalJudge
    <2>6. CASE Fail(e) \/ Check(e) BY <1>0, <2>6, LegalEnd
    <2> QED BY <1>1, <2>1, <2>2, <2>3, <2>4, <2>5, <2>6, EngineSteps
  <1>2. CASE UNCHANGED vars
    BY <1>2 DEF vars, memory, cancel, WritesAreLegal, CopyAgrees, LegalWrite
  <1> QED BY <1>0, <1>1, <1>2, LegalEntry, LegalIoError, LegalEnv DEF Next

\* Only Save and CancelSave write the record.
LEMMA RecordWritten ==
  ASSUME [Next]_vars
  PROVE  rec' = rec \/ CancelSave \/ \E e \in Engine : Save(e)
  <1>1. ASSUME NEW e \in Engine, EngineStep(e) PROVE rec' = rec \/ Save(e)
    BY <1>1, EngineSteps DEF Load, Progress, Resolve, Guard, Execute, Record, Count, Reload,
                             Judge, Fail, Check, files
  <1> QED BY <1>1 DEF Next, vars, files, Create, Resume, IoError, CancelLoad, CancelProgress, Expire,
                      Crash

LEMMA FinalStep ==
  ASSUME Typed, WritesAreLegal, [Next]_vars, rec.state \in Terminal
  PROVE  rec'.state = rec.state \/ "stale" \in mishaps'
  <1>1. CASE CancelSave
    BY <1>1 DEF CancelSave, WritesAreLegal
  <1>2. ASSUME NEW e \in Engine, Save(e)
        PROVE  rec'.state = rec.state \/ "stale" \in mishaps'
    BY <1>2 DEF Save, WritesAreLegal, LegalWrite
  <1> QED BY <1>1, <1>2, RecordWritten

\* A terminal state of a run is final: only a thread or command that writes a copy
\* older than the record can replace it.
THEOREM TerminalStates == Spec => TerminalIsFinal
  <1>1. Init => Typed /\ WritesAreLegal
    BY TypedInit, LegalInit
  <1>2. Typed /\ WritesAreLegal /\ [Next]_vars => (Typed /\ WritesAreLegal)'
    BY TypedNext, LegalNext
  <1>3. Typed /\ WritesAreLegal /\ [Next]_vars =>
          [rec.state \in Terminal => rec'.state = rec.state \/ "stale" \in mishaps']_vars
    BY FinalStep
  <1> QED BY <1>1, <1>2, <1>3, PTL DEF Spec, TerminalIsFinal

(***************************************************************************)
(* Invocations.  While the record is neither shared nor overwritten with   *)
(* stale content, one engine at a time has an up-to-date count, stops at   *)
(* the limit, and counts every invocation it makes unless it is cut off.   *)
(***************************************************************************)
Calm == mishaps \cap {"stale", "shared"} = {}

Alone == \A e, f \in Engine : pc[e] # "idle" /\ pc[f] # "idle" => e = f

\* An invocation that is not counted yet.
Pending(e) == pc[e] \in {"record", "count"} \/ (pc[e] = "save" /\ cont[e] = "reload")

UpToDate(e) ==
    /\ pc[e] \in {"next", "guard", "exec", "judge"} => run[e].iter = rec.iter
    /\ pc[e] = "progress" /\ cont[e] \in {"next", "guard"} => run[e].iter = rec.iter
    /\ pc[e] = "exec" \/ Pending(e) => rec.iter < MaxIter
    /\ torn => \/ pc[e] \in {"idle", "load", "fail"}
               \/ pc[e] = "save" /\ cont[e] \in {"idle", "load"}

Balance ==
    /\ rec.iter <= MaxIter /\ ran <= rec.iter + cuts + 1
    /\ (\A e \in Engine : ~Pending(e)) => ran <= rec.iter + cuts

Counted == Calm => Alone /\ (\A e \in Engine : UpToDate(e)) /\ Balance

LEMMA NatTypes ==
  ASSUME TypeOK
  PROVE  rec.iter \in Nat /\ ran \in Nat /\ cuts \in Nat /\ MaxIter \in Nat /\ MaxCuts \in Nat
  BY ConstantsOK DEF TypeOK, RunRec

LEMMA CountedInit == Init => Counted
  BY ConstantsOK DEF Init, Counted, Balance, Calm, Alone, UpToDate, Pending, NoRun

LEMMA CalmBefore == ASSUME TypeOK, [Next]_vars, Calm' PROVE Calm
  <1>1. mishaps \subseteq mishaps'
    <2>1. ASSUME NEW e \in Engine, EngineStep(e) PROVE mishaps \subseteq mishaps'
      BY <2>1, EngineSteps DEF Load, Save, Progress, Resolve, Guard, Execute, Record, Count, Reload,
                               Judge, Fail, Check, hist
    <2> QED BY <2>1 DEF Next, vars, hist, Create, Resume, Shared, IoError, CancelLoad, CancelSave,
                        CancelProgress, Expire, Crash
  <1> QED BY <1>1 DEF Calm

\* A step of engine e that neither writes the record nor makes or counts an
\* invocation.
LEMMA CountedStep ==
  ASSUME TypeOK, Counted, NEW e \in Engine, pc[e] # "idle", Calm' => Calm,
         rec' = rec, torn' = torn, ran' = ran, cuts' = cuts,
         \A f \in Engine \ {e} : pc'[f] = pc[f] /\ cont'[f] = cont[f] /\ run'[f] = run[f],
         Calm => UpToDate(e)' /\ (Pending(e)' <=> Pending(e))
  PROVE  Counted'
  <1> SUFFICES ASSUME Calm' PROVE (Alone /\ (\A f \in Engine : UpToDate(f)) /\ Balance)'
    BY DEF Counted
  <1>0. Calm /\ Alone /\ (\A f \in Engine : UpToDate(f)) /\ Balance
    BY DEF Counted
  <1>1. ASSUME NEW f \in Engine \ {e}
        PROVE  UpToDate(f)' /\ (Pending(f)' <=> Pending(f)) /\ pc[f] = "idle" /\ pc'[f] = "idle"
    BY <1>0 DEF UpToDate, Pending, Alone
  <1>2. Alone'
    BY <1>1 DEF Alone
  <1>3. \A f \in Engine : UpToDate(f)' /\ (Pending(f)' <=> Pending(f))
    BY <1>0, <1>1
  <1>4. Balance'
    BY <1>0, <1>3 DEF Balance
  <1> QED BY <1>2, <1>3, <1>4

LEMMA CountedLeave ==
  ASSUME TypeOK, Counted, NEW e \in Engine, pc[e] # "idle", Leave(e), Calm' => Calm,
         rec' = rec, torn' = torn, ran' = ran, cuts' = cuts, Calm => ~Pending(e)
  PROVE  Counted'
  <1>1. /\ pc'[e] = "idle"
        /\ \A f \in Engine \ {e} : pc'[f] = pc[f] /\ cont'[f] = cont[f] /\ run'[f] = run[f]
    BY DEF Leave, Goto, TypeOK
  <1> QED BY <1>1, CountedStep DEF UpToDate, Pending

\* The thread goes on to write a record that is not the count of an iteration.
LEMMA CountedPersist ==
  ASSUME TypeOK, Counted, NEW e \in Engine, pc[e] \notin {"idle", "record", "count", "save"},
         NEW c \in ContPc, c # "reload", torn => c = "idle", Calm' => Calm,
         rec' = rec, torn' = torn, ran' = ran, cuts' = cuts,
         pc' = [pc EXCEPT ![e] = "save"], cont' = [cont EXCEPT ![e] = c],
         \A f \in Engine \ {e} : run'[f] = run[f]
  PROVE  Counted'
  <1>1. /\ pc'[e] = "save" /\ cont'[e] = c
        /\ \A f \in Engine \ {e} : pc'[f] = pc[f] /\ cont'[f] = cont[f]
    BY DEF TypeOK
  <1> QED BY <1>1, CountedStep DEF UpToDate, Pending

LEMMA CountedToFail ==
  ASSUME TypeOK, Counted, NEW e \in Engine, pc[e] \notin {"idle", "record", "count", "save"},
         Calm' => Calm, rec' = rec, torn' = torn, ran' = ran, cuts' = cuts,
         pc' = [pc EXCEPT ![e] = "fail"], cont' = cont, \A f \in Engine \ {e} : run'[f] = run[f]
  PROVE  Counted'
  <1>1. pc'[e] = "fail" /\ \A f \in Engine \ {e} : pc'[f] = pc[f] /\ cont'[f] = cont[f]
    BY DEF TypeOK
  <1> QED BY <1>1, CountedStep DEF UpToDate, Pending

LEMMA CountedFinish ==
  ASSUME TypeOK, Counted, NEW e \in Engine, pc[e] \in {"next", "judge"}, ~torn, Finish(e),
         Calm' => Calm, rec' = rec, torn' = torn, ran' = ran, cuts' = cuts
  PROVE  Counted'
  <1>1. \A f \in Engine \ {e} : run'[f] = run[f]
    BY DEF Finish, TypeOK
  <1>2. CASE pc' = [pc EXCEPT ![e] = "save"] /\ cont' = [cont EXCEPT ![e] = "check"]
    BY <1>1, <1>2, CountedPersist DEF ContPc
  <1>3. CASE pc' = [pc EXCEPT ![e] = "fail"] /\ cont' = cont
    BY <1>1, <1>3, CountedToFail
  <1> QED BY <1>2, <1>3 DEF Finish, Persist, Goto

LEMMA CountedLoad ==
  ASSUME TypeOK, Counted, NEW e \in Engine, Load(e), Calm' => Calm PROVE Counted'
  <1>0. pc[e] = "load" /\ rec' = rec /\ torn' = torn /\ ran' = ran /\ cuts' = cuts
    BY DEF Load, files, env, hist
  <1>1. CASE torn \/ rec.state \in Terminal
    BY <1>0, <1>1, CountedLeave DEF Load, Pending
  <1>2. CASE ~(torn \/ rec.state \in Terminal)
    <2>1. run' = [run EXCEPT ![e] = [rec EXCEPT !.state = "running"]]
      BY <1>2 DEF Load
    <2>2. /\ run'[e].iter = rec.iter
          /\ \A f \in Engine \ {e} : run'[f] = run[f]
      BY <2>1 DEF TypeOK, RunRec
    <2>3. CASE pc' = [pc EXCEPT ![e] = "next"] /\ cont' = cont
      <3>1. pc'[e] = "next" /\ \A f \in Engine \ {e} : pc'[f] = pc[f] /\ cont'[f] = cont[f]
        BY <2>3 DEF TypeOK
      <3> QED BY <1>0, <1>2, <2>2, <3>1, CountedStep DEF UpToDate, Pending
    <2>4. CASE pc' = [pc EXCEPT ![e] = "save"] /\ cont' = [cont EXCEPT ![e] = "next"]
      BY <1>0, <1>2, <2>2, <2>4, CountedPersist DEF ContPc
    <2> QED BY <1>2, <2>3, <2>4 DEF Load, Persist, Goto
  <1> QED BY <1>1, <1>2

LEMMA CountedProgress ==
  ASSUME TypeOK, Counted, NEW e \in Engine, Progress(e), Calm' => Calm PROVE Counted'
  <1>0. pc[e] = "progress" /\ rec' = rec /\ torn' = torn /\ ran' = ran /\ cuts' = cuts
    BY DEF Progress, env
  <1>1. CASE cont[e] = "idle"
    BY <1>0, <1>1, CountedLeave DEF Progress, Pending
  <1>2. CASE cont[e] # "idle"
    <2>1. /\ pc'[e] = cont[e] /\ cont'[e] = "idle" /\ run' = run
          /\ \A f \in Engine \ {e} : pc'[f] = pc[f] /\ cont'[f] = cont[f]
      BY <1>2 DEF Progress, Goto, TypeOK
    <2>2. cont[e] \in ContPc
      BY DEF TypeOK
    <2>3. Calm => UpToDate(e)
      BY DEF Counted
    <2>4. Calm => UpToDate(e)' /\ (Pending(e)' <=> Pending(e))
      BY <1>0, <1>2, <2>1, <2>2, <2>3 DEF UpToDate, Pending, ContPc
    <2> QED BY <1>0, <2>1, <2>4, CountedStep
  <1> QED BY <1>1, <1>2

LEMMA CountedResolve ==
  ASSUME TypeOK, Counted, NEW e \in Engine, Resolve(e), Calm' => Calm PROVE Counted'
  <1>0. pc[e] = "next" /\ rec' = rec /\ torn' = torn /\ ran' = ran /\ cuts' = cuts
    BY DEF Resolve, files, env, hist
  <1>1. CASE ~Calm
    BY <1>1 DEF Counted
  <1>2. CASE Calm
    <2>1. ~torn
      BY <1>0, <1>2 DEF Counted, UpToDate
    <2>2. CASE Finish(e)
      BY <1>0, <2>1, <2>2, CountedFinish
    <2>3. CASE pc' = [pc EXCEPT ![e] = "fail"] /\ cont' = cont /\ run' = run
      BY <1>0, <2>3, CountedToFail
    <2>4. CASE /\ pc' = [pc EXCEPT ![e] = "save"] /\ cont' = [cont EXCEPT ![e] = "guard"]
               /\ \A f \in Engine \ {e} : run'[f] = run[f]
      BY <1>0, <2>1, <2>4, CountedPersist DEF ContPc
    <2> QED BY <2>2, <2>3, <2>4 DEF Resolve, Goto, Mark, Persist, TypeOK
  <1> QED BY <1>1, <1>2

LEMMA CountedAttempt ==
  ASSUME TypeOK, Counted, NEW e \in Engine, Calm' => Calm,
         Guard(e) \/ Record(e) \/ Count(e) \/ Reload(e)
  PROVE  Counted'
  <1>0. /\ rec' = rec /\ torn' = torn /\ ran' = ran /\ cuts' = cuts /\ pc[e] # "idle"
        /\ \A f \in Engine \ {e} : pc'[f] = pc[f] /\ cont'[f] = cont[f] /\ run'[f] = run[f]
    BY DEF Guard, Record, Count, Reload, Persist, Goto, files, env, hist, TypeOK
  <1>1. Calm => UpToDate(e)
    BY DEF Counted
  <1>2. CASE Guard(e)
    <2>1. /\ pc[e] = "guard" /\ run' = run /\ rec.iter \in Nat /\ MaxIter \in Nat
          /\ pc'[e] = (IF Exceeded(run[e]) THEN "fail" ELSE "exec")
      BY <1>2, NatTypes DEF Guard, Goto, TypeOK
    <2>2. Calm => UpToDate(e)' /\ (Pending(e)' <=> Pending(e))
      BY <1>0, <1>1, <2>1 DEF UpToDate, Pending, Exceeded
    <2> QED BY <1>0, <2>2, CountedStep
  <1>3. CASE Record(e)
    <2>1. pc[e] = "record" /\ pc'[e] = "count"
      BY <1>3 DEF Record, Goto, TypeOK
    <2> QED BY <1>0, <1>1, <2>1, CountedStep DEF UpToDate, Pending
  <1>4. CASE Count(e) /\ ~torn
    <2>1. pc[e] = "count" /\ ~torn /\ pc'[e] = "save" /\ cont'[e] = "reload"
      BY <1>4 DEF Count, Persist, Goto, TypeOK
    <2> QED BY <1>0, <1>1, <2>1, CountedStep DEF UpToDate, Pending
  <1>5. CASE Reload(e) /\ ~torn
    <2>1. pc[e] = "reload" /\ ~torn /\ pc'[e] = "judge" /\ run'[e] = rec
      BY <1>5 DEF Reload, Goto, TypeOK
    <2> QED BY <1>0, <1>1, <2>1, CountedStep DEF UpToDate, Pending
  <1>6. CASE TornRecord(e)
    <2>1. ~Calm
      BY <1>1, <1>6 DEF TornRecord, UpToDate
    <2> QED BY <2>1 DEF Counted
  <1> QED BY <1>2, <1>3, <1>4, <1>5, <1>6, TornSteps

\* The invocation itself: the count is below the limit and nothing is pending.
LEMMA CountedExecute ==
  ASSUME TypeOK, Counted, NEW e \in Engine, NEW st \in Status, NEW t \in Step \cup {NoStep},
         Execute(e, st, t)
  PROVE  Counted'
  <1>0. /\ pc[e] = "exec" /\ pc'[e] = "record" /\ ran' = ran + 1
        /\ UNCHANGED <<rec, torn, run, cont, cuts, mishaps>>
        /\ \A f \in Engine \ {e} : pc'[f] = pc[f]
    BY DEF Execute, Goto, TypeOK, files, env
  <1> SUFFICES ASSUME Calm' PROVE (Alone /\ (\A f \in Engine : UpToDate(f)) /\ Balance)'
    BY DEF Counted
  <1>1. Alone /\ (\A f \in Engine : UpToDate(f)) /\ Balance
    BY <1>0 DEF Counted, Calm
  <1>2. ASSUME NEW f \in Engine \ {e} PROVE pc[f] = "idle" /\ pc'[f] = "idle"
    BY <1>0, <1>1 DEF Alone
  <1>3. Alone'
    BY <1>2 DEF Alone
  <1>4. \A f \in Engine : UpToDate(f)'
    BY <1>0, <1>1, <1>2 DEF UpToDate, Pending
  <1>5. \A f \in Engine : ~Pending(f)
    BY <1>0, <1>2 DEF Pending
  <1>6. Pending(e)'
    BY <1>0 DEF Pending
  <1>7. Balance'
    BY <1>0, <1>1, <1>5, <1>6, NatTypes DEF Balance
  <1> QED BY <1>3, <1>4, <1>7

LEMMA CountedJudge ==
  ASSUME TypeOK, Counted, NEW e \in Engine, NEW late \in BOOLEAN, Judge(e, late), Calm' => Calm
  PROVE  Counted'
  <1>0. pc[e] = "judge" /\ rec' = rec /\ torn' = torn /\ ran' = ran /\ cuts' = cuts
    BY DEF Judge, files, env, hist
  <1>1. CASE ~Calm
    BY <1>1 DEF Counted
  <1>2. CASE Calm
    <2>1. ~torn
      BY <1>0, <1>2 DEF Counted, UpToDate
    <2>2. CASE Finish(e)
      BY <1>0, <2>1, <2>2, CountedFinish
    <2>3. CASE pc' = [pc EXCEPT ![e] = "fail"] /\ cont' = cont /\ run' = run
      BY <1>0, <2>3, CountedToFail
    <2>4. CASE /\ pc' = [pc EXCEPT ![e] = "save"] /\ cont' = [cont EXCEPT ![e] = "guard"]
               /\ \A f \in Engine \ {e} : run'[f] = run[f]
      BY <1>0, <2>1, <2>4, CountedPersist DEF ContPc
    <2>5. CASE /\ pc' = [pc EXCEPT ![e] = "save"] /\ cont' = [cont EXCEPT ![e] = "check"]
               /\ \A f \in Engine \ {e} : run'[f] = run[f]
      BY <1>0, <2>1, <2>5, CountedPersist DEF ContPc
    <2> QED BY <2>2, <2>3, <2>4, <2>5 DEF Judge, Goto, Mark, Persist, TypeOK
  <1> QED BY <1>1, <1>2

LEMMA CountedEnd ==
  ASSUME TypeOK, Counted, NEW e \in Engine, Fail(e) \/ Check(e), Calm' => Calm PROVE Counted'
  <1>0. /\ pc[e] \in {"fail", "check"} /\ rec' = rec /\ torn' = torn /\ ran' = ran /\ cuts' = cuts
    BY DEF Fail, Check, files, env, hist
  <1>1. CASE Leave(e)
    BY <1>0, <1>1, CountedLeave DEF Pending
  <1>2. CASE Fail(e) /\ ~Leave(e)
    <2>1. /\ pc' = [pc EXCEPT ![e] = "save"] /\ cont' = [cont EXCEPT ![e] = "idle"] /\ run' = run
      BY <1>2 DEF Fail, Persist, Goto
    <2> QED BY <1>0, <2>1, CountedPersist DEF ContPc
  <1>3. CASE Check(e) /\ ~Leave(e)
    <2>1. /\ pc'[e] = "next" /\ run'[e] = rec /\ pc[e] = "check"
          /\ \A f \in Engine \ {e} : pc'[f] = pc[f] /\ cont'[f] = cont[f] /\ run'[f] = run[f]
      BY <1>3 DEF Check, Goto, TypeOK
    <2>2. ~torn
      BY <1>3 DEF Check
    <2> QED BY <1>0, <2>1, <2>2, CountedStep DEF UpToDate, Pending
  <1> QED BY <1>1, <1>2, <1>3

\* A write: unless it is stale, it replaces the record it was made from.
LEMMA CountedSave ==
  ASSUME TypeOK, WritesAreLegal, Counted, NEW e \in Engine, Save(e), Calm' => Calm PROVE Counted'
  <1>0. /\ pc[e] = "save" /\ pc'[e] = "progress" /\ rec' = write[e].to /\ torn' = FALSE
        /\ UNCHANGED <<run, cont, ran, cuts>> /\ \A f \in Engine \ {e} : pc'[f] = pc[f]
    BY DEF Save, Goto, TypeOK, env
  <1> SUFFICES ASSUME Calm' PROVE (Alone /\ (\A f \in Engine : UpToDate(f)) /\ Balance)'
    BY DEF Counted
  <1>1. Alone /\ (\A f \in Engine : UpToDate(f)) /\ Balance
    BY DEF Counted
  <1>2. rec = write[e].from
    BY DEF Save, Calm
  <1>3. /\ cont[e] = "reload" => rec'.iter = rec.iter + 1
        /\ cont[e] # "reload" => rec'.iter = rec.iter /\ run[e].iter = rec.iter
    BY <1>0, <1>2 DEF WritesAreLegal, LegalWrite
  <1>4. ASSUME NEW f \in Engine \ {e} PROVE pc[f] = "idle" /\ pc'[f] = "idle"
    BY <1>0, <1>1 DEF Alone
  <1>5. Alone'
    BY <1>4 DEF Alone
  <1>6. \A f \in Engine : UpToDate(f)'
    BY <1>0, <1>1, <1>3, <1>4 DEF UpToDate, Pending
  <1>7. CASE cont[e] = "reload"
    <2>1. rec.iter < MaxIter
      BY <1>0, <1>1, <1>7 DEF UpToDate, Pending
    <2> QED BY <1>0, <1>1, <1>3, <1>5, <1>6, <1>7, <2>1, NatTypes DEF Balance
  <1>8. CASE cont[e] # "reload"
    <2>1. \A f \in Engine : ~Pending(f)
      BY <1>0, <1>4, <1>8 DEF Pending
    <2> QED BY <1>0, <1>1, <1>3, <1>5, <1>6, <1>8, <2>1, NatTypes DEF Balance
  <1> QED BY <1>7, <1>8

\* An engine comes in: alone, or the run is shared from now on.
LEMMA CountedEntry ==
  ASSUME TypeOK, Counted, NEW e \in Engine, Create(e) \/ Resume(e), Calm' => Calm PROVE Counted'
  <1>0. /\ UNCHANGED <<rec, torn, ran, cuts>> /\ pc[e] = "idle"
        /\ pc'[e] = "load" \/ (pc'[e] = "save" /\ cont'[e] = "load")
        /\ \A f \in Engine \ {e} : pc'[f] = pc[f] /\ cont'[f] = cont[f] /\ run'[f] = run[f]
    BY DEF Create, Resume, Persist, Goto, Idle, TypeOK, files, env, hist
  <1> SUFFICES ASSUME Calm' PROVE (Alone /\ (\A f \in Engine : UpToDate(f)) /\ Balance)'
    BY DEF Counted
  <1>1. Alone /\ (\A f \in Engine : UpToDate(f)) /\ Balance
    BY DEF Counted
  <1>2. Idle
    BY DEF Create, Resume, Shared, Calm
  <1>3. Alone'
    BY <1>0, <1>2 DEF Alone, Idle
  <1>4. \A f \in Engine : UpToDate(f)' /\ ~Pending(f) /\ ~Pending(f)'
    BY <1>0, <1>1, <1>2 DEF UpToDate, Pending, Idle
  <1>5. Balance'
    BY <1>0, <1>1, <1>4 DEF Balance
  <1> QED BY <1>3, <1>4, <1>5

\* Engines are cut off in the middle of their work; what they had not counted is
\* charged to the cut.
LEMMA CountedCut ==
  ASSUME TypeOK, Counted, NEW e \in Engine, Calm' => Calm,
         rec' = rec, ran' = ran, cuts' = cuts + 1, pc'[e] \in {"idle", "fail"}, pc[e] # "idle",
         \A f \in Engine \ {e} : pc[f] = "idle" => pc'[f] = "idle"
  PROVE  Counted'
  <1> SUFFICES ASSUME Calm' PROVE (Alone /\ (\A f \in Engine : UpToDate(f)) /\ Balance)'
    BY DEF Counted
  <1>1. Alone /\ Balance
    BY DEF Counted
  <1>2. \A f \in Engine \ {e} : pc'[f] = "idle"
    BY <1>1 DEF Alone
  <1>3. Alone'
    BY <1>2 DEF Alone
  <1>4. \A f \in Engine : UpToDate(f)' /\ ~Pending(f)'
    BY <1>2 DEF UpToDate, Pending
  <1>5. Balance'
    BY <1>1, <1>4, NatTypes DEF Balance
  <1> QED BY <1>3, <1>4, <1>5

LEMMA CountedEnv ==
  ASSUME TypeOK, Counted, Calm' => Calm,
         \/ CancelLoad \/ CancelSave \/ CancelProgress \/ Expire
         \/ \E cut \in BOOLEAN : Crash(cut)
         \/ \E e \in Engine, cut \in BOOLEAN : IoError(e, cut)
  PROVE  Counted'
  <1>1. CASE CancelLoad \/ CancelSave \/ CancelProgress \/ Expire
    <2> SUFFICES ASSUME Calm' PROVE (Alone /\ (\A f \in Engine : UpToDate(f)) /\ Balance)'
      BY DEF Counted
    <2>1. Alone /\ (\A f \in Engine : UpToDate(f)) /\ Balance
      BY DEF Counted
    <2>2. UNCHANGED <<pc, cont, run, ran, cuts>>
      BY <1>1 DEF CancelLoad, CancelSave, CancelProgress, Expire, memory, env, hist
    <2>3. rec'.iter = rec.iter /\ (torn' => torn)
      <3>1. CASE CancelSave
        <4>1. rec = cancelRun
          BY <3>1 DEF CancelSave, Calm
        <4> QED BY <3>1, <4>1 DEF CancelSave, TypeOK, RunRec
      <3>2. CASE CancelLoad \/ CancelProgress \/ Expire
        BY <3>2 DEF CancelLoad, CancelProgress, Expire, files
      <3> QED BY <1>1, <3>1, <3>2
    <2>4. \A f \in Engine : (Pending(f)' <=> Pending(f)) /\ UpToDate(f)'
      BY <2>1, <2>2, <2>3 DEF Pending, UpToDate
    <2> QED BY <2>1, <2>2, <2>3, <2>4 DEF Alone, Balance
  <1>2. CASE \E cut \in BOOLEAN : Crash(cut)
    <2>1. PICK e \in Engine : pc[e] # "idle"
      BY <1>2 DEF Crash, Idle
    <2>2. rec' = rec /\ ran' = ran /\ cuts' = cuts + 1 /\ \A f \in Engine : pc'[f] = "idle"
      BY <1>2 DEF Crash
    <2> QED BY <2>1, <2>2, CountedCut
  <1>3. CASE \E e \in Engine, cut \in BOOLEAN : IoError(e, cut)
    <2>1. PICK e \in Engine : \E cut \in BOOLEAN : IoError(e, cut)
      BY <1>3
    <2>2. /\ rec' = rec /\ ran' = ran /\ cuts' = cuts + 1 /\ pc[e] # "idle"
          /\ pc'[e] \in {"idle", "fail"} /\ \A f \in Engine \ {e} : pc'[f] = pc[f]
      BY <2>1 DEF IoError, Leave, Goto, TypeOK
    <2> QED BY <2>2, CountedCut
  <1> QED BY <1>1, <1>2, <1>3

LEMMA CountedNext == Typed /\ WritesAreLegal /\ Counted /\ [Next]_vars => Counted'
  <1> SUFFICES ASSUME Typed, WritesAreLegal, Counted, [Next]_vars PROVE Counted'
    OBVIOUS
  <1>0. TypeOK /\ (Calm' => Calm)
    BY CalmBefore DEF Typed
  <1>1. ASSUME NEW e \in Engine, EngineStep(e) PROVE Counted'
    <2>1. CASE Load(e) BY <1>0, <2>1, CountedLoad
    <2>2. CASE Save(e) BY <1>0, <2>2, CountedSave
    <2>3. CASE Progress(e) BY <1>0, <2>3, CountedProgress
    <2>4. CASE Resolve(e) BY <1>0, <2>4, CountedResolve
    <2>5. CASE Guard(e) \/ Record(e) \/ Count(e) \/ Reload(e)
      BY <1>0, <2>5, CountedAttempt
    <2>6. CASE \E st \in Status, t \in Step \cup {NoStep} : Execute(e, st, t)
      BY <1>0, <2>6, CountedExecute
    <2>7. CASE \E late \in BOOLEAN : Judge(e, late) BY <1>0, <2>7, CountedJudge
    <2>8. CASE Fail(e) \/ Check(e) BY <1>0, <2>8, CountedEnd
    <2> QED BY <1>1, <2>1, <2>2, <2>3, <2>4, <2>5, <2>6, <2>7, <2>8, EngineSteps
  <1>2. CASE UNCHANGED vars
    BY <1>2 DEF vars, files, memory, env, hist, Counted, Calm, Alone, Balance, UpToDate, Pending
  <1> QED BY <1>0, <1>1, <1>2, CountedEntry, CountedEnv DEF Next

\* Whatever the workflow does, a run that only one engine at a time works on and
\* whose record is not overwritten with stale content invokes the provider at most
\* max_total_iterations times plus once for every crash or error.
THEOREM InvocationsAreBounded == Spec => []InvocationBound
  <1>1. Init => Typed /\ WritesAreLegal /\ Counted
    BY TypedInit, LegalInit, CountedInit
  <1>2. Typed /\ WritesAreLegal /\ Counted /\ [Next]_vars
          => (Typed /\ WritesAreLegal /\ Counted)'
    BY TypedNext, LegalNext, CountedNext
  <1>3. Typed /\ WritesAreLegal /\ Counted => InvocationBound
    <2> SUFFICES ASSUME Typed, Counted, Calm PROVE ran <= MaxIter + cuts
      BY DEF InvocationBound, Calm
    <2>1. TypeOK /\ Balance /\ \A e \in Engine : Pending(e) => rec.iter < MaxIter
      BY DEF Typed, Counted, UpToDate
    <2> QED BY <2>1, NatTypes DEF Balance
  <1> QED BY <1>1, <1>2, <1>3, PTL DEF Spec

(***************************************************************************)
(* Cancellation.  An engine that has marked an attempt has made fewer late *)
(* invocations than the attempt's number, and one that is about to choose  *)
(* a step has made none: what it loaded was not canceled.                  *)
(***************************************************************************)
Choosing(e) == pc[e] = "next" \/ (pc[e] \in {"save", "progress"} /\ cont[e] = "next")

FewLate(e) ==
    /\ HasOutcome(e) => ranLate <= at[e].attempt
    /\ HasStep(e) /\ ~HasOutcome(e) => ranLate < at[e].attempt
    /\ Choosing(e) => ranLate = 0

LateOnlyAtStep ==
    Calm => /\ ranLate > 0 => rec.state = "canceled"
            /\ ranLate <= MaxRetries + 1
            /\ \A e \in Engine : FewLate(e)

LEMMA LateInit == Init => LateOnlyAtStep
  BY ConstantsOK DEF Init, LateOnlyAtStep, FewLate, Choosing, HasStep, HasOutcome

\* A step of the one engine at work that invokes nothing.
LEMMA LateStep ==
  ASSUME Counted, LateOnlyAtStep, NEW e \in Engine, pc[e] # "idle", Calm' => Calm,
         \A f \in Engine \ {e} : pc'[f] = pc[f], ranLate' = ranLate,
         Calm' /\ rec.state = "canceled" => rec'.state = "canceled",
         Calm => FewLate(e)'
  PROVE  LateOnlyAtStep'
  <1> SUFFICES ASSUME Calm' PROVE (/\ ranLate > 0 => rec.state = "canceled"
                                   /\ ranLate <= MaxRetries + 1
                                   /\ \A f \in Engine : FewLate(f))'
    BY DEF LateOnlyAtStep
  <1>1. /\ ranLate > 0 => rec.state = "canceled"
        /\ ranLate <= MaxRetries + 1
    BY DEF LateOnlyAtStep
  <1>2. ASSUME NEW f \in Engine \ {e} PROVE FewLate(f)'
    <2>1. pc'[f] = "idle"
      BY DEF Counted, Alone
    <2> QED BY <2>1 DEF FewLate, Choosing, HasStep, HasOutcome
  <1> QED BY <1>1, <1>2

LEMMA OthersStay ==
  ASSUME TypeOK, NEW e \in Engine, EngineStep(e)
  PROVE  pc[e] # "idle" /\ \A f \in Engine \ {e} : pc'[f] = pc[f]
  <1>1. pc[e] # "idle"
    BY EngineSteps DEF Load, Save, Progress, Resolve, Guard, Execute, Record, Count, Reload, Judge,
                       Fail, Check
  <1>2. Finish(e) => \E p \in {"save", "fail"} : pc' = [pc EXCEPT ![e] = p]
    BY DEF Finish, Persist, Goto
  <1>3. CASE Load(e) \/ Resolve(e) \/ \E late \in BOOLEAN : Judge(e, late)
    <2>1. \E p \in {"idle", "next", "save", "fail"} : pc' = [pc EXCEPT ![e] = p]
      BY <1>2, <1>3 DEF Load, Resolve, Judge, Leave, Persist, Mark, Goto
    <2> QED BY <1>1, <2>1 DEF TypeOK
  <1>4. CASE \/ Save(e) \/ Progress(e) \/ Guard(e) \/ Record(e) \/ Count(e) \/ Reload(e)
             \/ Fail(e) \/ Check(e)
             \/ \E st \in Status, t \in Step \cup {NoStep} : Execute(e, st, t)
    BY <1>1, <1>4 DEF Save, Progress, Guard, Execute, Record, Count, Reload, Fail, Check, Leave,
                      Persist, Goto, TypeOK
  <1> QED BY <1>3, <1>4, EngineSteps

LEMMA LateEngine ==
  ASSUME Typed, Counted, LateOnlyAtStep, NEW e \in Engine, EngineStep(e), Calm' => Calm,
         Calm' /\ rec.state = "canceled" => rec'.state = "canceled",
         \A st \in Status, t \in Step \cup {NoStep} : ~Execute(e, st, t)
  PROVE  LateOnlyAtStep'
  <1>0. /\ TypeOK /\ pc[e] # "idle" /\ (\A f \in Engine \ {e} : pc'[f] = pc[f])
        /\ ranLate \in Nat
    BY OthersStay DEF Typed, TypeOK
  <1>1. ranLate' = ranLate
    BY EngineSteps DEF Load, Save, Progress, Resolve, Guard, Record, Count, Reload, Judge,
                       Fail, Check, hist
  <1>2. Calm => FewLate(e) /\ (ranLate > 0 => rec.state = "canceled")
    BY DEF LateOnlyAtStep
  <1>3. HasStep(e) => at[e].attempt \in Nat \ {0}
    BY ConstantsOK DEF Typed, Attempt
  <1>4. CASE pc'[e] \in {"idle", "fail"} \/ (pc'[e] = "save" /\ cont'[e] \in {"check", "idle"})
    BY <1>0, <1>1, <1>4, LateStep DEF FewLate, Choosing, HasStep, HasOutcome
  <1>5. CASE Load(e)
    <2>1. \/ pc'[e] = "idle"
          \/ /\ pc'[e] = "next" \/ (pc'[e] = "save" /\ cont'[e] = "next")
             /\ rec.state \notin Terminal
      BY <1>0, <1>5 DEF Load, Leave, Persist, Goto, TypeOK
    <2>2. Calm => FewLate(e)'
      BY <1>0, <1>1, <1>2, <2>1 DEF FewLate, Choosing, HasStep, HasOutcome, Terminal
    <2> QED BY <1>0, <1>1, <2>2, LateStep
  <1>6. CASE Save(e)
    <2>1. pc[e] = "save" /\ pc'[e] = "progress" /\ cont' = cont /\ at' = at
      BY <1>0, <1>6 DEF Save, Goto, TypeOK
    <2>2. Calm => FewLate(e)'
      BY <1>1, <1>2, <2>1 DEF FewLate, Choosing, HasStep, HasOutcome
    <2> QED BY <1>0, <1>1, <2>2, LateStep
  <1>7. CASE Progress(e) /\ pc'[e] # "idle"
    <2>1. pc[e] = "progress" /\ pc'[e] = cont[e] /\ at' = at /\ cont[e] \in ContPc
      BY <1>0, <1>7 DEF Progress, Leave, Goto, TypeOK
    <2>2. Calm => FewLate(e)'
      BY <1>1, <1>2, <2>1 DEF FewLate, Choosing, HasStep, HasOutcome, ContPc
    <2> QED BY <1>0, <1>1, <2>2, LateStep
  <1>8. CASE Guard(e) \/ Record(e)
    <2>1. at' = at /\ (\/ pc[e] = "guard" /\ pc'[e] \in {"fail", "exec"}
                       \/ pc[e] = "record" /\ pc'[e] = "count")
      BY <1>0, <1>8 DEF Guard, Record, Goto, TypeOK
    <2>2. Calm => FewLate(e)'
      BY <1>1, <1>2, <2>1 DEF FewLate, Choosing, HasStep, HasOutcome
    <2> QED BY <1>0, <1>1, <2>2, LateStep
  <1>9. CASE Count(e) \/ Reload(e)
    <2>1. /\ pc[e] \in {"count", "reload"} /\ at' = at
          /\ pc'[e] \in {"fail", "judge"} \/ (pc'[e] = "save" /\ cont'[e] = "reload")
      BY <1>0, <1>9 DEF Count, Reload, Persist, Goto, TypeOK
    <2>2. Calm => FewLate(e)'
      BY <1>1, <1>2, <2>1 DEF FewLate, Choosing, HasStep, HasOutcome
    <2> QED BY <1>0, <1>1, <2>2, LateStep
  <1>10. CASE Resolve(e)
    <2>1. pc[e] = "next"
      BY <1>10 DEF Resolve
    <2>2. \/ pc'[e] = "fail" \/ (pc'[e] = "save" /\ cont'[e] = "check")
          \/ pc'[e] = "save" /\ cont'[e] = "guard"
      BY <1>0, <1>10 DEF Resolve, Mark, Finish, Persist, Goto, TypeOK
    <2>3. HasStep(e)' => at'[e].attempt \in Nat \ {0}
      BY TypedNext, <1>3 DEF Next, Typed, Attempt
    <2>4. Calm => FewLate(e)'
      BY <1>1, <1>2, <2>1, <2>2, <2>3 DEF FewLate, Choosing, HasStep, HasOutcome
    <2> QED BY <1>0, <1>1, <2>4, LateStep
  <1>11. CASE \E late \in BOOLEAN : Judge(e, late)
    <2>1. pc[e] = "judge"
      BY <1>11 DEF Judge
    <2>2. \/ pc'[e] = "fail" \/ (pc'[e] = "save" /\ cont'[e] = "check")
          \/ pc'[e] = "save" /\ cont'[e] = "guard" /\ at'[e].attempt = at[e].attempt + 1
      BY <1>0, <1>11 DEF Judge, Mark, Finish, Persist, Goto, TypeOK
    <2>3. at[e].attempt \in Nat
      BY <1>3, <2>1 DEF HasStep
    <2>4. Calm => FewLate(e)'
      BY <1>0, <1>1, <1>2, <2>1, <2>2, <2>3 DEF FewLate, Choosing, HasStep, HasOutcome
    <2> QED BY <1>0, <1>1, <2>4, LateStep
  <1>12. CASE Check(e) /\ pc'[e] # "idle"
    <2>1. pc'[e] = "next" /\ rec.state = "running"
      BY <1>0, <1>12 DEF Check, Leave, Goto, TypeOK
    <2>2. Calm => FewLate(e)'
      BY <1>0, <1>1, <1>2, <2>1 DEF FewLate, Choosing, HasStep, HasOutcome
    <2> QED BY <1>0, <1>1, <2>2, LateStep
  <1>13. Fail(e) => pc'[e] = "idle" \/ (pc'[e] = "save" /\ cont'[e] = "idle")
    BY <1>0 DEF Fail, Leave, Persist, Goto, TypeOK
  <1> QED BY <1>4, <1>5, <1>6, <1>7, <1>8, <1>9, <1>10, <1>11, <1>12, <1>13, EngineSteps

\* A late invocation of the attempt the engine is at.
LEMMA LateExecute ==
  ASSUME Typed, Counted, LateOnlyAtStep, NEW e \in Engine, NEW st \in Status,
         NEW t \in Step \cup {NoStep}, Execute(e, st, t)
  PROVE  LateOnlyAtStep'
  <1> SUFFICES ASSUME Calm' PROVE (/\ ranLate > 0 => rec.state = "canceled"
                                   /\ ranLate <= MaxRetries + 1
                                   /\ \A f \in Engine : FewLate(f))'
    BY DEF LateOnlyAtStep
  <1>1. /\ pc[e] = "exec" /\ pc'[e] = "record" /\ at' = at /\ rec' = rec /\ mishaps' = mishaps
        /\ ranLate' = (IF rec.state = "canceled" THEN ranLate + 1 ELSE ranLate)
        /\ \A f \in Engine \ {e} : pc'[f] = pc[f]
    BY DEF Execute, Goto, Typed, TypeOK, files
  <1>2. at[e].attempt \in 1..(MaxRetries + 1) /\ ranLate \in Nat /\ MaxRetries \in Nat
    BY <1>1, ConstantsOK DEF Typed, TypeOK, HasStep, Attempt
  <1>3. Calm /\ Alone
    BY <1>1 DEF Calm, Counted
  <1>4. FewLate(e) /\ (ranLate > 0 => rec.state = "canceled")
    BY <1>3 DEF LateOnlyAtStep
  <1>5. ranLate < at[e].attempt
    BY <1>1, <1>4 DEF FewLate, HasStep, HasOutcome
  <1>6. ASSUME NEW f \in Engine \ {e} PROVE FewLate(f)'
    BY <1>1, <1>3 DEF Alone, FewLate, Choosing, HasStep, HasOutcome
  <1>7. FewLate(e)'
    BY <1>1, <1>2, <1>5 DEF FewLate, Choosing, HasStep, HasOutcome
  <1> QED BY <1>1, <1>2, <1>4, <1>5, <1>6, <1>7

LEMMA LateNext ==
  Typed /\ WritesAreLegal /\ Counted /\ LateOnlyAtStep /\ [Next]_vars => LateOnlyAtStep'
  <1> SUFFICES ASSUME Typed, WritesAreLegal, Counted, LateOnlyAtStep, [Next]_vars
               PROVE  LateOnlyAtStep'
    OBVIOUS
  <1>0. TypeOK /\ (Calm' => Calm)
    BY CalmBefore DEF Typed
  <1>1. Calm' /\ rec.state = "canceled" => rec'.state = "canceled"
    BY FinalStep DEF Calm, Terminal
  <1>2. ASSUME NEW e \in Engine, EngineStep(e) PROVE LateOnlyAtStep'
    BY <1>0, <1>1, <1>2, LateEngine, LateExecute
  <1>3. ASSUME ranLate' = ranLate,
               \A e \in Engine : /\ HasStep(e)' => HasStep(e) /\ at'[e] = at[e]
                                                   /\ (HasOutcome(e)' <=> HasOutcome(e))
                                 /\ Choosing(e)' => Choosing(e)
        PROVE  LateOnlyAtStep'
    <2>1. \A e \in Engine : HasOutcome(e) => HasStep(e)
      BY DEF HasStep, HasOutcome
    <2>2. \A e \in Engine : (HasOutcome(e) => HasStep(e))'
      BY DEF HasStep, HasOutcome
    <2> QED BY <1>0, <1>1, <1>3, <2>1, <2>2 DEF LateOnlyAtStep, FewLate
  <1>4. ASSUME NEW e \in Engine, Create(e) \/ Resume(e) PROVE LateOnlyAtStep'
    <2>1. /\ ranLate' = ranLate /\ at' = at
          /\ pc'[e] = "load" \/ (pc'[e] = "save" /\ cont'[e] = "load")
          /\ \A f \in Engine \ {e} : pc'[f] = pc[f] /\ cont'[f] = cont[f]
      BY <1>0, <1>4 DEF Create, Resume, Persist, Goto, TypeOK, hist
    <2>2. ~HasStep(e)' /\ ~Choosing(e)' /\ ~HasOutcome(e)'
      BY <2>1 DEF HasStep, Choosing, HasOutcome
    <2>3. ASSUME NEW f \in Engine \ {e}
          PROVE  (HasStep(f)' <=> HasStep(f)) /\ (HasOutcome(f)' <=> HasOutcome(f))
                 /\ (Choosing(f)' <=> Choosing(f))
      BY <2>1 DEF HasStep, Choosing, HasOutcome
    <2> QED BY <1>3, <2>1, <2>2, <2>3
  <1>5. ASSUME NEW e \in Engine, NEW cut \in BOOLEAN, IoError(e, cut) PROVE LateOnlyAtStep'
    <2>1. /\ ranLate' = ranLate /\ pc'[e] \in {"idle", "fail"}
          /\ \A f \in Engine \ {e} : pc'[f] = pc[f] /\ cont'[f] = cont[f] /\ at'[f] = at[f]
      BY <1>0, <1>5 DEF IoError, Leave, Goto, TypeOK
    <2>2. ~HasStep(e)' /\ ~Choosing(e)'
      BY <2>1 DEF HasStep, Choosing
    <2>3. ASSUME NEW f \in Engine \ {e}
          PROVE  (HasStep(f)' <=> HasStep(f)) /\ (HasOutcome(f)' <=> HasOutcome(f))
                 /\ (Choosing(f)' <=> Choosing(f))
      BY <2>1 DEF HasStep, Choosing, HasOutcome
    <2> QED BY <1>3, <2>1, <2>2, <2>3
  <1>6. CASE \E cut \in BOOLEAN : Crash(cut)
    BY <1>3, <1>6 DEF Crash, HasStep, Choosing
  <1>7. CASE CancelLoad \/ CancelSave \/ CancelProgress \/ Expire \/ UNCHANGED vars
    <2>1. UNCHANGED <<pc, cont, at, ranLate>>
      BY <1>7 DEF CancelLoad, CancelSave, CancelProgress, Expire, vars, memory, hist
    <2> QED BY <1>3, <2>1 DEF HasStep, Choosing, HasOutcome
  <1> QED BY <1>2, <1>4, <1>5, <1>6, <1>7 DEF Next

\* A canceled run gets no further than the step it is at: whatever the workflow and
\* its limits, an engine makes at most that step's attempts after the cancel is on
\* disk (execute_step_attempt, run_until_non_running, cancel_run).
THEOREM CancelStops == Spec => []CancelTakesEffect
  <1>1. Init => Typed /\ WritesAreLegal /\ Counted /\ LateOnlyAtStep
    BY TypedInit, LegalInit, CountedInit, LateInit
  <1>2. Typed /\ WritesAreLegal /\ Counted /\ LateOnlyAtStep /\ [Next]_vars
          => (Typed /\ WritesAreLegal /\ Counted /\ LateOnlyAtStep)'
    BY TypedNext, LegalNext, CountedNext, LateNext
  <1>3. LateOnlyAtStep => CancelTakesEffect
    BY DEF LateOnlyAtStep, CancelTakesEffect, Calm
  <1> QED BY <1>1, <1>2, <1>3, PTL DEF Spec

(***************************************************************************)
(* The path.  While nothing but progress.json is out of date, the record   *)
(* between two steps names the step that follows from the last attempt,    *)
(* the engine's own copy does when it chooses, and the step it has marked  *)
(* is that one until the next attempt is recorded.                         *)
(***************************************************************************)
Quiet == mishaps \subseteq {"outdated"}

Follows(s) ==
    \/ last.status = "none" /\ s = First
    \/ last.status = "failed_retryable" /\ s = last.step
    \/ last.status = "succeeded" /\ s = last.next

Ended == last.status = "succeeded" /\ last.next = NoStep

\* What a record that no engine works on says.
Rests(r) ==
    \/ r.state \in Terminal
    \/ r.step = NoStep /\ last.status = "none"
    \/ r.step \in Step /\ r.attempt = 0 /\ Follows(r.step)

\* From the mark of a step to the write that ends it.
Busy(e) ==
    \/ HasStep(e) \/ pc[e] = "fail"
    \/ pc[e] = "save" /\ cont[e] \in {"check", "idle"}

OnPath(e) ==
    /\ HasStep(e) /\ ~HasOutcome(e) => Follows(at[e].step)
    /\ HasOutcome(e) /\ pc[e] # "record" =>
          last = [step |-> at[e].step, status |-> out[e].status, next |-> out[e].next]
    /\ HasStep(e) \/ Choosing(e) => rec.state # "succeeded" /\ run[e].state # "succeeded"
    /\ HasStep(e) \/ Choosing(e) \/ pc[e] = "fail" =>
          (run[e].state \in Terminal => rec.state \in Terminal)
    /\ Choosing(e) => \/ run[e].step = NoStep /\ last.status = "none"
                      \/ run[e].step \in Step /\ run[e].attempt = 0 /\ Follows(run[e].step)
    /\ pc[e] = "save" =>
          /\ cont[e] \in {"check", "idle", "load", "next"} => Rests(write[e].to)
          /\ write[e].to.state = "succeeded" => cont[e] = "check" /\ Ended

Pathwise ==
    Quiet => /\ rec.state = "succeeded" => Ended
             /\ (\A e \in Engine : ~Busy(e)) => Rests(rec)
             /\ \A e \in Engine : OnPath(e)

LEMMA PathInit == Init => Pathwise
  BY DEF Init, Pathwise, Rests, OnPath, Busy, HasStep, HasOutcome, Choosing, NoRun, Ended

LEMMA QuietBefore == ASSUME TypeOK, [Next]_vars, Quiet' PROVE Quiet /\ Calm
  <1>1. mishaps \subseteq mishaps'
    <2>1. ASSUME NEW e \in Engine, EngineStep(e) PROVE mishaps \subseteq mishaps'
      BY <2>1, EngineSteps DEF Load, Save, Progress, Resolve, Guard, Execute, Record, Count, Reload,
                               Judge, Fail, Check, hist
    <2> QED BY <2>1 DEF Next, vars, hist, Create, Resume, Shared, IoError, CancelLoad, CancelSave,
                        CancelProgress, Expire, Crash
  <1> QED BY <1>1 DEF Quiet, Calm

\* What a step of the one engine at work has to keep.
LEMMA PathStep ==
  ASSUME Counted, NEW e \in Engine, Quiet' => Quiet /\ Calm,
         pc[e] # "idle" \/ Idle, \A f \in Engine \ {e} : pc'[f] = pc[f],
         Quiet' => /\ (rec.state = "succeeded" => Ended)'
                   /\ ~Busy(e)' => Rests(rec)'
                   /\ OnPath(e)'
  PROVE  Pathwise'
  <1> SUFFICES ASSUME Quiet' PROVE (/\ rec.state = "succeeded" => Ended
                                    /\ (\A f \in Engine : ~Busy(f)) => Rests(rec)
                                    /\ \A f \in Engine : OnPath(f))'
    BY DEF Pathwise
  <1>1. ASSUME NEW f \in Engine \ {e} PROVE OnPath(f)'
    <2>1. pc'[f] = "idle"
      BY DEF Counted, Alone, Idle
    <2> QED BY <2>1 DEF OnPath, HasStep, HasOutcome, Choosing
  <1> QED BY <1>1

\* What holds before it.
LEMMA PathBefore ==
  ASSUME Counted, Pathwise, Quiet, Calm, NEW e \in Engine, pc[e] # "idle" \/ Idle
  PROVE  /\ rec.state = "succeeded" => Ended
         /\ ~Busy(e) => Rests(rec)
         /\ OnPath(e)
  <1>1. ASSUME NEW f \in Engine \ {e} PROVE ~Busy(f)
    <2>1. pc[f] = "idle"
      BY DEF Counted, Alone, Idle
    <2> QED BY <2>1 DEF Busy, HasStep
  <1> QED BY <1>1 DEF Pathwise

LEMMA PathLeave ==
  ASSUME TypeOK, Counted, Pathwise, NEW e \in Engine, Quiet' => Quiet /\ Calm, pc[e] # "idle",
         Leave(e), rec' = rec, last' = last, Quiet /\ Calm => Rests(rec)
  PROVE  Pathwise'
  <1>1. pc'[e] = "idle" /\ \A f \in Engine \ {e} : pc'[f] = pc[f]
    BY DEF Leave, Goto, TypeOK
  <1>2. Quiet /\ Calm => (rec.state = "succeeded" => Ended)
    BY PathBefore
  <1>3. OnPath(e)'
    BY <1>1 DEF OnPath, HasStep, HasOutcome, Choosing
  <1>4. Rests(rec) => Rests(rec)'
    BY DEF Rests, Follows
  <1>5. Ended => Ended'
    BY DEF Ended
  <1> QED BY <1>1, <1>2, <1>3, <1>4, <1>5, PathStep

LEMMA PathLoad ==
  ASSUME TypeOK, Counted, Pathwise, NEW e \in Engine, Quiet' => Quiet /\ Calm, Load(e)
  PROVE  Pathwise'
  <1>0. pc[e] = "load" /\ rec' = rec /\ last' = last
    BY DEF Load, files, hist
  <1>1. Quiet /\ Calm => Rests(rec) /\ (rec.state = "succeeded" => Ended)
    BY <1>0, PathBefore DEF Busy, HasStep
  <1>2. CASE torn \/ rec.state \in Terminal
    BY <1>0, <1>1, <1>2, PathLeave DEF Load
  <1>3. CASE ~(torn \/ rec.state \in Terminal)
    <2> DEFINE r == [rec EXCEPT !.state = "running"]
    <2>1. r.state = "running" /\ r.step = rec.step /\ r.attempt = rec.attempt
      BY DEF TypeOK, RunRec
    <2>2. run' = [run EXCEPT ![e] = r]
      BY <1>3 DEF Load
    <2>3. \/ pc' = [pc EXCEPT ![e] = "next"]
          \/ /\ pc' = [pc EXCEPT ![e] = "save"] /\ cont' = [cont EXCEPT ![e] = "next"]
             /\ write' = [write EXCEPT ![e] = [to |-> r, from |-> rec]]
      BY <1>3 DEF Load, Persist, Goto
    <2> HIDE DEF r
    <2>4. /\ run'[e] = r /\ \A f \in Engine \ {e} : pc'[f] = pc[f]
          /\ \/ pc'[e] = "next"
             \/ pc'[e] = "save" /\ cont'[e] = "next" /\ write'[e].to = r
      BY <2>2, <2>3 DEF TypeOK
    <2>5. rec.state # "succeeded" /\ r.state \notin Terminal
      BY <1>3, <2>1 DEF Terminal
    <2>6. Quiet /\ Calm => \/ rec.step = NoStep /\ last.status = "none"
                           \/ rec.step \in Step /\ rec.attempt = 0 /\ Follows(rec.step)
      BY <1>1, <1>3 DEF Rests
    <2>8. Rests(rec) => Rests(rec)'
      BY <1>0 DEF Rests, Follows
    <2>9. Quiet /\ Calm => OnPath(e)'
      <3>1. ~HasStep(e)' /\ ~HasOutcome(e)' /\ pc'[e] # "fail"
        BY <2>4 DEF HasStep, HasOutcome
      <3>2. ASSUME Quiet, Calm
            PROVE  \/ r.step = NoStep /\ last.status = "none"
                   \/ r.step \in Step /\ r.attempt = 0 /\ Follows(r.step)
        BY <2>1, <2>6, <3>2
      <3> QED BY <1>0, <2>1, <2>4, <2>5, <3>1, <3>2 DEF OnPath, Rests, Follows
    <2> QED BY <1>0, <1>1, <2>4, <2>5, <2>8, <2>9, PathStep
  <1> QED BY <1>2, <1>3

LEMMA PathSave ==
  ASSUME Typed, WritesAreLegal, Counted, Pathwise, NEW e \in Engine, Quiet' => Quiet /\ Calm,
         [Next]_vars, Save(e)
  PROVE  Pathwise'
  <1>0. /\ pc[e] = "save" /\ pc'[e] = "progress" /\ rec' = write[e].to
        /\ UNCHANGED <<cont, run, at, out, last>> /\ cont[e] \in ContPc
        /\ \A f \in Engine \ {e} : pc'[f] = pc[f]
    BY DEF Save, Goto, Typed, TypeOK
  <1> SUFFICES ASSUME Quiet' PROVE Pathwise'
    BY DEF Pathwise
  <1>1. OnPath(e) /\ (~Busy(e) => Rests(rec))
    BY <1>0, PathBefore
  <1>2. rec.state \in Terminal => rec'.state \in Terminal
    BY FinalStep DEF Quiet
  <1>3. /\ HasStep(e)' <=> HasStep(e)
        /\ HasOutcome(e)' <=> HasOutcome(e)
        /\ Choosing(e)' <=> Choosing(e)
        /\ HasStep(e) <=> cont[e] \in {"guard", "reload"}
        /\ Choosing(e) <=> cont[e] = "next"
    BY <1>0 DEF HasStep, HasOutcome, Choosing
  <1>4. /\ cont[e] \in {"check", "idle", "load", "next"} => Rests(write[e].to)
        /\ write[e].to.state = "succeeded" => cont[e] = "check" /\ Ended
    BY <1>0, <1>1 DEF OnPath
  <1>5. Rests(write[e].to) => Rests(rec)'
    BY <1>0 DEF Rests, Follows
  <1>6. ~Busy(e)' => Rests(rec)'
    BY <1>0, <1>3, <1>4, <1>5 DEF Busy, ContPc
  <1>7. OnPath(e)'
    BY <1>0, <1>1, <1>2, <1>3, <1>4 DEF OnPath, Follows
  <1>8. (rec.state = "succeeded" => Ended)'
    BY <1>0, <1>4 DEF Ended
  <1> QED BY <1>0, <1>6, <1>7, <1>8, PathStep

LEMMA PathProgress ==
  ASSUME TypeOK, Counted, Pathwise, NEW e \in Engine, Quiet' => Quiet /\ Calm, Progress(e)
  PROVE  Pathwise'
  <1>0. pc[e] = "progress" /\ rec' = rec /\ last' = last /\ cont[e] \in ContPc
    BY DEF Progress, TypeOK
  <1>1. Quiet /\ Calm => OnPath(e) /\ (~Busy(e) => Rests(rec)) /\ (rec.state = "succeeded" => Ended)
    BY <1>0, PathBefore
  <1>2. CASE cont[e] = "idle"
    BY <1>0, <1>1, <1>2, PathLeave DEF Progress, Busy, HasStep
  <1>3. CASE cont[e] # "idle"
    <2>1. /\ pc'[e] = cont[e] /\ run' = run /\ at' = at /\ out' = out
          /\ \A f \in Engine \ {e} : pc'[f] = pc[f]
      BY <1>3 DEF Progress, Goto, TypeOK
    <2>2. /\ HasStep(e)' <=> HasStep(e)
          /\ HasOutcome(e)' <=> HasOutcome(e)
          /\ Choosing(e)' <=> Choosing(e)
          /\ pc'[e] \notin {"fail", "save", "record"}
      BY <1>0, <1>3, <2>1 DEF HasStep, HasOutcome, Choosing, ContPc
    <2>3. Busy(e)' <=> Busy(e)
      BY <1>0, <2>2 DEF Busy
    <2>4. Quiet /\ Calm => OnPath(e)'
      BY <1>0, <1>1, <2>1, <2>2 DEF OnPath, Follows
    <2>5. Rests(rec) => Rests(rec)'
      BY <1>0 DEF Rests, Follows
    <2> QED BY <1>0, <1>1, <2>1, <2>3, <2>4, <2>5, PathStep DEF Ended
  <1> QED BY <1>2, <1>3

\* A step is marked: the one that follows.
LEMMA PathMark ==
  ASSUME TypeOK, Counted, Pathwise, NEW e \in Engine, Quiet' => Quiet /\ Calm,
         pc[e] \in {"next", "judge"}, NEW s \in Step, NEW a \in Nat, Mark(e, s, a),
         rec' = rec, last' = last, Quiet /\ Calm => Follows(s)
  PROVE  Pathwise'
  <1> DEFINE r == [run[e] EXCEPT !.step = s, !.attempt = a]
  <1>1. r.state = run[e].state
    BY DEF TypeOK, RunRec
  <1>2. /\ run' = [run EXCEPT ![e] = r] /\ at' = [at EXCEPT ![e] = [step |-> s, attempt |-> a]]
        /\ write' = [write EXCEPT ![e] = [to |-> r, from |-> base[e]]]
        /\ cont' = [cont EXCEPT ![e] = "guard"] /\ pc' = [pc EXCEPT ![e] = "save"]
    BY DEF Mark, Persist, Goto
  <1> HIDE DEF r
  <1>3. /\ run'[e] = r /\ at'[e].step = s /\ write'[e].to = r /\ cont'[e] = "guard"
        /\ pc'[e] = "save" /\ \A f \in Engine \ {e} : pc'[f] = pc[f]
    BY <1>2 DEF TypeOK
  <1>4. HasStep(e)' /\ ~HasOutcome(e)' /\ ~Choosing(e)' /\ Busy(e)'
    BY <1>3 DEF HasStep, HasOutcome, Choosing, Busy
  <1>5. Quiet /\ Calm => /\ rec.state # "succeeded" /\ run[e].state # "succeeded"
                         /\ run[e].state \in Terminal => rec.state \in Terminal
    BY PathBefore DEF OnPath, HasStep, Choosing
  <1>6. Follows(s) => Follows(s)'
    BY DEF Follows
  <1>7. Quiet /\ Calm => OnPath(e)'
    <2>1. Quiet /\ Calm => Follows(at[e].step)'
      BY <1>3 DEF Follows
    <2> QED BY <1>1, <1>3, <1>4, <1>5, <2>1 DEF OnPath
  <1> QED BY <1>3, <1>4, <1>5, <1>7, PathStep

LEMMA PathResolve ==
  ASSUME TypeOK, Counted, Pathwise, NEW e \in Engine, Quiet' => Quiet /\ Calm, Resolve(e)
  PROVE  Pathwise'
  <1> SUFFICES ASSUME Quiet' PROVE Pathwise'
    BY DEF Pathwise
  <1>0. pc[e] = "next" /\ rec' = rec /\ last' = last /\ Quiet /\ Calm
    BY DEF Resolve, files, hist
  <1>1. \/ run[e].step = NoStep /\ last.status = "none"
        \/ run[e].step \in Step /\ run[e].attempt = 0 /\ Follows(run[e].step)
    BY <1>0, PathBefore DEF OnPath, Choosing
  <1>2. CASE run[e].step = NoStep
    <2>1. Mark(e, First, 1) /\ First \in Step /\ Follows(First)
      BY <1>1, <1>2, ConstantsOK DEF Resolve, Follows
    <2> QED BY <1>0, <2>1, PathMark
  <1>3. CASE run[e].step # NoStep
    <2>1. run[e].step \in Step /\ run[e].attempt = 0 /\ Follows(run[e].step)
      BY <1>1, <1>3
    <2>2. PointerResult(run[e]).status = "none"
      BY <2>1 DEF PointerResult, NoResult
    <2>3. Mark(e, run[e].step, 1)
      BY <1>3, <2>1, <2>2 DEF Resolve, Status
    <2> QED BY <1>0, <2>1, <2>3, PathMark
  <1> QED BY <1>2, <1>3

\* The run fails, or the copy's pointer is cleared first: the engine leaves the path.
LEMMA PathToFail ==
  ASSUME TypeOK, Counted, Pathwise, NEW e \in Engine, Quiet' => Quiet /\ Calm,
         HasStep(e), pc' = [pc EXCEPT ![e] = "fail"], run'[e].state = run[e].state,
         rec' = rec, last' = last
  PROVE  Pathwise'
  <1>1. pc'[e] = "fail" /\ pc[e] # "idle" /\ \A f \in Engine \ {e} : pc'[f] = pc[f]
    BY DEF TypeOK, HasStep
  <1>2. Quiet /\ Calm => /\ rec.state = "succeeded" => Ended
                         /\ run[e].state \in Terminal => rec.state \in Terminal
    BY <1>1, PathBefore DEF OnPath
  <1>3. Quiet /\ Calm => OnPath(e)' /\ Busy(e)'
    BY <1>1, <1>2 DEF OnPath, HasStep, HasOutcome, Choosing, Busy
  <1> QED BY <1>1, <1>2, <1>3, PathStep DEF Ended

LEMMA PathAttempt ==
  ASSUME TypeOK, Counted, Pathwise, NEW e \in Engine, Quiet' => Quiet /\ Calm,
         \/ Guard(e) \/ Record(e) \/ Count(e) \/ Reload(e)
         \/ \E st \in Status, t \in Step \cup {NoStep} : Execute(e, st, t)
  PROVE  Pathwise'
  <1>0. /\ rec' = rec /\ at' = at /\ pc[e] \in {"guard", "exec", "record", "count", "reload"}
        /\ \A f \in Engine \ {e} : pc'[f] = pc[f]
    BY DEF Guard, Record, Count, Reload, Execute, Persist, Goto, TypeOK, files
  <1>1. Quiet /\ Calm => OnPath(e) /\ (rec.state = "succeeded" => Ended)
    BY <1>0, PathBefore
  <1>2. HasStep(e)
    BY <1>0 DEF HasStep
  <1>3. CASE pc' = [pc EXCEPT ![e] = "fail"] /\ run' = run /\ last' = last
    BY <1>0, <1>2, <1>3, PathToFail
  <1>4. CASE Guard(e) /\ pc'[e] # "fail"
    <2>1. pc[e] = "guard" /\ pc'[e] = "exec" /\ run' = run /\ last' = last
      BY <1>4 DEF Guard, Goto, TypeOK, hist
    <2>2. Quiet /\ Calm => OnPath(e)' /\ Busy(e)'
      BY <1>0, <1>1, <2>1 DEF OnPath, Follows, HasStep, HasOutcome, Choosing, Busy
    <2> QED BY <1>0, <1>1, <2>1, <2>2, PathStep DEF Ended
  <1>5. CASE \E st \in Status, t \in Step \cup {NoStep} : Execute(e, st, t)
    <2>1. pc[e] = "exec" /\ pc'[e] = "record" /\ run' = run /\ last' = last
      BY <1>5 DEF Execute, Goto, TypeOK
    <2>2. Quiet /\ Calm => OnPath(e)' /\ Busy(e)'
      BY <1>0, <1>1, <2>1 DEF OnPath, HasStep, HasOutcome, Choosing, Busy
    <2> QED BY <1>0, <1>1, <2>1, <2>2, PathStep DEF Ended
  <1>6. CASE Record(e)
    <2>1. /\ pc[e] = "record" /\ pc'[e] = "count" /\ run' = run /\ out' = out
          /\ last' = [step |-> at[e].step, status |-> out[e].status, next |-> out[e].next]
      BY <1>6 DEF Record, Goto, TypeOK
    <2>2. Quiet /\ Calm => rec.state # "succeeded"
      BY <1>1, <1>2 DEF OnPath
    <2>3. Quiet /\ Calm => OnPath(e)' /\ Busy(e)'
      BY <1>0, <1>1, <2>1 DEF OnPath, HasStep, HasOutcome, Choosing, Busy
    <2> QED BY <1>0, <2>1, <2>2, <2>3, PathStep
  <1>7. CASE Count(e) /\ pc'[e] # "fail"
    <2>1. /\ pc[e] = "count" /\ pc'[e] = "save" /\ cont'[e] = "reload" /\ run' = run /\ out' = out
          /\ last' = last /\ write'[e].to = [rec EXCEPT !.iter = @ + 1]
      BY <1>7 DEF Count, Persist, Goto, TypeOK, hist
    <2>2. write'[e].to.state = rec.state
      BY <2>1 DEF TypeOK, RunRec
    <2>3. Quiet /\ Calm => OnPath(e)' /\ Busy(e)'
      BY <1>0, <1>1, <2>1, <2>2 DEF OnPath, HasStep, HasOutcome, Choosing, Busy
    <2> QED BY <1>0, <1>1, <2>1, <2>3, PathStep DEF Ended
  <1>8. CASE Reload(e) /\ pc'[e] # "fail"
    <2>1. pc[e] = "reload" /\ pc'[e] = "judge" /\ run'[e] = rec /\ out' = out /\ last' = last
      BY <1>8 DEF Reload, Goto, TypeOK, hist
    <2>2. Quiet /\ Calm => OnPath(e)' /\ Busy(e)'
      BY <1>0, <1>1, <2>1 DEF OnPath, HasStep, HasOutcome, Choosing, Busy
    <2> QED BY <1>0, <1>1, <2>1, <2>2, PathStep DEF Ended
  <1>9. (Guard(e) \/ Count(e) \/ Reload(e)) /\ pc'[e] = "fail" =>
           pc' = [pc EXCEPT ![e] = "fail"] /\ run' = run /\ last' = last
    BY DEF Guard, Count, Reload, Persist, Goto, TypeOK, hist
  <1> QED BY <1>3, <1>4, <1>5, <1>6, <1>7, <1>8, <1>9

\* The write that ends a step.
LEMMA PathEndStep ==
  ASSUME TypeOK, Counted, Pathwise, NEW e \in Engine, Quiet' => Quiet /\ Calm,
         pc[e] \in {"judge", "fail"}, NEW c \in {"check", "idle"}, NEW r,
         pc' = [pc EXCEPT ![e] = "save"], cont' = [cont EXCEPT ![e] = c],
         write' = [write EXCEPT ![e] = [to |-> r, from |-> base[e]]],
         rec' = rec, last' = last,
         Quiet /\ Calm => Rests(r) /\ (r.state = "succeeded" => c = "check" /\ Ended)
  PROVE  Pathwise'
  <1>1. /\ pc'[e] = "save" /\ cont'[e] = c /\ write'[e].to = r
        /\ \A f \in Engine \ {e} : pc'[f] = pc[f]
    BY DEF TypeOK
  <1>2. Rests(r) => Rests(write[e].to)'
    BY <1>1 DEF Rests, Follows
  <1>3. Quiet /\ Calm => OnPath(e)' /\ Busy(e)'
    BY <1>1, <1>2 DEF OnPath, HasStep, HasOutcome, Choosing, Busy, Ended
  <1>4. Quiet /\ Calm => (rec.state = "succeeded" => Ended)
    BY PathBefore
  <1> QED BY <1>1, <1>3, <1>4, PathStep DEF Ended

LEMMA PathJudge ==
  ASSUME Typed, Counted, Pathwise, NEW e \in Engine, NEW late \in BOOLEAN,
         Quiet' => Quiet /\ Calm, Judge(e, late)
  PROVE  Pathwise'
  <1> SUFFICES ASSUME Quiet' PROVE Pathwise'
    BY DEF Pathwise
  <1>0. /\ TypeOK /\ pc[e] = "judge" /\ rec' = rec /\ last' = last /\ Quiet /\ Calm
        /\ HasStep(e) /\ HasOutcome(e)
    BY DEF Judge, files, hist, Typed, HasStep, HasOutcome
  <1>1. /\ last = [step |-> at[e].step, status |-> out[e].status, next |-> out[e].next]
        /\ run[e].state # "succeeded"
    BY <1>0, PathBefore DEF OnPath
  <1>2. CASE pc' = [pc EXCEPT ![e] = "fail"] /\ run' = run
    BY <1>0, <1>2, PathToFail
  <1>3. CASE /\ out[e].status = "succeeded" /\ out[e].next # NoStep
             /\ Persist(e, AdvanceTo(run[e], out[e].next), base[e], "check")
    <2> DEFINE r == AdvanceTo(run[e], out[e].next)
    <2>1. r.step = out[e].next /\ r.attempt = 0 /\ r.state = run[e].state
      BY <1>0 DEF AdvanceTo, TypeOK, RunRec
    <2>2. out[e].next \in Step
      BY <1>0, <1>3 DEF TypeOK, Result
    <2> HIDE DEF r
    <2>3. Rests(r)
      BY <1>1, <1>3, <2>1, <2>2 DEF Rests, Follows
    <2>4. /\ pc' = [pc EXCEPT ![e] = "save"] /\ cont' = [cont EXCEPT ![e] = "check"]
          /\ write' = [write EXCEPT ![e] = [to |-> r, from |-> base[e]]]
      BY <1>3 DEF Persist, Goto, r
    <2> QED BY <1>0, <1>1, <2>1, <2>3, <2>4, PathEndStep
  <1>4. CASE out[e].status = "succeeded" /\ out[e].next = NoStep /\ Finish(e)
    <2> DEFINE r == [run[e] EXCEPT !.step = NoStep, !.attempt = 0]
               s == [r EXCEPT !.state = "succeeded"]
    <2>1. r.state = run[e].state /\ s.state = "succeeded"
      BY <1>0 DEF TypeOK, RunRec
    <2>2. \/ /\ pc' = [pc EXCEPT ![e] = "save"] /\ cont' = [cont EXCEPT ![e] = "check"]
             /\ write' = [write EXCEPT ![e] = [to |-> s, from |-> base[e]]]
          \/ pc' = [pc EXCEPT ![e] = "fail"] /\ run' = [run EXCEPT ![e] = r]
      BY <1>4 DEF Finish, Persist, Goto
    <2> HIDE DEF r, s
    <2>3. Rests(s) /\ Ended
      BY <1>1, <1>4, <2>1 DEF Rests, Terminal, Ended
    <2>4. CASE /\ pc' = [pc EXCEPT ![e] = "save"] /\ cont' = [cont EXCEPT ![e] = "check"]
               /\ write' = [write EXCEPT ![e] = [to |-> s, from |-> base[e]]]
      BY <1>0, <2>3, <2>4, PathEndStep
    <2>5. CASE pc' = [pc EXCEPT ![e] = "fail"] /\ run' = [run EXCEPT ![e] = r]
      <3>1. run'[e].state = run[e].state
        BY <1>0, <2>1, <2>5 DEF TypeOK
      <3> QED BY <1>0, <2>5, <3>1, PathToFail
    <2> QED BY <2>2, <2>4, <2>5
  <1>5. CASE CanRetry(e) /\ Mark(e, at[e].step, at[e].attempt + 1)
    <2>1. at[e].step \in Step /\ at[e].attempt + 1 \in Nat
      BY <1>0, ConstantsOK DEF Typed, Attempt
    <2>2. Follows(at[e].step)
      BY <1>1, <1>5 DEF Follows, CanRetry
    <2> QED BY <1>0, <1>5, <2>1, <2>2, PathMark
  <1> QED BY <1>2, <1>3, <1>4, <1>5 DEF Judge, Goto

LEMMA PathEnd ==
  ASSUME TypeOK, Counted, Pathwise, NEW e \in Engine, Quiet' => Quiet /\ Calm, Fail(e) \/ Check(e)
  PROVE  Pathwise'
  <1>0. rec' = rec /\ last' = last /\ pc[e] \in {"fail", "check"}
    BY DEF Fail, Check, files, hist
  <1>1. CASE Fail(e) /\ run[e].state \in Terminal
    <2>1. pc[e] = "fail" /\ Leave(e)
      BY <1>1 DEF Fail
    <2>2. Quiet /\ Calm => Rests(rec)
      BY <1>1, <2>1, PathBefore DEF OnPath, Rests
    <2> QED BY <1>0, <2>1, <2>2, PathLeave
  <1>2. CASE Fail(e) /\ run[e].state \notin Terminal
    <2> DEFINE r == [run[e] EXCEPT !.state = "failed"]
    <2>1. r.state = "failed" /\ pc[e] = "fail"
      BY <1>2 DEF TypeOK, RunRec, Fail
    <2>2. /\ pc' = [pc EXCEPT ![e] = "save"] /\ cont' = [cont EXCEPT ![e] = "idle"]
          /\ write' = [write EXCEPT ![e] = [to |-> r, from |-> base[e]]]
      BY <1>2 DEF Fail, Persist, Goto
    <2> HIDE DEF r
    <2>3. Rests(r)
      BY <2>1 DEF Rests, Terminal
    <2> QED BY <1>0, <2>1, <2>2, <2>3, PathEndStep
  <1>3. CASE Check(e)
    <2>1. pc[e] = "check"
      BY <1>3 DEF Check
    <2>2. Quiet /\ Calm => Rests(rec) /\ (rec.state = "succeeded" => Ended)
      BY <2>1, PathBefore DEF Busy, HasStep
    <2>3. CASE Leave(e)
      BY <1>0, <2>1, <2>2, <2>3, PathLeave
    <2>4. CASE ~Leave(e)
      <3>1. /\ pc'[e] = "next" /\ run'[e] = rec /\ rec.state = "running"
            /\ \A f \in Engine \ {e} : pc'[f] = pc[f]
        BY <1>3, <2>4 DEF Check, Goto, TypeOK
      <3>2. Quiet /\ Calm => \/ rec.step = NoStep /\ last.status = "none"
                             \/ rec.step \in Step /\ rec.attempt = 0 /\ Follows(rec.step)
        BY <2>2, <3>1 DEF Rests, Terminal
      <3>3. Quiet /\ Calm => OnPath(e)' /\ Rests(rec)'
        BY <1>0, <2>2, <3>1, <3>2 DEF OnPath, HasStep, HasOutcome, Choosing, Rests, Follows
      <3> QED BY <1>0, <2>1, <2>2, <3>1, <3>3, PathStep
    <2> QED BY <2>3, <2>4
  <1> QED BY <1>1, <1>2, <1>3

LEMMA PathEntry ==
  ASSUME TypeOK, Counted, Pathwise, NEW e \in Engine, Quiet' => Quiet /\ Calm,
         Create(e) \/ Resume(e)
  PROVE  Pathwise'
  <1> SUFFICES ASSUME Quiet' PROVE Pathwise'
    BY DEF Pathwise
  <1>0. rec' = rec /\ last' = last /\ pc[e] = "idle" /\ Quiet /\ Calm
    BY DEF Create, Resume, files, hist, Idle
  <1>1. Idle /\ \A f \in Engine \ {e} : pc'[f] = pc[f]
    <2>1. Create(e) => Idle
      BY DEF Create
    <2>2. Resume(e) => "shared" \in mishaps' \/ Idle
      BY DEF Resume, Shared
    <2>3. "shared" \notin mishaps'
      BY DEF Quiet
    <2>4. \A f \in Engine \ {e} : pc'[f] = pc[f]
      BY DEF Create, Resume, Persist, Goto, TypeOK
    <2> QED BY <2>1, <2>2, <2>3, <2>4
  <1>2. Rests(rec) /\ (rec.state = "succeeded" => Ended)
    BY <1>0, <1>1, PathBefore DEF Busy, HasStep
  <1>3. Rests(rec)' /\ (rec.state = "succeeded" => Ended)'
    BY <1>0, <1>2 DEF Rests, Follows, Ended
  <1>4. OnPath(e)'
    <2>1. CASE Resume(e)
      <3>1. pc'[e] = "load"
        BY <2>1 DEF Resume, Goto, TypeOK
      <3> QED BY <3>1 DEF OnPath, HasStep, HasOutcome, Choosing
    <2>2. CASE Create(e)
      <3> DEFINE r == [NoRun EXCEPT !.state = "queued"]
      <3>1. r.state = "queued" /\ r.step = NoStep
        BY DEF NoRun
      <3>2. write' = [write EXCEPT ![e] = [to |-> r, from |-> NoRun]]
        BY <2>2 DEF Create, Persist
      <3> HIDE DEF r
      <3>3. pc'[e] = "save" /\ cont'[e] = "load" /\ write'[e].to = r
        BY <2>2, <3>2 DEF Create, Persist, Goto, TypeOK
      <3>4. rec.state = "absent" /\ rec.step = NoStep
        BY <2>2 DEF Create, NoRun
      <3>5. last.status = "none"
        BY <1>2, <3>4, ConstantsOK DEF Rests, Terminal
      <3> QED BY <1>0, <3>1, <3>3, <3>5 DEF OnPath, HasStep, HasOutcome, Choosing, Rests
    <2> QED BY <2>1, <2>2
  <1> QED BY <1>0, <1>1, <1>3, <1>4, PathStep

LEMMA PathEnv ==
  ASSUME TypeOK, Pathwise, Quiet' => Quiet /\ Calm,
         CancelLoad \/ CancelSave \/ CancelProgress \/ Expire \/ UNCHANGED vars
  PROVE  Pathwise'
  <1> SUFFICES ASSUME Quiet' PROVE Pathwise'
    BY DEF Pathwise
  <1>1. UNCHANGED <<memory, last>>
    BY DEF CancelLoad, CancelSave, CancelProgress, Expire, vars, hist
  <1>2. rec' = rec \/ rec'.state = "canceled"
    BY DEF CancelLoad, CancelSave, CancelProgress, Expire, vars, files, TypeOK, RunRec
  <1>3. /\ rec.state = "succeeded" => Ended
        /\ (\A e \in Engine : ~Busy(e)) => Rests(rec)
        /\ \A e \in Engine : OnPath(e)
    BY DEF Pathwise
  <1>4. \A e \in Engine : (Busy(e)' <=> Busy(e))
    BY <1>1 DEF Busy, HasStep, memory
  <1>5. Rests(rec) => Rests(rec)'
    BY <1>1, <1>2 DEF Rests, Follows, Terminal
  <1>6. ASSUME NEW e \in Engine PROVE OnPath(e)'
    <2>1. /\ HasStep(e)' <=> HasStep(e)
          /\ HasOutcome(e)' <=> HasOutcome(e)
          /\ Choosing(e)' <=> Choosing(e)
      BY <1>1 DEF HasStep, HasOutcome, Choosing, memory
    <2>2. (Rests(write[e].to)' <=> Rests(write[e].to)) /\ (Ended' <=> Ended)
      BY <1>1 DEF Rests, Follows, Ended, memory
    <2>3. (Follows(at[e].step)' <=> Follows(at[e].step))
          /\ (Follows(run[e].step)' <=> Follows(run[e].step))
      BY <1>1 DEF Follows, memory
    <2> QED BY <1>1, <1>2, <1>3, <2>1, <2>2, <2>3 DEF OnPath, Terminal, memory
  <1>7. (rec.state = "succeeded" => Ended)'
    BY <1>1, <1>2, <1>3 DEF Ended
  <1>8. ((\A e \in Engine : ~Busy(e)) => Rests(rec))'
    <2>1. CASE rec'.state = "canceled"
      BY <2>1 DEF Rests, Terminal
    <2>2. CASE rec' = rec
      BY <1>3, <1>4, <1>5
    <2> QED BY <1>2, <2>1, <2>2
  <1> QED BY <1>6, <1>7, <1>8 DEF Pathwise

LEMMA PathNext ==
  Typed /\ WritesAreLegal /\ Counted /\ Pathwise /\ [Next]_vars => Pathwise'
  <1> SUFFICES ASSUME Typed, WritesAreLegal, Counted, Pathwise, [Next]_vars PROVE Pathwise'
    OBVIOUS
  <1>0. TypeOK /\ (Quiet' => Quiet /\ Calm)
    BY QuietBefore DEF Typed
  <1>1. ASSUME NEW e \in Engine, EngineStep(e) PROVE Pathwise'
    <2>1. CASE Load(e) BY <1>0, <2>1, PathLoad
    <2>2. CASE Save(e) BY <1>0, <2>2, PathSave
    <2>3. CASE Progress(e) BY <1>0, <2>3, PathProgress
    <2>4. CASE Resolve(e) BY <1>0, <2>4, PathResolve
    <2>5. CASE \/ Guard(e) \/ Record(e) \/ Count(e) \/ Reload(e)
               \/ \E st \in Status, t \in Step \cup {NoStep} : Execute(e, st, t)
      BY <1>0, <2>5, PathAttempt
    <2>6. CASE \E late \in BOOLEAN : Judge(e, late) BY <1>0, <2>6, PathJudge
    <2>7. CASE Fail(e) \/ Check(e) BY <1>0, <2>7, PathEnd
    <2> QED BY <1>1, <2>1, <2>2, <2>3, <2>4, <2>5, <2>6, <2>7, EngineSteps
  <1>2. ASSUME NEW e \in Engine, Create(e) \/ Resume(e) PROVE Pathwise'
    BY <1>0, <1>2, PathEntry
  <1>3. CASE (\E e \in Engine, cut \in BOOLEAN : IoError(e, cut)) \/ \E cut \in BOOLEAN : Crash(cut)
    <2>1. "cut" \in mishaps'
      BY <1>3 DEF IoError, Crash
    <2> QED BY <2>1 DEF Pathwise, Quiet
  <1>4. CASE CancelLoad \/ CancelSave \/ CancelProgress \/ Expire \/ UNCHANGED vars
    BY <1>0, <1>4, PathEnv
  <1> QED BY <1>1, <1>2, <1>3, <1>4 DEF Next

\* The engine follows the workflow: whatever the steps lead to, however often they
\* are retried and whenever a cancel comes, what it executes and whether the run
\* succeeds follow from the last recorded attempt (resolve_next_step_pointer,
\* execute_next).
THEOREM StepsFollowThePath == Spec => []PathFollowed
  <1>1. Init => Typed /\ WritesAreLegal /\ Counted /\ Pathwise
    BY TypedInit, LegalInit, CountedInit, PathInit
  <1>2. Typed /\ WritesAreLegal /\ Counted /\ Pathwise /\ [Next]_vars
          => (Typed /\ WritesAreLegal /\ Counted /\ Pathwise)'
    BY TypedNext, LegalNext, CountedNext, PathNext
  <1>3. Pathwise => PathFollowed
    <2>1. \A e \in Engine : pc[e] = "exec" => HasStep(e) /\ ~HasOutcome(e)
      BY DEF HasStep, HasOutcome
    <2> QED BY <2>1 DEF Pathwise, OnPath, PathFollowed, Quiet, Follows, Ended
  <1> QED BY <1>1, <1>2, <1>3, PTL DEF Spec

=============================================================================
