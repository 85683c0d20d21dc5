-------------------------- MODULE OwnershipProofs --------------------------
(***************************************************************************)
(* Safety of Ownership for every number of processes, crashes and failed   *)
(* starts.                                                                 *)
(***************************************************************************)
EXTENDS Ownership, FiniteSetTheorems, TLAPS

ProcessRecord ==
    [cmd : Commands \cup {"supervisor", "none"}, pc : ProcPc, read : StateFile,
     pid : 0..MaxProcs, found : SUBSET Pids]

LEMMA PidsType == Pids \subseteq 0..MaxProcs /\ 0 \in 0..MaxProcs /\ 0 \notin Pids
BY ConstantsOK DEF Pids

LEMMA EndedType == Ended \in ProcessRecord /\ Ended.pc = "dead" /\ Ended.cmd = "none" /\ Ended.pid = 0
BY PidsType DEF Ended, Process, ProcessRecord, ProcPc, StateFile, Stopped

LEMMA ProcessType ==
    ASSUME NEW cmd \in Commands \cup {"supervisor", "none"}, NEW pc \in ProcPc
    PROVE  Process(cmd, pc) \in ProcessRecord
BY PidsType DEF Process, ProcessRecord, StateFile, Stopped

LEMMA GotoEffect ==
    ASSUME TypeOK, NEW p \in Pids, NEW x \in ProcPc, Goto(p, x)
    PROVE  /\ proc' \in [Pids -> ProcessRecord]
           /\ \A q \in Pids : q # p => proc'[q] = proc[q]
           /\ proc'[p].pc = x
           /\ x = "dead" => proc'[p] = Ended
           /\ x # "dead" => /\ proc'[p].cmd = proc[p].cmd /\ proc'[p].pid = proc[p].pid
                            /\ proc'[p].found = proc[p].found /\ proc'[p].read = proc[p].read
<1>1. proc \in [Pids -> ProcessRecord]
  BY DEF TypeOK, ProcessRecord
<1>2. CASE x = "dead"
  BY <1>1, <1>2, EndedType DEF Goto
<1>3. CASE x # "dead"
  BY <1>1, <1>3 DEF Goto, ProcessRecord
<1>4. QED
  BY <1>2, <1>3

\* supervisor_ownership_state as CheckState leaves it: the command goes on under
\* its own name, and goes after a process only if that one is alive.
LEMMA CheckResult ==
    ASSUME TypeOK, NEW r \in ProcessRecord, r.cmd \in Commands
    PROVE  /\ CheckState(r) \in ProcessRecord
           /\ \/ CheckState(r) = Ended
              \/ /\ CheckState(r).cmd = r.cmd /\ CheckState(r).found = r.found
                 /\ \/ CheckState(r).pc \in {"locked", "suspect"} /\ CheckState(r).pid = r.pid
                    \/ /\ CheckState(r).pc \in {"signal", "save"}
                       /\ CheckState(r).pid = state.pid /\ is_process_alive(state.pid)
<1>1. CASE state.running /\ is_process_alive(state.pid)
  <2>1. CheckState(r) = OnRunning(r, state.pid)
    BY <1>1 DEF CheckState
  <2>2. state.pid \in 0..MaxProcs
    BY DEF TypeOK, StateFile
  <2>3. CASE r.cmd \in {"start", "detach"}
    BY <2>1, <2>3, EndedType DEF OnRunning
  <2>4. CASE r.cmd \in {"stop", "restart"}
    <3>1. CheckState(r) = [r EXCEPT !.pc = "signal", !.pid = state.pid]
      BY <2>1, <2>4 DEF OnRunning
    <3>2. QED
      BY <1>1, <2>2, <3>1 DEF ProcessRecord, ProcPc
  <2>5. CASE r.cmd = "status"
    <3>1. CheckState(r) = Ended \/ CheckState(r) = [r EXCEPT !.pc = "save", !.pid = state.pid]
      BY <2>1, <2>5 DEF OnRunning
    <3>2. QED
      BY <1>1, <2>2, <3>1, EndedType DEF ProcessRecord, ProcPc
  <2>6. QED
    BY <2>3, <2>4, <2>5 DEF Commands
<1>2. CASE ~(state.running /\ is_process_alive(state.pid))
  <2>1. CheckState(r) = [r EXCEPT !.pc = "locked"] \/ CheckState(r) = [r EXCEPT !.pc = "suspect"]
    BY <1>2 DEF CheckState
  <2>2. QED
    BY <2>1 DEF ProcessRecord, ProcPc
<1>3. QED
  BY <1>1, <1>2

\* The same for the second half of the check.
LEMMA LockResult ==
    ASSUME TypeOK, NEW p \in Pids, CheckLock(p), proc[p].cmd \in Commands
    PROVE  /\ proc' \in [Pids -> ProcessRecord]
           /\ \A q \in Pids : q # p => proc'[q] = proc[q]
           /\ \/ proc'[p] = Ended
              \/ /\ proc'[p].cmd = proc[p].cmd /\ proc'[p].found = proc[p].found
                 /\ \/ /\ proc'[p].pc \in {"cleanup", "reserve", "restart", "report"}
                       /\ proc'[p].pid = proc[p].pid
                       /\ proc'[p].pc = "report" => lock.pid = 0
                    \/ /\ proc'[p].pc \in {"signal", "save"}
                       /\ proc'[p].pid = lock.pid /\ is_process_alive(lock.pid)
<1> DEFINE r == proc[p]
<1>1. proc \in [Pids -> ProcessRecord] /\ r \in ProcessRecord /\ lock.pid \in 0..MaxProcs
  BY DEF TypeOK, ProcessRecord
<1>2. CASE is_process_alive(lock.pid)
  <2>1. proc' = [proc EXCEPT ![p] = OnRunning(r, lock.pid)]
    BY <1>1, <1>2 DEF CheckLock
  <2>2. CASE r.cmd \in {"start", "detach"}
    <3>1. proc' = [proc EXCEPT ![p] = Ended]
      BY <2>1, <2>2 DEF OnRunning
    <3>2. QED
      BY <1>1, <3>1, EndedType
  <2>3. CASE r.cmd \in {"stop", "restart"}
    <3>1. proc' = [proc EXCEPT ![p] = [r EXCEPT !.pc = "signal", !.pid = lock.pid]]
      BY <2>1, <2>3 DEF OnRunning
    <3>2. [r EXCEPT !.pc = "signal", !.pid = lock.pid] \in ProcessRecord
      BY <1>1 DEF ProcessRecord, ProcPc
    <3>3. QED
      BY <1>1, <1>2, <3>1, <3>2 DEF ProcessRecord
  <2>4. CASE r.cmd = "status"
    <3>1. \/ proc' = [proc EXCEPT ![p] = Ended]
          \/ proc' = [proc EXCEPT ![p] = [r EXCEPT !.pc = "save", !.pid = lock.pid]]
      BY <2>1, <2>4 DEF OnRunning
    <3>2. [r EXCEPT !.pc = "save", !.pid = lock.pid] \in ProcessRecord
      BY <1>1 DEF ProcessRecord, ProcPc
    <3>3. CASE proc' = [proc EXCEPT ![p] = Ended]
      BY <1>1, <3>3, EndedType
    <3>4. CASE proc' = [proc EXCEPT ![p] = [r EXCEPT !.pc = "save", !.pid = lock.pid]]
      BY <1>1, <1>2, <3>2, <3>4 DEF ProcessRecord
    <3>5. QED
      BY <3>1, <3>3, <3>4
  <2>5. QED
    BY <2>2, <2>3, <2>4 DEF Commands
<1>3. CASE ~is_process_alive(lock.pid) /\ (lock.pid # 0 \/ r.pc = "suspect")
  <2>1. proc' = [proc EXCEPT ![p] = [r EXCEPT !.pc = "cleanup"]]
    BY <1>1, <1>3 DEF CheckLock
  <2>2. [r EXCEPT !.pc = "cleanup"] \in ProcessRecord
    BY <1>1 DEF ProcessRecord, ProcPc
  <2>3. QED
    BY <1>1, <2>1, <2>2 DEF ProcessRecord
<1>4. CASE ~is_process_alive(lock.pid) /\ ~(lock.pid # 0 \/ r.pc = "suspect")
  <2>1. proc' = [proc EXCEPT ![p] = OnNotRunning(r)]
    BY <1>1, <1>4 DEF CheckLock
  <2>2. \/ OnNotRunning(r) = Ended
        \/ \E x \in {"reserve", "restart", "report", "cleanup"} : OnNotRunning(r) = [r EXCEPT !.pc = x]
    <3>1. CASE r.cmd \in {"start", "detach"}
      BY <3>1 DEF OnNotRunning
    <3>2. CASE r.cmd = "restart"
      BY <3>2 DEF OnNotRunning
    <3>3. CASE r.cmd = "stop"
      BY <3>3 DEF OnNotRunning
    <3>4. CASE r.cmd = "status"
      BY <3>4 DEF OnNotRunning
    <3>5. QED
      BY <3>1, <3>2, <3>3, <3>4 DEF Commands
  <2>3. CASE OnNotRunning(r) = Ended
    BY <1>1, <2>1, <2>3, EndedType
  <2>4. ASSUME NEW x \in {"reserve", "restart", "report", "cleanup"}, OnNotRunning(r) = [r EXCEPT !.pc = x]
        PROVE  /\ proc' \in [Pids -> ProcessRecord]
               /\ \A q \in Pids : q # p => proc'[q] = proc[q]
               /\ proc'[p].cmd = proc[p].cmd /\ proc'[p].found = proc[p].found
               /\ proc'[p].pc = x /\ proc'[p].pid = proc[p].pid
    <3>1. [r EXCEPT !.pc = x] \in ProcessRecord
      BY <1>1, <2>4 DEF ProcessRecord, ProcPc
    <3>2. QED
      BY <1>1, <2>1, <2>4, <3>1 DEF ProcessRecord
  <2>5. QED
    BY <1>4, <2>2, <2>3, <2>4
<1>5. QED
  BY <1>2, <1>3, <1>4

\* Where a command goes on once the stale files are gone.
LEMMA CleanupGoes ==
    ASSUME NEW p \in Pids, CleanupState(p), proc[p].cmd \in Commands
    PROVE  \E x \in {"reserve", "restart", "report", "dead"} : Goto(p, x)
<1>1. CASE proc[p].cmd \in {"start", "detach"}
  BY <1>1 DEF CleanupState
<1>2. CASE proc[p].cmd = "restart"
  BY <1>2 DEF CleanupState
<1>3. CASE proc[p].cmd = "stop"
  BY <1>3 DEF CleanupState
<1>4. CASE proc[p].cmd = "status"
  BY <1>4 DEF CleanupState
<1>5. QED
  BY <1>1, <1>2, <1>3, <1>4 DEF Commands

LEMMA SpawnResult ==
    ASSUME TypeOK, NEW p \in Pids, NEW c \in Pids, SpawnChild(p, c)
    PROVE  /\ proc' \in [Pids -> ProcessRecord]
           /\ \A q \in Pids \ {p, c} : proc'[q] = proc[q]
           /\ proc'[p].pc = "child" /\ proc'[p].pid = c
           /\ proc'[p].cmd = proc[p].cmd /\ proc'[p].found = proc[p].found
           /\ proc'[c].pc = "boot" /\ proc'[c].pid = 0 /\ proc'[c].cmd = "supervisor"
<1>1. proc \in [Pids -> ProcessRecord] /\ proc[p] \in ProcessRecord
  BY DEF TypeOK, ProcessRecord
<1>2. c # p
  BY DEF SpawnChild, Unused, At
<1>3. proc' = [proc EXCEPT ![c] = Process("supervisor", "boot"),
                           ![p] = [proc[p] EXCEPT !.pc = "child", !.pid = c]]
  BY <1>1, <1>2 DEF SpawnChild, ProcessRecord
<1>4. [proc[p] EXCEPT !.pc = "child", !.pid = c] \in ProcessRecord
  BY <1>1, PidsType DEF ProcessRecord, ProcPc
<1>5. Process("supervisor", "boot") \in ProcessRecord
  BY ProcessType DEF ProcPc
<1>6. QED
  BY <1>1, <1>2, <1>3, <1>4, <1>5 DEF ProcessRecord, Process

LEMMA RestartResult ==
    ASSUME TypeOK, NEW p \in Pids, NEW cmd \in {"start", "detach"}, RestartStart(p, cmd)
    PROVE  /\ proc' \in [Pids -> ProcessRecord]
           /\ \A q \in Pids : q # p => proc'[q] = proc[q]
           /\ \/ proc'[p] = Ended
              \/ /\ proc'[p].cmd = cmd
                 /\ \/ proc'[p].pc \in {"locked", "suspect"} /\ proc'[p].pid = 0
                    \/ /\ proc'[p].pc \in {"signal", "save"}
                       /\ proc'[p].pid = state.pid /\ is_process_alive(state.pid)
<1> DEFINE r == Process(cmd, "check")
<1>1. proc \in [Pids -> ProcessRecord]
  BY DEF TypeOK, ProcessRecord
<1>2. r \in ProcessRecord /\ r.cmd = cmd /\ r.cmd \in Commands /\ r.pid = 0
  <2>1. cmd \in Commands
    BY DEF Commands
  <2>2. QED
    BY <2>1, ProcessType DEF ProcPc, Process
<1>3. proc' = [proc EXCEPT ![p] = CheckState(r)]
  BY DEF RestartStart
<1> HIDE DEF r
<1>4. QED
  BY <1>1, <1>2, <1>3, CheckResult

-----------------------------------------------------------------------------
(***************************************************************************)
(* Types.  A process that has not yet reserved the lock is named by no     *)
(* file and is nobody's target, so that a stop command, whose target comes *)
(* from a file, never goes after itself.                                   *)
(***************************************************************************)
Early(p) ==
    proc[p].pc \in {"none", "check", "locked", "suspect", "save", "cleanup", "sweep", "clean", "report",
                    "restart", "reserve", "signal", "wait"}

Known ==
    /\ \A p \in Pids : Early(p) => /\ p \notin {lock.by, lock.pid, state.pid}
                                   /\ \A q \in Pids : proc[q].pid # p
    /\ \A p \in Pids : proc[p].pc \in {"signal", "wait", "child", "save"} => proc[p].pid \in Pids \ {p}
    /\ \A p \in Pids : Early(p) /\ proc[p].pc # "none" => proc[p].cmd \in Commands

\* TypeOK with its parts about live processes replaced by Known.
TypeParts ==
    /\ lock \in [by : 0..MaxProcs, pid : 0..MaxProcs]
    /\ stopfile \in BOOLEAN /\ stolen \in BOOLEAN
    /\ room \in 0..MaxProcs /\ crashes \in Nat
    /\ state \in StateFile /\ (state.running = (state.pid # 0))
    /\ proc \in [Pids -> ProcessRecord]

LEMMA TypeFromParts == TypeParts /\ Known => TypeOK
<1>1. SUFFICES ASSUME TypeParts, Known PROVE TypeOK
  OBVIOUS
<1>2. \A p \in {lock.by, lock.pid, state.pid} \ {0} : proc[p].pc # "none"
  <2>1. \A p \in {lock.by, lock.pid, state.pid} \ {0} : p \in Pids
    BY <1>1, ConstantsOK DEF TypeParts, StateFile, Pids
  <2>2. QED
    BY <1>1, <2>1 DEF Known, Early
<1>3. QED
  BY <1>1, <1>2 DEF TypeParts, TypeOK, Known, ProcessRecord

LEMMA PartsOfType == TypeOK => TypeParts
BY DEF TypeOK, TypeParts, ProcessRecord

LatePc == {"write", "spawn", "own", "boot", "announce", "run", "join", "retire", "unlock", "dead"}

\* A step of p that moves p on and writes no name into a file but those it may.
LEMMA KnownMove ==
    ASSUME TypeOK, Known, NEW p \in Pids, NEW x \in ProcPc, Goto(p, x),
           \/ x \in LatePc
           \/ proc[p].pc = "signal" /\ x = "wait"
           \/ Early(p) /\ proc[p].pc # "none" /\ x \in {"cleanup", "sweep", "clean", "report", "restart", "reserve"},
           \A z \in {lock.by, lock.pid, state.pid}' :
               \/ z \in {lock.by, lock.pid, state.pid, 0, proc[p].pid}
               \/ z = p /\ x \in LatePc
    PROVE  Known' /\ proc' \in [Pids -> ProcessRecord]
<1>1. /\ proc' \in [Pids -> ProcessRecord]
      /\ \A q \in Pids : q # p => proc'[q] = proc[q]
      /\ proc'[p].pc = x
      /\ x = "dead" => proc'[p] = Ended
      /\ x # "dead" => proc'[p].cmd = proc[p].cmd /\ proc'[p].pid = proc[p].pid
  BY GotoEffect
<1>2. \A q \in Pids : Early(q)' => Early(q) \/ q = p
  BY <1>1 DEF Early
<1>3. Early(p)' => Early(p) /\ x \notin LatePc
  BY <1>1 DEF Early, LatePc
<1>4. \A q \in Pids : Early(q)' => q \notin {lock.by, lock.pid, state.pid}'
  BY <1>2, <1>3, PidsType DEF Known
<1>5. \A q, s \in Pids : Early(q)' => proc'[s].pid # q
  BY <1>1, <1>2, <1>3, EndedType, PidsType DEF Known
<1>6. \A q \in Pids : proc'[q].pc \in {"signal", "wait", "child", "save"} => proc'[q].pid \in Pids \ {q}
  BY <1>1 DEF Known, LatePc
<1>7. \A q \in Pids : Early(q)' /\ proc'[q].pc # "none" => proc'[q].cmd \in Commands
  BY <1>1, <1>2, <1>3 DEF Known, LatePc, Early
<1>8. QED
  BY <1>1, <1>4, <1>5, <1>6, <1>7 DEF Known

LEMMA TypingCheck ==
    ASSUME TypeOK, Known, NEW p \in Pids, Check(p)
    PROVE  TypeParts' /\ Known'
<1> USE PidsType DEF Files, Ghosts, At, TypeParts, Stopped, Running, NoLock, StateFile
<1>1. TypeParts /\ proc[p] \in ProcessRecord /\ \A q \in Pids : proc[q].pid \in 0..MaxProcs
  BY PartsOfType DEF ProcessRecord
<1>2. CASE StatusCheck(p)
  <2>1. proc[p].cmd \in Commands
    BY <1>2 DEF StatusCheck, Known, Early
  <2>2. proc' = [proc EXCEPT ![p] = CheckState(proc[p])] /\ UNCHANGED <<lock, state>>
    BY <1>1, <1>2 DEF StatusCheck
  <2>3. /\ proc' \in [Pids -> ProcessRecord]
        /\ proc'[p] = CheckState(proc[p])
        /\ \A q \in Pids : q # p => proc'[q] = proc[q]
    BY <1>1, <2>1, <2>2, CheckResult
  <2>4. Early(p)
    BY <1>2 DEF StatusCheck, Early
  <2>5. is_process_alive(state.pid) => state.pid \in Pids \ {p}
    BY <2>4 DEF is_process_alive, Known
  <2>6. Known'
    BY <1>1, <2>1, <2>2, <2>3, <2>4, <2>5, CheckResult, EndedType DEF Known, Early
  <2>7. QED
    BY <1>1, <1>2, <2>3, <2>6 DEF StatusCheck
<1>3. CASE CheckLock(p)
  <2>1. Early(p) /\ proc[p].cmd \in Commands
    BY <1>3 DEF CheckLock, Known, Early
  <2>2. is_process_alive(lock.pid) => lock.pid \in Pids \ {p}
    BY <2>1 DEF is_process_alive, Known
  <2>3. UNCHANGED <<lock, stopfile, state, stolen, room, crashes>>
    BY <1>3 DEF CheckLock
  <2>4. Known'
    BY <1>3, <2>1, <2>2, <2>3, LockResult, EndedType DEF Known, Early
  <2>5. QED
    BY <1>1, <1>3, <2>1, <2>3, <2>4, LockResult
<1>4. CASE StatusSave(p)
  <2>1. proc[p].pid \in Pids /\ proc[p].pid # 0
    BY <1>4 DEF StatusSave, Known
  <2>2. Known' /\ proc' \in [Pids -> ProcessRecord]
    BY <1>4, KnownMove DEF StatusSave, LatePc, ProcPc
  <2>3. QED
    BY <1>1, <1>4, <2>1, <2>2 DEF StatusSave
<1>5. CASE Cleanup(p)
  <2>1. Known' /\ proc' \in [Pids -> ProcessRecord]
    BY <1>5, KnownMove DEF Cleanup, Early, ProcPc
  <2>2. QED
    BY <1>1, <1>5, <2>1 DEF Cleanup, Steals
<1>6. CASE CleanupState(p)
  <2>1. proc[p].cmd \in Commands /\ Early(p) /\ proc[p].pc # "none"
    BY <1>6 DEF CleanupState, Known, Early
  <2>2. PICK x \in {"reserve", "restart", "report", "dead"} : Goto(p, x)
    BY <1>6, <2>1, CleanupGoes
  <2>3. state' = Stopped /\ lock' = lock
    BY <1>6 DEF CleanupState
  <2>4. Known' /\ proc' \in [Pids -> ProcessRecord]
    BY <2>1, <2>2, <2>3, KnownMove DEF LatePc, ProcPc
  <2>5. QED
    BY <1>1, <1>6, <2>4 DEF CleanupState
<1>7. CASE CleanupStop(p)
  <2>1. Known' /\ proc' \in [Pids -> ProcessRecord]
    BY <1>7, KnownMove DEF CleanupStop, Early, ProcPc
  <2>2. QED
    BY <1>1, <1>7, <2>1 DEF CleanupStop
<1>8. QED
  BY <1>2, <1>3, <1>4, <1>5, <1>6, <1>7 DEF Check

LEMMA TypingBegin ==
    ASSUME TypeOK, Known, NEW p \in Pids, Begin(p)
    PROVE  TypeParts' /\ Known'
<1> USE PidsType DEF Files, Ghosts, At, TypeParts, Stopped, Running, NoLock, StateFile
<1>1. TypeParts /\ proc[p] \in ProcessRecord /\ \A q \in Pids : proc[q].pid \in 0..MaxProcs
  BY PartsOfType DEF ProcessRecord
<1>2. CASE Reserve(p)
  <2>1. PICK x \in {"write", "dead"} : Goto(p, x)
    BY <1>2 DEF Reserve
  <2>2. Known' /\ proc' \in [Pids -> ProcessRecord]
    BY <1>1, <1>2, <2>1, KnownMove DEF Reserve, LatePc, ProcPc
  <2>3. QED
    BY <1>1, <1>2, <2>2 DEF Reserve
<1>3. CASE ReserveWrite(p)
  <2>1. PICK x \in {"spawn", "own"} : Goto(p, x)
    BY <1>3 DEF ReserveWrite
  <2>2. lock' = lock \/ (lock'.by = lock.by /\ lock'.pid = p /\ lock' \in [by : 0..MaxProcs, pid : 0..MaxProcs])
    BY <1>1, <1>3 DEF ReserveWrite
  <2>3. Known' /\ proc' \in [Pids -> ProcessRecord]
    BY <1>1, <1>3, <2>1, <2>2, KnownMove DEF ReserveWrite, LatePc, ProcPc
  <2>4. QED
    BY <1>1, <1>3, <2>2, <2>3 DEF ReserveWrite
<1>4. CASE StartForeground(p)
  <2>1. Known' /\ proc' \in [Pids -> ProcessRecord]
    BY <1>1, <1>4, KnownMove DEF StartForeground, LatePc, ProcPc
  <2>2. QED
    BY <1>1, <1>4, <2>1 DEF StartForeground
<1>5. CASE StartFails(p) \/ WriteChildPidFails(p)
  <2>1. Goto(p, "dead") /\ lock' = NoLock /\ ~Early(p)
    BY <1>5 DEF StartFails, WriteChildPidFails, Early
  <2>2. Known' /\ proc' \in [Pids -> ProcessRecord]
    <3>1. "dead" \in ProcPc /\ "dead" \in LatePc
      BY DEF LatePc, ProcPc
    <3>2. \A z \in {lock.by, lock.pid, state.pid}' : z \in {lock.by, lock.pid, state.pid, 0, proc[p].pid}
      BY <1>5, <2>1 DEF StartFails, WriteChildPidFails
    <3>3. QED
      BY <2>1, <3>1, <3>2, KnownMove
  <2>3. crashes' \in Nat
    BY <1>1, <1>5 DEF StartFails, WriteChildPidFails
  <2>4. stolen' \in BOOLEAN
    BY <1>1, <1>5, Zenon DEF StartFails, WriteChildPidFails
  <2>5. QED
    BY <1>1, <1>5, <2>1, <2>2, <2>3, <2>4 DEF StartFails, WriteChildPidFails
<1>6. CASE WriteChildPid(p)
  <2>1. Known' /\ proc' \in [Pids -> ProcessRecord]
    BY <1>1, <1>6, KnownMove DEF WriteChildPid, LatePc, ProcPc
  <2>2. QED
    BY <1>1, <1>6, <2>1 DEF WriteChildPid
<1>7. ASSUME NEW c \in Pids, SpawnChild(p, c) PROVE TypeParts' /\ Known'
  <2>1. c # p /\ Early(c) /\ ~Early(p)
    BY <1>7 DEF SpawnChild, Unused, Early
  <2>2. /\ proc' \in [Pids -> ProcessRecord]
        /\ \A q \in Pids \ {p, c} : proc'[q] = proc[q]
        /\ proc'[p].pc = "child" /\ proc'[p].pid = c
        /\ proc'[c].pc = "boot" /\ proc'[c].pid = 0
    BY <1>7, SpawnResult
  <2>3. UNCHANGED <<lock, stopfile, state, stolen, room, crashes>>
    BY <1>7 DEF SpawnChild
  <2>4. Known'
    BY <2>1, <2>2, <2>3 DEF Known, Early
  <2>5. QED
    BY <1>1, <2>2, <2>3, <2>4
<1>8. QED
  BY <1>2, <1>3, <1>4, <1>5, <1>6, <1>7 DEF Begin

LEMMA TypingSupervise ==
    ASSUME TypeOK, Known, NEW p \in Pids, Supervise(p)
    PROVE  TypeParts' /\ Known'
<1> USE PidsType DEF Files, Ghosts, At, TypeParts, Stopped, Running, NoLock, StateFile
<1>1. TypeParts
  BY PartsOfType
<1>2. CASE Boot(p) \/ BeginStop(p) \/ Leave(p)
  <2>1. Known' /\ proc' \in [Pids -> ProcessRecord]
    BY <1>2, KnownMove DEF Boot, BeginStop, Leave, LatePc, ProcPc
  <2>2. QED
    BY <1>1, <1>2, <2>1 DEF Boot, BeginStop, Leave
<1>3. CASE SupervisorFails(p) \/ ClearLock(p)
  <2>1. lock' \in {lock, NoLock}
    BY <1>3 DEF SupervisorFails, ClearLock
  <2>2. Known' /\ proc' \in [Pids -> ProcessRecord]
    BY <1>3, <2>1, KnownMove DEF SupervisorFails, ClearLock, LatePc, ProcPc
  <2>3. QED
    BY <1>1, <1>3, <2>1, <2>2 DEF SupervisorFails, ClearLock
<1>4. CASE Announce(p) \/ Retire(p)
  <2>1. Known' /\ proc' \in [Pids -> ProcessRecord]
    BY <1>4, KnownMove DEF Announce, Retire, LatePc, ProcPc
  <2>2. QED
    <3>1. CASE Announce(p)
      BY <1>1, <3>1, <2>1 DEF Announce
    <3>2. CASE Retire(p)
      BY <1>1, <3>2, <2>1 DEF Retire
    <3>3. QED
      BY <1>4, <3>1, <3>2
<1>5. CASE WorkerEvent(p)
  <2>1. ~Early(p) /\ state' = Running(p) /\ UNCHANGED <<lock, stopfile, proc, stolen, room, crashes>>
    BY <1>5 DEF WorkerEvent, Early
  <2>2. Known'
    BY <2>1 DEF Known, Early
  <2>3. QED
    BY <1>1, <2>1, <2>2
<1>6. QED
  BY <1>2, <1>3, <1>4, <1>5 DEF Supervise

LEMMA TypingStop ==
    ASSUME TypeOK, Known, NEW p \in Pids, Stop(p) \/ Crash(p)
    PROVE  TypeParts' /\ Known'
<1> USE PidsType DEF Files, Ghosts, At, TypeParts
<1>1. TypeParts
  BY PartsOfType
<1>2. CASE signal_stop(p)
  <2>1. Known' /\ proc' \in [Pids -> ProcessRecord]
    BY <1>2, KnownMove DEF signal_stop, ProcPc
  <2>2. QED
    BY <1>1, <1>2, <2>1 DEF signal_stop
<1>3. CASE StopDone(p)
  <2>1. Known' /\ proc' \in [Pids -> ProcessRecord]
    BY <1>3, KnownMove DEF StopDone, Early, ProcPc
  <2>2. QED
    BY <1>1, <1>3, <2>1 DEF StopDone
<1>4. CASE StopTimeout(p)
  <2>1. proc[p].pid \in Pids
    BY <1>4 DEF StopTimeout, Known
  <2>2. Known' /\ proc' \in [Pids -> ProcessRecord]
    BY <1>4, <2>1, KnownMove DEF StopTimeout, LatePc, ProcPc
  <2>3. QED
    BY <1>1, <1>4, <2>2 DEF StopTimeout
<1>5. CASE Report(p) \/ Crash(p)
  <2>1. Known' /\ proc' \in [Pids -> ProcessRecord]
    BY <1>5, KnownMove DEF Report, Crash, LatePc, ProcPc
  <2>2. QED
    BY <1>1, <1>5, <2>1 DEF Report, Crash
<1>6. ASSUME NEW cmd \in {"start", "detach"}, RestartStart(p, cmd) PROVE TypeParts' /\ Known'
  <2>1. Early(p) /\ proc[p].pc # "none" /\ UNCHANGED <<lock, stopfile, state, stolen, room, crashes>>
    BY <1>6 DEF RestartStart, Early
  <2>2. is_process_alive(state.pid) => state.pid \in Pids \ {p}
    BY <2>1 DEF is_process_alive, Known
  <2>3. cmd \in Commands
    BY <1>6 DEF Commands
  <2>4. Known'
    BY <1>6, <2>1, <2>2, <2>3, RestartResult, EndedType DEF Known, Early
  <2>5. QED
    BY <1>1, <1>6, <2>1, <2>4, RestartResult
<1>7. QED
  BY <1>2, <1>3, <1>4, <1>5, <1>6 DEF Stop

\* A command of process p begins: what its record is after the first check.
LEMMA LaunchResult ==
    ASSUME TypeOK, NEW p \in Pids, NEW cmd \in Commands, Launch(p, cmd)
    PROVE  /\ proc' \in [Pids -> ProcessRecord]
           /\ \A q \in Pids : q # p => proc'[q] = proc[q]
           /\ \/ proc'[p] = Ended
              \/ /\ proc'[p].cmd = cmd
                 /\ cmd = "stop" => proc'[p].found = AtWork
                 /\ \/ proc'[p].pc \in {"check", "locked", "suspect"} /\ proc'[p].pid = 0
                    \/ /\ proc'[p].pc \in {"signal", "save"}
                       /\ proc'[p].pid = state.pid /\ is_process_alive(state.pid)
<1> DEFINE r == [Process(cmd, "check") EXCEPT !.found = IF cmd = "stop" THEN AtWork ELSE {}]
<1>1. proc \in [Pids -> ProcessRecord] /\ state \in StateFile
  BY PartsOfType DEF TypeParts
<1>2. r \in ProcessRecord /\ r.cmd = cmd /\ r.pid = 0 /\ r.pc = "check" /\ (cmd = "stop" => r.found = AtWork)
  <2>1. Process(cmd, "check") \in ProcessRecord
    BY ProcessType DEF ProcPc
  <2>2. AtWork \in SUBSET Pids
    BY DEF AtWork
  <2>3. QED
    BY <2>1, <2>2 DEF Process, ProcessRecord
<1>3. CASE cmd = "status"
  <2>1. proc' = [proc EXCEPT ![p] = [r EXCEPT !.read = state]]
    BY <1>3 DEF Launch
  <2> HIDE DEF r
  <2>2. /\ [r EXCEPT !.read = state] \in ProcessRecord
        /\ [r EXCEPT !.read = state].cmd = cmd /\ [r EXCEPT !.read = state].pid = 0
        /\ [r EXCEPT !.read = state].pc = "check"
    BY <1>1, <1>2 DEF ProcessRecord
  <2>3. QED
    BY <1>1, <1>3, <2>1, <2>2
<1>4. CASE cmd # "status"
  <2>1. proc' = [proc EXCEPT ![p] = CheckState(r)]
    BY <1>4 DEF Launch
  <2> HIDE DEF r
  <2>2. QED
    BY <1>1, <1>2, <1>4, <2>1, CheckResult
<1>5. QED
  BY <1>3, <1>4

LEMMA TypingLaunch ==
    ASSUME TypeOK, Known, NEW p \in Pids, NEW cmd \in Commands, Launch(p, cmd)
    PROVE  TypeParts' /\ Known'
<1>1. Early(p) /\ proc[p].pc = "none" /\ UNCHANGED <<lock, stopfile, state, stolen, room, crashes>>
  BY DEF Launch, Unused, Early, Files, Ghosts
<1>2. is_process_alive(state.pid) => state.pid \in Pids \ {p}
  BY <1>1 DEF is_process_alive, Known
<1>3. Known'
  BY <1>1, <1>2, LaunchResult, EndedType, PidsType DEF Known, Early
<1>4. QED
  BY <1>1, <1>3, LaunchResult, PartsOfType DEF TypeParts

LEMMA TypingAlways == Spec => [](TypeOK /\ Known)
<1>1. Init => TypeOK /\ Known
  <2>1. SUFFICES ASSUME Init PROVE TypeParts /\ Known
    BY TypeFromParts
  <2>2. Process("none", "none") \in ProcessRecord
    BY ProcessType DEF ProcPc
  <2>3. room \in 0..MaxProcs /\ crashes \in Nat
    BY <2>1, ConstantsOK DEF Init
  <2>4. TypeParts
    BY <2>1, <2>2, <2>3, PidsType DEF Init, TypeParts, NoLock, Stopped, StateFile
  <2>5. Known
    BY <2>1, PidsType DEF Init, Known, Early, NoLock, Stopped, Process
  <2>6. QED
    BY <2>4, <2>5
<1>2. TypeOK /\ Known /\ [Next]_vars => TypeParts' /\ Known'
  <2>1. SUFFICES ASSUME TypeOK, Known, [Next]_vars PROVE TypeParts' /\ Known'
    OBVIOUS
  <2>2. CASE UNCHANGED vars
    BY <2>1, <2>2, PartsOfType DEF vars, TypeParts, Known, Early
  <2>3. QED
    BY <2>1, <2>2, TypingLaunch, TypingCheck, TypingBegin, TypingSupervise, TypingStop DEF Next
<1>3. QED
  BY <1>1, <1>2, TypeFromParts, PTL DEF Spec

\* Type correctness of the state root: files name only processes that exist, and
\* a stop command never goes after itself.
THEOREM Typing == Spec => []TypeOK
BY TypingAlways, PTL

-----------------------------------------------------------------------------
(***************************************************************************)
(* One supervisor.  From the moment it has created the lock file until it  *)
(* gives up or clears the lock, a process holds the state root, alone, and *)
(* the file stays in place, with a pid in it or about to get one; only     *)
(* someone who removes it under its feet can change that.                  *)
(***************************************************************************)
Holds(p) == proc[p].pc \in {"write", "spawn", "own"} \/ Supervising(p)

OneHolder ==
    ~stolen =>
        /\ \A p, q \in Pids : Holds(p) /\ Holds(q) => p = q
        /\ \A p \in Pids : Holds(p) => lock.pid # 0 \/ (At(p, "write") /\ lock.by = p)

\* p moves and leaves the lock alone: it may go on holding or let go.
LEMMA HolderMoves ==
    ASSUME OneHolder, stolen' = stolen, lock' = lock, NEW p \in Pids,
           \A q \in Pids : q # p => proc'[q].pc = proc[q].pc,
           Holds(p)' => Holds(p) /\ proc[p].pc # "write"
    PROVE  OneHolder'
BY DEF OneHolder, Holds, Supervising, At

LEMMA HolderCheck ==
    ASSUME TypeOK, Known, OneHolder, NEW p \in Pids, Check(p)
    PROVE  OneHolder'
<1> USE DEF Files, Ghosts, At
<1>1. CASE StatusCheck(p)
  <2>1. proc[p] \in ProcessRecord /\ proc[p].cmd \in Commands /\ proc \in [Pids -> ProcessRecord]
    BY <1>1, PartsOfType DEF StatusCheck, Known, Early, TypeParts
  <2>2. proc' = [proc EXCEPT ![p] = CheckState(proc[p])] /\ lock' = lock /\ stolen' = stolen
    BY <1>1, <2>1 DEF StatusCheck
  <2>3. ~Holds(p)' /\ \A q \in Pids : q # p => proc'[q].pc = proc[q].pc
    BY <2>1, <2>2, CheckResult, EndedType DEF Holds, Supervising
  <2>4. QED
    BY <2>2, <2>3, HolderMoves
<1>2. CASE CheckLock(p)
  <2>1. proc[p].cmd \in Commands
    BY <1>2 DEF CheckLock, Known, Early
  <2>2. ~Holds(p)' /\ \A q \in Pids : q # p => proc'[q].pc = proc[q].pc
    BY <1>2, <2>1, LockResult, EndedType DEF Holds, Supervising
  <2>3. lock' = lock /\ stolen' = stolen
    BY <1>2 DEF CheckLock
  <2>4. QED
    BY <2>2, <2>3, HolderMoves
<1>3. CASE StatusSave(p)
  <2>1. ~Holds(p)' /\ \A q \in Pids : q # p => proc'[q].pc = proc[q].pc
    BY <1>3, GotoEffect, EndedType DEF StatusSave, ProcPc, Holds, Supervising
  <2>2. lock' = lock /\ stolen' = stolen
    BY <1>3 DEF StatusSave
  <2>3. QED
    BY <2>1, <2>2, HolderMoves
<1>4. CASE Cleanup(p)
  <2>1. SUFFICES ASSUME ~stolen' PROVE \A q \in Pids : ~Holds(q)'
    BY DEF OneHolder
  <2>2. ~stolen /\ (lock = NoLock \/ \A q \in Pids \ {p} : ~Supervising(q) /\ ~Starting(q))
    BY <1>4, <2>1 DEF Cleanup, Steals
  <2>3. \A q \in Pids \ {p} : ~Holds(q)
    <3>1. CASE lock = NoLock
      BY <2>2, <3>1, PidsType DEF OneHolder, NoLock
    <3>2. CASE \A q \in Pids \ {p} : ~Supervising(q) /\ ~Starting(q)
      BY <3>2 DEF Holds, Starting
    <3>3. QED
      BY <2>2, <3>1, <3>2
  <2>4. proc'[p].pc = "sweep" /\ \A q \in Pids : q # p => proc'[q] = proc[q]
    BY <1>4, GotoEffect DEF Cleanup, ProcPc
  <2>5. QED
    BY <2>3, <2>4 DEF Holds, Supervising
<1>5. CASE CleanupState(p)
  <2>1. proc[p].cmd \in Commands
    BY <1>5 DEF CleanupState, Known, Early
  <2>2. PICK x \in {"reserve", "restart", "report", "dead"} : Goto(p, x)
    BY <1>5, <2>1, CleanupGoes
  <2>3. ~Holds(p)' /\ \A q \in Pids : q # p => proc'[q].pc = proc[q].pc
    BY <2>2, GotoEffect DEF ProcPc, Holds, Supervising
  <2>4. lock' = lock /\ stolen' = stolen
    BY <1>5 DEF CleanupState
  <2>5. QED
    BY <2>3, <2>4, HolderMoves
<1>6. CASE CleanupStop(p)
  <2>1. ~Holds(p)' /\ \A q \in Pids : q # p => proc'[q].pc = proc[q].pc
    BY <1>6, GotoEffect DEF CleanupStop, ProcPc, Holds, Supervising
  <2>2. lock' = lock /\ stolen' = stolen
    BY <1>6 DEF CleanupStop
  <2>3. QED
    BY <2>1, <2>2, HolderMoves
<1>7. QED
  BY <1>1, <1>2, <1>3, <1>4, <1>5, <1>6 DEF Check

LEMMA HolderBegin ==
    ASSUME TypeOK, Known, OneHolder, NEW p \in Pids, Begin(p)
    PROVE  OneHolder'
<1> USE PidsType DEF Ghosts, At, ProcPc
<1>1. CASE Reserve(p)
  <2>1. CASE lock = NoLock
    <3>1. lock' = [by |-> p, pid |-> 0] /\ Goto(p, "write") /\ stolen' = stolen
      BY <1>1, <2>1 DEF Reserve
    <3>2. ~stolen => \A q \in Pids : ~Holds(q)
      BY <2>1 DEF OneHolder, NoLock
    <3>3. proc'[p].pc = "write" /\ \A q \in Pids : q # p => proc'[q] = proc[q]
      BY <3>1, GotoEffect
    <3>4. QED
      BY <3>1, <3>2, <3>3 DEF OneHolder, Holds, Supervising
  <2>2. CASE lock # NoLock
    <3>1. lock' = lock /\ Goto(p, "dead") /\ stolen' = stolen
      BY <1>1, <2>2 DEF Reserve
    <3>2. ~Holds(p)' /\ \A q \in Pids : q # p => proc'[q].pc = proc[q].pc
      BY <3>1, GotoEffect DEF Holds, Supervising
    <3>3. QED
      BY <3>1, <3>2, HolderMoves
  <2>3. QED
    BY <2>1, <2>2
<1>2. CASE ReserveWrite(p)
  <2>1. PICK x \in {"spawn", "own"} : Goto(p, x)
    BY <1>2 DEF ReserveWrite
  <2>2. proc'[p].pc = x /\ \A q \in Pids : q # p => proc'[q] = proc[q]
    BY <2>1, GotoEffect
  <2>3. /\ lock.by = p => lock'.pid = p
        /\ lock.by # p => lock' = lock
        /\ stolen' = stolen
    BY <1>2, PartsOfType DEF ReserveWrite, TypeParts
  <2>4. Holds(p)
    BY <1>2 DEF ReserveWrite, Holds
  <2>5. QED
    BY <1>2, <2>2, <2>3, <2>4 DEF OneHolder, Holds, Supervising
<1>3. CASE StartForeground(p)
  <2>1. proc'[p].pc = "boot" /\ \A q \in Pids : q # p => proc'[q] = proc[q]
    BY <1>3, GotoEffect DEF StartForeground
  <2>2. lock'.pid = p /\ stolen' = stolen /\ Holds(p)
    BY <1>3 DEF StartForeground, Holds
  <2>3. QED
    BY <2>1, <2>2 DEF OneHolder, Holds, Supervising
<1>4. CASE StartFails(p)
  <2>1. proc'[p].pc = "dead" /\ \A q \in Pids : q # p => proc'[q] = proc[q]
    BY <1>4, GotoEffect DEF StartFails
  <2>2. stolen' = stolen /\ Holds(p)
    BY <1>4 DEF StartFails, Holds
  <2>3. QED
    BY <2>1, <2>2 DEF OneHolder, Holds, Supervising
<1>5. CASE WriteChildPid(p)
  <2>1. proc'[p].pc = "dead" /\ \A q \in Pids : q # p => proc'[q] = proc[q]
    BY <1>5, GotoEffect DEF WriteChildPid
  <2>2. stolen' = stolen /\ lock'.pid # 0
    BY <1>5 DEF WriteChildPid, Known
  <2>3. QED
    BY <2>1, <2>2 DEF OneHolder, Holds, Supervising
<1>6. ASSUME NEW c \in Pids, SpawnChild(p, c) PROVE OneHolder'
  <2>1. c # p /\ proc[c].pc = "none" /\ Holds(p) /\ proc[p].pc = "spawn" /\ lock' = lock /\ stolen' = stolen
    BY <1>6 DEF SpawnChild, Unused, Holds, Files
  <2>2. /\ proc'[p].pc = "child" /\ proc'[c].pc = "boot"
        /\ \A q \in Pids \ {p, c} : proc'[q] = proc[q]
    BY <1>6, <2>1, SpawnResult
  <2>3. QED
    BY <2>1, <2>2 DEF OneHolder, Holds, Supervising
<1>7. CASE WriteChildPidFails(p)
  <2>1. SUFFICES ASSUME ~stolen' PROVE \A q \in Pids : ~Holds(q)'
    BY DEF OneHolder
  <2>2. ~stolen /\ (lock = NoLock \/ \A q \in Pids \ {p} : ~Supervising(q) /\ ~Starting(q))
    BY <1>7, <2>1 DEF WriteChildPidFails, Steals
  <2>3. \A q \in Pids \ {p} : ~Holds(q)
    <3>1. CASE lock = NoLock
      BY <2>2, <3>1 DEF OneHolder, NoLock
    <3>2. CASE \A q \in Pids \ {p} : ~Supervising(q) /\ ~Starting(q)
      BY <3>2 DEF Holds, Starting
    <3>3. QED
      BY <2>2, <3>1, <3>2
  <2>4. proc'[p].pc = "dead" /\ \A q \in Pids : q # p => proc'[q] = proc[q]
    BY <1>7, GotoEffect DEF WriteChildPidFails
  <2>5. QED
    BY <2>3, <2>4 DEF Holds, Supervising
<1>8. QED
  BY <1>1, <1>2, <1>3, <1>4, <1>5, <1>6, <1>7 DEF Begin

LEMMA HolderSupervise ==
    ASSUME TypeOK, OneHolder, NEW p \in Pids, Supervise(p)
    PROVE  OneHolder'
<1> USE DEF Ghosts, Files, At, ProcPc
<1>1. CASE Boot(p) \/ Announce(p) \/ BeginStop(p) \/ Retire(p) \/ Leave(p)
  <2>1. lock' = lock /\ stolen' = stolen
    BY <1>1 DEF Boot, Announce, BeginStop, Retire, Leave
  <2>2. PICK x \in {"announce", "run", "join", "retire", "dead"} :
            Goto(p, x) /\ (x # "dead" => Supervising(p))
    BY <1>1 DEF Boot, Announce, BeginStop, Retire, Leave, Supervising
  <2>3. proc'[p].pc = x /\ \A q \in Pids : q # p => proc'[q].pc = proc[q].pc
    BY <2>2, GotoEffect
  <2>4. Holds(p)' => Holds(p) /\ proc[p].pc # "write"
    BY <2>2, <2>3 DEF Holds, Supervising
  <2>5. QED
    BY <2>1, <2>3, <2>4, HolderMoves
<1>2. CASE SupervisorFails(p) \/ ClearLock(p)
  <2>1. Holds(p) /\ stolen' = stolen
    BY <1>2 DEF SupervisorFails, ClearLock, Holds, Supervising
  <2>2. PICK x \in {"dead", "unlock"} : Goto(p, x)
    BY <1>2 DEF SupervisorFails, ClearLock
  <2>3. proc'[p].pc = x /\ \A q \in Pids : q # p => proc'[q] = proc[q]
    BY <2>2, GotoEffect
  <2>4. QED
    BY <2>1, <2>3 DEF OneHolder, Holds, Supervising
<1>3. CASE WorkerEvent(p)
  BY <1>3 DEF WorkerEvent, OneHolder, Holds, Supervising
<1>4. QED
  BY <1>1, <1>2, <1>3 DEF Supervise

LEMMA HolderStop ==
    ASSUME TypeOK, Known, OneHolder, NEW p \in Pids, Stop(p) \/ Crash(p)
    PROVE  OneHolder'
<1> USE DEF Ghosts, Files, At, ProcPc
<1>1. lock' = lock /\ stolen' = stolen
  BY DEF Stop, signal_stop, StopDone, StopTimeout, Report, RestartStart, Crash
<1>2. ASSUME NEW q \in Pids, NEW x \in {"wait", "cleanup", "dead"}, Goto(q, x) PROVE OneHolder'
  <2>1. ~Holds(q)' /\ \A s \in Pids : s # q => proc'[s].pc = proc[s].pc
    BY <1>2, GotoEffect DEF Holds, Supervising
  <2>2. QED
    BY <1>1, <2>1, HolderMoves
<1>3. CASE signal_stop(p) \/ StopDone(p) \/ Report(p) \/ Crash(p)
  BY <1>2, <1>3 DEF signal_stop, StopDone, Report, Crash
<1>4. CASE StopTimeout(p)
  <2>1. proc[p].pid \in Pids
    BY <1>4 DEF StopTimeout, Known
  <2>2. QED
    BY <1>2, <1>4, <2>1 DEF StopTimeout
<1>5. ASSUME NEW cmd \in {"start", "detach"}, RestartStart(p, cmd) PROVE OneHolder'
  <2>1. ~Holds(p)' /\ \A q \in Pids : q # p => proc'[q].pc = proc[q].pc
    BY <1>5, RestartResult, EndedType DEF Holds, Supervising
  <2>2. QED
    BY <1>1, <2>1, HolderMoves
<1>6. QED
  BY <1>3, <1>4, <1>5 DEF Stop

LEMMA HolderLaunch ==
    ASSUME TypeOK, OneHolder, NEW p \in Pids, NEW cmd \in Commands, Launch(p, cmd)
    PROVE  OneHolder'
<1>1. lock' = lock /\ stolen' = stolen
  BY DEF Launch, Files, Ghosts
<1>2. ~Holds(p)' /\ \A q \in Pids : q # p => proc'[q].pc = proc[q].pc
  BY LaunchResult, EndedType DEF Holds, Supervising
<1>3. QED
  BY <1>1, <1>2, HolderMoves

LEMMA OneHolderAlways == Spec => []OneHolder
<1>1. Init => OneHolder
  BY DEF Init, OneHolder, Holds, Supervising, Process
<1>2. TypeOK /\ Known /\ OneHolder /\ [Next]_vars => OneHolder'
  <2>1. SUFFICES ASSUME TypeOK, Known, OneHolder, [Next]_vars PROVE OneHolder'
    OBVIOUS
  <2>2. CASE UNCHANGED vars
    BY <2>1, <2>2 DEF vars, OneHolder, Holds, Supervising, At
  <2>3. QED
    BY <2>1, <2>2, HolderLaunch, HolderCheck, HolderBegin, HolderSupervise, HolderStop DEF Next
<1>3. QED
  BY <1>1, <1>2, TypingAlways, PTL DEF Spec

\* reserve_start_lock and the ownership check admit one supervisor per state
\* root: two can exist only after the lock of a live starter or supervisor was removed,
\* by cleanup_stale_supervisor or by a launcher that could not write the pid of the child
\* it had started, whatever else crashed or failed.
THEOREM SupervisorsAreSingle == Spec => []TwoSupervisorsHasCause
<1>1. OneHolder => TwoSupervisorsHasCause
  <2> DEFINE S == {p \in Pids : Supervising(p)}
  <2>1. SUFFICES ASSUME OneHolder, ~stolen, Cardinality(S) > 1 PROVE FALSE
    BY DEF TwoSupervisorsHasCause
  <2>2. \A p, q \in S : p = q
    BY <2>1 DEF OneHolder, Holds
  <2>3. CASE S = {}
    BY <2>1, <2>3, FS_EmptySet
  <2>4. CASE S # {}
    <3>1. PICK p : S = {p}
      BY <2>2, <2>4
    <3>2. Cardinality(S) = 1
      BY <3>1, FS_Singleton
    <3>3. QED
      BY <2>1, <3>2
  <2>5. QED
    BY <2>3, <2>4
<1>2. QED
  BY <1>1, OneHolderAlways, PTL

-----------------------------------------------------------------------------
(***************************************************************************)
(* stop stops.  A supervisor found at work only goes downhill.  A stop     *)
(* command reports through a cleanup, which finds no supervisor unless it  *)
(* steals a lock, or through the check of a lock without a pid, which no   *)
(* supervisor leaves behind.                                               *)
(***************************************************************************)
PastRun == {"run", "join", "retire", "unlock", "dead"}

Stopping ==
    \A p \in Pids : proc[p].cmd = "stop" =>
        /\ \A q \in proc[p].found : proc[q].pc \in PastRun
        /\ proc[p].pc \in {"sweep", "clean", "report"} => \A q \in proc[p].found : Supervising(q) => stolen

\* p moves: downhill if it is past its start, and not to a report except from
\* the cleanup.
LEMMA StoppingMove ==
    ASSUME TypeOK, Stopping, stolen => stolen', NEW p \in Pids, NEW x \in ProcPc, Goto(p, x),
           x \in {"sweep", "clean", "report"} => proc[p].pc \in {"sweep", "clean"},
           proc[p].pc \in PastRun => x \in PastRun /\ (x \in {"run", "join", "retire"} => Supervising(p))
    PROVE  Stopping'
<1>1. /\ \A q \in Pids : q # p => proc'[q] = proc[q]
      /\ proc'[p].pc = x
      /\ x = "dead" => proc'[p].cmd = "none"
      /\ x # "dead" => proc'[p].cmd = proc[p].cmd /\ proc'[p].found = proc[p].found
  BY GotoEffect, EndedType
<1>2. \A q \in Pids : proc[q].found \subseteq Pids
  BY DEF TypeOK
<1>3. \A q \in Pids : proc[q].pc \in PastRun =>
          proc'[q].pc \in PastRun /\ (Supervising(q)' => Supervising(q))
  BY <1>1 DEF PastRun, Supervising
<1>4. \A q \in Pids : proc'[q].cmd = "stop" =>
          /\ proc[q].cmd = "stop" /\ proc'[q].found = proc[q].found
          /\ proc'[q].pc \in {"sweep", "clean", "report"} => proc[q].pc \in {"sweep", "clean", "report"}
  BY <1>1
<1>5. QED
  BY <1>2, <1>3, <1>4 DEF Stopping

\* p is replaced by a command that is being checked, or ends.
LEMMA StoppingCheck ==
    ASSUME TypeOK, Stopping, stolen' = stolen, NEW p \in Pids,
           \A q \in Pids : q # p => proc'[q] = proc[q],
           proc[p].pc \notin PastRun,
           \/ proc'[p].cmd # "stop"
           \/ /\ proc'[p].pc \notin {"sweep", "clean", "report"}
              /\ \/ proc'[p].found = AtWork
                 \/ proc[p].cmd = "stop" /\ proc'[p].found = proc[p].found
    PROVE  Stopping'
<1>1. \A q \in Pids : proc[q].pc \in PastRun => proc'[q] = proc[q]
  OBVIOUS
<1>2. \A q \in Pids : proc[q].found \subseteq Pids
  BY DEF TypeOK
<1>3. \A q \in AtWork : q \in Pids /\ proc[q].pc \in PastRun
  BY DEF AtWork, PastRun
<1>4. \A q \in Pids : proc'[q].cmd = "stop" => \A s \in proc'[q].found : s \in Pids /\ proc[s].pc \in PastRun
  BY <1>2, <1>3 DEF Stopping
<1>5. \A q \in Pids : proc'[q].cmd = "stop" /\ proc'[q].pc \in {"sweep", "clean", "report"} => q # p
  OBVIOUS
<1>6. QED
  BY <1>1, <1>4, <1>5 DEF Stopping, Supervising

LEMMA StoppingStep ==
    ASSUME TypeOK, Known, OneHolder, Stopping, NEW p \in Pids,
           Check(p) \/ Begin(p) \/ Supervise(p) \/ Stop(p) \/ Crash(p)
    PROVE  Stopping'
<1> USE DEF Ghosts, Files, At, ProcPc, PastRun, Supervising
<1>1. CASE StatusCheck(p)
  <2>1. proc[p] \in ProcessRecord /\ proc[p].cmd \in Commands /\ proc \in [Pids -> ProcessRecord]
    BY <1>1, PartsOfType DEF StatusCheck, Known, Early, TypeParts
  <2>2. proc' = [proc EXCEPT ![p] = CheckState(proc[p])] /\ stolen' = stolen
    BY <1>1, <2>1 DEF StatusCheck
  <2>3. /\ \A q \in Pids : q # p => proc'[q] = proc[q]
        /\ \/ proc'[p].cmd # "stop"
           \/ /\ proc'[p].pc \notin {"sweep", "clean", "report"}
              /\ proc[p].cmd = "stop" /\ proc'[p].found = proc[p].found
    BY <2>1, <2>2, CheckResult, EndedType
  <2>4. QED
    BY <1>1, <2>2, <2>3, StoppingCheck DEF StatusCheck
<1>2. CASE CheckLock(p)
  <2>1. proc[p].cmd \in Commands /\ stolen' = stolen /\ proc[p].pc \in {"locked", "suspect"}
    BY <1>2 DEF CheckLock, Known, Early
  <2>2. CASE proc'[p].pc # "report"
    <3>1. /\ \A q \in Pids : q # p => proc'[q] = proc[q]
          /\ \/ proc'[p].cmd # "stop"
             \/ /\ proc'[p].pc \notin {"sweep", "clean", "report"}
                /\ proc[p].cmd = "stop" /\ proc'[p].found = proc[p].found
      BY <1>2, <2>1, <2>2, LockResult, EndedType
    <3>2. QED
      BY <2>1, <3>1, StoppingCheck
  <2>3. CASE proc'[p].pc = "report"
    <3>1. /\ \A q \in Pids : q # p => proc'[q] = proc[q]
          /\ lock.pid = 0 /\ proc'[p].cmd = proc[p].cmd /\ proc'[p].found = proc[p].found
      BY <1>2, <2>1, <2>3, LockResult, EndedType
    <3>2. \A q \in Pids : Supervising(q) => stolen
      BY <3>1 DEF OneHolder, Holds
    <3>3. \A q \in Pids : proc[q].found \subseteq Pids
      BY DEF TypeOK
    <3>4. QED
      BY <2>1, <2>3, <3>1, <3>2, <3>3 DEF Stopping
  <2>4. QED
    BY <2>2, <2>3
<1>3. CASE Cleanup(p)
  <2>1. /\ \A q \in Pids : q # p => proc'[q] = proc[q]
        /\ proc'[p].pc = "sweep" /\ proc'[p].cmd = proc[p].cmd /\ proc'[p].found = proc[p].found
    BY <1>3, GotoEffect DEF Cleanup
  <2>2. stolen => stolen'
    BY <1>3 DEF Cleanup
  <2>3. \A q \in Pids \ {p} : Supervising(q) => stolen'
    <3>1. CASE lock = NoLock
      BY <2>2, <3>1, PidsType DEF OneHolder, Holds, NoLock
    <3>2. CASE lock # NoLock
      BY <1>3, <3>2 DEF Cleanup, Steals
    <3>3. QED
      BY <3>1, <3>2
  <2>4. \A q \in Pids : proc[q].found \subseteq Pids
    BY DEF TypeOK
  <2>5. proc[p].pc = "cleanup"
    BY <1>3 DEF Cleanup
  <2>6. QED
    BY <2>1, <2>2, <2>3, <2>4, <2>5 DEF Stopping
<1>4. CASE CleanupState(p)
  <2>1. proc[p].cmd \in Commands
    BY <1>4 DEF CleanupState, Known, Early
  <2>2. PICK x \in {"reserve", "restart", "report", "dead"} : Goto(p, x)
    BY <1>4, <2>1, CleanupGoes
  <2>3. QED
    BY <1>4, <2>2, StoppingMove DEF CleanupState
<1>5. CASE StatusSave(p)
  BY <1>5, StoppingMove DEF StatusSave
<1>6. CASE Reserve(p) \/ ReserveWrite(p)
  <2>1. PICK x \in {"write", "dead", "spawn", "own"} : Goto(p, x)
    BY <1>6 DEF Reserve, ReserveWrite
  <2>2. stolen' = stolen /\ proc[p].pc \notin PastRun
    BY <1>6 DEF Reserve, ReserveWrite
  <2>3. QED
    BY <2>1, <2>2, StoppingMove
<1>7. CASE StartForeground(p) \/ StartFails(p) \/ WriteChildPid(p) \/ WriteChildPidFails(p)
  <2>1. PICK x \in {"boot", "dead"} : Goto(p, x)
    BY <1>7 DEF StartForeground, StartFails, WriteChildPid, WriteChildPidFails
  <2>2. proc[p].pc \notin PastRun
    BY <1>7 DEF StartForeground, StartFails, WriteChildPid, WriteChildPidFails, PastRun
  <2>3. stolen => stolen'
    BY <1>7 DEF StartForeground, StartFails, WriteChildPid, WriteChildPidFails
  <2>4. x \in ProcPc /\ x \notin {"sweep", "clean", "report"}
    BY <2>1 DEF ProcPc
  <2>5. QED
    BY <2>1, <2>2, <2>3, <2>4, StoppingMove
<1>8. ASSUME NEW c \in Pids, SpawnChild(p, c) PROVE Stopping'
  <2>1. c # p /\ proc[c].pc = "none" /\ proc[p].pc = "spawn" /\ stolen' = stolen
    BY <1>8 DEF SpawnChild, Unused
  <2>2. /\ \A q \in Pids \ {p, c} : proc'[q] = proc[q]
        /\ proc'[p].pc = "child" /\ proc'[p].cmd = proc[p].cmd /\ proc'[p].found = proc[p].found
        /\ proc'[c].cmd = "supervisor"
    BY <1>8, SpawnResult
  <2>3. \A q \in Pids : proc[q].found \subseteq Pids
    BY DEF TypeOK
  <2>4. QED
    BY <2>1, <2>2, <2>3 DEF Stopping
<1>9. CASE Boot(p) \/ SupervisorFails(p) \/ Announce(p) \/ BeginStop(p)
  BY <1>9, StoppingMove DEF Boot, SupervisorFails, Announce, BeginStop
<1>10. CASE Retire(p) \/ ClearLock(p) \/ Leave(p)
  BY <1>10, StoppingMove DEF Retire, ClearLock, Leave
<1>11. CASE WorkerEvent(p)
  BY <1>11 DEF WorkerEvent, Stopping
<1>12. CASE signal_stop(p) \/ StopDone(p) \/ Report(p) \/ Crash(p)
  BY <1>12, StoppingMove DEF signal_stop, StopDone, Report, Crash
<1>13. CASE StopTimeout(p)
  <2>1. proc[p].pid \in Pids
    BY <1>13 DEF StopTimeout, Known
  <2>2. QED
    BY <1>13, <2>1, StoppingMove DEF StopTimeout
<1>14. ASSUME NEW cmd \in {"start", "detach"}, RestartStart(p, cmd) PROVE Stopping'
  <2>1. proc'[p].cmd # "stop" /\ \A q \in Pids : q # p => proc'[q] = proc[q]
    BY <1>14, RestartResult, EndedType
  <2>2. QED
    BY <1>14, <2>1, StoppingCheck DEF RestartStart
<1>15. CASE CleanupStop(p)
  BY <1>15, StoppingMove DEF CleanupStop
<1>16. QED
  BY <1>1, <1>2, <1>3, <1>4, <1>5, <1>6, <1>7, <1>8, <1>9, <1>10, <1>11, <1>12, <1>13, <1>14, <1>15
     DEF Check, Begin, Supervise, Stop

LEMMA StoppingLaunch ==
    ASSUME TypeOK, Stopping, NEW p \in Pids, NEW cmd \in Commands, Launch(p, cmd)
    PROVE  Stopping'
<1>1. stolen' = stolen /\ proc[p].pc \notin PastRun
  BY DEF Launch, Unused, Ghosts, PastRun
<1>2. /\ \A q \in Pids : q # p => proc'[q] = proc[q]
      /\ \/ proc'[p].cmd # "stop"
         \/ proc'[p].pc \notin {"sweep", "clean", "report"} /\ proc'[p].found = AtWork
  BY LaunchResult, EndedType
<1>3. QED
  BY <1>1, <1>2, StoppingCheck

\* stop_active_supervisor: when stop reports the daemon stopped, no supervisor
\* that was at work when it began still is, unless a lock had been stolen.
THEOREM StopIsEffective == Spec => []StopStops
<1>1. Init => Stopping
  BY DEF Init, Stopping, Process
<1>2. TypeOK /\ Known /\ OneHolder /\ Stopping /\ [Next]_vars => Stopping'
  <2>1. SUFFICES ASSUME TypeOK, Known, OneHolder, Stopping, [Next]_vars PROVE Stopping'
    OBVIOUS
  <2>2. CASE UNCHANGED vars
    BY <2>1, <2>2 DEF vars, Stopping, Supervising
  <2>3. QED
    BY <2>1, <2>2, StoppingLaunch, StoppingStep DEF Next
<1>3. Stopping => StopStops
  BY DEF Stopping, StopStops, At
<1>4. QED
  BY <1>1, <1>2, <1>3, TypingAlways, OneHolderAlways, PTL DEF Spec
=============================================================================
