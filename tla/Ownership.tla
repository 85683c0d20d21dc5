------------------------------ MODULE Ownership ------------------------------
(***************************************************************************)
(* Who owns the daemon's state root: the lock file, the stop file and the  *)
(* supervisor state file, and the processes that read and write them       *)
(* (runtime/ownership_lock.rs, runtime/supervisor.rs and the start, stop,  *)
(* restart and status commands of app/command_handlers/daemon.rs).         *)
(*                                                                         *)
(* A process is a number, its pid; pids are not reused.  Every read or     *)
(* write of a file is a step of its own.                                   *)
(***************************************************************************)
EXTENDS Naturals, FiniteSets

CONSTANTS
    MaxProcs,  \* bound on processes ever started
    Budgets    \* how many processes there may be, and how many may die or fail

ASSUME ConstantsOK == MaxProcs \in Nat /\ Budgets \subseteq (0..MaxProcs) \X Nat

VARIABLES
    lock,     \* the lock file: who created it, and the pid in it (0: none yet)
    stopfile, \* is the stop file there?
    state,    \* the state file: running, and a pid or 0
    proc,     \* [pid -> the process]
    stolen,   \* history: was the lock removed under a live starter or supervisor?
    room,     \* the greatest pid there may be
    crashes   \* how many processes may still die or fail on their own

vars == <<lock, stopfile, state, proc, stolen, room, crashes>>

Pids    == 1..MaxProcs
NoLock  == [by |-> 0, pid |-> 0]
Stopped == [running |-> FALSE, pid |-> 0]
Running(p) == [running |-> TRUE, pid |-> p]

\* A process: the command it runs, its next step, the state file as it read it,
\* the pid it goes after, and (history) the supervisors it found at work.
Commands == {"start", "detach", "stop", "restart", "status"}
ProcPc   == {"none", "dead", "check", "locked", "suspect", "save", "cleanup", "sweep", "clean", "signal",
             "wait", "report", "restart", "reserve", "write", "spawn", "own", "child", "boot",
             "announce", "run", "join", "retire", "unlock"}
StateFile == [running : BOOLEAN, pid : 0..MaxProcs]
Process(cmd, pc) == [cmd |-> cmd, pc |-> pc, read |-> Stopped, pid |-> 0, found |-> {}]

Dead(p)  == proc[p].pc \in {"none", "dead"}
is_process_alive(p) == p \in Pids /\ ~ Dead(p)

Supervising(p) == proc[p].pc \in {"boot", "announce", "run", "join", "retire"}
Starting(p)    == proc[p].pc \in {"write", "spawn", "own", "child"}
AtWork         == {p \in Pids : proc[p].pc = "run"}

Ended == Process("none", "dead")
Goto(p, pc) == proc' = [proc EXCEPT ![p] = IF pc = "dead" THEN Ended ELSE [@ EXCEPT !.pc = pc]]
At(p, pc)   == proc[p].pc = pc
Files       == <<lock, stopfile, state>>
Ghosts      == <<stolen, room, crashes>>

Unused(p) == p <= room /\ proc[p].pc = "none" /\ \A q \in 1..(p - 1) : proc[q].pc /= "none"

-----------------------------------------------------------------------------
(* Commands: the ownership check                                           *)

\* What process r does with the outcome of supervisor_ownership_state.
OnRunning(r, pid) ==
    CASE r.cmd \in {"start", "detach"} -> Ended
      [] r.cmd \in {"stop", "restart"} -> [r EXCEPT !.pc = "signal", !.pid = pid]
      [] r.cmd = "status" -> IF r.read = Running(pid) THEN Ended ELSE [r EXCEPT !.pc = "save", !.pid = pid]

OnNotRunning(r) ==
    CASE r.cmd \in {"start", "detach"} -> [r EXCEPT !.pc = "reserve"]
      [] r.cmd = "restart" -> [r EXCEPT !.pc = "restart"]
      [] r.cmd = "stop" -> [r EXCEPT !.pc = "report"]
      [] r.cmd = "status" -> IF r.read /= Stopped THEN [r EXCEPT !.pc = "cleanup"] ELSE Ended

\* supervisor_ownership_state, first half: the state file.
CheckState(r) ==
    IF state.running /\ is_process_alive(state.pid) THEN OnRunning(r, state.pid)
    ELSE [r EXCEPT !.pc = IF state = Stopped THEN "locked" ELSE "suspect"]

\* A command begins with the check; status has read the state file before.
Launch(p, cmd) ==
    /\ Unused(p) /\ cmd \in Commands
    /\ LET r == [Process(cmd, "check") EXCEPT !.found = IF cmd = "stop" THEN AtWork ELSE {}]
       IN  proc' = [proc EXCEPT ![p] = IF cmd = "status" THEN [r EXCEPT !.read = state] ELSE CheckState(r)]
    /\ UNCHANGED <<Files, Ghosts>>

StatusCheck(p) ==
    /\ At(p, "check")
    /\ proc' = [proc EXCEPT ![p] = CheckState(@)]
    /\ UNCHANGED <<Files, Ghosts>>

\* Second half: the lock file.  A lock without a pid counts as no lock.
CheckLock(p) ==
    /\ proc[p].pc \in {"locked", "suspect"}
    /\ proc' = [proc EXCEPT ![p] =
          IF is_process_alive(lock.pid) THEN OnRunning(@, lock.pid)
          ELSE IF lock.pid /= 0 \/ @.pc = "suspect" THEN [@ EXCEPT !.pc = "cleanup"]
          ELSE OnNotRunning(@)]
    /\ UNCHANGED <<Files, Ghosts>>

\* status puts the running pid into the state it read earlier.
StatusSave(p) ==
    /\ At(p, "save")
    /\ state' = Running(proc[p].pid)
    /\ Goto(p, "dead")
    /\ UNCHANGED <<lock, stopfile, Ghosts>>

\* The lock, if it is there, is removed by process p under a live starter or supervisor.
Steals(p) == lock /= NoLock /\ \E q \in Pids \ {p} : Supervising(q) \/ Starting(q)

\* cleanup_stale_supervisor: the lock, the stop file, then the state file.
Cleanup(p) ==
    /\ At(p, "cleanup")
    /\ stolen' = (stolen \/ Steals(p))
    /\ lock' = NoLock
    /\ Goto(p, "sweep")
    /\ UNCHANGED <<stopfile, state, room, crashes>>

CleanupStop(p) ==
    /\ At(p, "sweep")
    /\ stopfile' = FALSE
    /\ Goto(p, "clean")
    /\ UNCHANGED <<lock, state, Ghosts>>

CleanupState(p) ==
    /\ At(p, "clean")
    /\ state' = Stopped
    /\ Goto(p, CASE proc[p].cmd \in {"start", "detach"} -> "reserve"
                 [] proc[p].cmd = "restart" -> "restart"
                 [] proc[p].cmd = "stop" -> "report"
                 [] proc[p].cmd = "status" -> "dead")
    /\ UNCHANGED <<lock, stopfile, Ghosts>>

-----------------------------------------------------------------------------
(* start                                                                   *)

\* Mutant of Reserve: the file is opened whether or not it exists.
ReserveShared(p) ==
    /\ At(p, "reserve")
    /\ lock' = [by |-> p, pid |-> 0] /\ Goto(p, "write")
    /\ UNCHANGED <<stopfile, state, Ghosts>>

\* reserve_start_lock: create_new fails when the file exists.  A write that fails
\* afterwards leaves the file empty, as a crash there does.
Reserve(p) ==
    /\ At(p, "reserve")
    /\ IF lock = NoLock
       THEN lock' = [by |-> p, pid |-> 0] /\ Goto(p, "write")
       ELSE UNCHANGED lock /\ Goto(p, "dead")
    /\ UNCHANGED <<stopfile, state, Ghosts>>

\* ... then the starter's own pid is written into the file it created, if that
\* file still has its name.
ReserveWrite(p) ==
    /\ At(p, "write")
    /\ lock' = IF lock.by = p THEN [lock EXCEPT !.pid = p] ELSE lock
    /\ Goto(p, IF proc[p].cmd = "detach" THEN "spawn" ELSE "own")
    /\ UNCHANGED <<stopfile, state, Ghosts>>

\* cmd_start_foreground: the lock is replaced, then this process supervises.
StartForeground(p) ==
    /\ At(p, "own")
    /\ lock' = [by |-> p, pid |-> p]
    /\ Goto(p, "boot")
    /\ UNCHANGED <<stopfile, state, Ghosts>>

\* The pid could not be written, or no child was spawned: the lock is given up.
StartFails(p) ==
    /\ proc[p].pc \in {"own", "spawn"} /\ crashes > 0
    /\ lock' = NoLock /\ crashes' = crashes - 1 /\ UNCHANGED room
    /\ Goto(p, "dead")
    /\ UNCHANGED <<stopfile, state, stolen>>

\* cmd_start_detached: a child is spawned, then its pid replaces the lock.
SpawnChild(p, c) ==
    /\ At(p, "spawn") /\ Unused(c)
    /\ proc' = [proc EXCEPT ![c] = Process("supervisor", "boot"), ![p].pc = "child", ![p].pid = c]
    /\ UNCHANGED <<Files, Ghosts>>

WriteChildPid(p) ==
    /\ At(p, "child")
    /\ lock' = [by |-> p, pid |-> proc[p].pid]
    /\ Goto(p, "dead")
    /\ UNCHANGED <<stopfile, state, Ghosts>>

\* The child's pid could not be written: the same error path gives the lock up
\* while the child boots on.
WriteChildPidFails(p) ==
    /\ At(p, "child") /\ crashes > 0
    /\ stolen' = (stolen \/ Steals(p))
    /\ lock' = NoLock /\ crashes' = crashes - 1 /\ UNCHANGED room
    /\ Goto(p, "dead")
    /\ UNCHANGED <<stopfile, state>>

-----------------------------------------------------------------------------
(* The supervisor: run_supervisor                                          *)

\* Local model, mounts, then the stop file of an earlier life is removed.
Boot(p) ==
    /\ At(p, "boot")
    /\ stopfile' = FALSE
    /\ Goto(p, "announce")
    /\ UNCHANGED <<lock, state, Ghosts>>

\* A startup that fails, or a state file that cannot be written: only a foreground
\* start clears the lock.
SupervisorFails(p) ==
    /\ proc[p].pc \in {"boot", "announce", "join"} /\ crashes > 0
    /\ lock' = IF proc[p].cmd = "supervisor" THEN lock ELSE NoLock
    /\ crashes' = crashes - 1 /\ UNCHANGED room
    /\ Goto(p, "dead")
    /\ UNCHANGED <<stopfile, state, stolen>>

Announce(p) ==
    /\ At(p, "announce")
    /\ state' = Running(p)
    /\ Goto(p, "run")
    /\ UNCHANGED <<lock, stopfile, Ghosts>>

\* handle_worker_event: every worker event rewrites the state file.
WorkerEvent(p) ==
    /\ proc[p].pc \in {"run", "join"}
    /\ state' = Running(p)
    /\ UNCHANGED <<lock, stopfile, proc, Ghosts>>

\* The stop file is seen, or a worker raised the stop flag, or all workers ended.
BeginStop(p) ==
    /\ At(p, "run")
    /\ Goto(p, "join")
    /\ UNCHANGED <<Files, Ghosts>>

\* The workers have ended, which may take for ever: the state, the lock and the
\* stop file are cleared one after the other.
Retire(p) ==
    /\ At(p, "join")
    /\ state' = Stopped
    /\ Goto(p, "retire")
    /\ UNCHANGED <<lock, stopfile, Ghosts>>

ClearLock(p) ==
    /\ At(p, "retire")
    /\ lock' = NoLock
    /\ Goto(p, "unlock")
    /\ UNCHANGED <<stopfile, state, Ghosts>>

Leave(p) ==
    /\ At(p, "unlock")
    /\ stopfile' = FALSE
    /\ Goto(p, "dead")
    /\ UNCHANGED <<lock, state, Ghosts>>

-----------------------------------------------------------------------------
(* stop and restart                                                        *)

\* Mutant of signal_stop: the command does not wait for the process.
signal_and_report(p) ==
    /\ At(p, "signal")
    /\ stopfile' = TRUE
    /\ Goto(p, "report")
    /\ UNCHANGED <<lock, state, Ghosts>>

signal_stop(p) ==
    /\ At(p, "signal")
    /\ stopfile' = TRUE
    /\ Goto(p, "wait")
    /\ UNCHANGED <<lock, state, Ghosts>>

StopDone(p) ==
    /\ At(p, "wait") /\ Dead(proc[p].pid)
    /\ Goto(p, "cleanup")
    /\ UNCHANGED <<Files, Ghosts>>

\* After five seconds the process is sent SIGTERM, and SIGKILL if that fails.
StopTimeout(p) ==
    /\ At(p, "wait") /\ ~ Dead(proc[p].pid)
    /\ Goto(proc[p].pid, "dead")
    /\ UNCHANGED <<Files, Ghosts>>

\* The command says that the daemon is stopped.
Report(p) ==
    /\ At(p, "report")
    /\ Goto(p, "dead")
    /\ UNCHANGED <<Files, Ghosts>>

\* cmd_restart: stop, then start in the foreground or detached.
RestartStart(p, cmd) ==
    /\ At(p, "restart")
    /\ proc' = [proc EXCEPT ![p] = CheckState(Process(cmd, "check"))]
    /\ UNCHANGED <<Files, Ghosts>>

\* Any process may be killed from outside.
Crash(p) ==
    /\ ~ Dead(p) /\ crashes > 0
    /\ crashes' = crashes - 1 /\ UNCHANGED room
    /\ Goto(p, "dead")
    /\ UNCHANGED <<Files, stolen>>

-----------------------------------------------------------------------------
Init ==
    /\ lock = NoLock /\ stopfile = FALSE /\ state = Stopped
    /\ proc = [p \in Pids |-> Process("none", "none")]
    /\ stolen = FALSE
    /\ \E b \in Budgets : room = b[1] /\ crashes = b[2]

Check(p) == StatusCheck(p) \/ CheckLock(p) \/ StatusSave(p) \/ Cleanup(p) \/ CleanupStop(p) \/ CleanupState(p)
Begin(p) == Reserve(p) \/ ReserveWrite(p) \/ StartForeground(p) \/ StartFails(p) \/ WriteChildPid(p)
            \/ WriteChildPidFails(p) \/ \E c \in Pids : SpawnChild(p, c)
Supervise(p) == Boot(p) \/ SupervisorFails(p) \/ Announce(p) \/ WorkerEvent(p) \/ BeginStop(p)
                \/ Retire(p) \/ ClearLock(p) \/ Leave(p)
Stop(p) == signal_stop(p) \/ StopDone(p) \/ StopTimeout(p) \/ Report(p)
           \/ \E cmd \in {"start", "detach"} : RestartStart(p, cmd)

Next == \E p \in Pids :
    \/ \E cmd \in Commands : Launch(p, cmd)
    \/ Check(p) \/ Begin(p) \/ Supervise(p) \/ Stop(p) \/ Crash(p)

Spec == Init /\ [][Next]_vars

-----------------------------------------------------------------------------
(* Properties                                                              *)

\* Types; a stop command goes after a process that exists, and no file names a
\* process that was not started.
TypeOK ==
    /\ lock \in [by : 0..MaxProcs, pid : 0..MaxProcs]
    /\ stopfile \in BOOLEAN /\ stolen \in BOOLEAN
    /\ room \in 0..MaxProcs /\ crashes \in Nat
    /\ state \in StateFile /\ (state.running = (state.pid /= 0))
    /\ proc \in [Pids -> [cmd : Commands \cup {"supervisor", "none"}, pc : ProcPc, read : StateFile,
                          pid : 0..MaxProcs, found : SUBSET Pids]]
    /\ \A p \in Pids : proc[p].pc \in {"signal", "wait", "child"} => proc[p].pid \in Pids \ {p}
    /\ \A p \in {lock.by, lock.pid, state.pid} \ {0} : proc[p].pc /= "none"

\* Two supervisors of one state root only after the lock was removed under a live
\* starter or supervisor, by a cleanup that took it for stale or by a launcher that
\* had started a child and could not write its pid: the exclusive creation of the
\* lock and the ownership check leave no other way, whatever fails or dies
\* (prepare_start, reserve_start_lock, cleanup_stale_supervisor, cmd_start_detached).
TwoSupervisorsHasCause ==
    Cardinality({p \in Pids : Supervising(p)}) > 1 => stolen

\* When stop says that the daemon is stopped, every supervisor that was at work
\* when it began is dead or on its way out, whatever start, status and restart did meanwhile and
\* however long its workers take; unless a lock had been stolen
\* (stop_active_supervisor).
StopStops ==
    \A p \in Pids : proc[p].cmd = "stop" /\ At(p, "report") =>
        \A q \in proc[p].found : Supervising(q) => stolen

=============================================================================
