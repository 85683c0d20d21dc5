------------------------------ MODULE RunReply ------------------------------
(***************************************************************************)
(* What the user is told about a workflow run: how the queue worker sorts  *)
(* the attempts it finds on disk and picks the final message               *)
(* (workflow_lifecycle_messages and final_user_message,                    *)
(* runtime/queue_worker.rs).                                               *)
(*                                                                         *)
(* An attempt is [step, n, ok, started, ended]: its step, its number, how  *)
(* it ended, and the seconds in which it started and ended.                *)
(***************************************************************************)
EXTENDS Naturals, Sequences, FiniteSets

CONSTANTS
    StepIds,   \* the step ids, in alphabetical order
    Outputs    \* [step -> the output keys of its attempts that are not blank]

Alphabetical(s) == CHOOSE i \in 1..Len(StepIds) : StepIds[i] = s

\* Mutant of Before: the step id is compared first.
StepFirst(a, b) ==
    \/ Alphabetical(a.step) < Alphabetical(b.step)
    \/ a.step = b.step /\ a.n < b.n

\* The order of step_attempts_by_time: started, ended, step id, attempt.
Before(a, b) ==
    \/ a.started < b.started
    \/ a.started = b.started /\ a.ended < b.ended
    \/ a.started = b.started /\ a.ended = b.ended /\
         \/ Alphabetical(a.step) < Alphabetical(b.step)
         \/ a.step = b.step /\ a.n < b.n

step_attempts_last(attempts) == CHOOSE a \in attempts : \A b \in attempts \ {a} : Before(b, a)

\* The latest to end among the succeeded ones; of several, whichever the
\* directory yields first.
latest_succeeded_attempts(attempts) ==
    LET ok == {a \in attempts : a.ok}
    IN  {a \in ok : \A b \in ok : b.ended <= a.ended}

final_output_priority == <<"artifact", "summary">>

select_final_output_message(outputs) ==
    LET keys == {i \in 1..Len(final_output_priority) : final_output_priority[i] \in outputs}
    IN  IF keys = {} THEN "none"
        ELSE final_output_priority[CHOOSE i \in keys : \A j \in keys : i <= j]

\* A message about a run: what it says, and the step whose output it shows.
Says(what, step) == [what |-> what, step |-> step]
Shows(a) ==
    IF select_final_output_message(Outputs[a.step]) = "none"
    THEN Says("completed", a.step) ELSE Says("output", a.step)

\* The messages final_user_message may pick for a run in this state.
final_user_message(attempts, state) ==
    LET last == step_attempts_last(attempts)
    IN  IF last.ok THEN {Shows(last)}
        ELSE IF state \in {"canceled", "failed"} THEN {Says(state, "none")}
        ELSE IF latest_succeeded_attempts(attempts) = {} THEN {Says("progress", "none")}
        ELSE {IF Shows(a).what = "output" THEN Shows(a) ELSE Says("progress", "none") :
                 a \in latest_succeeded_attempts(attempts)}

\* One line per failed attempt, then the final message.
workflow_lifecycle_messages(attempts, state) ==
    IF attempts = {} THEN {{Says("started", "none")}}
    ELSE {{Says("retrying", a.step) : a \in {b \in attempts : ~ b.ok}} \cup {final} :
              final \in final_user_message(attempts, state)}
=============================================================================
