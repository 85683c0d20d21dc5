--------------------------- MODULE QueueContract ---------------------------
(***************************************************************************)
(* What the message queue promises, with no files, names or threads: a     *)
(* message once accepted is held until it is settled, may be executed any  *)
(* number of times before that, is let go of only once it is settled, and  *)
(* is executed apart from the other messages of its key, within a bound.   *)
(***************************************************************************)
EXTENDS Naturals, FiniteSets

CONSTANTS
    Msg,         \* messages
    Key(_),      \* the ordering key of a message
    Slots        \* executions at a time

VARIABLES
    held,        \* accepted and not let go of
    executing,   \* being executed
    settled      \* answered, deliberately left unanswered, or given up

vars == <<held, executing, settled>>

Apart(S) == \A m, n \in S : Key(m) = Key(n) => m = n

Init == held = {} /\ executing = {} /\ settled = {}

Accept(m) ==
    /\ m \notin held \cup settled
    /\ held' = held \cup {m}
    /\ UNCHANGED <<executing, settled>>

\* Executions begin only for what is held, apart from what runs already.
Execute(S) ==
    /\ S \subseteq held \ executing
    /\ Apart(executing \cup S) /\ Cardinality(executing \cup S) <= Slots
    /\ executing' = executing \cup S
    /\ UNCHANGED <<held, settled>>

Settle(m) ==
    /\ m \in executing
    /\ settled' = settled \cup {m}
    /\ UNCHANGED <<held, executing>>

Release(S) ==
    /\ S \subseteq settled
    /\ held' = held \ S
    /\ UNCHANGED <<executing, settled>>

\* An execution ends, with or without an outcome; a crash ends them all.
Finish(S) ==
    /\ executing' = executing \ S
    /\ UNCHANGED <<held, settled>>

Next ==
    \/ \E m \in Msg : Accept(m) \/ Settle(m)
    \/ \E S \in SUBSET held : Execute(S) \/ Release(S)
    \/ \E S \in SUBSET executing : Finish(S)

Spec == Init /\ [][Next]_vars
=============================================================================
