--------------------------- MODULE MCSlackChannel ---------------------------
(* Small instances of SlackChannel for TLC.                                 *)
EXTENDS SlackChannel

Scenario(mode, backfill, posts, passes, sweeps, faults, starts, commands) ==
    <<[mode |-> mode, backfill |-> backfill],
      [posts |-> posts, passes |-> passes, sweeps |-> sweeps, faults |-> faults, starts |-> starts,
       commands |-> commands]>>

MCScenarios == {
    Scenario("poll",   TRUE,  3, 3, 0, 1, 1, 0),  \* polling alone, with threads
    Scenario("poll",   TRUE,  2, 3, 0, 0, 2, 0),  \* the same across a restart
    Scenario("hybrid", TRUE,  2, 2, 0, 1, 1, 0),  \* passes of two workers, and the socket
    Scenario("poll",   TRUE,  2, 1, 0, 1, 1, 1),  \* passes of a worker and of a command
    Scenario("hybrid", TRUE,  1, 1, 2, 1, 2, 0),  \* sweeps of two workers
    Scenario("socket", FALSE, 1, 0, 2, 1, 2, 1),  \* sweeps of the socket and of a command
    Scenario("socket", FALSE, 2, 0, 1, 1, 2, 0)}  \* the socket alone

MCUndeliverable == {2}
=============================================================================
