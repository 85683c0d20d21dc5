--------------------------- MODULE MCJobScheduler ---------------------------
(***************************************************************************)
(* Small instances of JobScheduler for TLC.                                *)
(***************************************************************************)
EXTENDS JobScheduler, TLC

Once     == [type |-> "once", at |-> 1]
Interval == [type |-> "interval", every |-> 1, anchor |-> {}]
Cron     == [type |-> "cron", every |-> 2]

AllSchedules == {Once, Interval, Cron}
IntervalOnly == {Interval}
=============================================================================
