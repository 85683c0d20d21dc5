--------------------------- MODULE MCQueueWorker ---------------------------
(***************************************************************************)
(* Small instances of QueueWorker for TLC.                                 *)
(***************************************************************************)
EXTENDS QueueRefinement, TLC

CONSTANTS m1, m2

\* Two messages of one conversation.
TwoOfAThread == {m1, m2}
ThreadPayload ==
    [m \in TwoOfAThread |->
        [run |-> Blank, channel |-> "slack", profile |-> "p", conversation |-> "c"]]

ThreadSymmetry == Permutations({m1, m2})

\* A Slack message beside a scheduler trigger, which carries no channel profile.
MessageAndTrigger == {m1, m2}
MixedPayload ==
    [m \in MessageAndTrigger |->
        IF m = m2
        THEN [run |-> Blank, channel |-> "scheduler", profile |-> Blank, conversation |-> "job"]
        ELSE [run |-> Blank, channel |-> "slack", profile |-> "p", conversation |-> "c"]]
=============================================================================
