-------------------------- MODULE MCWorkflowEngine --------------------------
(***************************************************************************)
(* Small instances of WorkflowEngine for TLC.                              *)
(***************************************************************************)
EXTENDS WorkflowEngine, TLC

CONSTANTS review, done, e1

\* A review that is repeated while it rejects, and a last task.
ReviewLoop == {review, done}
ReviewSuccessors == (review :> {review, done}) @@ (done :> {NoStep})

=============================================================================
