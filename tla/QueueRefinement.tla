-------------------------- MODULE QueueRefinement --------------------------
(***************************************************************************)
(* The file queue and its worker implement the contract of the queue: a    *)
(* message is held while its file lies in incoming/ or processing/,        *)
(* executed while a task has it, settled once a reply file, a NoResponse   *)
(* or a dead letter exists for it.                                         *)
(***************************************************************************)
EXTENDS QueueWorker

Contract == INSTANCE QueueContract WITH
    Key       <- OrderingKey,
    Slots     <- MaxConcurrency,
    held      <- incoming \cup processing,
    executing <- {m \in Msg : Busy(m)},
    settled   <- replied \cup silent \cup failed

\* Every behaviour of the queue and its worker, with its crashes, recoveries,
\* retries and failing file operations, is one the contract allows: nothing
\* accepted is let go of before it is settled, nothing is executed that is not
\* held, and executions are apart by key and within the configured concurrency
\* (claim_oldest, dequeue_runnable, complete_success_many,
\* requeue_or_dead_letter_failure, recover_queue_processing_paths).
ImplementsContract == Contract!Spec
=============================================================================
