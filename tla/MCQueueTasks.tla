---------------------------- MODULE MCQueueTasks ----------------------------
(***************************************************************************)
(* Values of the constants of QueueTasks for TLC.  One attempt is enough   *)
(* for the row's life: no action relates two rows.                         *)
(***************************************************************************)
EXTENDS QueueTasks, TLC

CONSTANTS live, backfill

OneQueue == {live}
TwoQueues == {live, backfill}

\* A value given to every queue
Always1 == [q \in Queues |-> 1]
Always2 == [q \in Queues |-> 2]
Never == [q \in Queues |-> None]

\* Messages on live expire and its tries are limited; on backfill only the age of the block
\* ends an attempt.
OnLive1 == [q \in Queues |-> IF q = live THEN 1 ELSE None]
OnLive2 == [q \in Queues |-> IF q = live THEN 2 ELSE None]
OnBackfill2 == [q \in Queues |-> IF q = backfill THEN 2 ELSE None]

\* The delay before every retry
Delay1 == [q \in Optional(Queues) |-> [n \in 0..DelaySteps |-> 1]]

NoSkew == [p \in Procs |-> 0]

\* The clocks of submitters and sweepers are ahead of the database and of the workers.
WorkersBehind == [p \in Procs |-> IF p \in Workers THEN 0 ELSE 1]

HeadUnknown == {None}

Nobody == {}

\* Workers and message ids are interchangeable: no action tells two of them apart.
Symmetry == Permutations(Workers) \cup Permutations(Tokens)
=============================================================================
