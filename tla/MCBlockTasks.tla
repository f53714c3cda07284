---------------------------- MODULE MCBlockTasks ----------------------------
(***************************************************************************)
(* Values of the constants of BlockTasks for TLC.                          *)
(***************************************************************************)
EXTENDS BlockTasks, TLC

\* The delay before every retry
Delay1 == [n \in 0..DelaySteps |-> 1]

Nobody == {}

\* Workers and message ids are interchangeable.
Symmetry == Permutations(Workers) \cup Permutations(Ids)
=============================================================================
