----------------------------- MODULE Schedulers -----------------------------
(***************************************************************************)
(* The live scheduler and the backfill command, two processes that submit  *)
(* to one table while the chain advances and workers end attempts.         *)
(***************************************************************************)
EXTENDS LiveScheduler, Backfill

vars == <<head, attempt, live, backfill>>

TypeOK == SubmissionsTypeOK /\ LiveTypeOK /\ BackfillTypeOK

Init == SubmissionsInit /\ LiveInit /\ BackfillInit

Environment ==
    \/ \E s \in Sources : Advance(s)
    \/ \E u \in Units : Finish(u) \/ Delay(u) \/ ComeBack(u)

Next ==
    \/ LiveStep /\ UNCHANGED backfill
    \/ StopScheduler /\ UNCHANGED backfill
    \/ BackfillStep /\ UNCHANGED live
    \/ (\E r \in Ranges : StartBackfill(r[1], r[2])) /\ UNCHANGED live
    \/ (Interrupt \/ BackfillDies) /\ UNCHANGED live
    \/ Environment /\ UNCHANGED <<live, backfill>>

Spec == Init /\ [][Next]_vars

\* Processes that run go on with their loops; an attempt that keeps coming back ends at last,
\* as its tries are limited.  Nothing says that a command is started, stopped or interrupted,
\* or that a submission or the read of an unreliable source succeeds.
Fairness ==
    /\ WF_vars(LiveStep /\ UNCHANGED backfill)
    /\ WF_vars(BackfillStep /\ UNCHANGED live)
    /\ \A u \in Units : SF_vars(Finish(u) /\ UNCHANGED <<live, backfill>>)

FairSpec == Spec /\ Fairness

-----------------------------------------------------------------------------
(* Properties *)

\* README "Per-task lookback": when the poll of a new head block H is complete, H and every
\* block of [H-N, H-1] that meets the condition of a task with lookback N has an attempt.
WindowIsFilled ==
    [][\A t \in Tasks :
          LET s == SourceOf[t]
          IN  live.pc = "lookback" /\ live'.pc = "poll" /\ live.source = s =>
              \A b \in Blocks :
                  (<<t, b>> \in Matches /\ b <= live.block
                      /\ b >= live.block - (IF Lookback[t] = None THEN 0 ELSE Lookback[t]))
                  => attempt[<<t, b>>].status # "absent"]_vars

\* README, BLOCK_DUMPER_START_FROM_BLOCK: a chain head never starts from the position of
\* another one, beyond the blocks it has itself.
StartsAtItsHead == \A s \in Sources : live.last[s] # None => live.last[s] <= head[s]

\* _poll_block_source(): an unhealthy head does not starve a healthy one.  As long as the
\* scheduler runs, the heads that can be read are caught up with.
HealthyHeadsCatchUp ==
    (<>[](live.pc # "down")) =>
        \A s \in Polled \ Unreliable : <>[](live.last[s] # None /\ live.last[s] >= head[s])

\* Queue.throttle: a gate stops submitting at the throttle.  Retries do not wait for room, and a
\* submission that raises uses none, so neither counts; what is left never exceeds the
\* throttle, however long ago the room was read, as long as no other gate submits.
WithinThrottle ==
    Throttle # None =>
        Cardinality({u \in Units \ Fragile : /\ attempt[u].status = "inflight"
                                             /\ attempt[u].dispatch_queue = BackfillQueue}) <= Throttle

\* backfill_blocks_v1: a command that ran to its end left no block of its range without a
\* success and without an attempt of every task that wants it.  An error of a submission costs
\* the unit it was for and no other.
BackfillCovers ==
    backfill.pc = "done" /\ ~backfill.interrupted =>
        \A b \in backfill.range :
            \/ b \in Successful
            \/ \A t \in Tasks : <<t, b>> \in Matches \ Raising => attempt[<<t, b>>].status # "absent"

\* ThrottleGate.admit(): the wait for room ends, and with it every backfill.
BackfillEnds == (backfill.pc = "gap") ~> (backfill.pc \in {"done", "idle"})
=============================================================================
