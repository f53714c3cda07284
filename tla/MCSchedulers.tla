---------------------------- MODULE MCSchedulers ----------------------------
(***************************************************************************)
(* Values of the constants of Schedulers for TLC.                          *)
(***************************************************************************)
EXTENDS Schedulers

CONSTANTS latest, finalized     \* sources
CONSTANTS t1, t2                \* tasks

Both == {latest, finalized}

\* t1 follows the latest head, t2 the finalized one if it is polled.
TwoTasks == {t1, t2}
TheirSources == [t \in Tasks |-> IF t = t2 /\ finalized \in Sources THEN finalized ELSE latest]

LatestLookback2 == [t \in Tasks |-> IF t = t1 THEN 2 ELSE None]
Lookback1 == [t \in Tasks |-> 1]

\* Conditions: every block; every block but one; none for t2; the last one for t2
EveryBlock == Units
NotBlock1 == {u \in Units : u[2] # 1}
OnlyT1 == {u \in Units : u[1] = t1}
T2LastBlock == {u \in Units : u[1] = t1 \/ u[2] = MaxBlock}

\* Units whose attempts may fail or get lost, and whose submissions may raise
FirstOfT1 == {<<t1, 0>>}
FirstTwoOfT1 == {<<t1, 0>>, <<t1, 1>>}
SecondOfT1 == {<<t1, 1>>}

Nowhere == {}
AllRanges == {r \in Blocks \X Blocks : r[1] <= r[2]}
LastBlock == {<<MaxBlock, MaxBlock>>}
=============================================================================
