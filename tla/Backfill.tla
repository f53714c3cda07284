------------------------------ MODULE Backfill ------------------------------
(***************************************************************************)
(* The backfill_blocks_v1 command and BackfillScheduler: a range of blocks *)
(* is split into gaps, and each gap is submitted by a scheduler of its     *)
(* own, block by block, through a gate that waits for room.                *)
(***************************************************************************)
EXTENDS Submissions, Sequences

CONSTANTS
    Ranges,         \* pairs --from-block, --to-block the command is given
    GapDetection    \* FALSE: --no-gap-detection

ASSUME BackfillAssumption ==
    /\ Ranges \subseteq {r \in Blocks \X Blocks : r[1] <= r[2]}
    /\ GapDetection \in BOOLEAN

VARIABLE backfill

Gap == [start: Blocks, end: Blocks]

\* range: the blocks asked for; gaps: the ones still to be started; todo: what the running
\* scheduler has left to submit; free: its gate; interrupted: Ctrl+C was pressed
BackfillTypeOK ==
    backfill \in [pc: {"idle", "gap", "run", "done"}, range: SUBSET Blocks, gaps: Seq(Gap),
                  todo: SUBSET Units, free: Nat \cup {None}, interrupted: BOOLEAN]

NoBackfill == [pc |-> "idle", range |-> {}, gaps |-> <<>>, todo |-> {}, free |-> None,
               interrupted |-> FALSE]

BackfillInit == backfill = NoBackfill

-----------------------------------------------------------------------------
(* find_gaps() *)

\* One block of the loop: acc.start is gap_start
ScanBlock(acc, block, processed) ==
    IF block \notin processed
    THEN [acc EXCEPT !.start = IF @ = None THEN block ELSE @]
    ELSE IF acc.start # None
    THEN [gaps |-> Append(acc.gaps, [start |-> acc.start, end |-> block - 1]), start |-> None]
    ELSE acc

\* The loop: scan[n] is what it has found after n blocks
ScanBlocks(from, to, processed) ==
    LET scan[n \in 0..(to - from + 1)] ==
            IF n = 0 THEN [gaps |-> <<>>, start |-> None]
            ELSE ScanBlock(scan[n - 1], from + n - 1, processed)
    IN  scan[to - from + 1]

\* Mutant: the gap at the end of the range is forgotten.
FindInnerGaps(from, to, processed) == ScanBlocks(from, to, processed).gaps

\* find_gaps()
FindGaps(from, to, processed) ==
    LET acc == ScanBlocks(from, to, processed)
    IN  IF acc.start = None THEN acc.gaps
        ELSE Append(acc.gaps, [start |-> acc.start, end |-> to])

\* get_successful_block_numbers(): blocks with at least one successful task
Successful == UNION {WithStatus(t, {"success"}) : t \in Tasks}

-----------------------------------------------------------------------------
(* The command and its schedulers *)

\* Command.handle(), for blocks that exist
StartBackfill(from, to) ==
    /\ backfill.pc \in {"idle", "done"}
    /\ to <= head[Latest]
    /\ backfill' = [NoBackfill EXCEPT
                       !.pc = "gap", !.range = from..to,
                       !.gaps = IF GapDetection THEN FindGaps(from, to, Successful)
                                ELSE <<[start |-> from, end |-> to]>>]
    /\ UNCHANGED <<head, attempt>>

\* BackfillScheduler.start(): the executed blocks of every task are read once.
StartGap ==
    /\ backfill.pc = "gap" /\ backfill.gaps # <<>>
    /\ LET gap == Head(backfill.gaps)
       IN  backfill' = [backfill EXCEPT
               !.pc = "run", !.gaps = Tail(@), !.free = None,
               !.todo = {u \in Matches : /\ u[2] \in gap.start..gap.end
                                         /\ attempt[u].status # "success"}]
    /\ UNCHANGED <<head, attempt>>

\* ThrottleGate.admit() reads the room until there is some.
BackfillReadRoom ==
    /\ backfill.pc = "run" /\ backfill.todo # {}
    /\ ~HasRoom(backfill.free)
    /\ backfill' = [backfill EXCEPT !.free = ReadFree]
    /\ UNCHANGED <<head, attempt>>

\* QueueBackfiller.submit_block(), in the order of the blocks; an error costs this unit only.
BackfillSubmit(u) ==
    /\ backfill.pc = "run" /\ u \in backfill.todo
    /\ \A v \in backfill.todo : u[2] <= v[2]
    /\ HasRoom(backfill.free)
    /\ \/ \E x \in Executed(attempt[u], BackfillQueue) :
              /\ Store(u, x)
              /\ backfill' = [backfill EXCEPT !.todo = @ \ {u}, !.free = Spent(@, x.sent)]
       \/ /\ ExecuteRaises(u, BackfillQueue)
          /\ backfill' = [backfill EXCEPT !.todo = @ \ {u}]
    /\ UNCHANGED head

EndGap ==
    /\ backfill.pc = "run" /\ backfill.todo = {}
    /\ backfill' = [backfill EXCEPT !.pc = "gap"]
    /\ UNCHANGED <<head, attempt>>

EndBackfill ==
    /\ backfill.pc = "gap" /\ backfill.gaps = <<>>
    /\ backfill' = [backfill EXCEPT !.pc = "done"]
    /\ UNCHANGED <<head, attempt>>

\* Ctrl+C.  _run_backfill() catches it and returns as if its blocks were done; between two
\* gaps the command catches it and ends.
Interrupt ==
    /\ \/ /\ backfill.pc = "run"
          /\ backfill' = [backfill EXCEPT !.pc = "gap", !.todo = {}, !.interrupted = TRUE]
       \/ /\ backfill.pc = "gap" /\ backfill' = NoBackfill
    /\ UNCHANGED <<head, attempt>>

\* The command dies: an error outside the loop over its blocks, or a kill.
BackfillDies ==
    /\ backfill.pc \in {"gap", "run"} /\ backfill' = NoBackfill
    /\ UNCHANGED <<head, attempt>>

BackfillStep ==
    \/ StartGap \/ BackfillReadRoom \/ EndGap \/ EndBackfill
    \/ \E u \in Units : BackfillSubmit(u)
=============================================================================
