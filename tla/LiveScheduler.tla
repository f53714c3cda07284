--------------------------- MODULE LiveScheduler ----------------------------
(***************************************************************************)
(* TaskScheduler (services/scheduler.py): one thread that polls every      *)
(* chain head in turn, submits the head block, fills the lookback window   *)
(* of its tasks, and starts again.  Its memory, `live`, is lost when the   *)
(* process stops.  The sweep it runs is part of QueueTasks and BlockTasks. *)
(***************************************************************************)
EXTENDS Submissions, FiniteSetsExt

CONSTANTS
    Runs,               \* whether the scheduler is ever started
    StartFrom,          \* BLOCK_DUMPER_START_FROM_BLOCK: None, Current or a block
    Current,            \* the setting "current"
    Lookback,           \* RegistryItem.backfilling_lookback, None: no lookback
    LookbackEnabled,    \* BLOCK_DUMPER_LOOKBACK_ENABLED
    Unreliable          \* sources whose reads may fail

ASSUME LiveSchedulerAssumption ==
    /\ Runs \in BOOLEAN
    /\ StartFrom \in {None, Current} \cup Nat
    /\ \A t \in Tasks : Lookback[t] = None \/ Lookback[t] \in Nat
    /\ LookbackEnabled \in BOOLEAN /\ Unreliable \subseteq Sources

VARIABLE live

LivePCs == {"down", "poll", "process", "lookback", "fill"}

\* polls: sources still to be polled in this round; items: tasks still to be handled for
\* `block` of `source`; todo: blocks still to be filled for task `item`; free: the gate;
\* last: last_processed_blocks
LiveTypeOK ==
    live \in [pc: LivePCs, polls: SUBSET Sources, source: Sources, block: Blocks,
              items: SUBSET Tasks, item: Tasks \cup {None}, todo: SUBSET Blocks,
              free: Nat \cup {None}, last: [Sources -> Nat \cup {None}]]

Stopped == [pc |-> "down", polls |-> {}, source |-> Latest, block |-> 0, items |-> {},
            item |-> None, todo |-> {}, free |-> None,
            last |-> [s \in Sources |-> None]]

LiveInit == live = Stopped

TasksOf(s) == {t \in Tasks : SourceOf[t] = s}
Polled == {s \in Sources : TasksOf(s) # {}}

-----------------------------------------------------------------------------
(* Starting block *)

\* Mutant: the maximum is taken over the attempts of all tasks.
LatestExecutedOfAll(s) == Max({0} \cup UNION {Recorded(t) : t \in Tasks})

\* get_the_latest_executed_block_number(), 0 if there is none: the caller takes both alike
LatestExecuted(s) == Max({0} \cup UNION {Recorded(t) : t \in TasksOf(s)})

\* Mutant: one block before, so that the starting block is processed as well.
BlockBeforeStart(s) == (IF LatestExecuted(s) # 0 THEN LatestExecuted(s) ELSE head[s]) - 1

\* DefaultBlockStateResolver.get_starting_block()
GetStartingBlock(s) ==
    IF StartFrom \notin {None, Current} THEN StartFrom
    ELSE IF StartFrom = None /\ LatestExecuted(s) # 0 THEN LatestExecuted(s)
    ELSE head[s]

\* The starting blocks _ensure_starting_block() may find, None: resolving raised
StartingBlocks(s) == {GetStartingBlock(s)} \cup IF s \in Unreliable THEN {None} ELSE {}

-----------------------------------------------------------------------------
(* The loop of TaskScheduler.start() *)

Start ==
    /\ Runs /\ live.pc = "down"
    /\ \E last \in [Polled -> UNION {StartingBlocks(s) : s \in Polled}] :
           /\ \A s \in Polled : last[s] \in StartingBlocks(s)
           /\ live' = [Stopped EXCEPT !.pc = "poll", !.polls = Polled,
                                      !.last = [s \in Sources |-> IF s \in Polled THEN last[s] ELSE None]]
    /\ UNCHANGED <<head, attempt>>

\* Mutant: the error ends the round, for the sources that are left too.
RoundLost(turn) == [turn EXCEPT !.polls = {}]

\* An error in _poll_block_source() costs the source its turn and no more.
TurnLost(turn) == turn

\* _poll_block_source(): the head is read, and processed if it is new.
Poll(s) ==
    /\ live.pc = "poll" /\ s \in live.polls
    /\ \E start \in IF live.last[s] = None THEN StartingBlocks(s) ELSE {live.last[s]} :
           LET turn == [live EXCEPT !.last[s] = start, !.polls = @ \ {s}]
           IN  \/ /\ start # None /\ head[s] > start
                  /\ live' = [turn EXCEPT !.pc = "process", !.source = s, !.block = head[s],
                                          !.items = TasksOf(s)]
               \/ start # None /\ head[s] <= start /\ live' = turn
               \/ (start = None \/ s \in Unreliable) /\ live' = TurnLost(turn)
    /\ UNCHANGED <<head, attempt>>

\* BlockProcessor.process_block(): one task at the head block
Process(t) ==
    /\ live.pc = "process" /\ t \in live.items
    /\ live' = [live EXCEPT !.items = @ \ {t}]
    /\ LET u == <<t, live.block>>
       IN  \/ u \notin Matches /\ UNCHANGED attempt
           \/ u \in Matches /\ \E x \in Executed(attempt[u], "live") : Store(u, x)
           \/ u \in Matches /\ ExecuteRaises(u, "live")
    /\ UNCHANGED head

\* _fill_lookback() starts.
StartLookback ==
    /\ live.pc = "process" /\ live.items = {}
    /\ live' = [live EXCEPT !.pc = "lookback",
                            !.items = {t \in TasksOf(live.source) : LookbackEnabled /\ Lookback[t] # None}]
    /\ UNCHANGED <<head, attempt>>

\* Mutant: the window of N blocks includes the head.
WindowWithHead(h, n) == {b \in Blocks : h - n < b /\ b < h}

\* The blocks of _fill_lookback() below head h
Window(h, n) == {b \in Blocks : h - n <= b /\ b < h}

\* process_item_range(): what to submit is read once per item, with a new gate.
Scan(t) ==
    /\ live.pc = "lookback" /\ t \in live.items
    /\ LET skip == WithStatus(t, {"success", "inflight", "waiting"})
       IN  live' = [live EXCEPT !.pc = "fill", !.item = t, !.items = @ \ {t}, !.free = None,
                                !.todo = {b \in Window(live.block, Lookback[t]) \ skip : <<t, b>> \in Matches}]
    /\ UNCHANGED <<head, attempt>>

\* The first block of the window the gate is asked about
FillReadRoom ==
    /\ live.pc = "fill" /\ live.todo # {}
    /\ Throttle # None /\ live.free = None
    /\ live' = [live EXCEPT !.free = ReadFree]
    /\ UNCHANGED <<head, attempt>>

\* QueueBackfiller.submit_block() with a gate that does not wait
Fill ==
    /\ live.pc = "fill" /\ live.todo # {}
    /\ LET b == Min(live.todo)
           u == <<live.item, b>>
       IN  \/ /\ HasRoom(live.free)
              /\ \E x \in Executed(attempt[u], BackfillQueue) :
                     /\ Store(u, x)
                     /\ live' = [live EXCEPT !.todo = @ \ {b}, !.free = Spent(@, x.sent)]
           \/ /\ Throttle # None /\ live.free = 0
              /\ live' = [live EXCEPT !.todo = @ \ {b}]
              /\ UNCHANGED attempt
           \/ /\ HasRoom(live.free)
              /\ ExecuteRaises(u, BackfillQueue)
              /\ live' = [live EXCEPT !.todo = {}]
    /\ UNCHANGED head

\* The range of one item is done.
EndFill ==
    /\ live.pc = "fill" /\ live.todo = {}
    /\ live' = [live EXCEPT !.pc = "lookback"]
    /\ UNCHANGED <<head, attempt>>

\* The poll is complete.
EndPoll ==
    /\ live.pc = "lookback" /\ live.items = {}
    /\ live' = [live EXCEPT !.pc = "poll", !.last[live.source] = live.block]
    /\ UNCHANGED <<head, attempt>>

\* Every source had its turn: the loop sleeps and starts again.
NextRound ==
    /\ live.pc = "poll" /\ live.polls = {}
    /\ live' = [live EXCEPT !.polls = Polled]
    /\ UNCHANGED <<head, attempt>>

\* The process dies, or is stopped.
StopScheduler ==
    /\ live.pc # "down" /\ live' = Stopped
    /\ UNCHANGED <<head, attempt>>

LiveStep ==
    \/ Start \/ StartLookback \/ FillReadRoom \/ Fill \/ EndFill \/ EndPoll \/ NextRound
    \/ \E s \in Sources : Poll(s)
    \/ \E t \in Tasks : Process(t) \/ Scan(t)
=============================================================================
