---------------------------- MODULE Submissions -----------------------------
(***************************************************************************)
(* What the live scheduler and the backfill command share: the chain they  *)
(* read, the table of attempts they submit to, and the throttle of the     *)
(* queue that lookback and backfill submit to.                             *)
(*                                                                         *)
(* The life of one attempt is the subject of QueueTasks and BlockTasks;    *)
(* here a submission is one step and an attempt has the status that        *)
(* submitters tell apart.                                                  *)
(***************************************************************************)
EXTENDS Integers, FiniteSets

CONSTANTS
    None,           \* Python None
    Tasks,          \* registry items, each with one set of arguments
    Sources,        \* chain heads that are polled
    Latest,         \* the source that reads the latest head
    SourceOf,       \* RegistryItem.block_source
    MaxBlock,       \* the last block the chain reaches
    Matches,        \* pairs of a task and a block that meet the task's condition
    BackfillQueue,  \* where lookback and backfill submit: "live" or "backfill"
    Throttle,       \* Queue.throttle of BackfillQueue, None: none
    Fragile,        \* units whose function may fail and whose messages may be lost
    Raising         \* those among them whose submission may raise

Blocks == 0..MaxBlock
Units == Tasks \X Blocks

ASSUME SubmissionsAssumption ==
    /\ None \notin Int /\ None \notin Tasks /\ None \notin Sources /\ IsFiniteSet(Tasks)
    /\ Latest \in Sources /\ SourceOf \in [Tasks -> Sources]
    /\ MaxBlock \in Nat /\ Matches \subseteq Units
    /\ BackfillQueue \in {"live", "backfill"}
    /\ Throttle = None \/ Throttle \in Nat \ {0}
    /\ Fragile \subseteq Units /\ Raising \subseteq Fragile

VARIABLES
    head,       \* block number of every chain head
    attempt     \* the TaskAttempt table

\* "inflight": RUNNING, or PENDING with a message that can still be delivered and is due;
\* "waiting": PENDING, and its retry is not due or its message is lost or expired;
\* "failed": FAILED, and its retry was never sent; "given_up": FAILED for good.
Statuses == {"absent", "inflight", "waiting", "success", "failed", "given_up"}
Attempt == [status: Statuses, dispatch_queue: {"live", "backfill"}]

SubmissionsTypeOK == head \in [Sources -> Blocks] /\ attempt \in [Units -> Attempt]

SubmissionsInit ==
    /\ head = [s \in Sources |-> 0]
    /\ attempt = [u \in Units |-> [status |-> "absent", dispatch_queue |-> "live"]]

Recorded(t) == {b \in Blocks : attempt[<<t, b>>].status # "absent"}
WithStatus(t, S) == {b \in Blocks : attempt[<<t, b>>].status \in S}

-----------------------------------------------------------------------------
(* The chain and the workers *)

\* A block is produced, or finalized.
Advance(s) ==
    /\ head[s] < IF s = Latest THEN MaxBlock ELSE head[Latest]
    /\ head' = [head EXCEPT ![s] = @ + 1]
    /\ UNCHANGED attempt

Becomes(u, status) ==
    /\ attempt' = [attempt EXCEPT ![u].status = status]
    /\ UNCHANGED head

\* A worker ends an attempt.
Finish(u) ==
    /\ attempt[u].status = "inflight"
    /\ Becomes(u, "success") \/ (u \in Fragile /\ Becomes(u, "given_up"))

\* An attempt fails and waits for its retry, unless its worker dies before it is sent, or
\* the message of the attempt is lost.
Delay(u) ==
    /\ u \in Fragile /\ attempt[u].status = "inflight"
    /\ Becomes(u, "waiting") \/ Becomes(u, "failed")

\* The retry of an attempt is due, or the sweep sends it again.
ComeBack(u) == attempt[u].status \in {"waiting", "failed"} /\ Becomes(u, "inflight")

-----------------------------------------------------------------------------
(* QueueExecutor.execute() *)

Sent(r) == [row |-> r, sent |-> TRUE]
Dropped(r) == [row |-> r, sent |-> FALSE]
GivenUp(r) == Dropped([r EXCEPT !.status = "given_up"])

\* The ways execute() may leave row r, and whether it sent a message.  An attempt past its
\* deadline is given up, and an existing one keeps its queue.
Executed(r, queue) ==
    LET opened == [r EXCEPT !.status = "inflight"]
    IN  CASE r.status = "absent"   -> {Sent([opened EXCEPT !.dispatch_queue = queue]),
                                       GivenUp([opened EXCEPT !.dispatch_queue = queue])}
          [] r.status = "inflight" -> {Sent(r), Dropped(r), GivenUp(r)}
          [] r.status = "waiting"  -> {Sent(r), Sent(opened), GivenUp(r)}
          [] r.status = "failed"   -> {Dropped(r), Sent(opened), GivenUp(r)}
          [] OTHER                 -> {Dropped(r)}

Store(u, x) == attempt' = [attempt EXCEPT ![u] = x.row]

\* execute() raises before or after it wrote the row; what it wrote has no message.
ExecuteRaises(u, queue) ==
    /\ u \in Raising
    /\ \/ UNCHANGED attempt
       \/ \E x \in Executed(attempt[u], queue) : x.sent /\ Store(u, x)

-----------------------------------------------------------------------------
(* ThrottleGate *)

InflightOn(queue, S) ==
    Cardinality({u \in Units : attempt[u].status \in S /\ attempt[u].dispatch_queue = queue})

\* Mutant: attempts that failed for good hold the queue's budget.
CountEveryFailure(queue) == InflightOn(queue, {"inflight", "given_up"})

\* queue_attempts.count_inflight()
CountInflight(queue) == InflightOn(queue, {"inflight"})

\* ThrottleGate._read_free()
ReadFree == IF CountInflight(BackfillQueue) < Throttle THEN Throttle - CountInflight(BackfillQueue) ELSE 0

\* A gate holds the free room it read, None before the first read.
HasRoom(free) == Throttle = None \/ (free # None /\ free > 0)

\* Mutant: room is not used up.
SpentNothing(free, sent) == free

\* ThrottleGate.spent(), for a message that was sent
Spent(free, sent) == IF sent /\ free # None THEN free - 1 ELSE free
=============================================================================
