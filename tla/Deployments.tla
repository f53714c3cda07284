---------------------------- MODULE Deployments -----------------------------
(***************************************************************************)
(* Attempts that outlive the code that recorded them.  A deployment may    *)
(* add, change, rename or remove queues and move a task between them; the  *)
(* scheduler and the worker are restarted one after the other, while rows  *)
(* keep the name of the queue they were sent to and messages the limits of *)
(* the code that sent them.  The sweep has its batch limit here.           *)
(*                                                                         *)
(* execute(), dispatch_retry(), run() and reconcile() are one step each:   *)
(* their interleavings are the subject of QueueTasks.  The processes have  *)
(* one clock, and the chain head is unknown to them, so no deadlines.      *)
(***************************************************************************)
EXTENDS TimeLimits, RetryDelays, FiniteSets

CONSTANTS
    Attempts,           \* ids of the rows of one task
    Names,              \* names of queues in any version
    Slots,              \* ids of the messages of one attempt
    Versions,           \* versions of the project's code
    Code,               \* what each version declares
    Upgrades,           \* pairs of a version and one that may be deployed in its place
    Settings,           \* retry policy of the BLOCK_TASK_* settings
    MaxAttemptLimit,    \* BLOCK_DUMPER_MAX_ATTEMPTS
    DelaySteps,         \* tries after which delays stay as they are
    Fragile,            \* attempts whose messages and executions may be lost
    BatchSize,          \* BLOCK_DUMPER_STALE_TASK_SWEEP_BATCH_SIZE
    KillDelay           \* seconds by which the pool may exceed the limits

\* queue_policy.Queue, with the fields of its RetryPolicy
Queue == [soft_time_limit: Limit, time_limit: Limit, message_ttl: Limit,
          max_attempts: Limit, retry: RetryPolicy]

\* A version defines queues by name, for this task and for others, and declares the task: its
\* live and backfill queue, its celery_kwargs, and the attempts its condition and args ask for.
ASSUME DeploymentAssumption ==
    /\ None \notin Int /\ None \notin Names
    /\ Horizon \in Nat /\ Margin \in Nat /\ StaleTimeout \in Limit
    /\ MaxAttemptLimit \in Nat /\ DelaySteps \in Nat
    /\ Attempts \subseteq Nat /\ Slots \subseteq Nat
    /\ BatchSize \in Nat \ {0}
    /\ Settings \in RetryPolicy /\ \A n \in 0..DelaySteps : ~SettingsRaise(Settings, n)
    /\ KillDelay \in Nat /\ KillDelay <= Margin
    /\ Fragile \subseteq Attempts
    /\ Versions \subseteq DOMAIN Code
    /\ \A v \in Versions :
           /\ \A q \in DOMAIN Code[v].queues : q \in Names /\ Code[v].queues[q] \in Queue
           /\ Code[v].live \in DOMAIN Code[v].queues
           /\ Code[v].backfill \in Optional(DOMAIN Code[v].queues)
           /\ DOMAIN Code[v].options \subseteq LimitNames
           /\ \A n \in DOMAIN Code[v].options : Code[v].options[n] \in Limit
           /\ Code[v].matches \subseteq Attempts
    /\ Upgrades \subseteq Versions \X Versions

\* Ages past the horizon are past every window the code compares with.
ASSUME HorizonAssumption ==
    /\ StaleTimeout # None => Horizon > StaleTimeout
    /\ \A v \in Versions : \A q \in DOMAIN Code[v].queues :
           Code[v].queues[q].message_ttl # None => Horizon > Code[v].queues[q].message_ttl + Margin

VARIABLES
    row,        \* the TaskAttempt rows
    msg,        \* messages and executions of each attempt, by message id
    code,       \* the version each kind of process runs
    stable      \* from now on: no faults, submissions or deployments

vars == <<row, msg, code, stable>>

-----------------------------------------------------------------------------
(* Declarations *)

Roles == {"scheduler", "worker"}

\* dumper_registry.queues() and get_queue() of version v
Defined(v) == DOMAIN Code[v].queues
Policy(v, q) == Code[v].queues[q]

TaskQueueNames(v) == {Code[v].live, Code[v].backfill} \ {None}
TaskQueues(v) == {Policy(v, q) : q \in TaskQueueNames(v)}

\* The versions in which Queue.__post_init__() and BlockDumper.block_task() raise nothing
Declarable ==
    {v \in Versions :
        /\ \A q \in Defined(v) : SoftBelowHard(Policy(v, q).soft_time_limit, Policy(v, q).time_limit)
        /\ CheckTimeLimits(Code[v].options, TaskQueues(v))}

\* The limits that a message gets from the task of its sender, for want of the queue's
SoftAttributeOf == [v \in Versions |-> TaskSoftAttribute(Code[v].options)]
HardAttributeOf == [v \in Versions |-> TaskHardAttribute(Code[v].options, TaskQueues(v))]

\* The limits that a worker gives a message without limits
SoftLimitOf == [v \in Versions |-> TaskSoftLimit(Code[v].options)]
HardLimitOf == [v \in Versions |-> TaskHardLimit(Code[v].options, TaskQueues(v))]

\* The soft and hard limits that check_time_limits() of some version accepted together: those of
\* the task's messages to each of its queues
AcceptedLimits ==
    UNION {{<<FirstSet(q.soft_time_limit, SoftLimitOf[v]),
              CurrentTimeLimit(q.time_limit, HardLimitOf[v])>> : q \in TaskQueues(v)} : v \in Declarable}

\* retries_for() and the TTL windows of reconcile(): a queue that version v does not define
\* has no TTL, and the retries of its attempts follow the settings.
MaxAttemptsOf == [v \in Versions |-> [q \in Names |->
    IF q \in Defined(v) THEN Policy(v, q).max_attempts ELSE MaxAttemptLimit]]
DelaysOf == [v \in Versions |-> [q \in Names |-> [n \in 0..DelaySteps |->
    IF q \in Defined(v) THEN DelaySeconds(Policy(v, q).retry, n)
    ELSE SettingsDelaySeconds(Settings, n)]]]
TtlsOf == [v \in Versions |-> [q \in Names |->
    IF q \in Defined(v) THEN Policy(v, q).message_ttl ELSE None]]
NoneOf == [q \in Names |-> None]

\* The rows and their statements under version v
P(v) == INSTANCE TaskAttempts WITH
    Queues <- Names, DefaultQueue <- Code[v].live, Tokens <- Slots, BlockTime <- 1,
    MaxAttempts <- MaxAttemptsOf[v], RetryDelays <- DelaysOf[v], MessageTtl <- TtlsOf[v],
    GiveUpAfterBlocks <- NoneOf, HardLimit <- NoneOf

\* The task's backfill queue, or its live queue without one
CurrentQueue(v) == FirstSet(Code[v].backfill, Code[v].live)

\* Mutant: the retry follows the task to its current queue.
RedispatchToCurrent(v, recorded) == CurrentQueue(v)

\* redispatch_queue()
RedispatchQueue(v, recorded) == IF recorded \in Defined(v) THEN recorded ELSE CurrentQueue(v)

-----------------------------------------------------------------------------
(* State *)

\* A message from its send to the end of its execution.  declared: it runs under two limits
\* that one version declares together.
Message == [running: BOOLEAN, queue: Names, soft: Limit, hard: Limit, wait: Nat,
            expires: Instant, left: Instant, declared: BOOLEAN]

TypeOK ==
    /\ code \in [Roles -> Versions]
    /\ row \in [Attempts -> P(code.worker)!Row]
    /\ msg \in [Attempts -> [Slots -> Optional(Message)]]
    /\ stable \in BOOLEAN

Init ==
    /\ \E v \in Declarable : code = [r \in Roles |-> v]
    /\ row = [a \in Attempts |-> P(code.worker)!AbsentRow]
    /\ msg = [a \in Attempts |-> [m \in Slots |-> None]]
    /\ stable = FALSE

Sent(a, m) == msg[a][m] # None /\ ~msg[a][m].running
Running(a, m) == msg[a][m] # None /\ msg[a][m].running

Set(a, r, ms) == row' = [row EXCEPT ![a] = r] /\ msg' = [msg EXCEPT ![a] = ms]

\* apply_async() by version v: the messages of an attempt with row r, after ms.  Limits of the
\* queue go before those of the task; limits of the Celery config are not sent.  An id that
\* is free is one no message has and the row does not name; without one the send fails.
Enqueued(v, r, ms, q) ==
    LET free == {m \in Slots : ms[m] = None /\ r.celery_task_id # m}
        eta == r.next_retry_at
    IN  IF free = {} THEN ms
        ELSE [ms EXCEPT ![Min(free)] =
                [running |-> FALSE, queue |-> q, left |-> None, declared |-> FALSE,
                 soft |-> FirstSet(Policy(v, q).soft_time_limit, SoftAttributeOf[v]),
                 hard |-> FirstSet(Policy(v, q).time_limit, HardAttributeOf[v]),
                 wait |-> IF eta = None THEN 0 ELSE Larger(0, eta),
                 expires |-> P(v)!MessageExpiry(q, eta, 0)]]

-----------------------------------------------------------------------------
(* QueueExecutor *)

\* A row and its messages after a step on an attempt
Result(r, ms) == [row |-> r, msg |-> ms]

\* execute() on a row that is pending or failed and due: the policy of the recorded queue if v
\* defines it, else the queue the caller names
Executed(v, r, ms, named) ==
    LET q == IF r.dispatch_queue \in Defined(v) THEN r.dispatch_queue ELSE named
        opened == IF r.status = "failed" THEN P(v)!ReopenSet(r, 0) ELSE r
        recorded == P(v)!RecordDispatchSet(opened, q, 0)
    IN  Result(recorded, Enqueued(v, recorded, ms, q))

\* A failure of an attempt, then dispatch_retry() if a try remains
Retried(v, r, ms) ==
    LET failed == P(v)!FailureSet(r, P(v)!RetryDelayOf(r.dispatch_queue, r.attempt_count), 0)
        q == RedispatchQueue(v, r.dispatch_queue)
        requeued == P(v)!RequeueSet(failed, q, 0)
    IN  IF failed.next_retry_at = None THEN Result(failed, ms)
        ELSE Result(requeued, Enqueued(v, requeued, ms, q))

Become(a, result) == Set(a, result.row, result.msg)

\* The scheduler or a backfill submits attempt a to a queue of the task.
Submit(a) ==
    /\ ~stable /\ a \in Code[code.scheduler].matches
    /\ LET v == code.scheduler
           r == IF row[a].status = "absent" THEN P(v)!CreatedRow(0) ELSE row[a]
       IN  /\ r.status = "pending" \/ P(v)!DueAgain(r, 0)
           /\ \E q \in TaskQueueNames(v) : Become(a, Executed(v, r, msg[a], q))
    /\ UNCHANGED <<code, stable>>

-----------------------------------------------------------------------------
(* TaskRunner.run() *)

\* A worker gets a message from a queue its version defines and claims the row, or not.
Deliver(a, m) ==
    /\ Sent(a, m) /\ msg[a][m].wait = 0
    /\ LET v == code.worker
           q == msg[a][m].queue
           soft == FirstSet(msg[a][m].soft, SoftLimitOf[v])
           hard == CurrentTimeLimit(msg[a][m].hard, HardLimitOf[v])
           execution == [msg[a][m] EXCEPT !.running = TRUE, !.left = KilledAfter(soft, hard),
                            !.soft = None, !.hard = None, !.expires = None,
                            !.declared = <<soft, hard>> \in AcceptedLimits]
       IN  /\ q \in Defined(v)
           /\ IF P(v)!ClaimWhere(row[a])
              THEN Set(a, P(v)!ClaimSet(row[a], m, hard, 0), [msg[a] EXCEPT ![m] = execution])
              ELSE Set(a, row[a], [msg[a] EXCEPT ![m] = None])
    /\ UNCHANGED <<code, stable>>

Succeed(a, m) ==
    /\ Running(a, m)
    /\ LET v == code.worker
       IN  Set(a, IF P(v)!FinishWhere(row[a], m) THEN P(v)!FinishSuccessSet(row[a], 0) ELSE row[a],
               [msg[a] EXCEPT ![m] = None])
    /\ UNCHANGED <<code, stable>>

Fail(a, m) ==
    /\ Running(a, m)
    /\ LET v == code.worker
           ms == [msg[a] EXCEPT ![m] = None]
       IN  Become(a, IF P(v)!FinishWhere(row[a], m) THEN Retried(v, row[a], ms) ELSE Result(row[a], ms))
    /\ UNCHANGED <<code, stable>>

-----------------------------------------------------------------------------
(* QueueReconciler.reconcile() *)

\* Attempt a is before b by the instant in a field of their rows, then by id.
Older(a, b, field) ==
    row[a][field] < row[b][field] \/ (row[a][field] = row[b][field] /\ a < b)

\* Mutant: the slice ends one short.
OldestButOne(S, n, field) == {a \in S : Cardinality({b \in S : Older(b, a, field)}) < n - 1}

\* The first n attempts of S: order_by() and the slice of the three listings
Oldest(S, n, field) == {a \in S : Cardinality({b \in S : Older(b, a, field)}) < n}

\* The three lists of a sweep share the batch limit.  A row that was recovered is in no later
\* list of the sweep: it was dispatched just now.
Sweep ==
    LET v == code.scheduler
        leases == Oldest({a \in Attempts : P(v)!FailExpiredLeaseWhere(row[a])},
                         BatchSize, "lease_expires_at")
        expired == Oldest({a \in Attempts : P(v)!ExpiredMessage(row[a], 0)},
                          BatchSize - Cardinality(leases), "dispatched_at")
        stuck == Oldest({a \in Attempts : P(v)!IsStuck(row[a], 0)},
                        BatchSize - Cardinality(leases) - Cardinality(expired), "updated_at")
        Redispatched(r, ms) == Executed(v, r, ms, RedispatchQueue(v, r.dispatch_queue))
        result == [a \in Attempts |->
            CASE a \in leases  -> Retried(v, row[a], msg[a])
              [] a \in expired -> Redispatched(P(v)!ClaimExpiredMessageSet(row[a], 0), msg[a])
              [] a \in stuck   -> Redispatched(P(v)!ResetToPendingSet(row[a], 0), msg[a])
              [] OTHER         -> Result(row[a], msg[a])]
    IN  /\ leases \cup expired \cup stuck # {}
        /\ row' = [a \in Attempts |-> result[a].row]
        /\ msg' = [a \in Attempts |-> result[a].msg]
        /\ UNCHANGED <<code, stable>>

-----------------------------------------------------------------------------
(* Environment *)

\* One kind of process is restarted with another version.  A worker ends what it executes
\* first (warm shutdown), or dies with it (Kill).
Deploy(role, v) ==
    /\ ~stable /\ <<code[role], v>> \in Upgrades
    /\ role = "worker" => \A a \in Attempts, m \in Slots : ~Running(a, m)
    /\ code' = [code EXCEPT ![role] = v]
    /\ UNCHANGED <<row, msg, stable>>

\* The pool kills an execution past its limit, or a fault ends it.
Kill(a, m) ==
    /\ Running(a, m)
    /\ (~stable /\ a \in Fragile) \/ (msg[a][m].left # None /\ msg[a][m].left <= 0)
    /\ Set(a, row[a], [msg[a] EXCEPT ![m] = None])
    /\ UNCHANGED <<code, stable>>

\* A message is lost, or its send failed.
Lose(a, m) ==
    /\ ~stable /\ a \in Fragile /\ Sent(a, m)
    /\ Set(a, row[a], [msg[a] EXCEPT ![m] = None])
    /\ UNCHANGED <<code, stable>>

Expired(x) == x # None /\ x.expires # None /\ x.expires <= 0

Settled(a) == row[a].status = "success" \/ row[a].give_up_reason # None

\* One second passes; RabbitMQ and workers drop what has expired.  Nothing compares the
\* instants of a row that does not exist or is settled.
Tick ==
    /\ \A a \in Attempts, m \in Slots :
           Running(a, m) /\ msg[a][m].left # None => msg[a][m].left > -KillDelay
    /\ row' = [a \in Attempts |-> IF row[a].status = "absent" \/ Settled(a) THEN row[a]
                                  ELSE P(code.worker)!AgeRow(row[a])]
    /\ msg' = [a \in Attempts |-> [m \in Slots |->
                  IF msg[a][m] = None \/ Expired(msg[a][m]) THEN None
                  ELSE [msg[a][m] EXCEPT !.wait = Larger(0, @ - 1), !.expires = Age(@),
                                         !.left = IF @ = None THEN None ELSE @ - 1]]]
    /\ UNCHANGED <<code, stable>>

\* The deployment is complete and nothing is lost any more.  No worker will read the messages
\* of queues that are no longer defined.
Stabilise ==
    /\ ~stable /\ stable' = TRUE
    /\ code.scheduler = code.worker
    /\ msg' = [a \in Attempts |-> [m \in Slots |->
                  IF Sent(a, m) /\ msg[a][m].queue \notin Defined(code.worker) THEN None
                  ELSE msg[a][m]]]
    /\ UNCHANGED <<row, code>>

-----------------------------------------------------------------------------

Next ==
    \/ \E a \in Attempts :
          \/ Submit(a)
          \/ \E m \in Slots : Deliver(a, m) \/ Succeed(a, m) \/ Fail(a, m) \/ Kill(a, m) \/ Lose(a, m)
    \/ Sweep
    \/ \E role \in Roles, v \in Declarable : Deploy(role, v)
    \/ Tick
    \/ Stabilise

\* Time passes, the loop of the scheduler sweeps again and again, messages that stay
\* deliverable are delivered, functions end or are killed.
Fairness ==
    /\ SF_vars(Tick)
    /\ WF_vars(Sweep)
    /\ \A a \in Attempts, m \in Slots :
           /\ SF_vars(Deliver(a, m))
           /\ WF_vars(Succeed(a, m) \/ Fail(a, m) \/ Kill(a, m))

Spec == Init /\ [][Next]_vars /\ Fairness

-----------------------------------------------------------------------------
(* Properties *)

\* time_limits.py: an execution that its limits will end keeps its claim until it ends, whatever
\* versions sent its message and run it, if the two limits it ends up with are ones that some
\* version declares together.  default_time_limit_options() and check_time_limits() leave no
\* declaration under which the sweep takes it over.  Limits of two versions that none declares
\* together do not keep the claim: the pool kills at the later one, the lease counts from
\* the hard one.
DeclaredRunKeepsClaim ==
    \A a \in Attempts, m \in Slots :
        Running(a, m) /\ msg[a][m].declared /\ msg[a][m].left # None
            => P(code.worker)!FinishWhere(row[a], m)

\* queue_executor.py: submissions, retries and sweeps of any version leave an attempt on the
\* queue it was sent to as long as their own version defines it; only once it is gone
\* the attempt moves.
QueueIsKept ==
    [][\A a \in Attempts :
          row'[a].dispatch_queue # row[a].dispatch_queue /\ row[a].dispatch_queue # None
              => \E role \in Roles : row[a].dispatch_queue \notin Defined(code[role])]_vars

\* reconciler.py: whatever queues were renamed or removed under an attempt, and however small
\* the batch of a sweep is, it succeeds or is given up once deployments and faults stop.
Settles == \A a \in Attempts : (stable /\ row[a].status # "absent") ~> Settled(a)
=============================================================================
