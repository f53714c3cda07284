----------------------------- MODULE QueueTasks -----------------------------
(***************************************************************************)
(* Execution of BlockDumper tasks: submitters (the live scheduler, its     *)
(* lookback and backfills) hand attempts to Celery, workers run them, and  *)
(* sweepers recover what was lost.  They share the TaskAttempt rows and    *)
(* the broker, and nothing else.                                           *)
(*                                                                         *)
(* A process is a record whose pc says which database statement or send    *)
(* comes next; every statement is an action of its own, since each commits *)
(* before the next one starts (READ COMMITTED, no locks held across them). *)
(***************************************************************************)
EXTENDS TaskAttempts, FiniteSets

CONSTANTS
    Attempts,       \* units of work: (block, task, args)
    Workers,        \* slots of the Celery worker pools
    Submitters,     \* processes that call QueueExecutor.execute() for a block
    Sweepers,       \* processes that call QueueReconciler.reconcile()
    Skew,           \* timezone.now() of each process minus the database clock
    KillDelay,      \* seconds by which the pool may exceed a hard time limit
    Lags,           \* values of head_block - block_number, None: head unknown
    Redelivers,     \* whether the broker may deliver a message again
    MayStall        \* processes that time may pass for between two statements

Procs == Workers \cup Submitters \cup Sweepers

ASSUME ProcessAssumption ==
    /\ Workers \cap Submitters = {} /\ Workers \cap Sweepers = {}
    /\ Submitters \cap Sweepers = {}
    /\ Skew \in [Procs -> Int]
    /\ KillDelay \in Nat /\ KillDelay <= Margin
    /\ Lags \subseteq Optional(Int)
    /\ Redelivers \in BOOLEAN
    /\ MayStall \subseteq Procs
    /\ None \notin Attempts

\* Ages past the horizon are past every window the code compares with.
ASSUME HorizonAssumption ==
    \A p \in Procs :
        /\ \A q \in Queues :
               MessageTtl[q] # None => Horizon > MessageTtl[q] + Margin - Skew[p]
        /\ StaleTimeout # None => Horizon > StaleTimeout - Skew[p]
        /\ Horizon > 0 /\ Horizon > -Skew[p]

VARIABLES
    row,        \* the TaskAttempt table
    broker,     \* messages sent and not consumed, by id
    proc,       \* local state of every process
    stable      \* from now on: no faults, no new submissions

vars == <<row, broker, proc, stable>>

-----------------------------------------------------------------------------
(* State *)

\* Program counters, named for what has been done so far.
WorkerPCs == {"claim", "refused", "claimed", "running"}
RetryPCs  == {"failed", "refreshed", "requeued"}
SweepPCs  == {"listed", "read"}
SubmitPCs == {"submit", "reopen", "opened", "dated", "agreed", "recorded"}
PCs == {"idle"} \cup WorkerPCs \cup RetryPCs \cup SweepPCs \cup SubmitPCs

Proc == [pc: PCs,
         att: Optional(Attempts),       \* the attempt worked on
         token: Optional(Tokens),       \* claim token: id of the message executed
         tries: Nat,                    \* attempt_count as last read
         queue: Optional(Queues),       \* queue as last read, or named by the caller
         eta: Instant,                  \* next_retry_at as last read
         left: Instant]                 \* seconds until the hard time limit

IdleProc == [pc |-> "idle", att |-> None, token |-> None, tries |-> 0,
             queue |-> None, eta |-> None, left |-> None]

Message == [att: Attempts, queue: Queues, eta: Instant, expires: Instant]

TypeOK ==
    /\ row \in [Attempts -> Row]
    /\ broker \in [Tokens -> Optional(Message)]
    /\ proc \in [Procs -> Proc]
    /\ stable \in BOOLEAN

Init ==
    /\ row = [a \in Attempts |-> AbsentRow]
    /\ broker = [m \in Tokens |-> None]
    /\ proc = [p \in Procs |-> IdleProc]
    /\ stable = FALSE

At(p, pc) == proc[p].pc = pc
Goto(p, pc) == proc' = [proc EXCEPT ![p].pc = pc]
Done(p) == proc' = [proc EXCEPT ![p] = IdleProc]
Update(a, r) == row' = [row EXCEPT ![a] = r]

\* A worker between its claim and the end of the function
Executing(w) == proc[w].pc \in {"claimed", "running"}
ExecutingAttempt(w, a) == Executing(w) /\ proc[w].att = a

\* Ids no message, worker or row refers to.  Celery's ids are never reused; reusing an
\* id nothing can compare with keeps the instance finite.
FreshIds ==
    {m \in Tokens : /\ broker[m] = None
                    /\ \A w \in Workers : proc[w].token # m
                    /\ \A a \in Attempts : row[a].celery_task_id # m}

-----------------------------------------------------------------------------
(* QueueExecutor.execute() *)

\* A scheduler or backfill submits attempt a under queue q.
Submit(p, a, q) ==
    /\ p \in Submitters /\ At(p, "idle") /\ ~stable
    /\ proc' = [proc EXCEPT ![p] = [IdleProc EXCEPT !.pc = "submit", !.att = a, !.queue = q]]
    /\ UNCHANGED <<row, broker, stable>>

\* After create_or_reopen(): the recorded policy wins, and only a policy with
\* give_up_after_blocks touches the deadline.
OpenedProc(p, recorded, eta) ==
    LET q == IF recorded = None THEN proc[p].queue ELSE recorded
    IN  [proc[p] EXCEPT !.pc = IF GiveUpAfterBlocks[q] = None THEN "dated" ELSE "opened",
                        !.queue = q, !.eta = eta]

Create(p) ==
    /\ At(p, "submit")
    /\ row[proc[p].att].status = "absent"
    /\ Update(proc[p].att, CreatedRow(Skew[p]))
    /\ proc' = [proc EXCEPT ![p] = OpenedProc(p, None, None)]
    /\ UNCHANGED <<broker, stable>>

\* get_or_create() found the row.
Get(p) ==
    /\ At(p, "submit")
    /\ LET r == row[proc[p].att]
       IN  /\ r.status # "absent"
           /\ \/ /\ r.status = "pending"
                 /\ proc' = [proc EXCEPT ![p] = OpenedProc(p, r.dispatch_queue, r.next_retry_at)]
              \/ /\ DueAgain(r, Skew[p])
                 /\ proc' = [proc EXCEPT ![p].pc = "reopen",
                                         ![p].queue = IF r.dispatch_queue = None THEN @ ELSE r.dispatch_queue,
                                         ![p].eta = r.next_retry_at]
              \/ r.status # "pending" /\ ~DueAgain(r, Skew[p]) /\ Done(p)
    /\ UNCHANGED <<row, broker, stable>>

Reopen(p) ==
    /\ At(p, "reopen")
    /\ LET r == row[proc[p].att]
       IN  \/ /\ ReopenWhere(r)
              /\ Update(proc[p].att, ReopenSet(r, Skew[p]))
              /\ proc' = [proc EXCEPT ![p] = OpenedProc(p, proc[p].queue, proc[p].eta)]
           \/ ~ReopenWhere(r) /\ Done(p) /\ UNCHANGED row
    /\ UNCHANGED <<broker, stable>>

\* _gave_up(): set_give_up_deadline(), when the head is known
SetGiveUpDeadline(p, lag) ==
    /\ At(p, "opened")
    /\ LET left == GiveUpAfterBlocks[proc[p].queue] - lag
       IN  IF lag = None THEN UNCHANGED row
           ELSE Update(proc[p].att, SetGiveUpDeadlineSet(row[proc[p].att], left * BlockTime))
    /\ Goto(p, "dated")
    /\ UNCHANGED <<broker, stable>>

\* _gave_up(): give_up_if_past_deadline()
CheckDeadline(p) ==
    /\ At(p, "dated")
    /\ LET r == row[proc[p].att]
       IN  \/ /\ GiveUpIfPastDeadlineWhere(r)
              /\ Update(proc[p].att, GiveUpSet(r, "block_age", Skew[p]))
              /\ Done(p)
           \/ ~GiveUpIfPastDeadlineWhere(r) /\ Goto(p, "agreed") /\ UNCHANGED row
    /\ UNCHANGED <<broker, stable>>

RecordDispatch(p) ==
    /\ At(p, "agreed")
    /\ Update(proc[p].att, RecordDispatchSet(row[proc[p].att], proc[p].queue, Skew[p]))
    /\ Goto(p, "recorded")
    /\ UNCHANGED <<broker, stable>>

\* apply_async() of execute() and of dispatch_retry()
Send(p) ==
    /\ proc[p].pc \in {"recorded", "requeued"}
    /\ \E m \in FreshIds :
           broker' = [broker EXCEPT ![m] =
               [att |-> proc[p].att, queue |-> proc[p].queue, eta |-> proc[p].eta,
                expires |-> MessageExpiry(proc[p].queue, proc[p].eta, Skew[p])]]
    /\ Done(p)
    /\ UNCHANGED <<row, stable>>

\* apply_async() raises: the broker is unreachable, or holds as many messages as the
\* instance has ids.  Callers log it and go on with the next block or row.
SendFails(p) ==
    /\ proc[p].pc \in {"recorded", "requeued"}
    /\ ~stable \/ FreshIds = {}
    /\ Done(p)
    /\ UNCHANGED <<row, broker, stable>>

-----------------------------------------------------------------------------
(* TaskRunner.run() *)

\* The broker delivers message m and _claim() reads the row.  An absent row or one that is
\* not pending ends the run.
Receive(w, m) ==
    /\ w \in Workers /\ At(w, "idle") /\ broker[m] # None
    /\ broker[m].eta # None => broker[m].eta <= Skew[w]
    /\ broker[m].expires # None => broker[m].expires >= Skew[w]
    /\ \/ broker' = [broker EXCEPT ![m] = None]
       \/ Redelivers /\ UNCHANGED broker
    /\ IF row[broker[m].att].status = "pending"
       THEN proc' = [proc EXCEPT ![w] =
                [IdleProc EXCEPT !.pc = "claim", !.att = broker[m].att, !.token = m,
                                 !.left = HardLimit[broker[m].queue], !.queue = broker[m].queue]]
       ELSE UNCHANGED proc
    /\ UNCHANGED <<row, stable>>

Claim(w) ==
    /\ At(w, "claim")
    /\ LET r == row[proc[w].att]
       IN  \/ /\ ClaimWhere(r)
              /\ Update(proc[w].att, ClaimSet(r, proc[w].token, HardLimit[proc[w].queue], Skew[w]))
              /\ Goto(w, "claimed")
           \/ ~ClaimWhere(r) /\ Goto(w, "refused") /\ UNCHANGED row
    /\ UNCHANGED <<broker, stable>>

\* give_up_if_past_deadline() after a refused claim; what find() returns after it changes nothing
GiveUpRefused(w) ==
    /\ At(w, "refused")
    /\ LET r == row[proc[w].att]
       IN  IF GiveUpIfPastDeadlineWhere(r)
           THEN Update(proc[w].att, GiveUpSet(r, "block_age", Skew[w]))
           ELSE UNCHANGED row
    /\ Done(w)
    /\ UNCHANGED <<broker, stable>>

\* refresh_from_db() after the claim: what retry_delay() will be computed from
LoadClaim(w) ==
    /\ At(w, "claimed")
    /\ proc' = [proc EXCEPT ![w].pc = "running",
                            ![w].tries = row[proc[w].att].attempt_count,
                            ![w].queue = row[proc[w].att].dispatch_queue]
    /\ UNCHANGED <<row, broker, stable>>

\* The function returned; its transaction records SUCCESS or is rolled back.
FinishSuccess(w) ==
    /\ At(w, "running")
    /\ LET r == row[proc[w].att]
       IN  IF FinishWhere(r, proc[w].token)
           THEN Update(proc[w].att, FinishSuccessSet(r, Skew[w]))
           ELSE UNCHANGED row
    /\ Done(w)
    /\ UNCHANGED <<broker, stable>>

\* The function raised, or its transaction could not commit.
FinishFailure(w) ==
    /\ At(w, "running")
    /\ LET r == row[proc[w].att]
       IN  \/ /\ FinishWhere(r, proc[w].token)
              /\ Update(proc[w].att,
                        FailureSet(r, RetryDelayOf(proc[w].queue, proc[w].tries), Skew[w]))
              /\ Goto(w, "failed")
           \/ ~FinishWhere(r, proc[w].token) /\ Done(w) /\ UNCHANGED row
    /\ UNCHANGED <<broker, stable>>

\* refresh_from_db() of _retry_or_report_given_up() and of _recover_expired_lease(), and
\* the early returns up to requeue_for_retry()
RefreshFailed(p) ==
    /\ At(p, "failed")
    /\ LET r == row[proc[p].att]
       IN  IF r.give_up_reason # None \/ r.next_retry_at = None
           THEN Done(p)
           ELSE proc' = [proc EXCEPT ![p].pc = "refreshed", ![p].eta = r.next_retry_at,
                                     ![p].queue = RedispatchQueue(r.dispatch_queue)]
    /\ UNCHANGED <<row, broker, stable>>

\* dispatch_retry(): requeue_for_retry()
RequeueForRetry(p) ==
    /\ At(p, "refreshed")
    /\ LET r == row[proc[p].att]
       IN  \/ /\ RequeueWhere(r)
              /\ Update(proc[p].att, RequeueSet(r, proc[p].queue, Skew[p]))
              /\ Goto(p, "requeued")
           \/ ~RequeueWhere(r) /\ Done(p) /\ UNCHANGED row
    /\ UNCHANGED <<broker, stable>>

-----------------------------------------------------------------------------
(* QueueReconciler.reconcile() *)

\* expired_lease_ids()
ListExpiredLease(s, a) ==
    /\ s \in Sweepers /\ At(s, "idle")
    /\ FailExpiredLeaseWhere(row[a])
    /\ proc' = [proc EXCEPT ![s].pc = "listed", ![s].att = a]
    /\ UNCHANGED <<row, broker, stable>>

\* _recover_expired_lease(): the read retry_delay() is computed from
ReadExpiredLease(s) ==
    /\ At(s, "listed")
    /\ proc' = [proc EXCEPT ![s].pc = "read",
                            ![s].tries = row[proc[s].att].attempt_count,
                            ![s].queue = row[proc[s].att].dispatch_queue]
    /\ UNCHANGED <<row, broker, stable>>

FailExpiredLease(s) ==
    /\ At(s, "read")
    /\ LET r == row[proc[s].att]
       IN  \/ /\ FailExpiredLeaseWhere(r)
              /\ Update(proc[s].att,
                        FailureSet(r, RetryDelayOf(proc[s].queue, proc[s].tries), Skew[s]))
              /\ Goto(s, "failed")
           \/ ~FailExpiredLeaseWhere(r) /\ Done(s) /\ UNCHANGED row
    /\ UNCHANGED <<broker, stable>>

\* The call of execute() for a row the sweep has taken
Resend(s, a) ==
    proc' = [proc EXCEPT ![s] = [IdleProc EXCEPT !.pc = "submit", !.att = a,
                                     !.queue = RedispatchQueue(row[a].dispatch_queue)]]

\* _recover_expired_message(), up to execute().  claim_expired_message() repeats the
\* conditions of the listing.
RecoverExpiredMessage(s, a) ==
    /\ s \in Sweepers /\ At(s, "idle")
    /\ ExpiredMessage(row[a], Skew[s])
    /\ Update(a, ClaimExpiredMessageSet(row[a], Skew[s]))
    /\ Resend(s, a)
    /\ UNCHANGED <<broker, stable>>

\* _recover_stuck_task(), up to execute(); is_stuck() and reset_to_pending() share a row lock.
RecoverStuckTask(s, a) ==
    /\ s \in Sweepers /\ At(s, "idle")
    /\ IsStuck(row[a], Skew[s])
    /\ Update(a, ResetToPendingSet(row[a], Skew[s]))
    /\ Resend(s, a)
    /\ UNCHANGED <<broker, stable>>

-----------------------------------------------------------------------------
(* Environment *)

\* manage.py block_dumper_give_up_v1: give_up_by_hand()
GiveUpByHand(a) ==
    /\ CouldStillRun(row[a])
    /\ Update(a, GiveUpSet(row[a], "manual", 0))
    /\ UNCHANGED <<broker, proc, stable>>

\* The pool kills a worker past its hard time limit.
HardKill(w) ==
    /\ w \in Workers /\ proc[w].left # None /\ proc[w].left <= 0
    /\ Done(w)
    /\ UNCHANGED <<row, broker, stable>>

\* A process dies (OOM, lost host, restart), or a statement raises OperationalError.
Crash(p) ==
    /\ ~stable /\ ~At(p, "idle")
    /\ Done(p)
    /\ UNCHANGED <<row, broker, stable>>

LoseMessage(m) ==
    /\ ~stable /\ broker[m] # None
    /\ broker' = [broker EXCEPT ![m] = None]
    /\ UNCHANGED <<row, proc, stable>>

\* RabbitMQ drops an expired message, or the worker that prefetched it does.
DropExpired(m) ==
    /\ broker[m] # None /\ Before(broker[m].expires, 0)
    /\ broker' = [broker EXCEPT ![m] = None]
    /\ UNCHANGED <<row, proc, stable>>

\* One second passes.  A worker outlives its hard limit by at most KillDelay, and only the
\* processes of MayStall sit between two statements for that long.
Tick ==
    /\ \A p \in Procs : p \in MayStall \/ proc[p].pc \in {"idle", "running"}
    /\ \A w \in Workers : proc[w].left # None => proc[w].left > -KillDelay
    /\ row' = [a \in Attempts |-> AgeRow(row[a])]
    /\ broker' = [m \in Tokens |->
                    IF broker[m] = None THEN None
                    ELSE [broker[m] EXCEPT !.eta = Age(@), !.expires = Age(@)]]
    /\ proc' = [p \in Procs |-> [proc[p] EXCEPT !.eta = Age(@),
                                    !.left = IF @ = None THEN None ELSE @ - 1]]
    /\ UNCHANGED stable

\* Faults and submissions stop.
Stabilise ==
    /\ ~stable /\ stable' = TRUE
    /\ UNCHANGED <<row, broker, proc>>

-----------------------------------------------------------------------------

ExecuteStep(p) ==
    \/ Create(p) \/ Get(p) \/ Reopen(p)
    \/ \E lag \in Lags : SetGiveUpDeadline(p, lag)
    \/ CheckDeadline(p) \/ RecordDispatch(p) \/ Send(p) \/ SendFails(p)

RetryStep(p) == RefreshFailed(p) \/ RequeueForRetry(p)

WorkerStep(w) ==
    \/ Claim(w) \/ GiveUpRefused(w) \/ LoadClaim(w)
    \/ FinishSuccess(w) \/ FinishFailure(w) \/ HardKill(w)

SweepStart(s) ==
    \E a \in Attempts : ListExpiredLease(s, a) \/ RecoverExpiredMessage(s, a) \/ RecoverStuckTask(s, a)

SweepStep(s) == ReadExpiredLease(s) \/ FailExpiredLease(s)

Next ==
    \/ \E p \in Procs : ExecuteStep(p) \/ RetryStep(p) \/ Crash(p)
    \/ \E p \in Submitters, a \in Attempts, q \in Queues : Submit(p, a, q)
    \/ \E w \in Workers : WorkerStep(w) \/ \E m \in Tokens : Receive(w, m)
    \/ \E s \in Sweepers : SweepStart(s) \/ SweepStep(s)
    \/ \E a \in Attempts : GiveUpByHand(a)
    \/ \E m \in Tokens : LoseMessage(m) \/ DropExpired(m)
    \/ Tick

Spec == Init /\ [][Next]_vars

\* Time passes; the broker delivers every message that stays deliverable; the processes go
\* on with what they started; the scheduler's loop sweeps again and again; the task's
\* function ends or is killed.  Crashes, losses and submissions are never required.
Fairness ==
    /\ SF_vars(Tick)
    /\ \A m \in Tokens : SF_vars(\E w \in Workers : Receive(w, m)) /\ WF_vars(DropExpired(m))
    /\ \A p \in Procs : WF_vars(ExecuteStep(p) \/ RetryStep(p))
    /\ \A w \in Workers : WF_vars(WorkerStep(w))
    /\ \A s \in Sweepers : WF_vars(SweepStart(s) \/ SweepStep(s))
    /\ WF_vars(Stabilise)

FairSpec == Init /\ [][Next \/ Stabilise]_vars /\ Fairness

-----------------------------------------------------------------------------
(* Properties *)

\* Workers are killed before their lease can be taken over: there is a hard time limit, or
\* no sweep that would take over a claim without one.
KilledBeforeTakeover == StaleTimeout = None \/ \A q \in Queues : HardLimit[q] # None

\* README "Execution guarantees": at most one worker executes an attempt, whatever is
\* submitted, swept, retried or delivered twice; lease_seconds() leaves the margin for it.
OneRunner ==
    KilledBeforeTakeover =>
        \A a \in Attempts, w1, w2 \in Workers :
            ExecutingAttempt(w1, a) /\ ExecutingAttempt(w2, a) => w1 = w2

\* task_runner.py: every later write is fenced on the claim token.  A worker that would pass
\* the WHERE clause of finish_success() or finish_failure() made the latest claim.
FenceIsExact ==
    \A w \in Workers :
        At(w, "running") /\ FinishWhere(row[proc[w].att], proc[w].token)
            => proc[w].tries = row[proc[w].att].attempt_count

\* _failure_fields() and the give-up updates: a failed attempt either waits for a retry or
\* says why there is none; nothing leaves it failed with neither, or with both.
FailedIsDecided ==
    \A a \in Attempts :
        row[a].status = "failed" => (row[a].next_retry_at = None <=> row[a].give_up_reason # None)

\* queue_attempts._stuck_filter(): an attempt under a queue policy only stays pending, or
\* failed with a retry time, while its policy allows another try; none exceeds max_attempts.
TriesLeft ==
    \A a \in Attempts :
        LET r == row[a]
        IN  r.dispatch_queue # None =>
                /\ r.status = "pending" \/ (r.status = "failed" /\ r.next_retry_at # None)
                       => AllowsRetry(r.dispatch_queue, r.attempt_count)
                /\ MaxAttempts[r.dispatch_queue] # None
                       => r.attempt_count <= MaxAttempts[r.dispatch_queue]

\* queue_attempts.expired_message_filter(): once the sweep takes a message for expired, none
\* of the attempt's messages can still be delivered, on any worker's clock; the margin has
\* to cover the skew between the clocks, twice where two failures chose a retry time, and
\* the gap between the stamp and the send.
ExpiredMessageIsGone ==
    \A a \in Attempts, s \in Sweepers, w \in Workers, m \in Tokens :
        /\ ExpiredMessage(row[a], Skew[s])
        /\ broker[m] # None
        /\ broker[m].att = a
        => Before(broker[m].expires, Skew[w])

\* task_runner.py: a worker that reaches the end of the function in time gets its outcome
\* recorded; neither a redelivered message, a sweep nor another submission takes the claim
\* from under it.
OutcomeIsRecorded ==
    KilledBeforeTakeover =>
        \A w \in Workers :
            At(w, "running") => FinishWhere(row[proc[w].att], proc[w].token)

\* The life of an attempt that a row stands for
Phase(r) ==
    IF r.status \in {"pending", "failed"}
    THEN IF r.give_up_reason = None THEN "open" ELSE "given_up"
    ELSE r.status

Phases  == [a \in Attempts |-> Phase(row[a])]
Tries   == [a \in Attempts |-> row[a].attempt_count]
Runners == [a \in Attempts |-> {w \in Workers : ExecutingAttempt(w, a)}]

Lifecycle == INSTANCE AttemptLifecycle WITH phase <- Phases, tries <- Tries, runners <- Runners

\* README "Execution guarantees": executors, workers, sweeps and the give-up command together
\* implement the life of an attempt, whatever is lost, delivered twice, crashed or delayed.
ImplementsLifecycle == Lifecycle!Spec

\* README "Execution guarantees": an attempt that succeeded is never run, failed or
\* re-opened by a late worker, a sweep or a submission.
SuccessIsFinal ==
    [][\A a \in Attempts : row[a].status = "success" => row'[a].status = "success"]_vars

\* README "Giving up attempts": an attempt that was given up is never run again, keeps its
\* reason and gets no retry time.
GivenUpIsFinal ==
    [][\A a \in Attempts :
          row[a].give_up_reason # None =>
              /\ row'[a].status = "failed"
              /\ row'[a].give_up_reason = row[a].give_up_reason
              /\ row'[a].next_retry_at = None
              /\ row'[a].attempt_count = row[a].attempt_count]_vars

\* reconciler.py: whatever crashed or was lost, every recorded attempt ends in success or
\* is given up once faults stop.
Settled(a) == row[a].status = "success" \/ row[a].give_up_reason # None
Settles == \A a \in Attempts : (stable /\ row[a].status # "absent") ~> Settled(a)
=============================================================================
