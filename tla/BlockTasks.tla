----------------------------- MODULE BlockTasks -----------------------------
(***************************************************************************)
(* Execution of @block_task tasks, which have no queue policy: dispatchers *)
(* (the live scheduler, which also sweeps, and backfills) hand attempts to *)
(* Celery, and a worker runs an attempt in one transaction that holds the  *)
(* row's lock.  Unlike the statements of QueueTasks, most writes here are  *)
(* Model.save() of a whole row read earlier: `copy` is that object.        *)
(*                                                                         *)
(* `row` is the committed table: the RUNNING status a worker writes is     *)
(* only seen by its own transaction.  A save() waits for the row's lock.   *)
(***************************************************************************)
EXTENDS Clock

CONSTANTS
    Attempts,           \* units of work: (block, task, args)
    Workers,            \* slots of the Celery worker pools
    Dispatchers,        \* processes that call CeleryExecutor.execute()
    Sweeping,           \* the dispatchers that also run the stuck-task sweep
    Ids,                \* ids of messages
    MaxAttemptLimit,    \* BLOCK_DUMPER_MAX_ATTEMPTS
    RetryDelays,        \* seconds before the retry of a try
    DelaySteps,         \* tries after which the delay no longer changes
    StaleTimeout,       \* BLOCK_DUMPER_STALE_TASK_TIMEOUT_SECONDS
    CleanupAge,         \* age at which cleanup_old_tasks() deletes, None: it is not scheduled
    Redelivers,         \* whether the broker may deliver a message again
    MayStall            \* processes that time may pass for between two statements

Procs == Workers \cup Dispatchers

ASSUME BlockTasksAssumption ==
    /\ None \notin Int /\ None \notin Attempts /\ None \notin Workers
    /\ Workers \cap Dispatchers = {} /\ Sweeping \subseteq Dispatchers
    /\ MaxAttemptLimit \in Nat /\ DelaySteps \in Nat
    /\ RetryDelays \in [0..DelaySteps -> Nat]
    /\ StaleTimeout \in Nat \ {0} /\ CleanupAge \in Optional(Nat)
    /\ Horizon \in Nat /\ Horizon > StaleTimeout
    /\ CleanupAge # None => Horizon > CleanupAge
    /\ Redelivers \in BOOLEAN /\ MayStall \subseteq Procs

VARIABLES
    row,        \* the TaskAttempt table, as committed
    lock,       \* the worker whose transaction holds the row, or None
    broker,     \* messages sent and not consumed, by id
    proc,       \* local state of every process
    stable      \* from now on: no faults, no new submissions

vars == <<row, lock, broker, proc, stable>>

-----------------------------------------------------------------------------
(* State *)

\* models.TaskAttempt; status "absent" stands for a row that does not exist.
Row == [status: {"absent", "pending", "running", "success", "failed"},
        attempt_count: Nat, next_retry_at: Instant, updated_at: Int]

AbsentRow == [status |-> "absent", attempt_count |-> 0, next_retry_at |-> None, updated_at |-> 0]

DispatchPCs == {"submit", "reopen", "opened", "recorded"}
WorkerPCs == {"running", "failed", "requeued"}

Proc == [pc: {"idle"} \cup DispatchPCs \cup WorkerPCs, att: Optional(Attempts), copy: Row]
IdleProc == [pc |-> "idle", att |-> None, copy |-> AbsentRow]

Message == [att: Attempts, eta: Instant]

TypeOK ==
    /\ row \in [Attempts -> Row]
    /\ lock \in [Attempts -> Optional(Workers)]
    /\ broker \in [Ids -> Optional(Message)]
    /\ proc \in [Procs -> Proc]
    /\ stable \in BOOLEAN

Init ==
    /\ row = [a \in Attempts |-> AbsentRow]
    /\ lock = [a \in Attempts |-> None]
    /\ broker = [m \in Ids |-> None]
    /\ proc = [p \in Procs |-> IdleProc]
    /\ stable = FALSE

At(p, pc) == proc[p].pc = pc
Done(p) == proc' = [proc EXCEPT ![p] = IdleProc]
Continue(p, pc, r) == proc' = [proc EXCEPT ![p].pc = pc, ![p].copy = r]
AgeRow(r) == [r EXCEPT !.next_retry_at = Age(@), !.updated_at = Age(@)]

\* Model.save(): every column of the object r, and INSERT if the row is gone
Save(a, r) == lock[a] = None /\ row' = [row EXCEPT ![a] = r]

FreeIds == {m \in Ids : broker[m] = None}

-----------------------------------------------------------------------------
(* Rules of django_dal.py *)

\* task_can_retry()
TaskCanRetry(r) == r.status \notin {"success", "running"} /\ r.attempt_count < MaxAttemptLimit

\* _get_retry_delay_seconds()
RetryDelay(tries) == RetryDelays[IF tries < DelaySteps THEN tries ELSE DelaySteps]

\* task_mark_as_success()
Succeeded(r) == [r EXCEPT !.status = "success", !.next_retry_at = None, !.updated_at = 0]

\* Mutant: a status models.TaskAttempt.Status does not have; save() does not validate it.
FailedAsError(r) == [r EXCEPT !.status = "error", !.attempt_count = @ + 1, !.updated_at = 0]

\* Mutant: the next retry time of the last try is kept.
FailedKeepsRetry(r) ==
    LET f == [r EXCEPT !.status = "failed", !.attempt_count = @ + 1, !.updated_at = 0]
    IN  [f EXCEPT !.next_retry_at = IF TaskCanRetry(f) THEN RetryDelay(f.attempt_count) ELSE @]

\* task_mark_as_failed()
Failed(r) ==
    LET f == [r EXCEPT !.status = "failed", !.attempt_count = @ + 1, !.updated_at = 0]
    IN  [f EXCEPT !.next_retry_at = IF TaskCanRetry(f) THEN RetryDelay(f.attempt_count) ELSE None]

\* reset_to_pending(), task_schedule_to_retry() and the save of task_create_or_get_pending()
BackToPending(r) == [r EXCEPT !.status = "pending", !.updated_at = 0]

\* Mutant: a failed attempt whose retry was never sent is not stuck.
StuckUnlessFailed(r) ==
    /\ r.attempt_count < MaxAttemptLimit
    /\ r.status \in {"pending", "running"}
    /\ r.updated_at < -StaleTimeout
    /\ NullOrBefore(r.next_retry_at, -StaleTimeout)

\* _stuck_task_filter() and is_stuck()
IsStuck(r) ==
    /\ r.attempt_count < MaxAttemptLimit
    /\ \/ /\ r.status \in {"pending", "running"}
          /\ r.updated_at < -StaleTimeout
          /\ NullOrBefore(r.next_retry_at, -StaleTimeout)
       \/ r.status = "failed" /\ Before(r.next_retry_at, -StaleTimeout)

-----------------------------------------------------------------------------
(* CeleryExecutor.execute() *)

\* A scheduler or backfill submits attempt a.
Submit(d, a) ==
    /\ At(d, "idle") /\ ~stable
    /\ proc' = [proc EXCEPT ![d] = [IdleProc EXCEPT !.pc = "submit", !.att = a]]
    /\ UNCHANGED <<row, lock, broker, stable>>

\* task_create_or_get_pending(): get_or_create() creates the row.
Create(d) ==
    /\ At(d, "submit")
    /\ row[proc[d].att].status = "absent"
    /\ LET r == [AbsentRow EXCEPT !.status = "pending"]
       IN  Save(proc[d].att, r) /\ Continue(d, "opened", r)
    /\ UNCHANGED <<lock, broker, stable>>

\* Mutant: a failed attempt is re-opened whatever its count.
DueWhateverCount(r) == r.status = "failed" /\ NullOrBefore(r.next_retry_at, 1)

\* Mutant: whatever is not running and due is re-opened.
DueWhateverStatus(r) == r.attempt_count < MaxAttemptLimit /\ NullOrBefore(r.next_retry_at, 1)

\* A failed attempt that task_create_or_get_pending() sets back to pending
Due(r) == r.status = "failed" /\ TaskCanRetry(r) /\ NullOrBefore(r.next_retry_at, 1)

\* task_create_or_get_pending(): get_or_create() reads the row, without a lock.
Get(d) ==
    /\ At(d, "submit")
    /\ LET r == row[proc[d].att]
       IN  /\ r.status # "absent"
           /\ \/ r.status = "pending" /\ Continue(d, "opened", r)
              \/ Due(r) /\ Continue(d, "reopen", r)
              \/ r.status # "pending" /\ ~Due(r) /\ Done(d)
    /\ UNCHANGED <<row, lock, broker, stable>>

\* task_create_or_get_pending(): the save() of what was read
Reopen(d) ==
    /\ At(d, "reopen")
    /\ LET r == BackToPending(proc[d].copy)
       IN  Save(proc[d].att, r) /\ Continue(d, "opened", r)
    /\ UNCHANGED <<lock, broker, stable>>

\* task_record_dispatch(): an UPDATE of updated_at alone, an error if the row is gone
RecordDispatch(d) ==
    /\ At(d, "opened")
    /\ LET r == row[proc[d].att]
       IN  \/ /\ r.status # "absent"
              /\ Save(proc[d].att, [r EXCEPT !.updated_at = 0])
              /\ Continue(d, "recorded", proc[d].copy)
           \/ r.status = "absent" /\ Done(d) /\ UNCHANGED row
    /\ UNCHANGED <<lock, broker, stable>>

\* apply_async() of execute() and of schedule_retry()
Send(p) ==
    /\ proc[p].pc \in {"recorded", "requeued"}
    /\ \E m \in FreeIds :
           broker' = [broker EXCEPT ![m] = [att |-> proc[p].att, eta |-> proc[p].copy.next_retry_at]]
    /\ Done(p)
    /\ UNCHANGED <<row, lock, stable>>

\* apply_async() raises: the broker is unreachable, or holds as many messages as the
\* instance has ids.  Callers log it and go on.
SendFails(p) ==
    /\ proc[p].pc \in {"recorded", "requeued"}
    /\ ~stable \/ FreeIds = {}
    /\ Done(p)
    /\ UNCHANGED <<row, lock, broker, stable>>

-----------------------------------------------------------------------------
(* _celery_task_wrapper() *)

\* The broker delivers message m.  The message ends here if the row is gone, locked by
\* another worker or not pending; else the worker locks the row and runs the function.
Receive(w, m) ==
    /\ At(w, "idle") /\ broker[m] # None
    /\ broker[m].eta # None => broker[m].eta <= 0
    /\ \/ broker' = [broker EXCEPT ![m] = None]
       \/ Redelivers /\ UNCHANGED broker
    /\ LET a == broker[m].att
       IN  \/ /\ lock[a] = None /\ row[a].status = "pending"
              /\ lock' = [lock EXCEPT ![a] = w]
              /\ proc' = [proc EXCEPT ![w] = [pc |-> "running", att |-> a,
                                              copy |-> [row[a] EXCEPT !.status = "running"]]]
           \/ ~(lock[a] = None /\ row[a].status = "pending") /\ UNCHANGED <<lock, proc>>
    /\ UNCHANGED <<row, stable>>

\* The worker's transaction commits r.
Commit(w, r) ==
    /\ row' = [row EXCEPT ![proc[w].att] = r]
    /\ lock' = [lock EXCEPT ![proc[w].att] = None]

FinishSuccess(w) ==
    /\ At(w, "running")
    /\ Commit(w, Succeeded(proc[w].copy))
    /\ Done(w)
    /\ UNCHANGED <<broker, stable>>

FinishFailure(w) ==
    /\ At(w, "running")
    /\ LET r == Failed(proc[w].copy)
       IN  /\ Commit(w, r)
           /\ IF TaskCanRetry(r) THEN Continue(w, "failed", r) ELSE Done(w)
    /\ UNCHANGED <<broker, stable>>

\* The transaction ends with an exception and leaves the row as it was: the function broke the
\* transaction or its result cannot be serialised, so that task_mark_as_failed() raises as
\* well, or the hard limit killed the worker.
Rollback(w) ==
    /\ At(w, "running")
    /\ lock' = [lock EXCEPT ![proc[w].att] = None]
    /\ Done(w)
    /\ UNCHANGED <<row, broker, stable>>

\* schedule_retry(), after the commit: task_schedule_to_retry()
ScheduleRetry(w) ==
    /\ At(w, "failed")
    /\ LET r == BackToPending(proc[w].copy)
       IN  Save(proc[w].att, r) /\ Continue(w, "requeued", r)
    /\ UNCHANGED <<lock, broker, stable>>

-----------------------------------------------------------------------------
(* BlockProcessor._reconcile_stuck_task() and cleanup_old_tasks() *)

\* Check and reset under the row lock, which a running worker holds, then execute()
RecoverStuckTask(d, a) ==
    /\ At(d, "idle")
    /\ IsStuck(row[a])
    /\ Save(a, BackToPending(row[a]))
    /\ proc' = [proc EXCEPT ![d] = [IdleProc EXCEPT !.pc = "submit", !.att = a]]
    /\ UNCHANGED <<lock, broker, stable>>

CleanupOldTasks(a) ==
    /\ CleanupAge # None
    /\ row[a].status \in {"success", "failed"}
    /\ row[a].updated_at < -CleanupAge
    /\ Save(a, AbsentRow)
    /\ UNCHANGED <<lock, broker, proc, stable>>

-----------------------------------------------------------------------------
(* Environment *)

\* A process dies or loses its database connection: its transaction is rolled back.
Crash(p) ==
    /\ ~stable /\ ~At(p, "idle")
    /\ lock' = [a \in Attempts |-> IF lock[a] = p THEN None ELSE lock[a]]
    /\ Done(p)
    /\ UNCHANGED <<row, broker, stable>>

LoseMessage(m) ==
    /\ ~stable /\ broker[m] # None
    /\ broker' = [broker EXCEPT ![m] = None]
    /\ UNCHANGED <<row, lock, proc, stable>>

\* One second passes; only the processes of MayStall sit between two statements for that long.
Tick ==
    /\ \A p \in Procs : p \in MayStall \/ proc[p].pc \in {"idle", "running"}
    /\ row' = [a \in Attempts |-> AgeRow(row[a])]
    /\ broker' = [m \in Ids |-> IF broker[m] = None THEN None ELSE [broker[m] EXCEPT !.eta = Age(@)]]
    /\ proc' = [p \in Procs |-> [proc[p] EXCEPT !.copy = AgeRow(@)]]
    /\ UNCHANGED <<lock, stable>>

\* Faults and submissions stop.
Stabilise ==
    /\ ~stable /\ stable' = TRUE
    /\ UNCHANGED <<row, lock, broker, proc>>

-----------------------------------------------------------------------------

ExecuteStep(d) == Create(d) \/ Get(d) \/ Reopen(d) \/ RecordDispatch(d)
WorkerStep(w) == FinishSuccess(w) \/ FinishFailure(w) \/ Rollback(w) \/ ScheduleRetry(w)
SendStep(p) == Send(p) \/ SendFails(p)
Sweep(d) == \E a \in Attempts : RecoverStuckTask(d, a)

Next ==
    \/ \E d \in Dispatchers : ExecuteStep(d) \/ \E a \in Attempts : Submit(d, a)
    \/ \E d \in Sweeping : Sweep(d)
    \/ \E w \in Workers : WorkerStep(w) \/ \E m \in Ids : Receive(w, m)
    \/ \E p \in Procs : SendStep(p) \/ Crash(p)
    \/ \E a \in Attempts : CleanupOldTasks(a)
    \/ \E m \in Ids : LoseMessage(m)
    \/ Tick

Spec == Init /\ [][Next]_vars

\* As in QueueTasks: time passes, deliverable messages are delivered, processes go on with
\* what they started, the scheduler's loop sweeps again and again, functions end, with an
\* outcome that is committed or not.
Fairness ==
    /\ SF_vars(Tick)
    /\ \A m \in Ids : SF_vars(\E w \in Workers : Receive(w, m))
    /\ \A d \in Dispatchers : WF_vars(ExecuteStep(d) \/ SendStep(d))
    /\ \A d \in Sweeping : WF_vars(Sweep(d))
    /\ \A w \in Workers : WF_vars(WorkerStep(w) \/ SendStep(w))
    /\ WF_vars(Stabilise)

FairSpec == Init /\ [][Next \/ Stabilise]_vars /\ Fairness

-----------------------------------------------------------------------------
(* Properties *)

\* A failed attempt without tries left
Exhausted(r) == r.status = "failed" /\ r.attempt_count >= MaxAttemptLimit

\* README "Execution guarantees": an attempt that succeeded stays so until it is cleaned up;
\* no submission, sweep or late retry runs it again.
SuccessIsFinal ==
    [][\A a \in Attempts :
          row[a].status = "success" => row'[a].status \in {"success", "absent"}]_vars

\* README "Execution guarantees": retries end at BLOCK_DUMPER_MAX_ATTEMPTS.  No save() takes
\* back a try that was counted, and an exhausted attempt stays failed until it is cleaned up.
TriesAreKept ==
    [][\A a \in Attempts :
          row'[a].status # "absent" =>
              /\ row'[a].attempt_count >= row[a].attempt_count
              /\ Exhausted(row[a]) => row'[a].status = "failed"]_vars

\* task_mark_as_failed(): a committed failure has a retry time exactly if tries are left.
FailedIsDecided ==
    \A a \in Attempts :
        row[a].status = "failed" => (row[a].next_retry_at = None <=> Exhausted(row[a]))

Settled(a) == row[a].status \in {"success", "absent"} \/ Exhausted(row[a])

\* README "Execution guarantees" promises that failures are retried until the tries run out.  It
\* does not hold of a try that is rolled back: nothing counts it, and the sweep sends the
\* attempt again for ever.
AlwaysSettles == \A a \in Attempts : (stable /\ row[a].status # "absent") ~> Settled(a)

\* block_processor.py: whatever crashed or was lost, every attempt ends in success or out of
\* tries once faults stop, unless the cleanup deletes it first, if at last every try that ends
\* is committed.
OutcomesAreCommitted == <>[][\A w \in Workers : ~Rollback(w)]_vars
Settles == OutcomesAreCommitted => AlwaysSettles
=============================================================================
