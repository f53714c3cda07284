---------------------------- MODULE TaskAttempts ----------------------------
(***************************************************************************)
(* The TaskAttempt row of a BlockDumper task (models.py) and its           *)
(* conditional UPDATE statements (_internal/dal/attempt_transitions.py,    *)
(* _internal/dal/queue_attempts.py).  An UPDATE is a pair of operators:    *)
(* XWhere(r) is its WHERE clause on the row r, XSet(r, ...) the row after  *)
(* its SET clause.                                                         *)
(* timezone.now() of the process is passed as `now`.                       *)
(***************************************************************************)
EXTENDS Clock

CONSTANTS
    Queues,             \* names of the queues with a policy
    DefaultQueue,       \* where redispatch_queue() sends an attempt without a queue
    Tokens,             \* claim tokens: ids of Celery messages
    MaxAttempts,        \* RetryPolicy.max_attempts of each queue, None: no limit
    MaxAttemptLimit,    \* BLOCK_DUMPER_MAX_ATTEMPTS
    RetryDelays,        \* seconds before the retry of a try, per queue and None: the settings
    DelaySteps,         \* tries after which the delay no longer changes (it is capped)
    GiveUpAfterBlocks,  \* RetryPolicy.give_up_after_blocks of each queue, None: no limit
    BlockTime,          \* BlockDumper.block_time_seconds
    HardLimit,          \* hard time limit of a message of each queue, None: none
    MessageTtl,         \* Queue.message_ttl of each queue, None: none
    Margin,             \* BLOCK_DUMPER_RECOVERY_MARGIN_SECONDS
    StaleTimeout        \* BLOCK_DUMPER_STALE_TASK_TIMEOUT_SECONDS, None: disabled

\* The constants range over what the dataclasses and the settings accept
\* (Queue.__post_init__, RetryPolicy.__post_init__, recovery_settings.py).
ASSUME ConstantsAssumption ==
    /\ DefaultQueue \in Queues
    /\ None \notin Int /\ None \notin Queues /\ None \notin Tokens
    /\ None \notin {"attempts", "block_age", "manual"}
    /\ MaxAttempts \in [Queues -> Optional(Nat \ {0})]
    /\ MaxAttemptLimit \in Nat
    /\ DelaySteps \in Nat
    /\ RetryDelays \in [Optional(Queues) -> [0..DelaySteps -> Nat]]
    /\ GiveUpAfterBlocks \in [Queues -> Optional(Nat \ {0})]
    /\ BlockTime \in Nat \ {0}
    /\ HardLimit \in [Queues -> Optional(Nat \ {0})]
    /\ MessageTtl \in [Queues -> Optional(Nat \ {0})]
    /\ Margin \in Nat
    /\ StaleTimeout \in Optional(Nat \ {0})
    /\ Horizon \in Nat

Statuses == {"absent", "pending", "running", "success", "failed"}
GiveUpReasons == {"attempts", "block_age", "manual"}

\* models.TaskAttempt; status "absent" stands for a row that does not exist.
Row == [status: Statuses,
        celery_task_id: Optional(Tokens),
        attempt_count: Nat,
        next_retry_at: Instant,
        lease_expires_at: Instant,
        dispatch_queue: Optional(Queues),
        dispatched_at: Instant,
        give_up_at: Instant,
        give_up_reason: Optional(GiveUpReasons),
        updated_at: Int]

AbsentRow == [status |-> "absent", celery_task_id |-> None, attempt_count |-> 0,
              next_retry_at |-> None, lease_expires_at |-> None,
              dispatch_queue |-> None, dispatched_at |-> None,
              give_up_at |-> None, give_up_reason |-> None, updated_at |-> 0]

\* The row one second later
AgeRow(r) == [r EXCEPT !.next_retry_at = Age(@), !.lease_expires_at = Age(@),
                       !.dispatched_at = Age(@), !.give_up_at = Age(@),
                       !.updated_at = Age(@)]

-----------------------------------------------------------------------------
(* Settings and policies *)

\* Mutant: the lease ends with the hard limit.
LeaseWithoutMargin(limit) == IF limit # None THEN limit ELSE StaleTimeout

\* recovery_settings.lease_seconds()
LeaseSeconds(limit) == IF limit # None THEN limit + Margin ELSE StaleTimeout

\* Mutant: max_attempts counts retries and not tries.
AllowsOneMoreRetry(q, tries) ==
    IF q = None THEN tries <= MaxAttemptLimit
    ELSE MaxAttempts[q] # None => tries <= MaxAttempts[q]

\* RetryPolicy.allows_retry() and SettingsRetries.allows_retry(), by retries_for()
AllowsRetry(q, tries) ==
    IF q = None THEN tries < MaxAttemptLimit
    ELSE MaxAttempts[q] # None => tries < MaxAttempts[q]

\* RetryPolicy.delay_seconds() and SettingsRetries.delay_seconds()
RetryDelay(q, tries) == RetryDelays[q][IF tries < DelaySteps THEN tries ELSE DelaySteps]

\* retry_rules.retry_delay() of an attempt read with this queue and count
RetryDelayOf(q, tries) == IF AllowsRetry(q, tries) THEN RetryDelay(q, tries) ELSE None

\* queue_executor.redispatch_queue(); every recorded queue is defined
RedispatchQueue(recorded) == IF recorded = None THEN DefaultQueue ELSE recorded

\* queue_policy.message_expiry()
MessageExpiry(q, eta, now) ==
    IF MessageTtl[q] = None THEN None
    ELSE (IF eta # None /\ eta > now THEN eta ELSE now) + MessageTtl[q]

-----------------------------------------------------------------------------
(* Reads: queue_attempts.py *)

\* Mutant: a retry's ETA does not postpone its expiry.
ExpiredWhateverEta(r, now) ==
    /\ r.status = "pending"
    /\ r.dispatch_queue # None
    /\ MessageTtl[r.dispatch_queue] # None
    /\ Before(r.dispatched_at, -(MessageTtl[r.dispatch_queue] + Margin))

\* expired_message_filter()
ExpiredMessage(r, now) ==
    /\ r.status = "pending"
    /\ r.dispatch_queue # None
    /\ MessageTtl[r.dispatch_queue] # None
    /\ LET window == MessageTtl[r.dispatch_queue] + Margin
       IN  /\ Before(r.dispatched_at, -window)
           /\ NullOrBefore(r.next_retry_at, now - window)

\* Mutant: a failed attempt whose retry was never enqueued is not stuck.
StuckUnlessFailed(r, now) ==
    /\ StaleTimeout # None
    /\ r.status \in {"pending", "running"}
    /\ r.lease_expires_at = None
    /\ ~ /\ r.status = "pending" /\ r.dispatch_queue # None
         /\ MessageTtl[r.dispatch_queue] # None /\ r.dispatched_at # None
    /\ r.updated_at < now - StaleTimeout
    /\ NullOrBefore(r.next_retry_at, now - StaleTimeout)

\* _stuck_filter() and is_stuck()
IsStuck(r, now) ==
    /\ StaleTimeout # None
    /\ r.dispatch_queue # None \/ r.attempt_count < MaxAttemptLimit
    /\ \/ /\ \/ /\ r.status = "pending"
                /\ ~ /\ r.dispatch_queue # None
                     /\ MessageTtl[r.dispatch_queue] # None
                     /\ r.dispatched_at # None
             \/ r.status = "running" /\ r.lease_expires_at = None
          /\ r.updated_at < now - StaleTimeout
          /\ NullOrBefore(r.next_retry_at, now - StaleTimeout)
       \/ r.status = "failed" /\ Before(r.next_retry_at, now - StaleTimeout)

\* can_run_again()
CanRunAgain(r) ==
    /\ r.status \notin {"success", "running"}
    /\ r.give_up_reason = None
    /\ r.dispatch_queue # None \/ r.attempt_count < MaxAttemptLimit

-----------------------------------------------------------------------------
(* Transitions: attempt_transitions.py *)

\* get_or_create() of create_or_reopen()
CreatedRow(now) == [AbsentRow EXCEPT !.status = "pending", !.updated_at = now]

\* The read of create_or_reopen() that leads to its UPDATE
DueAgain(r, now) ==
    r.status = "failed" /\ CanRunAgain(r) /\ (r.next_retry_at # None => r.next_retry_at <= now)

\* Mutant: the UPDATE trusts the status that was read.
ReopenWhateverStatus(r) == r.give_up_reason = None

ReopenWhere(r) == r.status = "failed" /\ r.give_up_reason = None
ReopenSet(r, now) == [r EXCEPT !.status = "pending", !.updated_at = now]

\* Mutant: the stamp forgets the message of an earlier dispatch.
RecordDispatchClearsToken(r, q, now) ==
    [r EXCEPT !.dispatch_queue = q, !.dispatched_at = 0, !.celery_task_id = None,
              !.updated_at = now]

\* record_dispatch(): filtered by id only
RecordDispatchSet(r, q, now) ==
    [r EXCEPT !.dispatch_queue = q, !.dispatched_at = 0, !.updated_at = now]

ClaimExpiredMessageSet(r, now) ==
    [r EXCEPT !.celery_task_id = None, !.dispatched_at = 0, !.updated_at = now]

\* Mutant: the claim excludes finished attempts and not all that are not pending.
ClaimUnlessFinished(r) ==
    r.status \in {"pending", "failed"} /\ (r.give_up_at # None => r.give_up_at > 0)

ClaimWhere(r) == r.status = "pending" /\ (r.give_up_at # None => r.give_up_at > 0)
ClaimSet(r, token, limit, now) ==
    [r EXCEPT !.status = "running", !.attempt_count = @ + 1, !.celery_task_id = token,
              !.lease_expires_at = LeaseSeconds(limit), !.updated_at = now]

\* Mutant: outcomes are not fenced on the claim token.
FinishUnfenced(r, token) == r.status = "running"

\* WHERE of finish_success() and of finish_failure()
FinishWhere(r, token) == r.status = "running" /\ r.celery_task_id = token
FinishSuccessSet(r, now) ==
    [r EXCEPT !.status = "success", !.next_retry_at = None, !.lease_expires_at = None,
              !.updated_at = now]

\* Mutant: a failure without tries left records no reason.
FailureWithoutReason(r, delay, now) ==
    [r EXCEPT !.status = "failed", !.lease_expires_at = None, !.updated_at = now,
              !.next_retry_at = IF delay = None THEN None ELSE now + delay]

\* Mutant: a reason that is none of the choices.
FailureWithOtherReason(r, delay, now) ==
    [FailureWithoutReason(r, delay, now) EXCEPT
        !.give_up_reason = IF delay = None THEN "exhausted" ELSE None]

\* SET of finish_failure() and of fail_expired_lease(), with _failure_fields()
FailureSet(r, delay, now) ==
    LET too_late == delay # None /\ Before(r.give_up_at, delay)
    IN  [r EXCEPT !.status = "failed", !.lease_expires_at = None, !.updated_at = now,
                  !.next_retry_at = IF delay = None \/ too_late THEN None ELSE now + delay,
                  !.give_up_reason = IF delay = None THEN "attempts"
                                     ELSE IF too_late THEN "block_age" ELSE None]

FailExpiredLeaseWhere(r) == r.status = "running" /\ Before(r.lease_expires_at, 0)

\* set_give_up_deadline()
SetGiveUpDeadlineSet(r, seconds) ==
    [r EXCEPT !.give_up_at = IF @ = None THEN seconds ELSE @]

\* could_still_run()
CouldStillRun(r) == r.status \in {"pending", "failed"} /\ r.give_up_reason = None

GiveUpIfPastDeadlineWhere(r) == CouldStillRun(r) /\ r.give_up_at # None /\ r.give_up_at <= 0

\* Mutant: the retry time survives the give-up.
GiveUpKeepsRetry(r, reason, now) ==
    [r EXCEPT !.status = "failed", !.give_up_reason = reason, !.updated_at = now]

\* Mutant: a status models.TaskAttempt.Status does not have; update() does not validate it.
GiveUpAsStatus(r, reason, now) ==
    [r EXCEPT !.status = "given_up", !.next_retry_at = None, !.give_up_reason = reason,
              !.updated_at = now]

\* SET of give_up_if_past_deadline() and of give_up_by_hand()
GiveUpSet(r, reason, now) ==
    [r EXCEPT !.status = "failed", !.next_retry_at = None, !.give_up_reason = reason,
              !.updated_at = now]

\* Mutant: the retry is requeued whether or not it was given up meanwhile.
RequeueIfFailed(r) == r.status = "failed"

RequeueWhere(r) == r.status = "failed" /\ r.give_up_reason = None
RequeueSet(r, q, now) ==
    [r EXCEPT !.status = "pending", !.dispatch_queue = q, !.dispatched_at = 0,
              !.updated_at = now]

\* django_dal.reset_to_pending(), under the row lock of _recover_stuck_task()
ResetToPendingSet(r, now) ==
    [r EXCEPT !.celery_task_id = None, !.status = "pending", !.updated_at = now]
=============================================================================
