----------------------------- MODULE TimeLimits -----------------------------
(***************************************************************************)
(* The time limits a BlockDumper task runs under                           *)
(* (_internal/services/time_limits.py): where each comes from, the default *)
(* hard limit, and the check of a declaration.                             *)
(*                                                                         *)
(* options are the celery_kwargs of a task, as a function on the names it  *)
(* sets.  A queue is a record with the fields soft_time_limit and          *)
(* time_limit.  A limit is a number of seconds or None.                    *)
(***************************************************************************)
EXTENDS Clock, FiniteSetsExt

CONSTANTS
    BaseLimits,     \* limits of the base class of the Celery tasks, by name
    ConfigLimits,   \* task_time_limit and task_soft_time_limit of the Celery config, by name
    Margin,         \* BLOCK_DUMPER_RECOVERY_MARGIN_SECONDS
    StaleTimeout    \* BLOCK_DUMPER_STALE_TASK_TIMEOUT_SECONDS, None: disabled

LimitNames == {"time_limit", "soft_time_limit"}
Limit == Optional(Nat \ {0})

ASSUME LimitsAssumption ==
    /\ BaseLimits \in [LimitNames -> Limit]
    /\ ConfigLimits \in [LimitNames -> Limit]

FirstSet(first, second) == IF first # None THEN first ELSE second

TaskAttributeLimit(options, name) ==
    IF name \in DOMAIN options THEN options[name] ELSE BaseLimits[name]

HasDefaultHardLimit(options) ==
    /\ StaleTimeout # None
    /\ "time_limit" \notin DOMAIN options
    /\ TaskAttributeLimit(options, "time_limit") = None
    /\ ConfigLimits["time_limit"] = None

\* default_time_limit_options(), None: no default
DefaultTimeLimit(options, queues) ==
    LET soft == {q.soft_time_limit : q \in {x \in queues : x.time_limit = None}}
                \cup {TaskAttributeLimit(options, "soft_time_limit"), ConfigLimits["soft_time_limit"]}
    IN  IF HasDefaultHardLimit(options)
        THEN Max({StaleTimeout} \cup {limit + Margin : limit \in soft \ {None}})
        ELSE None

\* The limits that are attributes of the task: apply_async() puts them into its messages.
TaskSoftAttribute(options) == TaskAttributeLimit(options, "soft_time_limit")
TaskHardAttribute(options, queues) ==
    FirstSet(TaskAttributeLimit(options, "time_limit"), DefaultTimeLimit(options, queues))

\* The soft and the hard limit of the task's own, for messages without limits
TaskSoftLimit(options) == FirstSet(TaskSoftAttribute(options), ConfigLimits["soft_time_limit"])
TaskHardLimit(options, queues) ==
    FirstSet(TaskHardAttribute(options, queues), ConfigLimits["time_limit"])

SoftBelowHard(soft, hard) == soft # None /\ hard # None => soft < hard

\* Mutant: a queue's limits are compared with each other and not with the task's.
CheckEachAlone(options, queues) ==
    /\ \A q \in queues : SoftBelowHard(q.soft_time_limit, q.time_limit)
    /\ SoftBelowHard(TaskSoftLimit(options), TaskHardLimit(options, queues))

\* check_time_limits() does not raise
CheckTimeLimits(options, queues) ==
    /\ \A q \in queues : SoftBelowHard(FirstSet(q.soft_time_limit, TaskSoftLimit(options)),
                                       FirstSet(q.time_limit, TaskHardLimit(options, queues)))
    /\ SoftBelowHard(TaskSoftLimit(options), TaskHardLimit(options, queues))

\* utils.get_current_time_limit(): the limit of the message, else the task's own
CurrentTimeLimit(message_limit, task_limit) == FirstSet(message_limit, task_limit)

\* Celery's prefork pool on RabbitMQ kills a task at the later of its two limits, and without
\* a hard limit never.
KilledAfter(soft, hard) ==
    IF hard = None THEN None ELSE IF soft # None THEN Max({soft, hard}) ELSE hard
=============================================================================
