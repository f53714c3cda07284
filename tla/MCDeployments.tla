--------------------------- MODULE MCDeployments ----------------------------
(***************************************************************************)
(* Values of the constants of Deployments for TLC.                         *)
(***************************************************************************)
EXTENDS Deployments

NoLimits == [n \in LimitNames |-> None]

\* Delays: a fast phase of up to two retries, then exponential, under caps that cut either.
ManyPolicies ==
    [fast_retry_attempts: 0..2, fast_retry_delay: 0..2, backoff_start: 0..3,
     backoff_multiplier: 1..3, max_delay: {0, 1, 5, 600}]

AtOnce == [fast_retry_attempts |-> 0, fast_retry_delay |-> 0, backoff_start |-> 0,
           backoff_multiplier |-> 1, max_delay |-> 0]
SomeQueue == [soft_time_limit |-> None, time_limit |-> None, message_ttl |-> None,
              max_attempts |-> 2, retry |-> AtOnce]

WithTtl == [SomeQueue EXCEPT !.message_ttl = 1, !.time_limit = 1]
WithSoft == [SomeQueue EXCEPT !.soft_time_limit = 2, !.max_attempts = 1]

\* From "old" to "new", or back, the live queue gets another name, and the backfill queue,
\* whose soft limit is above the timeout, goes to another task.  "refused" gives the task a
\* hard limit below that soft limit.  "busy" has two attempts and is never replaced.
Old == [queues |-> [back |-> WithSoft, live |-> WithTtl], live |-> "live", backfill |-> "back",
        options |-> <<>>, matches |-> {1}]
New == [Old EXCEPT !.queues = [back |-> WithSoft, head |-> WithTtl], !.live = "head", !.backfill = None]
AllCode == [old |-> Old, new |-> New, refused |-> [Old EXCEPT !.options = [time_limit |-> 1]],
            busy |-> [Old EXCEPT !.matches = {1, 2}, !.backfill = None, !.queues.live.max_attempts = 1]]
Replaced == {"old", "new", "refused"}
AllUpgrades == {u \in Replaced \X Replaced : u[1] # u[2]}
=============================================================================
