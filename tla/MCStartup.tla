----------------------------- MODULE MCStartup ------------------------------
(* Versions of a project for the startup model.                            *)
EXTENDS Startup

Q(name, ttl) == [name |-> name, message_ttl |-> ttl, throttled |-> FALSE]
Task(app, task, queues) == [app |-> app, task |-> task, queues |-> queues]
Dumper(app) == [app |-> app, task |-> "BlockDumper", queues |-> << >>]

\* Two tasks on two apps; the second app's dumper is created by a task module.
Base ==
    [next_to_app        |-> <<"one">>,
     supported          |-> {"one", "two"},
     poll_seconds_valid |-> TRUE,
     task_queues        |-> << >>,
     modules            |-> <<<<Task("one", "a", <<Q("live", {1})>>)>>,
                              <<Dumper("two"), Task("two", "b", <<Q("slow", {2})>>)>>>>,
     fragile            |-> {}]

\* Another TTL, and a module that may fail.
Longer ==
    [Base EXCEPT !.modules = <<<<Task("one", "a", <<Q("live", {2})>>), Task("one", "c", <<Q("live", {2})>>)>>>>,
                 !.fragile = {1}]

\* Queues the project defines itself.
Defines(live, slow) == [n \in {"live", "slow"} |-> IF n = "live" THEN live ELSE slow]

\* clashing: task_queues has a queue with other arguments; default: a policy for Celery's default
\* queue; foreign: an app on another broker; polled: an invalid setting; late: no dumper when
\* Django has loaded, and a queue the project defines with the same arguments.
AllCode ==
    [base     |-> [Base EXCEPT !.fragile = {2}],
     longer   |-> Longer,
     clashing |-> [Base EXCEPT !.task_queues = Defines({}, {2000})],
     default  |-> [Base EXCEPT !.modules = <<<<Task("one", "a", <<Q("celery", {1})>>)>>>>],
     foreign  |-> [Base EXCEPT !.supported = {"one"}],
     polled   |-> [Base EXCEPT !.poll_seconds_valid = FALSE,
                               !.modules = <<<<Task("one", "a",
                                   <<[name |-> "live", message_ttl |-> {1}, throttled |-> TRUE]>>)>>>>],
     late     |-> [Base EXCEPT !.next_to_app = << >>,
                               !.task_queues = Defines({1000}, {}),
                               !.modules = <<<<Dumper("one"), Task("one", "a", <<Q("live", {1})>>)>>>>,
                               !.fragile = {1}]]

\* The worker runs every version; the other process is the scheduler or a backfill.
AllStarts ==
    ({"worker"} \X Versions \X {"worker"})
    \cup ({"command"} \X {"base", "longer"} \X {"block_tasks_v1", "backfill_blocks_v1"})
    \cup ({"command"} \X {"clashing", "late"} \X {"block_tasks_v1"})
    \cup {<<"command", "base", "dry_run">>}
=============================================================================
