------------------------------ MODULE Startup -------------------------------
(***************************************************************************)
(* How the processes of a project start: the task modules are imported,    *)
(* by `manage.py check` and again by the process itself, BlockDumpers and  *)
(* tasks enter the registries, and the queues with a policy enter the      *)
(* Celery queue table and the broker.  Processes of several versions of    *)
(* the code run side by side and share only the broker, on which an        *)
(* existing queue never changes its arguments.                             *)
(*                                                                         *)
(* The arguments of a queue are the set of its x-message-ttl values: empty *)
(* for a bare queue, else one number of milliseconds.                      *)
(***************************************************************************)
EXTENDS Naturals, Sequences, Functions

CONSTANTS
    Processes,      \* the processes that call prepare_block_dumpers()
    Starts,         \* which process may be started with which version, from which entry point
    Apps,           \* Celery apps
    Names,          \* names of queues
    CeleryDefault,  \* the default queue of a Celery app
    LongestTtl,     \* bound on Queue.message_ttl, in seconds
    Versions,       \* versions of the project's code
    Code            \* what each version declares

EntryPoints == {"block_tasks_v1", "backfill_blocks_v1", "dry_run", "worker"}

\* What an import may raise: ModuleNotFoundError of another module, another ImportError, the rest.
Errors == {"missing", "import", "other"}

\* queue_policy.Queue: message_ttl is the set of its value, empty for None.
Queue == [name: Names, message_ttl: SUBSET (1..LongestTtl), throttled: BOOLEAN]

\* A queue of the dumper of an app
Entry == [queue: Queue, owner: Apps]

\* A statement of a task module: BlockDumper(app), or a task of the app's dumper with its queues.
Statement == [app: Apps, task: STRING, queues: Seq(Queue)]

\* x-message-ttl counts milliseconds of at least one second here.
Milliseconds == {1000 * t : t \in 1..LongestTtl}

\* Queues with their arguments
Tables == UNION {[D -> SUBSET Milliseconds] : D \in SUBSET Names}
NoQueues == [n \in {} |-> {}]

ModulesOf(v) == Code[v].modules

ASSUME StartupAssumption ==
    /\ Starts \subseteq Processes \X Versions \X EntryPoints
    /\ CeleryDefault \in Names
    /\ LongestTtl \in Nat
    /\ Versions # {}
    /\ \A v \in Versions :
           /\ Code[v].next_to_app \in Seq(Apps)
           /\ Code[v].supported \subseteq Apps
           /\ Code[v].poll_seconds_valid \in BOOLEAN
           /\ Code[v].task_queues \in Tables
           /\ ModulesOf(v) \in Seq(Seq(Statement))
           /\ Code[v].fragile \subseteq DOMAIN ModulesOf(v)

\* A task goes by the path of its function, which one statement defines; its dumper is next to
\* the Celery app, or a statement above it creates it.  BlockDumper() takes no queues.
ASSUME StatementsAssumption ==
    \A v \in Versions : \A m \in DOMAIN ModulesOf(v) : \A i \in DOMAIN ModulesOf(v)[m] :
        LET s == ModulesOf(v)[m][i]
        IN  IF s.task = "BlockDumper" THEN s.queues = << >>
            ELSE /\ \A m2 \in DOMAIN ModulesOf(v) : \A i2 \in DOMAIN ModulesOf(v)[m2] :
                        ModulesOf(v)[m2][i2].task = s.task => m2 = m /\ i2 = i
                 /\ \/ s.app \in Range(Code[v].next_to_app)
                    \/ \E j \in 1..i - 1 : /\ ModulesOf(v)[m][j].task = "BlockDumper"
                                           /\ ModulesOf(v)[m][j].app = s.app

VARIABLES
    proc,       \* the memory of each process
    broker,     \* the queues that exist on the broker, with their arguments
    reachable   \* whether the broker accepts connections

vars == <<proc, broker, reachable>>

-----------------------------------------------------------------------------
(* Registries.                                                             *)

\* The queues of every dumper, each with its app
Entries(p) == UNION {{[queue |-> q, owner |-> a] : q \in Range(p.queues[a])} : a \in Apps}

\* What running a statement raises or records: DumperRegistry.register_dumper(), or block_task()
\* with register_queues() (all of the queues or none) and register_item().
Clashes(p, app, queues) ==
    \E i \in DOMAIN queues :
        \/ \E j \in 1..i - 1 : queues[j].name = queues[i].name /\ queues[j] # queues[i]
        \/ \E e \in Entries(p) : /\ e.queue.name = queues[i].name
                                 /\ e.queue # queues[i] \/ e.owner # app

RegisterQueues(registered, queues) ==
    LET done[n \in 0..Len(queues)] ==
            IF n = 0 THEN registered
            ELSE IF queues[n] \in Range(done[n - 1]) THEN done[n - 1]
            ELSE Append(done[n - 1], queues[n])
    IN  done[Len(queues)]

RunStatement(p, s) ==
    IF p.error # "none" THEN p
    ELSE IF s.task = "BlockDumper"
    THEN IF s.app \in Range(p.dumpers) THEN [p EXCEPT !.error = "other"]
         ELSE [p EXCEPT !.dumpers = Append(@, s.app)]
    ELSE IF Clashes(p, s.app, s.queues) THEN [p EXCEPT !.error = "other"]
         ELSE [p EXCEPT !.queues[s.app] = RegisterQueues(@, s.queues),
                        !.registry = Append(@, s.task)]

\* The first statements of a module, up to one that raises
RunModule(p, body, count) ==
    LET ran[n \in 0..count] == IF n = 0 THEN p ELSE RunStatement(ran[n - 1], body[n])
    IN  ran[count]

\* importlib.import_module(): a module that is already imported is not run again, and one that
\* fails is run from its first statement by the next import.  The fault f is an error that
\* statement f.at + 1 of module f.module raises.
ImportModule(p, m, f) ==
    IF m \in p.imported THEN [p EXCEPT !.error = "none"]
    ELSE LET body == ModulesOf(p.code)[m]
             ran  == RunModule([p EXCEPT !.error = "none"], body,
                               IF f.module = m THEN f.at ELSE Len(body))
         IN  IF ran.error # "none" THEN ran
             ELSE IF f.module = m THEN [ran EXCEPT !.error = f.kind]
             ELSE [ran EXCEPT !.imported = @ \cup {m}]

Faults(v) ==
    {[module |-> 0, at |-> 0, kind |-> "none"]}
    \cup UNION {[module: {m}, at: 0..Len(ModulesOf(v)[m]), kind: Errors] : m \in Code[v].fragile}

\* Mutant: the registrations of a failed import stay.
KeepAfterFailure(p, m, f) == IF p.error # "none" THEN p ELSE ImportModule(p, m, f)

\* checks._import_task_module(), after the first error: not called.
ImportTaskModule(p, m, f) ==
    IF p.error # "none" THEN p
    ELSE LET ran == ImportModule(p, m, f)
         IN  IF ran.error = "none" THEN ran ELSE [ran EXCEPT !.registry = p.registry]

ImportTaskModules(p, f) ==
    LET done[n \in 0..Len(ModulesOf(p.code))] ==
            IF n = 0 THEN p ELSE ImportTaskModule(done[n - 1], n, f)
    IN  done[Len(ModulesOf(p.code))]

\* discovery.ensure_modules_loaded(): import errors are passed over, others end it.
LoadModule(p, m, f) ==
    IF p.error = "other" THEN p
    ELSE LET ran == ImportModule(p, m, f)
         IN  [ran EXCEPT !.incomplete = p.incomplete \/ ran.error # "none"]

EnsureModulesLoaded(p, f) ==
    LET done[n \in 0..Len(ModulesOf(p.code))] ==
            IF n = 0 THEN p ELSE LoadModule(done[n - 1], n, f)
    IN  done[Len(ModulesOf(p.code))]

-----------------------------------------------------------------------------
(* Queue definitions and the Celery queue table.                           *)

\* Mutant: the TTL in seconds.
ArgumentsInSeconds(queue) == queue.message_ttl

\* rabbitmq_queue_arguments().  Priority and queue type are the same for every queue of an app.
QueueArguments(queue) == {1000 * t : t \in queue.message_ttl}

\* celery_app.amqp.queues before anything is installed.
ProjectTable(v) ==
    IF DOMAIN Code[v].task_queues # {} THEN Code[v].task_queues
    ELSE [n \in {CeleryDefault} |-> {}]

\* install_queues() keeps what the table has, and refuses it with other arguments.
Refused(table, queues) ==
    {q \in Range(queues) : q.name \in DOMAIN table /\ table[q.name] # QueueArguments(q)}

Installed(table, queues) ==
    [n \in DOMAIN table \cup {q.name : q \in Range(queues)} |->
        IF n \in DOMAIN table THEN table[n]
        ELSE QueueArguments(CHOOSE q \in Range(queues) : q.name = n)]

\* Mutant: each dumper's queues are installed just before they are declared.
InstallFirstDumper(p) ==
    IF p.dumpers = << >> THEN p
    ELSE [p EXCEPT !.table[Head(p.dumpers)] = Installed(@, p.queues[Head(p.dumpers)])]

\* The first half of prepare_block_dumpers(): every queue of every dumper.
InstallAll(p) ==
    [p EXCEPT !.table = [a \in Apps |-> Installed(@[a], p.queues[a])]]

\* What prepare_block_dumpers() raises before it installs all: an invalid
\* BLOCK_DUMPER_THROTTLE_POLL_SECONDS, a broker that is not RabbitMQ, or refused queues.
ThrottleRefused(p) ==
    /\ \E e \in Entries(p) : e.queue.throttled
    /\ ~Code[p.code].poll_seconds_valid

RefusedQueues(p) == UNION {Refused(p.table[a], p.queues[a]) : a \in Range(p.dumpers)}

ConfigurationRefused(p) ==
    \/ ThrottleRefused(p)
    \/ ~(Range(p.dumpers) \subseteq Code[p.code].supported)
    \/ RefusedQueues(p) # {}

\* Queues prepare_block_dumpers() declares, dumper by dumper.
ToDeclare(p) ==
    LET upto[n \in 0..Len(p.dumpers)] ==
            IF n = 0 THEN << >>
            ELSE LET a == p.dumpers[n]
                 IN  upto[n - 1] \o [i \in DOMAIN p.queues[a] |-> [queue |-> p.queues[a][i], owner |-> a]]
    IN  upto[Len(p.dumpers)]

\* _project_queue() finds the queue: Celery's default queue is not the project's.
HasProjectQueue(p, e) ==
    DOMAIN Code[p.code].task_queues # {} /\ e.queue.name \in DOMAIN p.table[e.owner]

\* Mutant: an empty set of arguments is taken for no queue.
WarnUnlessBare(p) ==
    {e \in Entries(p) :
        /\ e.owner \in Code[p.code].supported /\ HasProjectQueue(p, e)
        /\ p.table[e.owner][e.queue.name] \notin {{}, QueueArguments(e.queue)}}

\* The queues W001 names: _check_queue() for every queue of a dumper with a contact
Warned(p) ==
    {e \in Entries(p) :
        /\ e.owner \in Code[p.code].supported /\ HasProjectQueue(p, e)
        /\ p.table[e.owner][e.queue.name] # QueueArguments(e.queue)}

-----------------------------------------------------------------------------
(* Processes.                                                              *)

AnyVersion == CHOOSE v \in Versions : TRUE

Started(v, k) ==
    [pc         |-> "starting",
     code       |-> v,
     kind       |-> k,
     imported   |-> {},
     error      |-> "none",
     incomplete |-> FALSE,          \* ensure_modules_loaded() met an error
     dumpers    |-> Code[v].next_to_app,
     queues     |-> [a \in Apps |-> << >>],    \* BlockDumper.queues of each app's dumper
     registry   |-> << >>,
     table      |-> [a \in Apps |-> ProjectTable(v)],
     checked    |-> FALSE,          \* the last check got as far as the queues
     warned     |-> {},
     pending    |-> << >>,          \* queues still to be declared
     verified   |-> {}]             \* names declared at startup and not deleted since

\* A process that is not running has no memory.
Stopped == [Started(AnyVersion, "worker") EXCEPT !.pc = "stopped", !.dumpers = << >>,
                                                 !.table = [a \in Apps |-> NoQueues]]

ProcessState ==
    [pc: {"starting", "preparing", "verifying", "running", "stopped"}, code: Versions,
     kind: EntryPoints, imported: SUBSET Nat, error: {"none"} \cup Errors, incomplete: BOOLEAN,
     dumpers: Seq(Apps), queues: [Apps -> Seq(Queue)], registry: Seq(STRING),
     table: [Apps -> Tables], checked: BOOLEAN, warned: SUBSET Entry, pending: Seq(Entry),
     verified: SUBSET Names]

TypeOK ==
    /\ proc \in [Processes -> ProcessState]
    /\ broker \in Tables
    /\ reachable \in BOOLEAN

Init ==
    /\ proc = [x \in Processes |-> Stopped]
    /\ broker = NoQueues
    /\ reachable = TRUE

\* A process is started, or killed and started again, with any version of the code.
Start(x, v, k) ==
    /\ <<x, v, k>> \in Starts
    /\ proc[x].pc \in {"running", "stopped"}
    /\ proc' = [proc EXCEPT ![x] = Started(v, k)]
    /\ UNCHANGED <<broker, reachable>>

\* check_block_dumper_queues(): no error leaves it, and without a dumper it imports nothing.
\* Django runs it before a command, and Celery's Django fixup before celeryd_init.
Check(x, f) ==
    LET ran == ImportTaskModules(proc[x], f)
    IN  /\ proc[x].pc = "starting"
        /\ proc[x].dumpers # << >>
        /\ proc' = [proc EXCEPT ![x] =
               [ran EXCEPT !.error = "none",
                           !.checked = ran.error = "none",
                           !.warned = IF ran.error = "none" THEN Warned(ran) ELSE {}]]
        /\ UNCHANGED <<broker, reachable>>

\* The entry points up to prepare_block_dumpers().  An exception ends a command, but celeryd_init
\* swallows it and the worker starts.  A backfill without a task has nothing to do.
Load(x, f) ==
    LET ran == EnsureModulesLoaded(proc[x], f)
    IN  /\ proc[x].pc = "starting"
        /\ proc' = [proc EXCEPT ![x] =
               IF ran.error = "other"
               THEN IF ran.kind = "worker" THEN [ran EXCEPT !.pc = "running", !.checked = FALSE, !.warned = {}]
                    ELSE Stopped
               ELSE IF ran.kind \in {"backfill_blocks_v1", "dry_run"} /\ ran.registry = << >>
               THEN Stopped
               ELSE [ran EXCEPT !.pc = "preparing", !.error = "none"]]
        /\ UNCHANGED <<broker, reachable>>

\* The process goes on once every queue is declared.
Proceed(p) == IF p.pending = << >> THEN [p EXCEPT !.pc = "running"] ELSE p

\* prepare_block_dumpers() up to the first declaration; its errors end every kind of process.
Install(x) ==
    LET p == proc[x]
    IN  /\ p.pc = "preparing"
        /\ proc' = [proc EXCEPT ![x] =
               IF ConfigurationRefused(p) THEN Stopped
               ELSE Proceed([InstallAll(p) EXCEPT
                        !.pc = "verifying", !.checked = FALSE, !.warned = {},
                        !.pending = IF p.kind = "dry_run" THEN << >> ELSE ToDeclare(p)])]
        /\ UNCHANGED <<broker, reachable>>

\* Celery declares a queue as its table holds it, and one the table lacks without arguments.
TableArguments(p, q) ==
    IF q.queue.name \in DOMAIN p.table[q.owner] THEN p.table[q.owner][q.queue.name] ELSE {}

\* RabbitMQ: declaring a queue creates it, or compares its arguments with the existing one's.
Agrees(n, arguments) == n \in DOMAIN broker => broker[n] = arguments

Declared(n, arguments) ==
    [m \in DOMAIN broker \cup {n} |-> IF m \in DOMAIN broker THEN broker[m] ELSE arguments]

\* Mutant: PRECONDITION_FAILED is passed over.
DeclareNeverRaises(n, arguments) == FALSE

\* contact.declare_queue(): PRECONDITION_FAILED becomes QueueArgumentsMismatchError.
DeclareRaises(n, arguments) == ~Agrees(n, arguments)

\* The declaration of the next queue, as the table holds it; an error ends the start.
Verify(x) ==
    LET p == proc[x]
        q == Head(p.pending)
        n == q.queue.name
        arguments == TableArguments(p, q)
    IN  /\ p.pc = "verifying"
        /\ reachable
        /\ IF ~DeclareRaises(n, arguments)
           THEN /\ broker' = Declared(n, arguments)
                /\ proc' = [proc EXCEPT ![x] = Proceed([p EXCEPT !.pending = Tail(@),
                                                                !.verified = @ \cup {n}])]
           ELSE /\ proc' = [proc EXCEPT ![x] = Stopped]
                /\ UNCHANGED broker
        /\ UNCHANGED reachable

\* BrokerUnreachableError: the scheduler logs it, celeryd_init swallows it, a backfill ends.
GoBlind(x) ==
    /\ proc[x].pc = "verifying"
    /\ ~reachable
    /\ proc' = [proc EXCEPT ![x] =
           IF @.kind = "backfill_blocks_v1" THEN Stopped
           ELSE [@ EXCEPT !.pc = "running", !.pending = << >>]]
    /\ UNCHANGED <<broker, reachable>>

\* Queues a running process uses: producers those of their tasks, workers those named with -Q.
QueuesOf(v) ==
    UNION {UNION {{[queue |-> q, owner |-> s.app] : q \in Range(s.queues)}
                  : s \in Range(ModulesOf(v)[m])} : m \in DOMAIN ModulesOf(v)}

Used(p) ==
    CASE p.kind = "worker"  -> QueuesOf(p.code)
      [] p.kind = "dry_run" -> {}
      [] OTHER              -> Entries(p)

\* Celery and RabbitMQ: a send or a consumer declares its queue first.  A worker ends
\* when that is refused, and a send raises.
Use(x, q) ==
    LET p == proc[x]
        n == q.queue.name
        arguments == TableArguments(p, q)
    IN  /\ p.pc = "running"
        /\ reachable
        /\ q \in Used(p)
        /\ \/ /\ Agrees(n, arguments)
              /\ broker' = Declared(n, arguments)
              /\ UNCHANGED proc
           \/ /\ ~Agrees(n, arguments)
              /\ p.kind = "worker"
              /\ proc' = [proc EXCEPT ![x] = Stopped]
              /\ UNCHANGED broker
        /\ UNCHANGED reachable

\* The operator deletes a queue.
Delete(n) ==
    /\ n \in DOMAIN broker
    /\ broker' = [m \in DOMAIN broker \ {n} |-> broker[m]]
    /\ proc' = [x \in Processes |-> [proc[x] EXCEPT !.verified = @ \ {n}]]
    /\ UNCHANGED reachable

\* The connection to the broker is lost or comes back.
Connection ==
    /\ reachable' = ~reachable
    /\ UNCHANGED <<proc, broker>>

Next ==
    \/ \E x \in Processes :
           \/ \E v \in Versions, k \in EntryPoints : Start(x, v, k)
           \/ \E f \in Faults(proc[x].code) : Check(x, f) \/ Load(x, f)
           \/ Install(x) \/ Verify(x) \/ GoBlind(x)
           \/ \E q \in QueuesOf(proc[x].code) : Use(x, q)
    \/ \E n \in Names : Delete(n)
    \/ Connection

Spec == Init /\ [][Next]_vars

-----------------------------------------------------------------------------
(* Properties.                                                             *)

\* However often `manage.py check` failed half-way through a module before the process imported
\* it again, no task is in the registry twice: the schedulers would submit each block of it
\* twice (checks.py, memory_registry.py).
RegisteredOnce == \A x \in Processes : IsInjective(proc[x].registry)

\* What prepare_block_dumpers() verified holds while the process runs: until somebody deletes
\* the queue, the broker has it with the arguments the process sends and consumes with, whatever
\* processes of other versions declare meanwhile.
VerifiedQueuesAgree ==
    \A x \in Processes : \A q \in Used(proc[x]) :
        proc[x].pc = "running" /\ q.queue.name \in proc[x].verified =>
            /\ q.queue.name \in DOMAIN broker
            /\ broker[q.queue.name] = TableArguments(proc[x], q)

\* No queue with a policy is created on the broker with arguments other than those of a running
\* version, even when the broker was unreachable while the process started: every queue of every
\* app is in the table before the first declaration (celery_config.py).  Only a worker whose
\* task modules failed to import lacks them.
CreatedWithItsArguments ==
    [][\A n \in DOMAIN broker' \ DOMAIN broker :
           \E x \in Processes :
               /\ proc[x].pc \in {"verifying", "running"}
               /\ \/ \E q \in QueuesOf(proc[x].code) :
                        q.queue.name = n /\ broker'[n] = QueueArguments(q.queue)
                  \/ proc[x].kind = "worker" /\ proc[x].incomplete]_vars

\* A process whose checks reached the queues and named none with W001 is not refused for its
\* task_queues when it prepares them; the default queue, which is in the table without being in
\* task_queues, is the exception (checks._project_queue, install_queues).
WarnedBeforeRefusal ==
    [][\A x \in Processes :
           /\ proc[x].pc = "preparing" /\ proc'[x].pc = "stopped"
           /\ proc[x].checked
           /\ ~ThrottleRefused(proc[x])
           /\ Range(proc[x].dumpers) \subseteq Code[proc[x].code].supported
           => \/ proc[x].warned # {}
              \/ \E e \in Entries(proc[x]) : /\ e.queue.name = CeleryDefault
                                             /\ DOMAIN Code[proc[x].code].task_queues = {}]_vars
=============================================================================
