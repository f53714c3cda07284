--------------------------- MODULE StartupProofs ----------------------------
(***************************************************************************)
(* How processes start, for every version of the code and every number of  *)
(* processes: no task is registered twice, the queues a process verified   *)
(* stay as it verified them, queues are created with the arguments of      *)
(* their policy, and what the checks did not name is not refused.          *)
(***************************************************************************)
EXTENDS Startup, Numbers, SequenceTheorems

-----------------------------------------------------------------------------
(* The inductive invariant *)

\* What the registries of a process hold: queues its code declares, each name once and with a
\* dumper, and no task twice
Registered(p) ==
    /\ \A e \in Entries(p) : e \in QueuesOf(p.code) /\ e.owner \in Range(p.dumpers)
    /\ \A e, e2 \in Entries(p) : e.queue.name = e2.queue.name => e = e2
    /\ IsInjective(p.registry)

\* A statement has run without an error, in this attempt or an earlier one.
HasRun(p, s) ==
    IF s.task = "BlockDumper" THEN s.app \in Range(p.dumpers)
    ELSE \A q \in Range(s.queues) : [queue |-> q, owner |-> s.app] \in Entries(p)

\* What an imported module declares is there.
ImportsHaveRun(p) ==
    \A m \in p.imported : /\ m \in DOMAIN ModulesOf(p.code)
                          /\ \A s \in Range(ModulesOf(p.code)[m]) : HasRun(p, s)

\* The tasks of modules S
TasksOf(v, S) ==
    {s.task : s \in {s2 \in UNION {Range(ModulesOf(v)[m]) : m \in S \cap DOMAIN ModulesOf(v)} :
                       s2.task # "BlockDumper"}}

OwnTable(p) == p.table = [a \in Apps |-> ProjectTable(p.code)]
AllImported(p) == DOMAIN ModulesOf(p.code) \subseteq p.imported
AllDeclared(p) == QueuesOf(p.code) \subseteq Entries(p)
InTable(p) == \A e \in Entries(p) : /\ e.queue.name \in DOMAIN p.table[e.owner]
                                    /\ p.table[e.owner][e.queue.name] = QueueArguments(e.queue)

\* Before the task modules are loaded, whatever the checks imported
StartingInv(p) ==
    /\ p.error = "none" /\ ~p.incomplete
    /\ Range(Code[p.code].next_to_app) \subseteq Range(p.dumpers)
    /\ ImportsHaveRun(p)
    /\ Range(p.registry) \subseteq TasksOf(p.code, p.imported)
    /\ OwnTable(p)
    /\ p.checked => AllImported(p) /\ p.warned = Warned(p)

PreparingInv(p) ==
    /\ OwnTable(p)
    /\ p.incomplete \/ AllDeclared(p)
    /\ p.checked => p.warned = Warned(p)

PreparedInv(p) ==
    /\ p.incomplete \/ AllDeclared(p)
    /\ (p.incomplete /\ p.kind = "worker") \/ InTable(p)
    /\ \A i \in DOMAIN p.pending : p.pending[i] \in Entries(p)

\* What a process declared and nobody deleted is on the broker as its table has it.
OnBroker(p, b) ==
    \A n \in p.verified : \E e \in Entries(p) :
        e.queue.name = n /\ n \in DOMAIN b /\ b[n] = TableArguments(p, e)

ProcessInv(p, b) ==
    /\ Registered(p)
    /\ p.pc = "starting" => StartingInv(p)
    /\ p.pc = "preparing" => PreparingInv(p)
    /\ p.pc \in {"verifying", "running"} => PreparedInv(p)
    /\ p.pc = "verifying" <=> p.pending # << >>
    /\ p.pc \notin {"verifying", "running"} => p.verified = {}
    /\ OnBroker(p, b)

IInv == TypeOK /\ \A x \in Processes : ProcessInv(proc[x], broker)

-----------------------------------------------------------------------------
(* Facts about the code and the registries *)

\* A sequence and what it holds
LEMMA SeqFacts ==
    ASSUME NEW S, NEW s \in Seq(S)
    PROVE  /\ DOMAIN s = 1..Len(s) /\ Len(s) \in Nat
           /\ Range(s) \subseteq S
           /\ \A i \in 1..Len(s) : s[i] \in Range(s) /\ s[i] \in S
  <1>1. DOMAIN s = 1..Len(s) /\ Len(s) \in Nat /\ \A i \in 1..Len(s) : s[i] \in S
    BY LenProperties, ElementOfSeq
  <1>2. Range(s) = {s[i] : i \in 1..Len(s)} BY <1>1 DEF Range
  <1>3. QED BY <1>1, <1>2

LEMMA RangeOfAppend ==
    ASSUME NEW S, NEW s \in Seq(S), NEW e \in S
    PROVE  Append(s, e) \in Seq(S) /\ Range(Append(s, e)) = Range(s) \cup {e}
  <1> DEFINE t == Append(s, e)
  <1>1. /\ t \in Seq(S) /\ Len(t) = Len(s) + 1 /\ Len(s) \in Nat
        /\ \A i \in 1..Len(s) : t[i] = s[i]
        /\ t[Len(s) + 1] = e
        /\ DOMAIN s = 1..Len(s) /\ DOMAIN t = 1..Len(t)
    OBVIOUS
  <1> HIDE DEF t
  <1>2. \A i \in 1..Len(t) : i \in 1..Len(s) \/ i = Len(s) + 1 BY <1>1
  <1>3. Len(s) + 1 \in 1..Len(t) /\ \A i \in 1..Len(s) : i \in 1..Len(t) BY <1>1
  <1>4. Range(t) = Range(s) \cup {e} BY <1>1, <1>2, <1>3 DEF Range
  <1>5. QED BY <1>1, <1>4 DEF t

\* A sequence without duplicates stays one when something new is appended.
LEMMA AppendInjectively ==
    ASSUME NEW S, NEW s \in Seq(S), IsInjective(s), NEW e \in S, e \notin Range(s)
    PROVE  IsInjective(Append(s, e))
  <1> DEFINE t == Append(s, e)
  <1>1. /\ Len(t) = Len(s) + 1 /\ Len(s) \in Nat
        /\ \A i \in 1..Len(s) : t[i] = s[i]
        /\ t[Len(s) + 1] = e
        /\ DOMAIN s = 1..Len(s) /\ DOMAIN t = 1..Len(t)
    OBVIOUS
  <1> HIDE DEF t
  <1>2. \A i \in 1..Len(t) : i \in 1..Len(s) \/ i = Len(s) + 1 BY <1>1
  <1>3. \A i \in 1..Len(s) : s[i] # e BY <1>1 DEF Range
  <1>4. \A i, j \in 1..Len(s) : s[i] = s[j] => i = j BY <1>1 DEF IsInjective
  <1>5. ASSUME NEW i \in 1..Len(t), NEW j \in 1..Len(t), t[i] = t[j] PROVE i = j
    BY <1>1, <1>2, <1>3, <1>4, <1>5
  <1>6. IsInjective(t) BY <1>1, <1>5 DEF IsInjective
  <1>7. QED BY <1>6 DEF t

\* The types of what a version declares
LEMMA CodeTypes ==
    ASSUME NEW v \in Versions
    PROVE  /\ Code[v].next_to_app \in Seq(Apps)
           /\ ModulesOf(v) \in Seq(Seq(Statement))
           /\ DOMAIN ModulesOf(v) = 1..Len(ModulesOf(v)) /\ Len(ModulesOf(v)) \in Nat
           /\ DOMAIN ModulesOf(v) \subseteq Nat
           /\ \A m \in DOMAIN ModulesOf(v) :
                 /\ ModulesOf(v)[m] \in Seq(Statement)
                 /\ DOMAIN ModulesOf(v)[m] = 1..Len(ModulesOf(v)[m]) /\ Len(ModulesOf(v)[m]) \in Nat
                 /\ \A i \in DOMAIN ModulesOf(v)[m] :
                       /\ ModulesOf(v)[m][i] \in Statement
                       /\ ModulesOf(v)[m][i] \in Range(ModulesOf(v)[m])
  <1>1. Code[v].next_to_app \in Seq(Apps) /\ ModulesOf(v) \in Seq(Seq(Statement)) BY StartupAssumption
  <1> DEFINE ms == ModulesOf(v)
  <1> HIDE DEF ms
  <1>2. ms \in Seq(Seq(Statement)) BY <1>1 DEF ms
  <1>3. /\ DOMAIN ms = 1..Len(ms) /\ Len(ms) \in Nat
        /\ \A m \in 1..Len(ms) : ms[m] \in Seq(Statement)
    BY <1>2, SeqFacts
  <1>4. ASSUME NEW m \in DOMAIN ms
        PROVE  /\ ms[m] \in Seq(Statement) /\ DOMAIN ms[m] = 1..Len(ms[m]) /\ Len(ms[m]) \in Nat
               /\ \A i \in DOMAIN ms[m] : ms[m][i] \in Statement /\ ms[m][i] \in Range(ms[m])
    <2> DEFINE body == ms[m]
    <2>1. body \in Seq(Statement) BY <1>3
    <2> HIDE DEF body
    <2>2. /\ DOMAIN body = 1..Len(body) /\ Len(body) \in Nat
          /\ \A i \in 1..Len(body) : body[i] \in Range(body) /\ body[i] \in Statement
      BY <2>1, SeqFacts
    <2>3. QED BY <2>1, <2>2 DEF body
  <1>5. QED BY <1>1, <1>3, <1>4 DEF ms

\* The queues of the dumpers, seen one by one
LEMMA InEntries ==
    ASSUME NEW p, p.queues \in [Apps -> Seq(Queue)]
    PROVE  /\ Entries(p) \subseteq Entry
           /\ \A e \in Entries(p) : e.owner \in Apps /\ e.queue \in Queue /\ e.queue \in Range(p.queues[e.owner])
           /\ \A a \in Apps : \A q : q \in Range(p.queues[a]) =>
                 /\ [queue |-> q, owner |-> a] \in Entries(p) /\ q \in Queue
           /\ \A a \in Apps : \A q : [queue |-> q, owner |-> a] \in Entries(p) => q \in Range(p.queues[a])
           /\ \A e \in Entries(p) : e = [queue |-> e.queue, owner |-> e.owner]
  <1>1. \A a \in Apps : p.queues[a] \in Seq(Queue) OBVIOUS
  <1>2. \A a \in Apps : Range(p.queues[a]) \subseteq Queue BY <1>1, SeqFacts
  <1>3. \A e \in Entries(p) : \E a \in Apps : \E q \in Range(p.queues[a]) : e = [queue |-> q, owner |-> a]
    BY DEF Entries
  <1>4. ASSUME NEW a \in Apps, NEW q \in Range(p.queues[a]) PROVE [queue |-> q, owner |-> a] \in Entries(p)
    <2> DEFINE of(b) == {[queue |-> r, owner |-> b] : r \in Range(p.queues[b])}
    <2>1. [queue |-> q, owner |-> a] \in of(a) OBVIOUS
    <2>2. of(a) \subseteq Entries(p) BY Zenon DEF Entries
    <2>3. QED BY <2>1, <2>2
  <1>5. \A e \in Entries(p) : e.owner \in Apps /\ e.queue \in Queue /\ e.queue \in Range(p.queues[e.owner])
                              /\ e = [queue |-> e.queue, owner |-> e.owner] /\ e \in Entry
    <2>1. SUFFICES ASSUME NEW a \in Apps, NEW q \in Range(p.queues[a]), NEW e, e = [queue |-> q, owner |-> a]
                   PROVE  e.owner = a /\ e.queue = q /\ e \in Entry
      <3>1. ASSUME NEW e \in Entries(p)
            PROVE  e.owner \in Apps /\ e.queue \in Queue /\ e.queue \in Range(p.queues[e.owner])
                   /\ e = [queue |-> e.queue, owner |-> e.owner] /\ e \in Entry
        <4>1. PICK a \in Apps : \E q \in Range(p.queues[a]) : e = [queue |-> q, owner |-> a] BY <1>3
        <4>2. PICK q \in Range(p.queues[a]) : e = [queue |-> q, owner |-> a] BY <4>1
        <4>3. e.owner = a /\ e.queue = q /\ e \in Entry BY <2>1, <4>2
        <4>4. QED BY <1>2, <4>2, <4>3
      <3>2. QED BY <3>1
    <2>2. QED BY <1>2, <2>1 DEF Entry
  <1>6. QED BY <1>2, <1>4, <1>5

LEMMA SameEntries == ASSUME NEW p, NEW p2, p2.queues = p.queues PROVE Entries(p2) = Entries(p)
  BY DEF Entries

-----------------------------------------------------------------------------
(* What importing a module does *)

\* register_queues() adds the queues it does not have.
LEMMA RegisterFacts ==
    ASSUME NEW old \in Seq(Queue), NEW queues \in Seq(Queue)
    PROVE  /\ RegisterQueues(old, queues) \in Seq(Queue)
           /\ Range(RegisterQueues(old, queues)) = Range(old) \cup Range(queues)
  <1> DEFINE N == Len(queues)
             Round(x, n) == IF queues[n] \in Range(x) THEN x ELSE Append(x, queues[n])
             Good == [n \in 0..N |-> {x \in Seq(Queue) : Range(x) = Range(old) \cup {queues[i] : i \in 1..n}}]
             step == [z \in (1..N) \X Seq(Queue) |-> Round(z[2], z[1])]
             g == CHOOSE h : h = [n \in 0..N |-> IF n = 0 THEN old ELSE Round(h[n - 1], n)]
  <1>1. N \in Nat /\ Range(queues) = {queues[i] : i \in 1..N} /\ \A i \in 1..N : queues[i] \in Queue
    BY SeqFacts, RangeEquality
  <1>2. old \in Good[0]
    <2>1. {queues[i] : i \in 1..0} = {} OBVIOUS
    <2>2. 0 \in 0..N BY <1>1
    <2>3. QED BY <2>1, <2>2
  <1>3. ASSUME NEW n \in 1..N, NEW x \in Good[n - 1] PROVE Round(x, n) \in Good[n] /\ x \in Seq(Queue)
    <2>1. n \in 0..N /\ n - 1 \in 0..N /\ n \in 1..n BY <1>1
    <2>2. x \in Seq(Queue) /\ Range(x) = Range(old) \cup {queues[i] : i \in 1..n - 1} BY <1>3, <2>1
    <2>3. {queues[i] : i \in 1..n} = {queues[i] : i \in 1..n - 1} \cup {queues[n]}
      <3>1. \A i \in 1..n : i \in 1..n - 1 \/ i = n BY <1>1
      <3>2. \A i \in 1..n - 1 : i \in 1..n BY <1>1
      <3>3. QED BY <2>1, <3>1, <3>2
    <2>4. queues[n] \in Queue BY <1>1
    <2>5. Append(x, queues[n]) \in Seq(Queue) /\ Range(Append(x, queues[n])) = Range(x) \cup {queues[n]}
      BY <2>2, <2>4, RangeOfAppend
    <2>6. Round(x, n) \in Seq(Queue) /\ Range(Round(x, n)) = Range(x) \cup {queues[n]}
      BY <2>2, <2>5
    <2>7. QED BY <2>1, <2>2, <2>3, <2>6
  <1>4. \A n \in 1..N : \A x \in Good[n - 1] : step[<<n, x>>] = Round(x, n) BY <1>3
  <1>5. \A n \in 0..N : Good[n] \subseteq Seq(Queue) OBVIOUS
  <1> HIDE DEF Good, step, Round, N
  <1>6. PICK f : /\ IsLoop(f, N, old, step)
                 /\ \A n \in 0..N : f[n] \in Good[n] /\ f[n] \in Seq(Queue)
    <2>1. \A n \in 1..N : \A x \in Good[n - 1] : step[<<n, x>>] \in Good[n] BY <1>3, <1>4
    <2>2. QED BY <1>1, <1>2, <1>5, <2>1, LoopDefines, Zenon
  <1>7. f = [n \in 0..N |-> IF n = 0 THEN old ELSE Round(f[n - 1], n)]
    <2>1. \A n \in 0..N : n # 0 => n \in 1..N /\ n - 1 \in 0..N BY <1>1
    <2>2. \A n \in 0..N : n # 0 => step[<<n, f[n - 1]>>] = Round(f[n - 1], n) BY <1>4, <1>6, <2>1
    <2>3. QED BY <1>6, <2>2 DEF IsLoop
  <1>8. g = [n \in 0..N |-> IF n = 0 THEN old ELSE Round(g[n - 1], n)] BY <1>7
  <1> HIDE DEF g
  <1>9. \A n \in 0..N : g[n] \in Good[n]
    <2>1. 0 \in 0..N /\ \A n \in 1..N : n \in 0..N /\ n # 0 BY <1>1
    <2>2. g[0] = old /\ \A n \in 1..N : g[n] = Round(g[n - 1], n) BY <1>8, <2>1
    <2>3. QED BY <1>1, <1>2, <1>3, <2>2, LoopKeeps
  <1>10. RegisterQueues(old, queues) = g[N] BY DEF RegisterQueues, g, Round, N
  <1>11. g[N] \in Good[N] /\ N \in 0..N BY <1>1, <1>9
  <1>12. QED BY <1>1, <1>10, <1>11 DEF Good

\* The part of a process that no import touches
Framed(p, r) ==
    /\ r.pc = p.pc /\ r.code = p.code /\ r.kind = p.kind /\ r.table = p.table
    /\ r.checked = p.checked /\ r.warned = p.warned /\ r.pending = p.pending /\ r.verified = p.verified

\* An import only adds to what was registered.
Grown(p, r) ==
    /\ Framed(p, r)
    /\ Range(p.dumpers) \subseteq Range(r.dumpers) /\ Entries(p) \subseteq Entries(r)

LEMMA GrownTwice == ASSUME NEW p, NEW q, NEW r, Grown(p, q), Grown(q, r) PROVE Grown(p, r)
  BY DEF Grown, Framed

LEMMA RunRemains == ASSUME NEW p, NEW r, Grown(p, r), NEW s, HasRun(p, s) PROVE HasRun(r, s)
  BY DEF Grown, HasRun

\* The queues of a task are queues of its version.
LEMMA InQueuesOf ==
    ASSUME NEW v \in Versions, NEW m \in DOMAIN ModulesOf(v), NEW s \in Range(ModulesOf(v)[m]),
           NEW q \in Range(s.queues)
    PROVE  [queue |-> q, owner |-> s.app] \in QueuesOf(v)
  <1> DEFINE of(t) == {[queue |-> r, owner |-> t.app] : r \in Range(t.queues)}
             in(k) == UNION {of(t) : t \in Range(ModulesOf(v)[k])}
  <1>1. [queue |-> q, owner |-> s.app] \in of(s) OBVIOUS
  <1>2. of(s) \subseteq in(m) OBVIOUS
  <1>3. in(m) \subseteq QueuesOf(v) BY DEF QueuesOf
  <1>4. QED BY <1>1, <1>2, <1>3

\* And there are no others.
LEMMA QueuesOfOnly ==
    ASSUME NEW v \in Versions, NEW e \in QueuesOf(v)
    PROVE  \E m \in DOMAIN ModulesOf(v) : \E s \in Range(ModulesOf(v)[m]) : \E q \in Range(s.queues) :
               e = [queue |-> q, owner |-> s.app]
  <1> DEFINE of(t) == {[queue |-> r, owner |-> t.app] : r \in Range(t.queues)}
             in(k) == UNION {of(t) : t \in Range(ModulesOf(v)[k])}
  <1>1. QueuesOf(v) = UNION {in(k) : k \in DOMAIN ModulesOf(v)} BY DEF QueuesOf
  <1>2. PICK m \in DOMAIN ModulesOf(v) : e \in in(m) BY <1>1
  <1>3. PICK s \in Range(ModulesOf(v)[m]) : e \in of(s) BY <1>2
  <1>4. QED BY <1>3

\* What one statement leaves: BlockDumper(app) a dumper, a task its queues and its name
StatementRan(p, s, r) ==
    /\ r \in ProcessState /\ Registered(r) /\ Grown(p, r)
    /\ r.imported = p.imported /\ r.incomplete = p.incomplete
    /\ r.error = "none" => p.error = "none" /\ HasRun(r, s)
    /\ \A t \in Range(r.registry) : t \in Range(p.registry) \/ (t = s.task /\ t # "BlockDumper")

LEMMA StatementRuns ==
    ASSUME NEW p \in ProcessState, Registered(p),
           NEW m \in DOMAIN ModulesOf(p.code), NEW s \in Range(ModulesOf(p.code)[m]), s \in Statement,
           p.error = "none" /\ s.task # "BlockDumper" => s.app \in Range(p.dumpers),
           s.task # "BlockDumper" => s.task \notin Range(p.registry)
    PROVE  StatementRan(p, s, RunStatement(p, s))
  <1> DEFINE r == RunStatement(p, s)
             Good(x) == /\ x \in ProcessState /\ Registered(x) /\ Grown(p, x)
                        /\ x.imported = p.imported /\ x.incomplete = p.incomplete
                        /\ x.error = "none" => p.error = "none" /\ HasRun(x, s)
                        /\ \A t \in Range(x.registry) : t \in Range(p.registry) \/ (t = s.task /\ t # "BlockDumper")
  <1>1. SUFFICES Good(r) BY DEF StatementRan
  <1>2. /\ p.code \in Versions /\ p.dumpers \in Seq(Apps) /\ p.queues \in [Apps -> Seq(Queue)]
        /\ p.registry \in Seq(STRING)
    BY DEF ProcessState
  <1>3. s.app \in Apps /\ s.task \in STRING /\ s.queues \in Seq(Queue) BY DEF Statement
  <1>4. CASE p.error # "none"
    <2>1. r = p BY <1>4 DEF RunStatement
    <2>2. Grown(p, p) BY DEF Grown, Framed
    <2>3. Good(p) BY <1>4, <2>2
    <2> HIDE DEF r, Good
    <2>4. QED BY <2>1, <2>3
  <1> DEFINE failed == [p EXCEPT !.error = "other"]
  <1>5. ASSUME p.error = "none" PROVE Good(failed)
    <2>1. /\ failed \in ProcessState /\ failed.error = "other" /\ Framed(p, failed)
          /\ failed.imported = p.imported /\ failed.incomplete = p.incomplete /\ failed.queues = p.queues
          /\ failed.dumpers = p.dumpers /\ failed.registry = p.registry /\ failed.code = p.code
      BY DEF ProcessState, Errors, Framed
    <2> HIDE DEF failed
    <2>2. Entries(failed) = Entries(p) BY <2>1, SameEntries
    <2>3. Registered(failed) BY <2>1, <2>2 DEF Registered
    <2>4. Grown(p, failed) BY <2>1, <2>2 DEF Grown
    <2>5. \A t \in Range(failed.registry) : t \in Range(p.registry) BY <2>1
    <2>6. failed.error # "none" BY <2>1
    <2>7. QED BY <2>1, <2>3, <2>4, <2>5, <2>6
  <1>6. CASE p.error = "none" /\ s.task = "BlockDumper"
    <2>1. CASE s.app \in Range(p.dumpers) BY <1>5, <1>6, <2>1 DEF RunStatement
    <2>2. CASE s.app \notin Range(p.dumpers)
      <3>1. r = [p EXCEPT !.dumpers = Append(@, s.app)] BY <1>6, <2>2 DEF RunStatement
      <3> DEFINE ds == Append(p.dumpers, s.app)
      <3>2. ds \in Seq(Apps) /\ Range(ds) = Range(p.dumpers) \cup {s.app} BY <1>2, <1>3, RangeOfAppend
      <3> HIDE DEF ds
      <3>3. /\ r \in ProcessState /\ r.dumpers = ds /\ r.error = p.error /\ Framed(p, r)
            /\ r.imported = p.imported /\ r.incomplete = p.incomplete /\ r.queues = p.queues
            /\ r.registry = p.registry /\ r.code = p.code
        BY <3>1, <3>2 DEF ProcessState, Framed, ds
      <3> HIDE DEF r
      <3>4. Entries(r) = Entries(p) BY <3>3, SameEntries
      <3>5. HasRun(r, s) BY <1>6, <3>2, <3>3 DEF HasRun
      <3>6. Registered(r) BY <3>2, <3>3, <3>4 DEF Registered
      <3>7. Grown(p, r) BY <3>2, <3>3, <3>4 DEF Grown
      <3>8. QED BY <1>6, <3>3, <3>5, <3>6, <3>7
    <2>3. QED BY <2>1, <2>2
  <1>7. CASE p.error = "none" /\ s.task # "BlockDumper"
    <2>1. CASE Clashes(p, s.app, s.queues) BY <1>5, <1>7, <2>1 DEF RunStatement
    <2>2. CASE ~Clashes(p, s.app, s.queues)
      <3> DEFINE qs == RegisterQueues(p.queues[s.app], s.queues)
                 reg == Append(p.registry, s.task)
                 all == [p.queues EXCEPT ![s.app] = qs]
                 mine == {[queue |-> q, owner |-> s.app] : q \in Range(s.queues)}
      <3>1. r = [p EXCEPT !.queues[s.app] = qs, !.registry = reg] BY <1>7, <2>2 DEF RunStatement
      <3>2. qs \in Seq(Queue) /\ Range(qs) = Range(p.queues[s.app]) \cup Range(s.queues)
        BY <1>2, <1>3, RegisterFacts
      <3>3. reg \in Seq(STRING) /\ Range(reg) = Range(p.registry) \cup {s.task} /\ IsInjective(reg)
        BY <1>2, <1>3, <1>7, RangeOfAppend, AppendInjectively DEF Registered
      <3> HIDE DEF qs, reg
      <3>4. all \in [Apps -> Seq(Queue)] /\ all[s.app] = qs /\ \A a \in Apps : a # s.app => all[a] = p.queues[a]
        BY <1>2, <1>3, <3>2
      <3>5. r = [p EXCEPT !.queues = all, !.registry = reg] BY <1>2, <1>3, <3>1
      <3> HIDE DEF all
      <3>6. /\ r \in ProcessState /\ r.queues = all /\ r.error = p.error /\ Framed(p, r)
            /\ r.imported = p.imported /\ r.incomplete = p.incomplete /\ r.dumpers = p.dumpers
            /\ r.registry = reg /\ r.code = p.code
        BY <3>3, <3>4, <3>5 DEF ProcessState, Framed
      <3> HIDE DEF r
      <3>7. Entries(r) = Entries(p) \cup mine
        <4>1. \A e \in Entries(r) : e.owner \in Apps /\ e.queue \in Range(all[e.owner])
                                    /\ e = [queue |-> e.queue, owner |-> e.owner]
          BY <3>4, <3>6, InEntries
        <4>2. ASSUME NEW e \in Entries(r) PROVE e \in Entries(p) \cup mine
          <5>1. CASE e.owner # s.app
            <6>1. e.queue \in Range(p.queues[e.owner]) BY <3>4, <4>1, <5>1
            <6>2. QED BY <1>2, <4>1, <6>1, InEntries
          <5>2. CASE e.owner = s.app /\ e.queue \in Range(p.queues[s.app])
            <6>1. [queue |-> e.queue, owner |-> s.app] \in Entries(p) BY <1>2, <1>3, <5>2, InEntries
            <6>2. QED BY <4>1, <5>2, <6>1
          <5>3. CASE e.owner = s.app /\ e.queue \in Range(s.queues) BY <4>1, <5>3
          <5>4. QED BY <3>2, <3>4, <4>1, <5>1, <5>2, <5>3
        <4>3. ASSUME NEW e \in Entries(p) PROVE e \in Entries(r)
          <5>1. /\ e.owner \in Apps /\ e.queue \in Range(p.queues[e.owner])
                /\ e = [queue |-> e.queue, owner |-> e.owner]
            BY <1>2, InEntries
          <5>2. e.queue \in Range(all[e.owner]) BY <3>2, <3>4, <5>1
          <5>3. QED BY <3>4, <3>6, <5>1, <5>2, InEntries
        <4>4. ASSUME NEW e \in mine PROVE e \in Entries(r)
          <5>1. PICK q \in Range(s.queues) : e = [queue |-> q, owner |-> s.app] OBVIOUS
          <5>2. q \in Range(all[s.app]) BY <3>2, <3>4
          <5>3. QED BY <1>3, <3>4, <3>6, <5>1, <5>2, InEntries
        <4>5. QED BY <4>2, <4>3, <4>4
      <3>8. \A q, q2 \in Range(s.queues) : q.name = q2.name => q = q2
        <4>1. DOMAIN s.queues = 1..Len(s.queues) /\ Len(s.queues) \in Nat BY <1>3, SeqFacts
        <4>2. \A i \in DOMAIN s.queues : \A j \in 1..i - 1 :
                  s.queues[j].name = s.queues[i].name => s.queues[j] = s.queues[i]
          BY <2>2 DEF Clashes
        <4>3. ASSUME NEW i \in DOMAIN s.queues, NEW j \in DOMAIN s.queues,
                     s.queues[j].name = s.queues[i].name
              PROVE  s.queues[j] = s.queues[i]
          <5>1. CASE j < i BY <4>1, <4>2, <4>3, <5>1
          <5>2. CASE i < j BY <4>1, <4>2, <4>3, <5>2
          <5>3. CASE i = j BY <5>3
          <5>4. QED BY <4>1, <5>1, <5>2, <5>3
        <4>4. QED BY <4>3 DEF Range
      <3>9. \A q \in Range(s.queues) : \A e \in Entries(p) : e.queue.name = q.name => e.queue = q /\ e.owner = s.app
        BY <2>2 DEF Clashes, Range
      <3>10. \A e, e2 \in Entries(r) : e.queue.name = e2.queue.name => e = e2
        <4>1. \A e, e2 \in Entries(p) : e.queue.name = e2.queue.name => e = e2 BY DEF Registered
        <4>2. \A e \in Entries(p) : e = [queue |-> e.queue, owner |-> e.owner] BY <1>2, InEntries
        <4>3. \A e \in mine : e.queue \in Range(s.queues) /\ e = [queue |-> e.queue, owner |-> s.app] OBVIOUS
        <4>4. ASSUME NEW e \in mine, NEW e2 \in mine, e.queue.name = e2.queue.name PROVE e = e2
          <5>1. e.queue = e2.queue BY <3>8, <4>3, <4>4
          <5>2. QED BY <4>3, <5>1
        <4>5. ASSUME NEW e \in Entries(p), NEW e2 \in mine, e.queue.name = e2.queue.name PROVE e = e2
          <5>1. e.queue = e2.queue /\ e.owner = s.app BY <3>9, <4>3, <4>5
          <5>2. QED BY <4>2, <4>3, <5>1
        <4> HIDE DEF mine
        <4>6. QED BY <3>7, <4>1, <4>4, <4>5
      <3>11. ASSUME NEW e \in Entries(r) PROVE e \in QueuesOf(r.code) /\ e.owner \in Range(r.dumpers)
        <4>1. CASE e \in Entries(p) BY <3>6, <4>1 DEF Registered
        <4>2. CASE e \in mine
          <5>1. PICK q \in Range(s.queues) : e = [queue |-> q, owner |-> s.app] BY <4>2
          <5>2. e \in QueuesOf(p.code) BY <1>2, <5>1, InQueuesOf
          <5>3. e.owner = s.app BY <5>1
          <5>4. QED BY <1>7, <3>6, <5>2, <5>3
        <4>3. QED BY <3>7, <4>1, <4>2
      <3>12. Registered(r) BY <3>3, <3>6, <3>10, <3>11 DEF Registered
      <3>13. HasRun(r, s) BY <1>7, <3>7 DEF HasRun
      <3>14. Grown(p, r) BY <3>6, <3>7 DEF Grown
      <3>15. \A t \in Range(r.registry) : t \in Range(p.registry) \/ (t = s.task /\ t # "BlockDumper")
        <4>1. Range(r.registry) = Range(p.registry) \cup {s.task} BY <3>3, <3>6
        <4>2. QED BY <1>7, <4>1
      <3>16. QED BY <1>7, <3>6, <3>12, <3>13, <3>14, <3>15
    <2>3. QED BY <2>1, <2>2
  <1>8. QED BY <1>4, <1>6, <1>7

\* A task of a module is among its tasks.
LEMMA TaskOfModule ==
    ASSUME NEW v, NEW m \in DOMAIN ModulesOf(v), NEW s \in Range(ModulesOf(v)[m]), s.task # "BlockDumper",
           NEW S, m \in S
    PROVE  s.task \in TasksOf(v, S)
  <1> DEFINE in == UNION {Range(ModulesOf(v)[k]) : k \in S \cap DOMAIN ModulesOf(v)}
  <1>1. m \in S \cap DOMAIN ModulesOf(v) OBVIOUS
  <1>2. Range(ModulesOf(v)[m]) \subseteq in BY <1>1, Zenon
  <1>3. s \in {s2 \in in : s2.task # "BlockDumper"} BY <1>2
  <1>4. QED BY <1>3 DEF TasksOf

\* And a task of several modules is one of a module among them.
LEMMA TasksOfOnly ==
    ASSUME NEW v, NEW S, NEW t \in TasksOf(v, S)
    PROVE  \E m \in S \cap DOMAIN ModulesOf(v) : \E s \in Range(ModulesOf(v)[m]) :
               s.task = t /\ s.task # "BlockDumper"
  <1> DEFINE in == UNION {Range(ModulesOf(v)[k]) : k \in S \cap DOMAIN ModulesOf(v)}
  <1>1. PICK s \in in : s.task = t /\ s.task # "BlockDumper" BY DEF TasksOf
  <1>2. PICK m \in S \cap DOMAIN ModulesOf(v) : s \in Range(ModulesOf(v)[m]) BY <1>1
  <1>3. QED BY <1>1, <1>2

LEMMA TasksOfMore ==
    ASSUME NEW v, NEW S, NEW T, S \subseteq T
    PROVE  TasksOf(v, S) \subseteq TasksOf(v, T)
  <1>1. SUFFICES ASSUME NEW t \in TasksOf(v, S) PROVE t \in TasksOf(v, T) OBVIOUS
  <1>2. PICK m \in S \cap DOMAIN ModulesOf(v) : \E s \in Range(ModulesOf(v)[m]) :
            s.task = t /\ s.task # "BlockDumper"
    BY TasksOfOnly
  <1>3. PICK s \in Range(ModulesOf(v)[m]) : s.task = t /\ s.task # "BlockDumper" BY <1>2
  <1>4. m \in T /\ m \in DOMAIN ModulesOf(v) BY <1>2
  <1>5. QED BY <1>3, <1>4, TaskOfModule

\* Two modules share no task.
LEMMA TasksOfTwo ==
    ASSUME NEW v \in Versions, NEW S, NEW m, m \notin S
    PROVE  TasksOf(v, S) \cap TasksOf(v, {m}) = {}
  <1>1. SUFFICES ASSUME NEW t \in TasksOf(v, S), t \in TasksOf(v, {m}) PROVE FALSE OBVIOUS
  <1>2. PICK k \in S \cap DOMAIN ModulesOf(v) : \E s \in Range(ModulesOf(v)[k]) :
            s.task = t /\ s.task # "BlockDumper"
    BY TasksOfOnly
  <1>3. PICK k2 \in {m} \cap DOMAIN ModulesOf(v) : \E s \in Range(ModulesOf(v)[k2]) :
            s.task = t /\ s.task # "BlockDumper"
    BY <1>1, TasksOfOnly
  <1>4. PICK i \in DOMAIN ModulesOf(v)[k] : ModulesOf(v)[k][i].task = t /\ t # "BlockDumper"
    BY <1>2, CodeTypes DEF Range
  <1>5. PICK j \in DOMAIN ModulesOf(v)[k2] : ModulesOf(v)[k2][j].task = t BY <1>3, CodeTypes DEF Range
  <1>6. k \in DOMAIN ModulesOf(v) /\ k2 \in DOMAIN ModulesOf(v) /\ k # k2 BY <1>2, <1>3
  <1>7. k2 = k BY <1>4, <1>5, <1>6, StatementsAssumption
  <1>8. QED BY <1>6, <1>7

\* What the first statements of a module leave
LEMMA ModuleRuns ==
    ASSUME NEW p \in ProcessState, Registered(p), NEW m \in DOMAIN ModulesOf(p.code),
           NEW count \in 0..Len(ModulesOf(p.code)[m]),
           Range(Code[p.code].next_to_app) \subseteq Range(p.dumpers),
           \A t \in TasksOf(p.code, {m}) : t \notin Range(p.registry)
    PROVE  LET r == RunModule(p, ModulesOf(p.code)[m], count)
           IN  /\ r \in ProcessState /\ Registered(r) /\ Grown(p, r)
               /\ r.imported = p.imported /\ r.incomplete = p.incomplete
               /\ r.error = "none" => \A i \in 1..count : HasRun(r, ModulesOf(p.code)[m][i])
               /\ Range(r.registry) \subseteq Range(p.registry) \cup TasksOf(p.code, {m})
  <1> DEFINE v == p.code
             body == ModulesOf(v)[m]
             Half(n, r) == /\ Registered(r) /\ Grown(p, r)
                           /\ r.imported = p.imported /\ r.incomplete = p.incomplete
                           /\ r.error = "none" => \A i \in 1..n : HasRun(r, body[i])
                           /\ \A t \in Range(r.registry) :
                                 \/ t \in Range(p.registry)
                                 \/ \E i \in 1..n : body[i].task = t /\ t # "BlockDumper"
             Good == [n \in 0..count |-> {r \in ProcessState : Half(n, r)}]
             step == [z \in (1..count) \X ProcessState |-> RunStatement(z[2], body[z[1]])]
             g == CHOOSE h : h = [n \in 0..count |-> IF n = 0 THEN p ELSE RunStatement(h[n - 1], body[n])]
  <1>1. v \in Versions BY DEF ProcessState
  <1>2. /\ DOMAIN body = 1..Len(body) /\ Len(body) \in Nat /\ count \in Nat
        /\ \A i \in 1..Len(body) : body[i] \in Statement /\ body[i] \in Range(body)
        /\ \A n \in 1..count : n \in 1..Len(body)
    BY <1>1, CodeTypes
  <1>3. p \in Good[0]
    <2>1. Grown(p, p) BY DEF Grown, Framed
    <2>2. Half(0, p) BY <2>1
    <2> HIDE DEF Half
    <2>3. QED BY <1>2, <2>2
  <1>4. ASSUME NEW n \in 1..count, NEW x \in ProcessState, Half(n - 1, x)
        PROVE  RunStatement(x, body[n]) \in ProcessState /\ Half(n, RunStatement(x, body[n]))
    <2> DEFINE s == body[n]
               r == RunStatement(x, s)
    <2>1. n \in 1..Len(body) /\ s \in Statement /\ s \in Range(body) BY <1>2
    <2>2. x.code = v /\ Registered(x) /\ Grown(p, x) BY <1>4 DEF Grown, Framed
    <2>3. x.error = "none" /\ s.task # "BlockDumper" => s.app \in Range(x.dumpers)
      <3>1. SUFFICES ASSUME x.error = "none", s.task # "BlockDumper" PROVE s.app \in Range(x.dumpers)
        OBVIOUS
      <3>2. \/ s.app \in Range(Code[v].next_to_app)
            \/ \E j \in 1..n - 1 : body[j].task = "BlockDumper" /\ body[j].app = s.app
        BY <1>1, <1>2, <2>1, <3>1, StatementsAssumption
      <3>3. CASE s.app \in Range(Code[v].next_to_app) BY <2>2, <3>3 DEF Grown
      <3>4. CASE \E j \in 1..n - 1 : body[j].task = "BlockDumper" /\ body[j].app = s.app
        <4>1. PICK j \in 1..n - 1 : body[j].task = "BlockDumper" /\ body[j].app = s.app BY <3>4
        <4>2. HasRun(x, body[j]) BY <1>4, <3>1
        <4>3. QED BY <4>1, <4>2 DEF HasRun
      <3>5. QED BY <3>2, <3>3, <3>4
    <2>4. s.task # "BlockDumper" => s.task \notin Range(x.registry)
      <3>1. SUFFICES ASSUME s.task # "BlockDumper", s.task \in Range(x.registry) PROVE FALSE OBVIOUS
      <3>2. s.task \in TasksOf(v, {m}) BY <2>1, <3>1, TaskOfModule
      <3>3. s.task \notin Range(p.registry) BY <3>2
      <3>4. PICK i \in 1..n - 1 : body[i].task = s.task BY <1>4, <3>1, <3>3
      <3>5. i \in 1..Len(body) /\ i # n BY <1>2
      <3>6. i = n BY <1>1, <1>2, <2>1, <3>1, <3>4, <3>5, StatementsAssumption
      <3>7. QED BY <3>5, <3>6
    <2> HIDE DEF body
    <2>5. /\ r \in ProcessState /\ Registered(r) /\ Grown(x, r)
          /\ r.imported = x.imported /\ r.incomplete = x.incomplete
          /\ r.error = "none" => x.error = "none" /\ HasRun(r, s)
          /\ \A t \in Range(r.registry) : t \in Range(x.registry) \/ (t = s.task /\ t # "BlockDumper")
      <3>1. m \in DOMAIN ModulesOf(x.code) /\ s \in Range(ModulesOf(x.code)[m]) BY <2>1, <2>2 DEF body
      <3> HIDE DEF s
      <3>2. x \in ProcessState /\ Registered(x) /\ s \in Statement BY <1>4, <2>1, <2>2
      <3>3. StatementRan(x, s, RunStatement(x, s)) BY <2>3, <2>4, <3>1, <3>2, StatementRuns
      <3>4. StatementRan(x, s, r) BY <3>3
      <3> HIDE DEF r
      <3>5. QED BY <3>4 DEF StatementRan
    <2> HIDE DEF r
    <2>6. Grown(p, r) BY <2>2, <2>5, GrownTwice
    <2>7. \A i \in 1..n : i \in 1..n - 1 \/ i = n OBVIOUS
    <2>8. r.error = "none" => \A i \in 1..n : HasRun(r, body[i])
      <3>1. SUFFICES ASSUME r.error = "none", NEW i \in 1..n PROVE HasRun(r, body[i]) OBVIOUS
      <3>2. CASE i \in 1..n - 1 BY <1>4, <2>5, <3>1, <3>2, RunRemains
      <3>3. CASE i = n BY <2>5, <3>1, <3>3
      <3>4. QED BY <2>7, <3>2, <3>3
    <2>9. \A t \in Range(r.registry) :
              t \in Range(p.registry) \/ \E i \in 1..n : body[i].task = t /\ t # "BlockDumper"
      <3>1. \A i \in 1..n - 1 : i \in 1..n OBVIOUS
      <3>2. n \in 1..n OBVIOUS
      <3>3. QED BY <1>4, <2>5, <3>1, <3>2
    <2>10. QED BY <1>4, <2>5, <2>6, <2>8, <2>9 DEF r
  <1> HIDE DEF Half, body
  <1>5. \A n \in 1..count : \A x \in Good[n - 1] : step[<<n, x>>] \in Good[n] /\ step[<<n, x>>] = RunStatement(x, body[n])
    <2>1. \A n \in 1..count : n \in 0..count /\ n - 1 \in 0..count BY <1>2
    <2>2. QED BY <1>4, <2>1
  <1>6. \A n \in 0..count : Good[n] \subseteq ProcessState OBVIOUS
  <1>7. \A n \in 0..count : \A x \in Good[n] : Half(n, x) OBVIOUS
  <1> HIDE DEF Good, step
  <1>8. PICK f : /\ IsLoop(f, count, p, step)
                 /\ \A n \in 0..count : f[n] \in Good[n] /\ f[n] \in ProcessState
    <2>1. \A n \in 1..count : \A x \in Good[n - 1] : step[<<n, x>>] \in Good[n] BY <1>5
    <2>2. count \in Nat BY <1>2
    <2>3. QED BY <1>3, <1>6, <2>1, <2>2, LoopDefines, ZenonT(60)
  <1>9. f = [n \in 0..count |-> IF n = 0 THEN p ELSE RunStatement(f[n - 1], body[n])]
    <2>1. \A n \in 0..count : n # 0 => n \in 1..count /\ n - 1 \in 0..count BY <1>2
    <2>2. \A n \in 0..count : n # 0 => step[<<n, f[n - 1]>>] = RunStatement(f[n - 1], body[n])
      BY <1>5, <1>8, <2>1
    <2>3. QED BY <1>8, <2>2 DEF IsLoop
  <1>10. g = [n \in 0..count |-> IF n = 0 THEN p ELSE RunStatement(g[n - 1], body[n])] BY <1>9
  <1> HIDE DEF g
  <1>11. \A n \in 0..count : g[n] \in Good[n]
    <2>1. 0 \in 0..count /\ \A n \in 1..count : n \in 0..count /\ n # 0 BY <1>2
    <2>2. g[0] = p /\ \A n \in 1..count : g[n] = RunStatement(g[n - 1], body[n]) BY <1>10, <2>1
    <2>3. \A n \in 1..count : g[n - 1] \in Good[n - 1] => g[n] \in Good[n] BY <1>5, <2>2
    <2>4. count \in Nat /\ g[0] \in Good[0] BY <1>2, <1>3, <2>2
    <2>5. QED BY <2>3, <2>4, LoopKeeps
  <1>12. RunModule(p, body, count) = g[count] BY DEF RunModule, g
  <1>13. g[count] \in ProcessState /\ Half(count, g[count])
    <2>1. count \in 0..count BY <1>2
    <2>2. QED BY <1>6, <1>7, <1>11, <2>1
  <1>14. Range(g[count].registry) \subseteq Range(p.registry) \cup TasksOf(v, {m})
    <2>1. SUFFICES ASSUME NEW t \in Range(g[count].registry), t \notin Range(p.registry)
                   PROVE  t \in TasksOf(v, {m})
      OBVIOUS
    <2>2. PICK i \in 1..count : body[i].task = t /\ t # "BlockDumper" BY <1>13, <2>1 DEF Half
    <2>3. body[i] \in Range(body) BY <1>2
    <2>4. QED BY <2>2, <2>3, TaskOfModule DEF body
  <1>15. QED BY <1>12, <1>13, <1>14 DEF Half, body

-----------------------------------------------------------------------------
(* Imports by the checks and by the process itself *)

LEMMA FaultOfModule ==
    ASSUME NEW v \in Versions, NEW f \in Faults(v), NEW m \in DOMAIN ModulesOf(v), f.module = m
    PROVE  f.at \in 0..Len(ModulesOf(v)[m]) /\ f.kind \in Errors
  <1> DEFINE of(k) == [module: {k}, at: 0..Len(ModulesOf(v)[k]), kind: Errors]
  <1>1. m # 0 BY CodeTypes
  <1>2. CASE f = [module |-> 0, at |-> 0, kind |-> "none"] BY <1>1, <1>2
  <1>3. CASE f \in UNION {of(k) : k \in Code[v].fragile}
    <2>1. PICK k \in Code[v].fragile : f \in of(k) BY <1>3
    <2>2. k = m BY <2>1
    <2>3. QED BY <2>1, <2>2
  <1>4. QED BY <1>2, <1>3 DEF Faults

\* Whatever an import does, the registries stay in order and what is imported has run.
Importing(p, r) ==
    /\ r \in ProcessState /\ Registered(r) /\ Grown(p, r)
    /\ ImportsHaveRun(r) /\ p.imported \subseteq r.imported

LEMMA ImportingTwice ==
    ASSUME NEW p, NEW q, NEW r, Importing(p, q), Importing(q, r) PROVE Importing(p, r)
  BY GrownTwice DEF Importing

\* import_module()
ModuleImported(p, m, r) ==
    /\ Importing(p, r) /\ r.incomplete = p.incomplete
    /\ r.error = "none" => m \in r.imported
    /\ Range(r.registry) \subseteq Range(p.registry) \cup TasksOf(p.code, {m})

LEMMA ModuleImports ==
    ASSUME NEW p \in ProcessState, Registered(p), ImportsHaveRun(p),
           Range(Code[p.code].next_to_app) \subseteq Range(p.dumpers),
           NEW f \in Faults(p.code), NEW m \in DOMAIN ModulesOf(p.code),
           m \notin p.imported => \A t \in TasksOf(p.code, {m}) : t \notin Range(p.registry)
    PROVE  ModuleImported(p, m, ImportModule(p, m, f))
  <1> DEFINE v == p.code
             body == ModulesOf(v)[m]
             q == [p EXCEPT !.error = "none"]
             count == IF f.module = m THEN f.at ELSE Len(body)
             ran == RunModule(q, body, count)
             failed == [ran EXCEPT !.error = f.kind]
             done == [ran EXCEPT !.imported = @ \cup {m}]
  <1>1. v \in Versions BY DEF ProcessState
  <1>2. /\ q \in ProcessState /\ Framed(p, q) /\ q.imported = p.imported /\ q.incomplete = p.incomplete
        /\ q.queues = p.queues /\ q.dumpers = p.dumpers /\ q.registry = p.registry /\ q.code = v
    BY DEF ProcessState, Framed
  <1> HIDE DEF q
  <1>3. Entries(q) = Entries(p) BY <1>2, SameEntries
  <1>4. Registered(q) /\ Grown(p, q) /\ ImportsHaveRun(q)
    <2>1. Registered(q) BY <1>2, <1>3 DEF Registered
    <2>2. Grown(p, q) BY <1>2, <1>3 DEF Grown
    <2>3. ImportsHaveRun(q) BY <1>2, <2>2, RunRemains DEF ImportsHaveRun
    <2>4. QED BY <2>1, <2>2, <2>3
  <1>5. CASE m \in p.imported
    <2>1. ImportModule(p, m, f) = q BY <1>5 DEF ImportModule, q
    <2>2. ModuleImported(p, m, q) BY <1>2, <1>4, <1>5 DEF ModuleImported, Importing
    <2>3. QED BY <2>1, <2>2
  <1>6. CASE m \notin p.imported
    <2>1. Len(body) \in Nat /\ DOMAIN body = 1..Len(body) /\ m \in Nat BY <1>1, CodeTypes
    <2>2. count \in 0..Len(body)
      <3>1. CASE f.module = m BY <1>1, <3>1, FaultOfModule
      <3>2. CASE f.module # m BY <2>1, <3>2
      <3>3. QED BY <3>1, <3>2
    <2>3. f.module = m => f.kind \in Errors BY <1>1, FaultOfModule
    <2> HIDE DEF count
    <2>4. /\ ran \in ProcessState /\ Registered(ran) /\ Grown(q, ran)
          /\ ran.imported = q.imported /\ ran.incomplete = q.incomplete
          /\ ran.error = "none" => \A i \in 1..count : HasRun(ran, body[i])
          /\ Range(ran.registry) \subseteq Range(q.registry) \cup TasksOf(v, {m})
      <3>1. \A t \in TasksOf(q.code, {m}) : t \notin Range(q.registry) BY <1>2, <1>6
      <3>2. m \in DOMAIN ModulesOf(q.code) /\ count \in 0..Len(ModulesOf(q.code)[m]) BY <1>2, <2>2
      <3>3. Range(Code[q.code].next_to_app) \subseteq Range(q.dumpers) BY <1>2
      <3>4. QED BY <1>2, <1>4, <3>1, <3>2, <3>3, ModuleRuns
    <2> HIDE DEF ran
    <2>5. /\ Grown(p, ran) /\ ImportsHaveRun(ran)
      <3>1. Grown(p, ran) BY <1>4, <2>4, GrownTwice
      <3>2. ran.imported = p.imported /\ ran.code = v BY <1>2, <2>4, <3>1 DEF Grown, Framed
      <3>3. QED BY <3>1, <3>2, RunRemains DEF ImportsHaveRun
    <2>6. CASE ran.error # "none"
      <3>1. ImportModule(p, m, f) = ran BY <1>6, <2>6 DEF ImportModule, q, ran, count
      <3>2. QED BY <1>2, <2>4, <2>5, <2>6, <3>1 DEF ModuleImported, Importing
    <2>7. CASE ran.error = "none" /\ f.module = m
      <3>1. ImportModule(p, m, f) = failed BY <1>6, <2>7 DEF ImportModule, q, ran, count
      <3>2. /\ failed \in ProcessState /\ failed.error = f.kind /\ Framed(ran, failed)
            /\ failed.imported = ran.imported /\ failed.incomplete = ran.incomplete
            /\ failed.queues = ran.queues /\ failed.dumpers = ran.dumpers
            /\ failed.registry = ran.registry /\ failed.code = ran.code
        BY <2>3, <2>4, <2>7 DEF ProcessState, Framed
      <3> HIDE DEF failed
      <3>3. Entries(failed) = Entries(ran) BY <3>2, SameEntries
      <3>4. Registered(failed) BY <2>4, <3>2, <3>3 DEF Registered
      <3>5. Grown(ran, failed) BY <3>2, <3>3 DEF Grown
      <3>6. Grown(p, failed) BY <2>5, <3>5, GrownTwice
      <3>7. ImportsHaveRun(failed) BY <2>5, <3>2, <3>5, RunRemains DEF ImportsHaveRun
      <3>8. failed.error # "none" BY <2>3, <2>7, <3>2 DEF Errors
      <3>9. QED BY <1>2, <2>4, <3>1, <3>2, <3>4, <3>6, <3>7, <3>8 DEF ModuleImported, Importing
    <2>8. CASE ran.error = "none" /\ f.module # m
      <3>1. ImportModule(p, m, f) = done BY <1>6, <2>8 DEF ImportModule, q, ran, count
      <3>2. /\ done \in ProcessState /\ Framed(ran, done)
            /\ done.imported = ran.imported \cup {m} /\ done.incomplete = ran.incomplete
            /\ done.queues = ran.queues /\ done.dumpers = ran.dumpers
            /\ done.registry = ran.registry /\ done.code = ran.code
        BY <2>1, <2>4, <2>8 DEF ProcessState, Framed
      <3> HIDE DEF done
      <3>3. Entries(done) = Entries(ran) BY <3>2, SameEntries
      <3>4. Registered(done) BY <2>4, <3>2, <3>3 DEF Registered
      <3>5. Grown(ran, done) BY <3>2, <3>3 DEF Grown
      <3>6. Grown(p, done) BY <2>5, <3>5, GrownTwice
      <3>7. done.code = v BY <3>6 DEF Grown, Framed
      <3>8. ASSUME NEW s \in Range(body) PROVE HasRun(done, s)
        <4>1. PICK i \in 1..Len(body) : body[i] = s BY <2>1 DEF Range
        <4>2. count = Len(body) BY <2>8 DEF count
        <4>3. HasRun(ran, s) BY <2>4, <2>8, <4>1, <4>2
        <4>4. QED BY <3>5, <4>3, RunRemains
      <3>9. ImportsHaveRun(done)
        <4>1. ASSUME NEW k \in done.imported
              PROVE  k \in DOMAIN ModulesOf(v) /\ \A s \in Range(ModulesOf(v)[k]) : HasRun(done, s)
          <5>1. CASE k = m BY <3>8, <5>1
          <5>2. CASE k \in ran.imported
            <6>1. /\ k \in DOMAIN ModulesOf(v)
                  /\ \A s \in Range(ModulesOf(v)[k]) : HasRun(ran, s)
              BY <2>5, <3>2, <3>7, <5>2 DEF ImportsHaveRun
            <6>2. QED BY <3>5, <6>1, RunRemains
          <5>3. QED BY <3>2, <5>1, <5>2
        <4>2. QED BY <3>7, <4>1 DEF ImportsHaveRun
      <3>10. QED BY <1>2, <2>4, <3>1, <3>2, <3>4, <3>6, <3>9 DEF ModuleImported, Importing
    <2>9. QED BY <2>6, <2>7, <2>8
  <1>7. QED BY <1>5, <1>6

\* What is imported keeps the dumpers the code creates next to an app.
LEMMA StillNextToApp ==
    ASSUME NEW p, NEW r, Importing(p, r), Range(Code[p.code].next_to_app) \subseteq Range(p.dumpers)
    PROVE  r.code = p.code /\ Range(Code[r.code].next_to_app) \subseteq Range(r.dumpers)
  BY DEF Importing, Grown, Framed

\* What the first rounds of ImportTaskModules() leave
HalfChecked(p, n, r) ==
    /\ Importing(p, r) /\ r.incomplete = p.incomplete
    /\ Range(r.registry) \subseteq TasksOf(p.code, r.imported)
    /\ r.error = "none" => \A i \in 1..n : i \in r.imported

LEMMA TaskModuleImports ==
    ASSUME NEW p \in ProcessState, Range(Code[p.code].next_to_app) \subseteq Range(p.dumpers),
           NEW f \in Faults(p.code), NEW n \in DOMAIN ModulesOf(p.code),
           NEW x, HalfChecked(p, n - 1, x)
    PROVE  HalfChecked(p, n, ImportTaskModule(x, n, f))
  <1> DEFINE v == p.code
             ran == ImportModule(x, n, f)
             undone == [ran EXCEPT !.registry = x.registry]
  <1>1. v \in Versions BY DEF ProcessState
  <1>2. n \in Nat /\ \A i \in 1..n : i \in 1..n - 1 \/ i = n
    <2>1. n \in Nat BY <1>1, CodeTypes
    <2>2. QED BY <2>1
  <1>3. x \in ProcessState /\ Registered(x) /\ ImportsHaveRun(x) /\ Importing(p, x) BY DEF HalfChecked, Importing
  <1>4. x.code = v /\ Range(Code[x.code].next_to_app) \subseteq Range(x.dumpers) BY <1>3, StillNextToApp
  <1>5. CASE x.error # "none" BY <1>5 DEF ImportTaskModule, HalfChecked
  <1>6. CASE x.error = "none"
    <2>1. n \notin x.imported => \A t \in TasksOf(x.code, {n}) : t \notin Range(x.registry)
      <3>1. SUFFICES ASSUME n \notin x.imported PROVE \A t \in TasksOf(v, {n}) : t \notin Range(x.registry)
        BY <1>4
      <3>2. TasksOf(v, x.imported) \cap TasksOf(v, {n}) = {} BY <1>1, <3>1, TasksOfTwo
      <3>3. QED BY <3>2 DEF HalfChecked
    <2>2. ModuleImported(x, n, ran) BY <1>3, <1>4, <2>1, ModuleImports
    <2> HIDE DEF ran
    <2>3. /\ Importing(x, ran) /\ ran.incomplete = p.incomplete /\ ran \in ProcessState
          /\ x.imported \subseteq ran.imported
          /\ ran.error = "none" => n \in ran.imported
          /\ Range(ran.registry) \subseteq Range(x.registry) \cup TasksOf(v, {n})
      BY <1>4, <2>2 DEF ModuleImported, Importing, HalfChecked
    <2>4. Importing(p, ran) BY <1>3, <2>3, ImportingTwice
    <2>5. CASE ran.error = "none"
      <3>1. ImportTaskModule(x, n, f) = ran BY <1>6, <2>5 DEF ImportTaskModule, ran
      <3>2. \A i \in 1..n : i \in ran.imported BY <1>2, <1>6, <2>3, <2>5 DEF HalfChecked
      <3>3. TasksOf(v, x.imported) \subseteq TasksOf(v, ran.imported) BY <2>3, TasksOfMore
      <3>4. TasksOf(v, {n}) \subseteq TasksOf(v, ran.imported)
        <4>1. {n} \subseteq ran.imported BY <2>3, <2>5
        <4>2. QED BY <4>1, TasksOfMore
      <3>5. Range(x.registry) \subseteq TasksOf(v, x.imported) BY DEF HalfChecked
      <3>6. Range(ran.registry) \subseteq TasksOf(v, ran.imported) BY <2>3, <3>3, <3>4, <3>5
      <3>7. QED BY <2>3, <2>4, <3>1, <3>2, <3>6 DEF HalfChecked
    <2>6. CASE ran.error # "none"
      <3>1. ImportTaskModule(x, n, f) = undone BY <1>6, <2>6 DEF ImportTaskModule, ran
      <3>2. /\ undone \in ProcessState /\ undone.error # "none" /\ Framed(ran, undone)
            /\ undone.imported = ran.imported /\ undone.incomplete = ran.incomplete
            /\ undone.queues = ran.queues /\ undone.dumpers = ran.dumpers
            /\ undone.registry = x.registry /\ undone.code = ran.code
        BY <1>3, <2>3, <2>6 DEF ProcessState, Framed
      <3> HIDE DEF undone
      <3>3. Entries(undone) = Entries(ran) BY <3>2, SameEntries
      <3>4. Grown(ran, undone) BY <3>2, <3>3 DEF Grown
      <3>5. Registered(undone)
        <4>1. Registered(ran) BY <2>3 DEF Importing
        <4>2. QED BY <1>3, <3>2, <3>3, <4>1 DEF Registered
      <3>6. ImportsHaveRun(ran) BY <2>3 DEF Importing
      <3>7. ImportsHaveRun(undone) BY <3>2, <3>4, <3>6, RunRemains DEF ImportsHaveRun
      <3>8. Importing(ran, undone) BY <3>2, <3>4, <3>5, <3>7 DEF Importing
      <3>9. Importing(p, undone) BY <2>4, <3>8, ImportingTwice
      <3>10. TasksOf(v, x.imported) \subseteq TasksOf(v, undone.imported) BY <2>3, <3>2, TasksOfMore
      <3>11. Range(undone.registry) \subseteq TasksOf(v, undone.imported) BY <3>2, <3>10 DEF HalfChecked
      <3>12. QED BY <2>3, <3>1, <3>2, <3>9, <3>11 DEF HalfChecked
    <2>7. QED BY <2>5, <2>6
  <1>7. QED BY <1>5, <1>6

\* The checks' imports, module by module
LEMMA TaskModulesImport ==
    ASSUME NEW p \in ProcessState, Registered(p), StartingInv(p), NEW f \in Faults(p.code)
    PROVE  HalfChecked(p, Len(ModulesOf(p.code)), ImportTaskModules(p, f))
  <1> DEFINE N == Len(ModulesOf(p.code))
             Good == [n \in 0..N |-> {r \in ProcessState : HalfChecked(p, n, r)}]
             step == [z \in (1..N) \X ProcessState |-> ImportTaskModule(z[2], z[1], f)]
             g == CHOOSE h : h = [n \in 0..N |-> IF n = 0 THEN p ELSE ImportTaskModule(h[n - 1], n, f)]
  <1>1. p.code \in Versions BY DEF ProcessState
  <1>2. N \in Nat /\ DOMAIN ModulesOf(p.code) = 1..N BY <1>1, CodeTypes
  <1> HIDE DEF N
  <1>3. p \in Good[0]
    <2>1. Grown(p, p) BY DEF Grown, Framed
    <2>2. HalfChecked(p, 0, p) BY <2>1 DEF HalfChecked, Importing, StartingInv
    <2>3. 0 \in 0..N BY <1>2
    <2>4. QED BY <2>2, <2>3
  <1>4. \A n \in 1..N : \A x \in Good[n - 1] : step[<<n, x>>] \in Good[n] /\ step[<<n, x>>] = ImportTaskModule(x, n, f)
    <2>1. SUFFICES ASSUME NEW n \in 1..N, NEW x \in Good[n - 1]
                   PROVE  step[<<n, x>>] \in Good[n] /\ step[<<n, x>>] = ImportTaskModule(x, n, f)
      OBVIOUS
    <2>2. n \in 0..N /\ n - 1 \in 0..N BY <1>2
    <2>3. x \in ProcessState /\ HalfChecked(p, n - 1, x) BY <2>2
    <2>4. HalfChecked(p, n, ImportTaskModule(x, n, f)) BY <1>2, <2>3, TaskModuleImports DEF StartingInv
    <2>5. ImportTaskModule(x, n, f) \in ProcessState BY <2>4 DEF HalfChecked, Importing
    <2>6. QED BY <2>2, <2>3, <2>4, <2>5
  <1>5. \A n \in 0..N : Good[n] \subseteq ProcessState OBVIOUS
  <1>6. \A n \in 0..N : \A x \in Good[n] : HalfChecked(p, n, x) OBVIOUS
  <1> HIDE DEF Good, step
  <1>7. PICK h : /\ IsLoop(h, N, p, step)
                 /\ \A n \in 0..N : h[n] \in Good[n] /\ h[n] \in ProcessState
    <2>1. \A n \in 1..N : \A x \in Good[n - 1] : step[<<n, x>>] \in Good[n] BY <1>4
    <2>2. N \in Nat BY <1>2
    <2>3. QED BY <1>3, <1>5, <2>1, <2>2, LoopDefines, Zenon
  <1>8. h = [n \in 0..N |-> IF n = 0 THEN p ELSE ImportTaskModule(h[n - 1], n, f)]
    <2>1. \A n \in 0..N : n # 0 => n \in 1..N /\ n - 1 \in 0..N BY <1>2
    <2>2. \A n \in 0..N : n # 0 => step[<<n, h[n - 1]>>] = ImportTaskModule(h[n - 1], n, f)
      BY <1>4, <1>7, <2>1
    <2>3. QED BY <1>7, <2>2 DEF IsLoop
  <1>9. g = [n \in 0..N |-> IF n = 0 THEN p ELSE ImportTaskModule(g[n - 1], n, f)] BY <1>8
  <1> HIDE DEF g
  <1>10. \A n \in 0..N : g[n] \in Good[n]
    <2>1. 0 \in 0..N /\ \A n \in 1..N : n \in 0..N /\ n # 0 BY <1>2
    <2>2. g[0] = p /\ \A n \in 1..N : g[n] = ImportTaskModule(g[n - 1], n, f) BY <1>9, <2>1
    <2>3. \A n \in 1..N : g[n - 1] \in Good[n - 1] => g[n] \in Good[n] BY <1>4, <2>2
    <2>4. N \in Nat /\ g[0] \in Good[0] BY <1>2, <1>3, <2>2
    <2>5. QED BY <2>3, <2>4, LoopKeeps
  <1>11. ImportTaskModules(p, f) = g[N] BY DEF ImportTaskModules, g, N
  <1>12. N \in 0..N BY <1>2
  <1>13. QED BY <1>6, <1>10, <1>11, <1>12 DEF N

\* What the first rounds of EnsureModulesLoaded() leave; nothing new when the checks imported all
HalfLoaded(p, n, r) ==
    /\ Importing(p, r)
    /\ Range(r.registry) \subseteq TasksOf(p.code, r.imported \cup (1..n))
    /\ r.error = "other" => r.incomplete
    /\ r.incomplete \/ \A i \in 1..n : i \in r.imported
    /\ AllImported(p) => r = p

LEMMA ModuleLoads ==
    ASSUME NEW p \in ProcessState, StartingInv(p),
           NEW f \in Faults(p.code), NEW n \in DOMAIN ModulesOf(p.code),
           NEW x, HalfLoaded(p, n - 1, x)
    PROVE  HalfLoaded(p, n, LoadModule(x, n, f))
  <1> DEFINE v == p.code
             ran == ImportModule(x, n, f)
             r == [ran EXCEPT !.incomplete = x.incomplete \/ ran.error # "none"]
  <1>1. v \in Versions BY DEF ProcessState
  <1>2. n \in Nat /\ n \in 1..n /\ (\A i \in 1..n : i \in 1..n - 1 \/ i = n) /\ (\A i \in 1..n - 1 : i \in 1..n)
        /\ n \notin 1..n - 1
    <2>1. n \in Nat /\ n \in DOMAIN ModulesOf(v) /\ DOMAIN ModulesOf(v) = 1..Len(ModulesOf(v)) BY <1>1, CodeTypes
    <2>2. n >= 1 BY <2>1
    <2>3. QED BY <2>1, <2>2
  <1>3. x \in ProcessState /\ Registered(x) /\ ImportsHaveRun(x) /\ Importing(p, x) BY DEF HalfLoaded, Importing
  <1>4. x.code = v /\ Range(Code[x.code].next_to_app) \subseteq Range(x.dumpers)
    BY <1>3, StillNextToApp DEF StartingInv
  <1>5. TasksOf(v, x.imported \cup (1..n - 1)) \subseteq TasksOf(v, x.imported \cup (1..n))
    <2>1. x.imported \cup (1..n - 1) \subseteq x.imported \cup (1..n) BY <1>2
    <2>2. QED BY <2>1, TasksOfMore
  <1>6. CASE x.error = "other"
    <2>1. LoadModule(x, n, f) = x BY <1>6 DEF LoadModule
    <2>2. Range(x.registry) \subseteq TasksOf(v, x.imported \cup (1..n)) BY <1>5 DEF HalfLoaded
    <2>3. QED BY <1>6, <2>1, <2>2 DEF HalfLoaded
  <1>7. CASE x.error # "other"
    <2>1. n \notin x.imported => \A t \in TasksOf(x.code, {n}) : t \notin Range(x.registry)
      <3>1. SUFFICES ASSUME n \notin x.imported PROVE \A t \in TasksOf(v, {n}) : t \notin Range(x.registry)
        BY <1>4
      <3>2. n \notin x.imported \cup (1..n - 1) BY <1>2, <3>1
      <3>3. TasksOf(v, x.imported \cup (1..n - 1)) \cap TasksOf(v, {n}) = {} BY <1>1, <3>2, TasksOfTwo
      <3>4. QED BY <3>3 DEF HalfLoaded
    <2>2. ModuleImported(x, n, ran) BY <1>3, <1>4, <2>1, ModuleImports
    <2>3. AllImported(p) => ran = p
      <3>1. SUFFICES ASSUME AllImported(p) PROVE ran = p OBVIOUS
      <3>2. x = p /\ n \in p.imported BY <3>1 DEF HalfLoaded, AllImported
      <3>3. ran = [p EXCEPT !.error = "none"] BY <3>2 DEF ImportModule
      <3>4. QED BY <3>3 DEF StartingInv, ProcessState
    <2> HIDE DEF ran
    <2>4. /\ Importing(x, ran) /\ ran.incomplete = x.incomplete /\ ran \in ProcessState
          /\ x.imported \subseteq ran.imported
          /\ ran.error = "none" => n \in ran.imported
          /\ Range(ran.registry) \subseteq Range(x.registry) \cup TasksOf(v, {n})
      BY <1>4, <2>2 DEF ModuleImported, Importing
    <2>5. LoadModule(x, n, f) = r BY <1>7 DEF LoadModule, ran
    <2>6. /\ r \in ProcessState /\ r.error = ran.error /\ Framed(ran, r)
          /\ r.imported = ran.imported /\ (r.incomplete <=> x.incomplete \/ ran.error # "none")
          /\ r.queues = ran.queues /\ r.dumpers = ran.dumpers
          /\ r.registry = ran.registry /\ r.code = ran.code
      BY <1>3, <2>4 DEF ProcessState, Framed
    <2>7. AllImported(p) => r = p
      <3>1. SUFFICES ASSUME AllImported(p) PROVE r = p OBVIOUS
      <3>2. x = p /\ ran = p BY <2>3, <3>1 DEF HalfLoaded
      <3>3. r = [p EXCEPT !.incomplete = FALSE]
        <4>1. (x.incomplete \/ ran.error # "none") = FALSE BY <3>2 DEF StartingInv
        <4>2. QED BY <3>2, <4>1
      <3>4. p.incomplete = FALSE BY DEF StartingInv, ProcessState
      <3>5. QED BY <3>3, <3>4 DEF ProcessState
    <2> HIDE DEF r
    <2>8. Entries(r) = Entries(ran) BY <2>6, SameEntries
    <2>9. Registered(ran) /\ ImportsHaveRun(ran) BY <2>4 DEF Importing
    <2>10. Registered(r) BY <2>6, <2>8, <2>9 DEF Registered
    <2>11. Grown(ran, r) BY <2>6, <2>8 DEF Grown
    <2>12. ImportsHaveRun(r) BY <2>6, <2>9, <2>11, RunRemains DEF ImportsHaveRun
    <2>13. Importing(p, r)
      <3>1. Importing(ran, r) BY <2>6, <2>10, <2>11, <2>12 DEF Importing
      <3>2. Importing(x, r) BY <2>4, <3>1, ImportingTwice
      <3>3. QED BY <1>3, <3>2, ImportingTwice
    <2>14. Range(r.registry) \subseteq TasksOf(v, r.imported \cup (1..n))
      <3>1. TasksOf(v, {n}) \subseteq TasksOf(v, r.imported \cup (1..n))
        <4>1. {n} \subseteq r.imported \cup (1..n) BY <1>2
        <4>2. QED BY <4>1, TasksOfMore
      <3>2. TasksOf(v, x.imported \cup (1..n)) \subseteq TasksOf(v, r.imported \cup (1..n))
        <4>1. x.imported \cup (1..n) \subseteq r.imported \cup (1..n) BY <2>4, <2>6
        <4>2. QED BY <4>1, TasksOfMore
      <3>3. Range(x.registry) \subseteq TasksOf(v, x.imported \cup (1..n - 1)) BY DEF HalfLoaded
      <3>4. QED BY <1>5, <2>4, <2>6, <3>1, <3>2, <3>3
    <2>15. r.incomplete \/ \A i \in 1..n : i \in r.imported
      <3>1. SUFFICES ASSUME ~r.incomplete, NEW i \in 1..n PROVE i \in r.imported OBVIOUS
      <3>2. ~x.incomplete /\ ran.error = "none" BY <2>6, <3>1
      <3>3. \A j \in 1..n - 1 : j \in x.imported BY <3>2 DEF HalfLoaded
      <3>4. QED BY <1>2, <2>4, <2>6, <3>2, <3>3
    <2>16. r.error = "other" => r.incomplete BY <2>6
    <2>17. QED BY <2>5, <2>7, <2>13, <2>14, <2>15, <2>16 DEF HalfLoaded
  <1>8. QED BY <1>6, <1>7

\* The process's own imports, module by module
LEMMA ModulesLoad ==
    ASSUME NEW p \in ProcessState, Registered(p), StartingInv(p), NEW f \in Faults(p.code)
    PROVE  HalfLoaded(p, Len(ModulesOf(p.code)), EnsureModulesLoaded(p, f))
  <1> DEFINE N == Len(ModulesOf(p.code))
             Good == [n \in 0..N |-> {r \in ProcessState : HalfLoaded(p, n, r)}]
             step == [z \in (1..N) \X ProcessState |-> LoadModule(z[2], z[1], f)]
             g == CHOOSE h : h = [n \in 0..N |-> IF n = 0 THEN p ELSE LoadModule(h[n - 1], n, f)]
  <1>1. p.code \in Versions BY DEF ProcessState
  <1>2. N \in Nat /\ DOMAIN ModulesOf(p.code) = 1..N BY <1>1, CodeTypes
  <1> HIDE DEF N
  <1>3. p \in Good[0]
    <2>1. Grown(p, p) BY DEF Grown, Framed
    <2>2. TasksOf(p.code, p.imported) \subseteq TasksOf(p.code, p.imported \cup (1..0)) BY TasksOfMore
    <2>3. Range(p.registry) \subseteq TasksOf(p.code, p.imported \cup (1..0)) BY <2>2 DEF StartingInv
    <2>4. Importing(p, p) BY <2>1 DEF Importing, StartingInv
    <2>5. HalfLoaded(p, 0, p) BY <2>3, <2>4 DEF HalfLoaded, StartingInv
    <2>6. 0 \in 0..N BY <1>2
    <2>7. QED BY <2>5, <2>6
  <1>4. \A n \in 1..N : \A x \in Good[n - 1] : step[<<n, x>>] \in Good[n] /\ step[<<n, x>>] = LoadModule(x, n, f)
    <2>1. SUFFICES ASSUME NEW n \in 1..N, NEW x \in Good[n - 1]
                   PROVE  step[<<n, x>>] \in Good[n] /\ step[<<n, x>>] = LoadModule(x, n, f)
      OBVIOUS
    <2>2. n \in 0..N /\ n - 1 \in 0..N BY <1>2
    <2>3. x \in ProcessState /\ HalfLoaded(p, n - 1, x) BY <2>2
    <2>4. HalfLoaded(p, n, LoadModule(x, n, f)) BY <1>2, <2>3, ModuleLoads
    <2>5. LoadModule(x, n, f) \in ProcessState BY <2>4 DEF HalfLoaded, Importing
    <2>6. QED BY <2>2, <2>3, <2>4, <2>5
  <1>5. \A n \in 0..N : Good[n] \subseteq ProcessState OBVIOUS
  <1>6. \A n \in 0..N : \A x \in Good[n] : HalfLoaded(p, n, x) OBVIOUS
  <1> HIDE DEF Good, step
  <1>7. PICK h : /\ IsLoop(h, N, p, step)
                 /\ \A n \in 0..N : h[n] \in Good[n] /\ h[n] \in ProcessState
    <2>1. \A n \in 1..N : \A x \in Good[n - 1] : step[<<n, x>>] \in Good[n] BY <1>4
    <2>2. N \in Nat BY <1>2
    <2>3. QED BY <1>3, <1>5, <2>1, <2>2, LoopDefines, Zenon
  <1>8. h = [n \in 0..N |-> IF n = 0 THEN p ELSE LoadModule(h[n - 1], n, f)]
    <2>1. \A n \in 0..N : n # 0 => n \in 1..N /\ n - 1 \in 0..N BY <1>2
    <2>2. \A n \in 0..N : n # 0 => step[<<n, h[n - 1]>>] = LoadModule(h[n - 1], n, f)
      BY <1>4, <1>7, <2>1
    <2>3. QED BY <1>7, <2>2 DEF IsLoop
  <1>9. g = [n \in 0..N |-> IF n = 0 THEN p ELSE LoadModule(g[n - 1], n, f)] BY <1>8
  <1> HIDE DEF g
  <1>10. \A n \in 0..N : g[n] \in Good[n]
    <2>1. 0 \in 0..N /\ \A n \in 1..N : n \in 0..N /\ n # 0 BY <1>2
    <2>2. g[0] = p /\ \A n \in 1..N : g[n] = LoadModule(g[n - 1], n, f) BY <1>9, <2>1
    <2>3. \A n \in 1..N : g[n - 1] \in Good[n - 1] => g[n] \in Good[n] BY <1>4, <2>2
    <2>4. N \in Nat /\ g[0] \in Good[0] BY <1>2, <1>3, <2>2
    <2>5. QED BY <2>3, <2>4, LoopKeeps
  <1>11. EnsureModulesLoaded(p, f) = g[N] BY DEF EnsureModulesLoaded, g, N
  <1>12. N \in 0..N BY <1>2
  <1>13. QED BY <1>6, <1>10, <1>11, <1>12 DEF N

-----------------------------------------------------------------------------
(* Queue tables and declarations *)

\* The queues prepare_block_dumpers() declares are queues of its dumpers.
LEMMA DeclaresEntries ==
    ASSUME NEW p \in ProcessState
    PROVE  ToDeclare(p) \in Seq(Entry) /\ \A i \in DOMAIN ToDeclare(p) : ToDeclare(p)[i] \in Entries(p)
  <1> DEFINE N == Len(p.dumpers)
             A == Seq(Entries(p))
             of(a) == [i \in DOMAIN p.queues[a] |-> [queue |-> p.queues[a][i], owner |-> a]]
             Round(x, n) == x \o of(p.dumpers[n])
             Good == [n \in 0..N |-> A]
             step == [z \in (1..N) \X A |-> Round(z[2], z[1])]
             g == CHOOSE h : h = [n \in 0..N |-> IF n = 0 THEN << >> ELSE Round(h[n - 1], n)]
  <1>1. p.dumpers \in Seq(Apps) /\ p.queues \in [Apps -> Seq(Queue)] BY DEF ProcessState
  <1>2. N \in Nat /\ \A n \in 1..N : p.dumpers[n] \in Apps BY <1>1, SeqFacts
  <1>3. ASSUME NEW a \in Apps PROVE of(a) \in A
    <2> DEFINE qs == p.queues[a]
    <2>1. qs \in Seq(Queue) BY <1>1
    <2>2. DOMAIN qs = 1..Len(qs) /\ Len(qs) \in Nat /\ \A i \in 1..Len(qs) : qs[i] \in Range(qs) BY <2>1, SeqFacts
    <2>3. \A i \in 1..Len(qs) : [queue |-> qs[i], owner |-> a] \in Entries(p) BY <1>1, <2>2, InEntries
    <2>4. of(a) = [i \in 1..Len(qs) |-> [queue |-> qs[i], owner |-> a]] BY <2>2
    <2> HIDE DEF qs, of
    <2>5. QED BY <2>2, <2>3, <2>4
  <1> HIDE DEF of, N
  <1>4. << >> \in Good[0] /\ << >> \in A
    <2>1. 0 \in 0..N BY <1>2
    <2>2. QED BY <2>1
  <1>5. ASSUME NEW n \in 1..N, NEW x \in A PROVE Round(x, n) \in A
    <2>1. of(p.dumpers[n]) \in A BY <1>2, <1>3
    <2>2. QED BY <2>1
  <1> HIDE DEF A, Round
  <1>6. \A n \in 1..N : \A x \in Good[n - 1] : step[<<n, x>>] \in Good[n] /\ step[<<n, x>>] = Round(x, n)
    <2>1. \A n \in 1..N : n \in 0..N /\ n - 1 \in 0..N BY <1>2
    <2>2. QED BY <1>5, <2>1
  <1>7. \A n \in 0..N : Good[n] \subseteq A OBVIOUS
  <1> HIDE DEF Good, step
  <1>8. PICK f : /\ IsLoop(f, N, << >>, step)
                 /\ \A n \in 0..N : f[n] \in Good[n] /\ f[n] \in A
    <2>1. \A n \in 1..N : \A x \in Good[n - 1] : step[<<n, x>>] \in Good[n] BY <1>6
    <2>2. N \in Nat /\ << >> \in Good[0] BY <1>2, <1>4
    <2>3. QED BY <1>7, <2>1, <2>2, LoopDefines, Zenon
  <1>9. f = [n \in 0..N |-> IF n = 0 THEN << >> ELSE Round(f[n - 1], n)]
    <2>1. \A n \in 0..N : n # 0 => n \in 1..N /\ n - 1 \in 0..N BY <1>2
    <2>2. \A n \in 0..N : n # 0 => step[<<n, f[n - 1]>>] = Round(f[n - 1], n) BY <1>6, <1>8, <2>1
    <2>3. QED BY <1>8, <2>2 DEF IsLoop
  <1>10. g = [n \in 0..N |-> IF n = 0 THEN << >> ELSE Round(g[n - 1], n)] BY <1>9
  <1> HIDE DEF g
  <1>11. \A n \in 0..N : g[n] \in Good[n]
    <2>1. 0 \in 0..N /\ \A n \in 1..N : n \in 0..N /\ n # 0 BY <1>2
    <2>2. g[0] = << >> /\ \A n \in 1..N : g[n] = Round(g[n - 1], n) BY <1>10, <2>1
    <2>3. \A n \in 1..N : g[n - 1] \in Good[n - 1] => g[n] \in Good[n] BY <1>6, <2>2
    <2>4. N \in Nat /\ g[0] \in Good[0] BY <1>2, <1>4, <2>2
    <2>5. QED BY <2>3, <2>4, LoopKeeps
  <1>12. ToDeclare(p) = g[N] BY DEF ToDeclare, g, Round, of, N
  <1>13. N \in 0..N BY <1>2
  <1>14. g[N] \in Seq(Entries(p)) BY <1>7, <1>11, <1>13 DEF A
  <1> HIDE DEF g
  <1> DEFINE s == g[N]
  <1>15. Entries(p) \subseteq Entry BY <1>1, InEntries
  <1>16. /\ DOMAIN s = 1..Len(s) /\ Len(s) \in Nat
         /\ \A i \in 1..Len(s) : s[i] \in Entries(p)
    BY <1>14, SeqFacts
  <1>17. s \in Seq(Entry) BY <1>14, <1>15, SeqMonotonic
  <1>18. QED BY <1>12, <1>16, <1>17

\* Tables
LEMMA TableFacts ==
    ASSUME NEW t \in Tables
    PROVE  /\ DOMAIN t \subseteq Names
           /\ \A n \in DOMAIN t : t[n] \in SUBSET Milliseconds
           /\ t = [n \in DOMAIN t |-> t[n]]
  <1>1. PICK D \in SUBSET Names : t \in [D -> SUBSET Milliseconds] BY DEF Tables
  <1>2. QED BY <1>1

LEMMA IsTable ==
    ASSUME NEW t, DOMAIN t \subseteq Names, t = [n \in DOMAIN t |-> t[n]],
           \A n \in DOMAIN t : t[n] \in SUBSET Milliseconds
    PROVE  t \in Tables
  <1> DEFINE D == DOMAIN t
  <1>1. t \in [D -> SUBSET Milliseconds] OBVIOUS
  <1>2. D \in SUBSET Names OBVIOUS
  <1> HIDE DEF D
  <1>3. QED BY <1>1, <1>2, Zenon DEF Tables

LEMMA ArgumentsType == ASSUME NEW q \in Queue PROVE QueueArguments(q) \in SUBSET Milliseconds /\ q.name \in Names
  BY DEF Queue, QueueArguments, Milliseconds

LEMMA TableArgumentsType ==
    ASSUME NEW p \in ProcessState, NEW e \in Entry
    PROVE  TableArguments(p, e) \in SUBSET Milliseconds /\ e.queue.name \in Names
  <1>1. e.owner \in Apps /\ e.queue \in Queue BY DEF Entry
  <1>2. p.table[e.owner] \in Tables BY <1>1 DEF ProcessState
  <1>3. QED BY <1>1, <1>2, TableFacts, ArgumentsType DEF TableArguments

\* install_queues() keeps what is in the table and adds the rest with the arguments of their policy.
LEMMA InstallFacts ==
    ASSUME NEW t \in Tables, NEW queues \in Seq(Queue)
    PROVE  /\ Installed(t, queues) \in Tables
           /\ \A q \in Range(queues) :
                  /\ q.name \in DOMAIN Installed(t, queues)
                  /\ (\A q2 \in Range(queues) : q2.name = q.name => q2 = q) /\ q \notin Refused(t, queues)
                     => Installed(t, queues)[q.name] = QueueArguments(q)
  <1> DEFINE R == Range(queues)
             i == Installed(t, queues)
  <1>1. R \subseteq Queue BY SeqFacts
  <1>2. DOMAIN t \subseteq Names /\ \A n \in DOMAIN t : t[n] \in SUBSET Milliseconds BY TableFacts
  <1>3. /\ DOMAIN i = DOMAIN t \cup {q.name : q \in R}
        /\ i = [n \in DOMAIN i |-> i[n]]
        /\ \A n \in DOMAIN i : i[n] = IF n \in DOMAIN t THEN t[n] ELSE QueueArguments(CHOOSE q \in R : q.name = n)
    BY DEF Installed
  <1> HIDE DEF i
  <1>4. \A q \in R : q.name \in DOMAIN i BY <1>3
  <1>5. ASSUME NEW n \in DOMAIN i, n \notin DOMAIN t
        PROVE  \E q \in R : i[n] = QueueArguments(q) /\ q.name = n
    <2>1. \E q \in R : q.name = n BY <1>3, <1>5
    <2> DEFINE c == CHOOSE q \in R : q.name = n
    <2>2. c \in R /\ c.name = n BY <2>1
    <2>3. i[n] = QueueArguments(c) BY <1>3, <1>5
    <2> HIDE DEF c
    <2>4. QED BY <2>2, <2>3
  <1>6. i \in Tables
    <2>1. \A n \in DOMAIN i : i[n] \in SUBSET Milliseconds
      <3>1. ASSUME NEW n \in DOMAIN i PROVE i[n] \in SUBSET Milliseconds
        <4>1. CASE n \in DOMAIN t BY <1>2, <1>3, <4>1
        <4>2. CASE n \notin DOMAIN t BY <1>1, <1>5, <4>2, ArgumentsType
        <4>3. QED BY <4>1, <4>2
      <3>2. QED BY <3>1
    <2>2. DOMAIN i \subseteq Names BY <1>1, <1>2, <1>3, ArgumentsType
    <2>3. QED BY <1>3, <2>1, <2>2, IsTable
  <1>7. ASSUME NEW q \in R, \A q2 \in R : q2.name = q.name => q2 = q, q \notin Refused(t, queues)
        PROVE  i[q.name] = QueueArguments(q)
    <2>1. CASE q.name \in DOMAIN t BY <1>3, <1>4, <1>7, <2>1 DEF Refused
    <2>2. CASE q.name \notin DOMAIN t
      <3>1. PICK q2 \in R : i[q.name] = QueueArguments(q2) /\ q2.name = q.name BY <1>4, <1>5, <2>2
      <3>2. QED BY <1>7, <3>1
    <2>3. QED BY <2>1, <2>2
  <1>8. QED BY <1>4, <1>6, <1>7 DEF i

\* A declaration leaves the other queues of the broker alone.
LEMMA DeclareFacts ==
    ASSUME broker \in Tables, NEW n \in Names, NEW arguments \in SUBSET Milliseconds
    PROVE  /\ Declared(n, arguments) \in Tables
           /\ DOMAIN Declared(n, arguments) = DOMAIN broker \cup {n}
           /\ \A m \in DOMAIN broker : Declared(n, arguments)[m] = broker[m]
           /\ n \notin DOMAIN broker => Declared(n, arguments)[n] = arguments
           /\ Agrees(n, arguments) => Declared(n, arguments)[n] = arguments
  <1> DEFINE d == Declared(n, arguments)
  <1>1. /\ DOMAIN d = DOMAIN broker \cup {n} /\ d = [m \in DOMAIN d |-> d[m]]
        /\ \A m \in DOMAIN d : d[m] = IF m \in DOMAIN broker THEN broker[m] ELSE arguments
    BY DEF Declared
  <1> HIDE DEF d
  <1>2. DOMAIN broker \subseteq Names /\ \A m \in DOMAIN broker : broker[m] \in SUBSET Milliseconds BY TableFacts
  <1>3. d \in Tables BY <1>1, <1>2, IsTable
  <1>4. n \in DOMAIN broker /\ Agrees(n, arguments) => broker[n] = arguments BY DEF Agrees
  <1>5. QED BY <1>1, <1>3, <1>4 DEF d

-----------------------------------------------------------------------------
(* Steps *)

\* What a step changes besides the registries
LEMMA SameRegistries ==
    ASSUME NEW p, NEW r, r.code = p.code, r.queues = p.queues, r.dumpers = p.dumpers, r.registry = p.registry
    PROVE  /\ Entries(r) = Entries(p)
           /\ Registered(p) => Registered(r)
           /\ AllDeclared(p) => AllDeclared(r)
           /\ r.imported = p.imported /\ ImportsHaveRun(p) => ImportsHaveRun(r)
           /\ r.table = p.table /\ InTable(p) => InTable(r)
           /\ r.table = p.table => Warned(r) = Warned(p)
           /\ r.table = p.table /\ OwnTable(p) => OwnTable(r)
  <1>1. Entries(r) = Entries(p) BY SameEntries
  <1>2. Registered(p) => Registered(r) BY <1>1 DEF Registered
  <1>3. r.imported = p.imported /\ ImportsHaveRun(p) => ImportsHaveRun(r) BY <1>1 DEF ImportsHaveRun, HasRun
  <1>4. r.table = p.table => Warned(r) = Warned(p) BY <1>1 DEF Warned, HasProjectQueue
  <1>5. QED BY <1>1, <1>2, <1>3, <1>4 DEF AllDeclared, InTable, OwnTable

\* Once everything is imported, every queue has a dumper.
LEMMA DeclaresAll ==
    ASSUME NEW p \in ProcessState, ImportsHaveRun(p), AllImported(p)
    PROVE  AllDeclared(p)
  <1>1. p.code \in Versions BY DEF ProcessState
  <1>2. SUFFICES ASSUME NEW e \in QueuesOf(p.code) PROVE e \in Entries(p) BY DEF AllDeclared
  <1>3. PICK m \in DOMAIN ModulesOf(p.code) : \E s \in Range(ModulesOf(p.code)[m]) :
            \E q \in Range(s.queues) : e = [queue |-> q, owner |-> s.app]
    BY <1>1, QueuesOfOnly
  <1>4. PICK s \in Range(ModulesOf(p.code)[m]) : \E q \in Range(s.queues) : e = [queue |-> q, owner |-> s.app]
    BY <1>3
  <1>5. PICK q \in Range(s.queues) : e = [queue |-> q, owner |-> s.app] BY <1>4
  <1>6. HasRun(p, s) BY <1>3, <1>4 DEF ImportsHaveRun, AllImported
  <1>7. s.task # "BlockDumper"
    <2>1. PICK i \in DOMAIN ModulesOf(p.code)[m] : ModulesOf(p.code)[m][i] = s BY <1>4 DEF Range
    <2>2. SUFFICES ASSUME s.task = "BlockDumper" PROVE FALSE OBVIOUS
    <2>3. s.queues = << >> BY <1>1, <2>1, <2>2, StatementsAssumption
    <2>4. QED BY <1>5, <2>3 DEF Range
  <1>8. QED BY <1>5, <1>6, <1>7 DEF HasRun

\* New and ended processes
LEMMA NoEntries == ASSUME NEW p, p.queues = [a \in Apps |-> << >>] PROVE Entries(p) = {}
  <1>1. \A a \in Apps : Range(p.queues[a]) = {} BY DEF Range
  <1>2. QED BY <1>1 DEF Entries

LEMMA NewTypes ==
    ASSUME NEW v \in Versions, NEW k \in EntryPoints
    PROVE  Started(v, k) \in ProcessState /\ ProjectTable(v) \in Tables
  <1>1. Code[v].next_to_app \in Seq(Apps) BY CodeTypes
  <1>2. ProjectTable(v) \in Tables
    <2>1. Code[v].task_queues \in Tables BY StartupAssumption
    <2>2. [n \in {CeleryDefault} |-> {}] \in Tables BY StartupAssumption, IsTable
    <2>3. QED BY <2>1, <2>2 DEF ProjectTable
  <1>3. [a \in Apps |-> ProjectTable(v)] \in [Apps -> Tables] BY <1>2
  <1>4. [a \in Apps |-> << >>] \in [Apps -> Seq(Queue)] OBVIOUS
  <1>5. << >> \in Seq(STRING) /\ << >> \in Seq(Entry) OBVIOUS
  <1>6. QED BY <1>1, <1>2, <1>3, <1>4, <1>5 DEF Started, ProcessState

LEMMA StartedInv ==
    ASSUME NEW v \in Versions, NEW k \in EntryPoints, NEW b
    PROVE  ProcessInv(Started(v, k), b)
  <1> DEFINE p == Started(v, k)
  <1>1. /\ p.pc = "starting" /\ p.code = v /\ p.imported = {} /\ p.error = "none" /\ p.incomplete = FALSE
        /\ p.dumpers = Code[v].next_to_app /\ p.queues = [a \in Apps |-> << >>] /\ p.registry = << >>
        /\ p.table = [a \in Apps |-> ProjectTable(v)] /\ p.checked = FALSE /\ p.pending = << >>
        /\ p.verified = {}
    BY DEF Started
  <1> HIDE DEF p
  <1>2. Entries(p) = {} BY <1>1, NoEntries
  <1>3. Registered(p) BY <1>1, <1>2 DEF Registered, IsInjective
  <1>4. Range(p.registry) = {} BY <1>1 DEF Range
  <1>5. StartingInv(p) BY <1>1, <1>4 DEF StartingInv, ImportsHaveRun, OwnTable
  <1>6. ProcessInv(p, b) BY <1>1, <1>3, <1>5 DEF ProcessInv, OnBroker
  <1>7. QED BY <1>6 DEF p

LEMMA StoppedInv == ASSUME NEW b PROVE Stopped \in ProcessState /\ ProcessInv(Stopped, b) /\ Stopped.pc = "stopped"
  <1> DEFINE p == Stopped
             s == Started(AnyVersion, "worker")
             tables == [a \in Apps |-> NoQueues]
  <1>1. AnyVersion \in Versions BY StartupAssumption DEF AnyVersion
  <1>2. s \in ProcessState BY <1>1, NewTypes DEF EntryPoints
  <1>3. s.queues = [a \in Apps |-> << >>] /\ s.registry = << >> /\ s.pending = << >> /\ s.verified = {}
    BY DEF Started
  <1>4. tables \in [Apps -> Tables]
    <2>1. NoQueues \in Tables BY IsTable DEF NoQueues
    <2>2. QED BY <2>1
  <1> HIDE DEF s, tables
  <1>5. p = [s EXCEPT !.pc = "stopped", !.dumpers = << >>, !.table = tables] BY DEF Stopped, s, tables
  <1> HIDE DEF p
  <1>6. /\ p \in ProcessState /\ p.pc = "stopped" /\ p.queues = s.queues /\ p.registry = s.registry
        /\ p.pending = s.pending /\ p.verified = s.verified
    <2>1. << >> \in Seq(Apps) OBVIOUS
    <2>2. QED BY <1>2, <1>4, <1>5, <2>1 DEF ProcessState
  <1>7. Entries(p) = {} BY <1>3, <1>6, NoEntries
  <1>8. Registered(p) BY <1>3, <1>6, <1>7 DEF Registered, IsInjective
  <1>9. ProcessInv(p, b) BY <1>3, <1>6, <1>8 DEF ProcessInv, OnBroker
  <1>10. QED BY <1>6, <1>9 DEF p

\* Queues appear on the broker: nothing a process verified changes.
LEMMA BrokerGrows ==
    ASSUME NEW p, NEW b, NEW b2, ProcessInv(p, b), DOMAIN b \subseteq DOMAIN b2, \A n \in DOMAIN b : b2[n] = b[n]
    PROVE  ProcessInv(p, b2)
  <1>1. OnBroker(p, b2) BY DEF ProcessInv, OnBroker
  <1>2. QED BY <1>1 DEF ProcessInv

\* A step of one process
LEMMA ProcessStep ==
    ASSUME IInv, NEW x \in Processes, NEW r \in ProcessState, proc' = [proc EXCEPT ![x] = r],
           broker' \in Tables, DOMAIN broker \subseteq DOMAIN broker', \A n \in DOMAIN broker : broker'[n] = broker[n],
           ProcessInv(r, broker'), reachable' \in BOOLEAN
    PROVE  IInv'
  <1>1. proc \in [Processes -> ProcessState] BY DEF IInv, TypeOK
  <1>2. proc' \in [Processes -> ProcessState] BY <1>1
  <1>3. ASSUME NEW y \in Processes PROVE ProcessInv(proc'[y], broker')
    <2>1. CASE y = x BY <1>1, <2>1
    <2>2. CASE y # x
      <3>1. proc'[y] = proc[y] BY <1>1, <2>2
      <3>2. ProcessInv(proc[y], broker) BY DEF IInv
      <3>3. QED BY <3>1, <3>2, BrokerGrows
    <2>3. QED BY <2>1, <2>2
  <1>4. QED BY <1>2, <1>3 DEF IInv, TypeOK

LEMMA QuietStep ==
    ASSUME IInv, NEW x \in Processes, NEW r \in ProcessState, proc' = [proc EXCEPT ![x] = r],
           UNCHANGED <<broker, reachable>>, ProcessInv(r, broker)
    PROVE  IInv'
  <1>1. broker' = broker /\ broker' \in Tables /\ reachable' \in BOOLEAN BY DEF IInv, TypeOK
  <1>2. QED BY <1>1, ProcessStep

\* A process is started: it has only what its code declares next to its apps.
LEMMA StartKeeps ==
    ASSUME IInv, NEW x \in Processes, NEW v \in Versions, NEW k \in EntryPoints, Start(x, v, k)
    PROVE  IInv'
  BY NewTypes, StartedInv, QuietStep DEF Start

\* A check leaves the registry with the tasks of what it imported, and nothing else changed.
LEMMA CheckKeeps ==
    ASSUME IInv, NEW x \in Processes, NEW f \in Faults(proc[x].code), Check(x, f)
    PROVE  IInv'
  <1> DEFINE p == proc[x]
             ran == ImportTaskModules(p, f)
             r == [ran EXCEPT !.error = "none",
                              !.checked = ran.error = "none",
                              !.warned = IF ran.error = "none" THEN Warned(ran) ELSE {}]
             N == Len(ModulesOf(p.code))
  <1>1. p \in ProcessState /\ ProcessInv(p, broker) BY DEF IInv, TypeOK
  <1>2. p.pc = "starting" BY DEF Check
  <1>3. Registered(p) /\ StartingInv(p) /\ p.verified = {} /\ p.pending = << >> BY <1>1, <1>2 DEF ProcessInv
  <1>4. HalfChecked(p, N, ran) BY <1>1, <1>3, TaskModulesImport
  <1>5. proc' = [proc EXCEPT ![x] = r] /\ UNCHANGED <<broker, reachable>> BY DEF Check
  <1> HIDE DEF ran
  <1>6. ran \in ProcessState /\ Registered(ran) /\ ImportsHaveRun(ran) /\ Importing(p, ran) /\ Framed(p, ran)
    BY <1>4 DEF HalfChecked, Importing, Grown
  <1>7. Warned(ran) \subseteq Entry
    <2>1. ran.queues \in [Apps -> Seq(Queue)] BY <1>6 DEF ProcessState
    <2>2. Entries(ran) \subseteq Entry BY <2>1, InEntries
    <2>3. QED BY <2>2 DEF Warned
  <1>8. /\ r \in ProcessState /\ r.pc = ran.pc /\ r.code = ran.code /\ r.queues = ran.queues
        /\ r.dumpers = ran.dumpers /\ r.registry = ran.registry /\ r.imported = ran.imported
        /\ r.table = ran.table /\ r.error = "none" /\ r.incomplete = ran.incomplete
        /\ r.pending = ran.pending /\ r.verified = ran.verified
        /\ (r.checked => ran.error = "none" /\ r.warned = Warned(ran))
    BY <1>6, <1>7 DEF ProcessState
  <1> HIDE DEF r
  <1>9. Registered(r) /\ ImportsHaveRun(r) /\ Warned(r) = Warned(ran) BY <1>6, <1>8, SameRegistries
  <1>10. StartingInv(r)
    <2>1. r.code = p.code /\ Range(Code[r.code].next_to_app) \subseteq Range(r.dumpers)
      BY <1>3, <1>6, <1>8, StillNextToApp DEF StartingInv
    <2>2. ~r.incomplete /\ Range(r.registry) \subseteq TasksOf(r.code, r.imported)
      BY <1>3, <1>4, <1>8, <2>1 DEF HalfChecked, StartingInv
    <2>3. OwnTable(r) BY <1>3, <1>6, <1>8, <2>1 DEF StartingInv, OwnTable, Framed
    <2>4. r.checked => AllImported(r)
      <3>1. p.code \in Versions BY <1>1 DEF ProcessState
      <3>2. DOMAIN ModulesOf(p.code) = 1..N BY <3>1, CodeTypes
      <3>3. QED BY <1>4, <1>8, <2>1, <3>2 DEF HalfChecked, AllImported
    <2>5. QED BY <1>8, <1>9, <2>1, <2>2, <2>3, <2>4 DEF StartingInv
  <1>11. ProcessInv(r, broker)
    <2>1. r.pc = "starting" /\ r.verified = {} /\ r.pending = << >> BY <1>2, <1>3, <1>6, <1>8 DEF Framed
    <2>2. QED BY <1>9, <1>10, <2>1 DEF ProcessInv, OnBroker
  <1>12. QED BY <1>5, <1>8, <1>11, QuietStep

\* Loading leaves every queue with a dumper, or a process that knows it lacks some.
LEMMA LoadKeeps ==
    ASSUME IInv, NEW x \in Processes, NEW f \in Faults(proc[x].code), Load(x, f)
    PROVE  IInv'
  <1> DEFINE p == proc[x]
             ran == EnsureModulesLoaded(p, f)
             blind == [ran EXCEPT !.pc = "running", !.checked = FALSE, !.warned = {}]
             r == [ran EXCEPT !.pc = "preparing", !.error = "none"]
             N == Len(ModulesOf(p.code))
  <1>1. p \in ProcessState /\ ProcessInv(p, broker) BY DEF IInv, TypeOK
  <1>2. p.pc = "starting" BY DEF Load
  <1>3. Registered(p) /\ StartingInv(p) /\ p.verified = {} /\ p.pending = << >> BY <1>1, <1>2 DEF ProcessInv
  <1>4. HalfLoaded(p, N, ran) BY <1>1, <1>3, ModulesLoad
  <1>5. \/ proc' = [proc EXCEPT ![x] = blind] /\ ran.error = "other" /\ ran.kind = "worker"
        \/ proc' = [proc EXCEPT ![x] = Stopped]
        \/ proc' = [proc EXCEPT ![x] = r]
    BY DEF Load
  <1>6. UNCHANGED <<broker, reachable>> BY DEF Load
  <1> HIDE DEF ran
  <1>7. ran \in ProcessState /\ Registered(ran) /\ ImportsHaveRun(ran) /\ Framed(p, ran)
    BY <1>4 DEF HalfLoaded, Importing, Grown
  <1>8. ran.verified = {} /\ ran.pending = << >> /\ ran.code = p.code BY <1>3, <1>7 DEF Framed
  <1>9. CASE proc' = [proc EXCEPT ![x] = Stopped] BY <1>6, <1>9, StoppedInv, QuietStep
  <1>10. CASE proc' = [proc EXCEPT ![x] = blind] /\ ran.error = "other" /\ ran.kind = "worker"
    <2>1. /\ blind \in ProcessState /\ blind.pc = "running" /\ blind.code = ran.code /\ blind.queues = ran.queues
          /\ blind.dumpers = ran.dumpers /\ blind.registry = ran.registry /\ blind.incomplete = ran.incomplete
          /\ blind.kind = ran.kind /\ blind.pending = ran.pending /\ blind.verified = ran.verified
      BY <1>7 DEF ProcessState
    <2> HIDE DEF blind
    <2>2. Registered(blind) BY <1>7, <2>1, SameRegistries
    <2>3. blind.incomplete BY <1>4, <1>10, <2>1 DEF HalfLoaded
    <2>4. DOMAIN blind.pending = {} BY <1>8, <2>1
    <2>5. PreparedInv(blind) BY <1>10, <2>1, <2>3, <2>4 DEF PreparedInv
    <2>6. ProcessInv(blind, broker) BY <1>8, <2>1, <2>2, <2>5 DEF ProcessInv, OnBroker
    <2>7. QED BY <1>6, <1>10, <2>1, <2>6, QuietStep
  <1>11. CASE proc' = [proc EXCEPT ![x] = r]
    <2>1. /\ r \in ProcessState /\ r.pc = "preparing" /\ r.code = ran.code /\ r.queues = ran.queues
          /\ r.dumpers = ran.dumpers /\ r.registry = ran.registry /\ r.incomplete = ran.incomplete
          /\ r.pending = ran.pending /\ r.verified = ran.verified /\ r.table = ran.table
          /\ r.checked = ran.checked /\ r.warned = ran.warned
      BY <1>7 DEF ProcessState
    <2> HIDE DEF r
    <2>2. Registered(r) BY <1>7, <2>1, SameRegistries
    <2>3. OwnTable(r) BY <1>3, <1>7, <1>8, <2>1 DEF StartingInv, OwnTable, Framed
    <2>4. r.incomplete \/ AllDeclared(r)
      <3>1. SUFFICES ASSUME ~ran.incomplete PROVE AllDeclared(r) BY <2>1
      <3>2. p.code \in Versions BY <1>1 DEF ProcessState
      <3>3. DOMAIN ModulesOf(p.code) = 1..N BY <3>2, CodeTypes
      <3>4. AllImported(ran) BY <1>4, <1>8, <3>1, <3>3 DEF HalfLoaded, AllImported
      <3>5. AllDeclared(ran) BY <1>7, <3>4, DeclaresAll
      <3>6. QED BY <2>1, <3>5, SameRegistries
    <2>5. r.checked => r.warned = Warned(r)
      <3>1. SUFFICES ASSUME r.checked PROVE r.warned = Warned(r) OBVIOUS
      <3>2. p.checked BY <1>7, <2>1, <3>1 DEF Framed
      <3>3. ran = p /\ p.warned = Warned(p) BY <1>3, <1>4, <3>2 DEF HalfLoaded, StartingInv
      <3>4. QED BY <2>1, <3>3, SameRegistries
    <2>6. PreparingInv(r) BY <2>3, <2>4, <2>5 DEF PreparingInv
    <2>7. ProcessInv(r, broker) BY <1>8, <2>1, <2>2, <2>6 DEF ProcessInv, OnBroker
    <2>8. QED BY <1>6, <1>11, <2>1, <2>7, QuietStep
  <1>12. QED BY <1>5, <1>9, <1>10, <1>11

\* prepare_block_dumpers() goes on with every queue of a dumper in its app's table.
LEMMA InstallKeeps ==
    ASSUME IInv, NEW x \in Processes, Install(x)
    PROVE  IInv'
  <1> DEFINE p == proc[x]
             tables == [a \in Apps |-> Installed(p.table[a], p.queues[a])]
             pend == IF p.kind = "dry_run" THEN << >> ELSE ToDeclare(p)
             q == [InstallAll(p) EXCEPT !.pc = "verifying", !.checked = FALSE, !.warned = {}, !.pending = pend]
             r == Proceed(q)
  <1>1. p \in ProcessState /\ ProcessInv(p, broker) BY DEF IInv, TypeOK
  <1>2. p.pc = "preparing" BY DEF Install
  <1>3. Registered(p) /\ PreparingInv(p) /\ p.verified = {} BY <1>1, <1>2 DEF ProcessInv
  <1>4. UNCHANGED <<broker, reachable>> BY DEF Install
  <1>5. CASE ConfigurationRefused(p)
    <2>1. proc' = [proc EXCEPT ![x] = Stopped] BY <1>5 DEF Install
    <2>2. QED BY <1>4, <2>1, StoppedInv, QuietStep
  <1>6. CASE ~ConfigurationRefused(p)
    <2>1. proc' = [proc EXCEPT ![x] = r] BY <1>6 DEF Install
    <2>2. /\ p.table \in [Apps -> Tables] /\ p.queues \in [Apps -> Seq(Queue)] BY <1>1 DEF ProcessState
    <2>3. \A a \in Apps : p.table[a] \in Tables /\ p.queues[a] \in Seq(Queue) BY <2>2
    <2>4. tables \in [Apps -> Tables] BY <2>3, InstallFacts
    <2>5. pend \in Seq(Entry) /\ \A i \in DOMAIN pend : pend[i] \in Entries(p)
      <3>1. ToDeclare(p) \in Seq(Entry) /\ \A i \in DOMAIN ToDeclare(p) : ToDeclare(p)[i] \in Entries(p)
        BY <1>1, DeclaresEntries
      <3>2. CASE p.kind = "dry_run"
        <4>1. pend = << >> BY <3>2
        <4> HIDE DEF pend
        <4>2. pend \in Seq(Entry) /\ Len(pend) = 0 BY <4>1
        <4>3. DOMAIN pend = {} BY <4>2, SeqFacts
        <4>4. QED BY <4>2, <4>3
      <3>3. CASE p.kind # "dry_run"
        <4>1. pend = ToDeclare(p) BY <3>3
        <4>2. QED BY <3>1, <4>1
      <3>4. QED BY <3>2, <3>3
    <2>6. InstallAll(p) = [p EXCEPT !.table = tables] BY DEF InstallAll
    <2> HIDE DEF tables, pend
    <2>7. /\ r \in ProcessState /\ r.table = tables /\ r.pending = pend /\ r.code = p.code
          /\ r.queues = p.queues /\ r.dumpers = p.dumpers /\ r.registry = p.registry
          /\ r.incomplete = p.incomplete /\ r.kind = p.kind /\ r.verified = p.verified
          /\ r.pc = IF pend = << >> THEN "running" ELSE "verifying"
      <3>1. /\ q \in ProcessState /\ q.table = tables /\ q.pending = pend /\ q.code = p.code
            /\ q.queues = p.queues /\ q.dumpers = p.dumpers /\ q.registry = p.registry
            /\ q.incomplete = p.incomplete /\ q.kind = p.kind /\ q.verified = p.verified
            /\ q.pc = "verifying"
        BY <1>1, <2>4, <2>5, <2>6 DEF ProcessState
      <3> HIDE DEF q
      <3>2. CASE pend = << >>
        <4>1. r = [q EXCEPT !.pc = "running"] BY <3>1, <3>2 DEF Proceed
        <4> HIDE DEF r
        <4>2. QED BY <3>1, <3>2, <4>1 DEF ProcessState
      <3>3. CASE pend # << >>
        <4>1. r = q BY <3>1, <3>3 DEF Proceed
        <4>2. QED BY <3>1, <3>3, <4>1
      <3>4. QED BY <3>2, <3>3
    <2> HIDE DEF r
    <2>8. Entries(r) = Entries(p) /\ Registered(r) /\ (AllDeclared(p) => AllDeclared(r))
      BY <1>3, <2>7, SameRegistries
    <2>9. ASSUME NEW e \in Entries(p)
          PROVE  e.queue.name \in DOMAIN tables[e.owner] /\ tables[e.owner][e.queue.name] = QueueArguments(e.queue)
      <3> DEFINE a == e.owner
      <3>1. a \in Apps /\ e.queue \in Range(p.queues[a]) /\ e = [queue |-> e.queue, owner |-> a]
        BY <2>2, InEntries
      <3>2. ASSUME NEW q2 \in Range(p.queues[a]), q2.name = e.queue.name PROVE q2 = e.queue
        <4> DEFINE e2 == [queue |-> q2, owner |-> a]
        <4>1. e2 \in Entries(p) /\ e2.queue = q2 BY <2>2, <3>1, InEntries
        <4> HIDE DEF e2
        <4>2. e2 = e BY <1>3, <3>2, <4>1 DEF Registered
        <4>3. QED BY <4>1, <4>2
      <3>3. e.queue \notin Refused(p.table[a], p.queues[a])
        <4> DEFINE refused(b) == Refused(p.table[b], p.queues[b])
        <4>1. UNION {refused(b) : b \in Range(p.dumpers)} = {} BY <1>6 DEF ConfigurationRefused, RefusedQueues
        <4>2. a \in Range(p.dumpers) BY <1>3 DEF Registered
        <4> HIDE DEF refused
        <4>3. refused(a) = {} BY <4>1, <4>2
        <4>4. QED BY <4>3 DEF refused
      <3>4. tables[a] = Installed(p.table[a], p.queues[a]) BY <3>1 DEF tables
      <3>5. QED BY <2>3, <3>1, <3>2, <3>3, <3>4, InstallFacts
    <2>10. InTable(r) BY <2>7, <2>8, <2>9 DEF InTable
    <2>11. PreparedInv(r) BY <1>3, <2>5, <2>7, <2>8, <2>10 DEF PreparedInv, PreparingInv
    <2>12. ProcessInv(r, broker)
      <3>1. r.pc \in {"verifying", "running"} /\ (r.pc = "verifying" <=> r.pending # << >>) BY <2>7
      <3>2. QED BY <1>3, <2>7, <2>8, <2>11, <3>1 DEF ProcessInv, OnBroker
    <2>13. QED BY <1>4, <2>1, <2>7, <2>12, QuietStep
  <1>7. QED BY <1>5, <1>6

\* The next queue a process declares
LEMMA NextToDeclare ==
    ASSUME NEW p \in ProcessState, PreparedInv(p), p.pending # << >>
    PROVE  /\ Head(p.pending) \in Entries(p) /\ Head(p.pending) \in Entry
           /\ Tail(p.pending) \in Seq(Entry)
           /\ \A i \in DOMAIN Tail(p.pending) : Tail(p.pending)[i] \in Entries(p)
  <1> DEFINE s == p.pending
             t == Tail(s)
  <1>1. s \in Seq(Entry) BY DEF ProcessState
  <1>2. \A i \in DOMAIN s : s[i] \in Entries(p) BY DEF PreparedInv
  <1>3. s # << >> OBVIOUS
  <1> HIDE DEF s
  <1>4. /\ DOMAIN s = 1..Len(s) /\ Len(s) \in Nat /\ Len(s) >= 1
        /\ Head(s) = s[1] /\ t \in Seq(Entry)
        /\ DOMAIN t = 1..Len(s) - 1
        /\ \A i \in 1..Len(s) - 1 : t[i] = s[i + 1] /\ i + 1 \in 1..Len(s)
    BY <1>1, <1>3
  <1>5. Head(s) \in Entry BY <1>1, <1>4, SeqFacts
  <1> HIDE DEF t
  <1>6. QED BY <1>2, <1>4, <1>5 DEF s, t

\* A declared queue is on the broker with the arguments the table of the process gives it.
LEMMA VerifyKeeps ==
    ASSUME IInv, NEW x \in Processes, Verify(x)
    PROVE  IInv'
  <1> DEFINE p == proc[x]
             e == Head(p.pending)
             n == e.queue.name
             arguments == TableArguments(p, e)
             q == [p EXCEPT !.pending = Tail(@), !.verified = @ \cup {n}]
             r == Proceed(q)
  <1>1. p \in ProcessState /\ ProcessInv(p, broker) /\ broker \in Tables BY DEF IInv, TypeOK
  <1>2. p.pc = "verifying" /\ UNCHANGED reachable BY DEF Verify
  <1>3. Registered(p) /\ PreparedInv(p) /\ OnBroker(p, broker) /\ p.pending # << >> BY <1>1, <1>2 DEF ProcessInv
  <1>4. /\ e \in Entries(p) /\ e \in Entry /\ Tail(p.pending) \in Seq(Entry)
        /\ \A i \in DOMAIN Tail(p.pending) : Tail(p.pending)[i] \in Entries(p)
    BY <1>1, <1>3, NextToDeclare
  <1>5. arguments \in SUBSET Milliseconds /\ n \in Names BY <1>1, <1>4, TableArgumentsType
  <1>6. CASE DeclareRaises(n, arguments)
    <2>1. proc' = [proc EXCEPT ![x] = Stopped] /\ broker' = broker BY <1>6 DEF Verify
    <2>2. QED BY <1>2, <2>1, StoppedInv, QuietStep
  <1>7. CASE ~DeclareRaises(n, arguments)
    <2>1. proc' = [proc EXCEPT ![x] = r] /\ broker' = Declared(n, arguments) BY <1>7 DEF Verify
    <2>2. Agrees(n, arguments) BY <1>7 DEF DeclareRaises
    <2> DEFINE rest == Tail(p.pending)
    <2>3. /\ r \in ProcessState /\ r.pending = rest /\ r.code = p.code /\ r.table = p.table
          /\ r.queues = p.queues /\ r.dumpers = p.dumpers /\ r.registry = p.registry
          /\ r.incomplete = p.incomplete /\ r.kind = p.kind /\ r.verified = p.verified \cup {n}
          /\ r.pc = IF rest = << >> THEN "running" ELSE "verifying"
      <3> HIDE DEF n
      <3>1. /\ q \in ProcessState /\ q.pending = rest /\ q.code = p.code /\ q.table = p.table
            /\ q.queues = p.queues /\ q.dumpers = p.dumpers /\ q.registry = p.registry
            /\ q.incomplete = p.incomplete /\ q.kind = p.kind /\ q.verified = p.verified \cup {n}
            /\ q.pc = "verifying"
        BY <1>1, <1>2, <1>4, <1>5 DEF ProcessState
      <3> HIDE DEF q, rest
      <3>2. CASE rest = << >>
        <4>1. r = [q EXCEPT !.pc = "running"] BY <3>1, <3>2 DEF Proceed
        <4> HIDE DEF r
        <4>2. QED BY <3>1, <3>2, <4>1 DEF ProcessState
      <3>3. CASE rest # << >>
        <4>1. r = q BY <3>1, <3>3 DEF Proceed
        <4>2. QED BY <3>1, <3>3, <4>1
      <3>4. QED BY <3>2, <3>3
    <2> HIDE DEF r, rest
    <2>4. Entries(r) = Entries(p) /\ Registered(r) /\ (AllDeclared(p) => AllDeclared(r)) /\ (InTable(p) => InTable(r))
      BY <1>3, <2>3, SameRegistries
    <2>5. PreparedInv(r) BY <1>3, <1>4, <2>3, <2>4 DEF PreparedInv, rest
    <2>6. /\ broker' \in Tables /\ DOMAIN broker \subseteq DOMAIN broker'
          /\ \A m \in DOMAIN broker : broker'[m] = broker[m]
          /\ n \in DOMAIN broker' /\ broker'[n] = arguments
      <3>1. broker \in Tables /\ n \in Names /\ arguments \in SUBSET Milliseconds BY <1>1, <1>5
      <3> HIDE DEF n, arguments
      <3>2. /\ Declared(n, arguments) \in Tables
            /\ DOMAIN Declared(n, arguments) = DOMAIN broker \cup {n}
            /\ \A m \in DOMAIN broker : Declared(n, arguments)[m] = broker[m]
            /\ Declared(n, arguments)[n] = arguments
        BY <2>2, <3>1, DeclareFacts
      <3>3. QED BY <2>1, <3>2
    <2>7. OnBroker(r, broker')
      <3>1. \A e2 \in Entries(p) : TableArguments(r, e2) = TableArguments(p, e2) BY <2>3 DEF TableArguments
      <3>2. ASSUME NEW m \in p.verified
            PROVE  \E e2 \in Entries(r) : /\ e2.queue.name = m /\ m \in DOMAIN broker'
                                          /\ broker'[m] = TableArguments(r, e2)
        <4>1. PICK e2 \in Entries(p) : e2.queue.name = m /\ m \in DOMAIN broker /\ broker[m] = TableArguments(p, e2)
          BY <1>3 DEF OnBroker
        <4>2. QED BY <2>4, <2>6, <3>1, <4>1
      <3>3. \E e2 \in Entries(r) : /\ e2.queue.name = n /\ n \in DOMAIN broker'
                                   /\ broker'[n] = TableArguments(r, e2)
        BY <1>4, <2>4, <2>6, <3>1
      <3> HIDE DEF n
      <3>4. QED BY <2>3, <3>2, <3>3 DEF OnBroker
    <2>8. ProcessInv(r, broker')
      <3>1. r.pc \in {"verifying", "running"} /\ (r.pc = "verifying" <=> r.pending # << >>) BY <2>3
      <3>2. QED BY <2>4, <2>5, <2>7, <3>1 DEF ProcessInv
    <2>9. reachable' \in BOOLEAN BY <1>2 DEF IInv, TypeOK
    <2>10. QED BY <2>1, <2>3, <2>6, <2>8, <2>9, ProcessStep
  <1>8. QED BY <1>6, <1>7

\* What a process did not declare it does not count as verified.
LEMMA GoBlindKeeps ==
    ASSUME IInv, NEW x \in Processes, GoBlind(x)
    PROVE  IInv'
  <1> DEFINE p == proc[x]
             r == [p EXCEPT !.pc = "running", !.pending = << >>]
  <1>1. p \in ProcessState /\ ProcessInv(p, broker) BY DEF IInv, TypeOK
  <1>2. p.pc = "verifying" BY DEF GoBlind
  <1>3. Registered(p) /\ PreparedInv(p) /\ OnBroker(p, broker) BY <1>1, <1>2 DEF ProcessInv
  <1>4. UNCHANGED <<broker, reachable>> BY DEF GoBlind
  <1>5. proc' = [proc EXCEPT ![x] = Stopped] \/ proc' = [proc EXCEPT ![x] = r]
    <2>1. proc \in [Processes -> ProcessState] BY DEF IInv, TypeOK
    <2>2. QED BY <2>1 DEF GoBlind
  <1>6. CASE proc' = [proc EXCEPT ![x] = Stopped] BY <1>4, <1>6, StoppedInv, QuietStep
  <1>7. CASE proc' = [proc EXCEPT ![x] = r]
    <2>1. << >> \in Seq(Entry) OBVIOUS
    <2>2. /\ r \in ProcessState /\ r.pc = "running" /\ r.pending = << >> /\ r.code = p.code /\ r.table = p.table
          /\ r.queues = p.queues /\ r.dumpers = p.dumpers /\ r.registry = p.registry
          /\ r.incomplete = p.incomplete /\ r.kind = p.kind /\ r.verified = p.verified
      BY <1>1, <2>1 DEF ProcessState
    <2> HIDE DEF r
    <2>3. Entries(r) = Entries(p) /\ Registered(r) /\ (AllDeclared(p) => AllDeclared(r)) /\ (InTable(p) => InTable(r))
      BY <1>3, <2>2, SameRegistries
    <2>4. DOMAIN r.pending = {} BY <2>2
    <2>5. PreparedInv(r) BY <1>3, <2>2, <2>3, <2>4 DEF PreparedInv
    <2>6. OnBroker(r, broker)
      <3>1. \A e2 \in Entries(p) : TableArguments(r, e2) = TableArguments(p, e2) BY <2>2 DEF TableArguments
      <3>2. QED BY <1>3, <2>2, <2>3, <3>1 DEF OnBroker
    <2>7. ProcessInv(r, broker) BY <2>2, <2>3, <2>5, <2>6 DEF ProcessInv
    <2>8. QED BY <1>4, <1>7, <2>2, <2>7, QuietStep
  <1>8. QED BY <1>5, <1>6, <1>7

\* A queue of a version, as an entry
LEMMA QueuesOfTypes == ASSUME NEW v \in Versions PROVE QueuesOf(v) \subseteq Entry
  <1>1. SUFFICES ASSUME NEW e \in QueuesOf(v) PROVE e \in Entry OBVIOUS
  <1>2. PICK m \in DOMAIN ModulesOf(v) : \E s \in Range(ModulesOf(v)[m]) :
            \E q \in Range(s.queues) : e = [queue |-> q, owner |-> s.app]
    BY QueuesOfOnly
  <1>3. PICK s \in Range(ModulesOf(v)[m]) : \E q \in Range(s.queues) : e = [queue |-> q, owner |-> s.app]
    BY <1>2
  <1>4. PICK q \in Range(s.queues) : e = [queue |-> q, owner |-> s.app] BY <1>3
  <1>5. s \in Statement
    <2>1. ModulesOf(v)[m] \in Seq(Statement) BY CodeTypes
    <2>2. Range(ModulesOf(v)[m]) \subseteq Statement BY <2>1, SeqFacts
    <2>3. QED BY <2>2
  <1>6. s.queues \in Seq(Queue) /\ s.app \in Apps BY <1>5 DEF Statement
  <1>7. q \in Queue BY <1>6, SeqFacts
  <1>8. QED BY <1>4, <1>6, <1>7 DEF Entry

\* Using a queue creates it or leaves it as it is.
LEMMA UseKeeps ==
    ASSUME IInv, NEW x \in Processes, NEW q \in QueuesOf(proc[x].code), Use(x, q)
    PROVE  IInv'
  <1> DEFINE p == proc[x]
             n == q.queue.name
             arguments == TableArguments(p, q)
  <1>1. p \in ProcessState /\ broker \in Tables /\ proc \in [Processes -> ProcessState] BY DEF IInv, TypeOK
  <1>2. q \in Entry
    <2>1. p.code \in Versions BY <1>1 DEF ProcessState
    <2>2. QED BY <2>1, QueuesOfTypes
  <1>3. arguments \in SUBSET Milliseconds /\ n \in Names BY <1>1, <1>2, TableArgumentsType
  <1>4. reachable' \in BOOLEAN /\ reachable' = reachable BY DEF Use, IInv, TypeOK
  <1>5. CASE broker' = Declared(n, arguments) /\ UNCHANGED proc
    <2>1. /\ broker' \in Tables /\ DOMAIN broker \subseteq DOMAIN broker'
          /\ \A m \in DOMAIN broker : broker'[m] = broker[m]
      <3>1. broker \in Tables /\ n \in Names /\ arguments \in SUBSET Milliseconds BY <1>1, <1>3
      <3> HIDE DEF n, arguments
      <3>2. /\ Declared(n, arguments) \in Tables
            /\ DOMAIN Declared(n, arguments) = DOMAIN broker \cup {n}
            /\ \A m \in DOMAIN broker : Declared(n, arguments)[m] = broker[m]
        BY <3>1, DeclareFacts
      <3>3. QED BY <1>5, <3>2
    <2>2. proc' = [proc EXCEPT ![x] = p] BY <1>1, <1>5
    <2>3. ProcessInv(p, broker') BY <2>1, BrokerGrows DEF IInv
    <2>4. QED BY <1>1, <1>4, <2>1, <2>2, <2>3, ProcessStep
  <1>6. CASE proc' = [proc EXCEPT ![x] = Stopped] /\ UNCHANGED broker
    BY <1>4, <1>6, StoppedInv, QuietStep
  <1>7. QED BY <1>5, <1>6 DEF Use

\* A deleted queue is no longer verified by anybody.
LEMMA DeleteKeeps ==
    ASSUME IInv, NEW n \in Names, Delete(n)
    PROVE  IInv'
  <1> DEFINE r(x) == [proc[x] EXCEPT !.verified = @ \ {n}]
  <1>1. proc \in [Processes -> ProcessState] /\ broker \in Tables BY DEF IInv, TypeOK
  <1>2. /\ broker' = [m \in DOMAIN broker \ {n} |-> broker[m]]
        /\ proc' = [x \in Processes |-> r(x)] /\ reachable' = reachable
    BY DEF Delete
  <1>3. broker' \in Tables
    <2> DEFINE b == broker'
    <2>1. DOMAIN b = DOMAIN broker \ {n} /\ b = [m \in DOMAIN b |-> b[m]] /\ \A m \in DOMAIN b : b[m] = broker[m]
      BY <1>2
    <2>2. DOMAIN broker \subseteq Names /\ \A m \in DOMAIN broker : broker[m] \in SUBSET Milliseconds BY <1>1, TableFacts
    <2> HIDE DEF b
    <2>3. b \in Tables BY <2>1, <2>2, IsTable
    <2>4. QED BY <2>3 DEF b
  <1>4. ASSUME NEW x \in Processes PROVE r(x) \in ProcessState /\ ProcessInv(r(x), broker')
    <2> DEFINE p == proc[x]
               r1 == r(x)
    <2>1. p \in ProcessState /\ ProcessInv(p, broker) BY <1>1 DEF IInv
    <2>2. /\ r1 \in ProcessState /\ r1.pc = p.pc /\ r1.code = p.code /\ r1.table = p.table
          /\ r1.queues = p.queues /\ r1.dumpers = p.dumpers /\ r1.registry = p.registry /\ r1.imported = p.imported
          /\ r1.error = p.error /\ r1.incomplete = p.incomplete /\ r1.kind = p.kind /\ r1.checked = p.checked
          /\ r1.warned = p.warned /\ r1.pending = p.pending /\ r1.verified = p.verified \ {n}
      BY <2>1 DEF ProcessState
    <2> HIDE DEF r
    <2>3. /\ Entries(r1) = Entries(p) /\ (Registered(p) => Registered(r1)) /\ (AllDeclared(p) => AllDeclared(r1))
          /\ (InTable(p) => InTable(r1)) /\ (ImportsHaveRun(p) => ImportsHaveRun(r1))
          /\ Warned(r1) = Warned(p) /\ (OwnTable(p) => OwnTable(r1))
      BY <2>2, SameRegistries
    <2> HIDE DEF r1
    <2>4. StartingInv(p) => StartingInv(r1) BY <2>2, <2>3 DEF StartingInv, AllImported
    <2>5. PreparingInv(p) => PreparingInv(r1) BY <2>2, <2>3 DEF PreparingInv
    <2>6. PreparedInv(p) => PreparedInv(r1) BY <2>2, <2>3 DEF PreparedInv
    <2>7. OnBroker(r1, broker')
      <3>1. SUFFICES ASSUME NEW m \in r1.verified
                     PROVE  \E e \in Entries(r1) : /\ e.queue.name = m /\ m \in DOMAIN broker'
                                                   /\ broker'[m] = TableArguments(r1, e)
        BY DEF OnBroker
      <3>2. m \in p.verified /\ m # n BY <2>2
      <3>3. PICK e \in Entries(p) : e.queue.name = m /\ m \in DOMAIN broker /\ broker[m] = TableArguments(p, e)
        BY <2>1, <3>2 DEF ProcessInv, OnBroker
      <3>4. TableArguments(r1, e) = TableArguments(p, e) BY <2>2 DEF TableArguments
      <3>5. m \in DOMAIN broker' /\ broker'[m] = broker[m] BY <1>2, <3>2, <3>3
      <3>6. QED BY <2>3, <3>3, <3>4, <3>5
    <2>8. ProcessInv(r1, broker') BY <2>1, <2>2, <2>3, <2>4, <2>5, <2>6, <2>7 DEF ProcessInv
    <2>9. QED BY <2>2, <2>8 DEF r1
  <1> HIDE DEF r
  <1>5. \A x \in Processes : proc'[x] = r(x) BY <1>2
  <1>6. proc' \in [Processes -> ProcessState] BY <1>2, <1>4
  <1>7. reachable' \in BOOLEAN BY <1>2 DEF IInv, TypeOK
  <1>8. QED BY <1>3, <1>4, <1>5, <1>6, <1>7 DEF IInv, TypeOK

-----------------------------------------------------------------------------
(* Theorems *)

LEMMA InitInv == Init => IInv
  <1> SUFFICES ASSUME Init PROVE IInv OBVIOUS
  <1>1. proc = [x \in Processes |-> Stopped] /\ broker = NoQueues /\ reachable = TRUE BY DEF Init
  <1>2. NoQueues \in Tables BY IsTable DEF NoQueues
  <1>3. proc \in [Processes -> ProcessState] BY <1>1, StoppedInv
  <1>4. \A x \in Processes : ProcessInv(proc[x], broker) BY <1>1, StoppedInv
  <1>5. QED BY <1>1, <1>2, <1>3, <1>4 DEF IInv, TypeOK

LEMMA NextKeeps == IInv /\ [Next]_vars => IInv'
  <1> SUFFICES ASSUME IInv, [Next]_vars PROVE IInv' OBVIOUS
  <1>1. CASE UNCHANGED vars BY <1>1 DEF vars, IInv, TypeOK
  <1>2. ASSUME NEW x \in Processes, NEW v \in Versions, NEW k \in EntryPoints, Start(x, v, k) PROVE IInv'
    BY <1>2, StartKeeps
  <1>3. ASSUME NEW x \in Processes, NEW f \in Faults(proc[x].code), Check(x, f) PROVE IInv' BY <1>3, CheckKeeps
  <1>4. ASSUME NEW x \in Processes, NEW f \in Faults(proc[x].code), Load(x, f) PROVE IInv' BY <1>4, LoadKeeps
  <1>5. ASSUME NEW x \in Processes, Install(x) PROVE IInv' BY <1>5, InstallKeeps
  <1>6. ASSUME NEW x \in Processes, Verify(x) PROVE IInv' BY <1>6, VerifyKeeps
  <1>7. ASSUME NEW x \in Processes, GoBlind(x) PROVE IInv' BY <1>7, GoBlindKeeps
  <1>8. ASSUME NEW x \in Processes, NEW q \in QueuesOf(proc[x].code), Use(x, q) PROVE IInv' BY <1>8, UseKeeps
  <1>9. ASSUME NEW n \in Names, Delete(n) PROVE IInv' BY <1>9, DeleteKeeps
  <1>10. CASE Connection
    <2>1. reachable' \in BOOLEAN /\ UNCHANGED <<proc, broker>> BY <1>10 DEF Connection, IInv, TypeOK
    <2>2. QED BY <2>1 DEF IInv, TypeOK
  <1>11. QED BY <1>1, <1>2, <1>3, <1>4, <1>5, <1>6, <1>7, <1>8, <1>9, <1>10 DEF Next

LEMMA Invariant == Spec => []IInv
  BY InitInv, NextKeeps, PTL DEF Spec

\* The state keeps its types.
THEOREM StartupTypes == Spec => []TypeOK
  <1>1. IInv => TypeOK BY DEF IInv
  <1>2. QED BY <1>1, Invariant, PTL

\* No task is in the registry of a process twice, however often a check failed half-way through a
\* module before the process imported it again.
THEOREM NoTaskTwice == Spec => []RegisteredOnce
  <1>1. IInv => RegisteredOnce BY DEF IInv, ProcessInv, Registered, RegisteredOnce
  <1>2. QED BY <1>1, Invariant, PTL

\* The queues a running process uses are queues its code declares.
LEMMA UsedQueues ==
    ASSUME NEW p \in ProcessState, NEW b, ProcessInv(p, b), p.pc \in {"verifying", "running"}, NEW q \in Used(p)
    PROVE  /\ q \in QueuesOf(p.code)
           /\ (p.kind = "worker" /\ p.incomplete) \/ q \in Entries(p)
  <1>1. Registered(p) /\ PreparedInv(p) BY DEF ProcessInv
  <1>2. CASE p.kind = "worker"
    <2>1. q \in QueuesOf(p.code) BY <1>2 DEF Used
    <2>2. QED BY <1>1, <1>2, <2>1 DEF PreparedInv, AllDeclared
  <1>3. CASE p.kind = "dry_run" BY <1>3 DEF Used
  <1>4. CASE p.kind \notin {"worker", "dry_run"}
    <2>1. q \in Entries(p) BY <1>4 DEF Used
    <2>2. QED BY <1>1, <2>1 DEF Registered
  <1>5. QED BY <1>2, <1>3, <1>4

\* A version gives each name of a queue to one app.  It cannot load otherwise: the second
\* registration of the name raises.
OneApp ==
    \A v \in Versions : \A q, q2 \in QueuesOf(v) : q.queue.name = q2.queue.name => q.owner = q2.owner

\* What prepare_block_dumpers() verified holds while the process runs, whatever processes of other
\* versions declare meanwhile.
THEOREM VerifiedQueues == OneApp => (Spec => []VerifiedQueuesAgree)
  <1> SUFFICES ASSUME OneApp PROVE Spec => []VerifiedQueuesAgree OBVIOUS
  <1>1. IInv => VerifiedQueuesAgree
    <2> SUFFICES ASSUME IInv, NEW x \in Processes, NEW q \in Used(proc[x]), proc[x].pc = "running",
                        q.queue.name \in proc[x].verified
                 PROVE  /\ q.queue.name \in DOMAIN broker
                        /\ broker[q.queue.name] = TableArguments(proc[x], q)
      BY DEF VerifiedQueuesAgree
    <2> DEFINE p == proc[x]
    <2>1. p \in ProcessState /\ ProcessInv(p, broker) BY DEF IInv, TypeOK
    <2>2. p.code \in Versions BY <2>1 DEF ProcessState
    <2>3. PICK e \in Entries(p) : /\ e.queue.name = q.queue.name /\ q.queue.name \in DOMAIN broker
                                  /\ broker[q.queue.name] = TableArguments(p, e)
      BY <2>1 DEF ProcessInv, OnBroker
    <2>4. q \in QueuesOf(p.code) BY <2>1, UsedQueues
    <2>5. e \in QueuesOf(p.code) BY <2>1 DEF ProcessInv, Registered
    <2>6. e.owner = q.owner BY <2>2, <2>3, <2>4, <2>5 DEF OneApp
    <2>7. TableArguments(p, e) = TableArguments(p, q) BY <2>3, <2>6 DEF TableArguments
    <2>8. QED BY <2>3, <2>7
  <1>2. QED BY <1>1, Invariant, PTL

\* A queue that appears has the arguments of its policy, unless a worker creates it whose task
\* modules failed to import.
LEMMA CreatesAsDeclared ==
    ASSUME IInv, NEW x \in Processes, proc[x].pc \in {"verifying", "running"}, NEW q \in Entry,
           q \in QueuesOf(proc[x].code),
           (proc[x].kind = "worker" /\ proc[x].incomplete) \/ q \in Entries(proc[x]),
           broker' = Declared(q.queue.name, TableArguments(proc[x], q)),
           NEW n \in DOMAIN broker' \ DOMAIN broker
    PROVE  \/ \E q2 \in QueuesOf(proc[x].code) : q2.queue.name = n /\ broker'[n] = QueueArguments(q2.queue)
           \/ proc[x].kind = "worker" /\ proc[x].incomplete
  <1> DEFINE p == proc[x]
             m == q.queue.name
             arguments == TableArguments(p, q)
  <1>1. p \in ProcessState /\ ProcessInv(p, broker) /\ broker \in Tables BY DEF IInv, TypeOK
  <1>2. PreparedInv(p) BY <1>1 DEF ProcessInv
  <1>3. arguments \in SUBSET Milliseconds /\ m \in Names BY <1>1, TableArgumentsType
  <1>4. n = m /\ broker'[m] = arguments
    <2> HIDE DEF arguments, m
    <2>1. /\ DOMAIN Declared(m, arguments) = DOMAIN broker \cup {m}
          /\ m \notin DOMAIN broker => Declared(m, arguments)[m] = arguments
      BY <1>1, <1>3, DeclareFacts
    <2>2. broker' = Declared(m, arguments) BY DEF m, arguments
    <2>3. QED BY <2>1, <2>2
  <1>5. SUFFICES ASSUME ~(p.kind = "worker" /\ p.incomplete)
                 PROVE  broker'[m] = QueueArguments(q.queue)
    BY <1>4
  <1>6. q \in Entries(p) /\ InTable(p) BY <1>2, <1>5 DEF PreparedInv
  <1>7. QED BY <1>4, <1>6 DEF InTable, TableArguments

\* No queue is created with arguments other than those of a running version, even by a process
\* that started without the broker.
THEOREM CreatedAsDeclared == Spec => CreatedWithItsArguments
  <1> DEFINE Right ==
          \A n \in DOMAIN broker' \ DOMAIN broker :
              \E x \in Processes :
                  /\ proc[x].pc \in {"verifying", "running"}
                  /\ \/ \E q \in QueuesOf(proc[x].code) :
                           q.queue.name = n /\ broker'[n] = QueueArguments(q.queue)
                     \/ proc[x].kind = "worker" /\ proc[x].incomplete
  <1>1. IInv /\ [Next]_vars => [Right]_vars
    <2> SUFFICES ASSUME IInv, Next PROVE Right BY DEF vars
    <2>1. ASSUME NEW x \in Processes, Verify(x) PROVE Right
      <3> DEFINE p == proc[x]
                 e == Head(p.pending)
      <3>1. p \in ProcessState /\ ProcessInv(p, broker) BY DEF IInv, TypeOK
      <3>2. p.pc = "verifying" BY <2>1 DEF Verify
      <3>3. Registered(p) /\ PreparedInv(p) /\ p.pending # << >> BY <3>1, <3>2 DEF ProcessInv
      <3>4. e \in Entries(p) /\ e \in Entry BY <3>1, <3>3, NextToDeclare
      <3>5. e \in QueuesOf(p.code) BY <3>3, <3>4 DEF Registered
      <3>6. broker' = broker \/ broker' = Declared(e.queue.name, TableArguments(p, e)) BY <2>1 DEF Verify
      <3>7. QED BY <3>2, <3>4, <3>5, <3>6, CreatesAsDeclared
    <2>2. ASSUME NEW x \in Processes, NEW q \in QueuesOf(proc[x].code), Use(x, q) PROVE Right
      <3> DEFINE p == proc[x]
      <3>1. p \in ProcessState /\ ProcessInv(p, broker) BY DEF IInv, TypeOK
      <3>2. p.code \in Versions BY <3>1 DEF ProcessState
      <3>3. p.pc = "running" /\ q \in Used(p) BY <2>2 DEF Use
      <3>4. (p.kind = "worker" /\ p.incomplete) \/ q \in Entries(p) BY <3>1, <3>3, UsedQueues
      <3>5. q \in Entry BY <3>2, QueuesOfTypes
      <3>6. broker' = broker \/ broker' = Declared(q.queue.name, TableArguments(p, q)) BY <2>2 DEF Use
      <3>7. QED BY <3>3, <3>4, <3>5, <3>6, CreatesAsDeclared
    <2>3. ASSUME NEW n \in Names, Delete(n) PROVE Right
      <3>1. DOMAIN broker' = DOMAIN broker \ {n} BY <2>3 DEF Delete
      <3>2. QED BY <3>1
    <2>4. CASE broker' = broker BY <2>4
    <2>5. ASSUME NEW x \in Processes, NEW v \in Versions, NEW k \in EntryPoints, Start(x, v, k) PROVE broker' = broker
      BY <2>5 DEF Start
    <2>6. ASSUME NEW x \in Processes, NEW f \in Faults(proc[x].code), Check(x, f) \/ Load(x, f) PROVE broker' = broker
      BY <2>6 DEF Check, Load
    <2>7. ASSUME NEW x \in Processes, Install(x) \/ GoBlind(x) PROVE broker' = broker BY <2>7 DEF Install, GoBlind
    <2>8. Connection => broker' = broker BY DEF Connection
    <2> HIDE DEF Right
    <2>9. QED BY <2>1, <2>2, <2>3, <2>4, <2>5, <2>6, <2>7, <2>8 DEF Next
  <1>2. [][Right]_vars => CreatedWithItsArguments BY DEF CreatedWithItsArguments
  <1>3. QED BY <1>1, <1>2, Invariant, PTL DEF Spec

\* What install_queues() refuses in the project's own table is a queue W001 names, or one whose
\* name is the default queue's.
LEMMA RefusedIsWarned ==
    ASSUME NEW p \in ProcessState, Registered(p), PreparingInv(p), p.checked, ConfigurationRefused(p),
           ~ThrottleRefused(p), Range(p.dumpers) \subseteq Code[p.code].supported
    PROVE  \/ p.warned # {}
           \/ \E e \in Entries(p) : e.queue.name = CeleryDefault /\ DOMAIN Code[p.code].task_queues = {}
  <1> DEFINE refused(b) == Refused(p.table[b], p.queues[b])
  <1>1. p.queues \in [Apps -> Seq(Queue)] /\ p.dumpers \in Seq(Apps) BY DEF ProcessState
  <1>2. UNION {refused(b) : b \in Range(p.dumpers)} # {} BY DEF ConfigurationRefused, RefusedQueues
  <1> HIDE DEF refused
  <1>3. PICK a \in Range(p.dumpers) : refused(a) # {} BY <1>2
  <1>4. PICK q \in refused(a) : TRUE BY <1>3
  <1>5. q \in Range(p.queues[a]) /\ q.name \in DOMAIN p.table[a] /\ p.table[a][q.name] # QueueArguments(q)
    BY <1>4 DEF refused, Refused
  <1>6. a \in Apps /\ a \in Code[p.code].supported BY <1>1, <1>3, SeqFacts
  <1> DEFINE e == [queue |-> q, owner |-> a]
  <1>7. e \in Entries(p) /\ e.queue = q /\ e.owner = a BY <1>1, <1>5, <1>6, InEntries
  <1> HIDE DEF e
  <1>8. CASE DOMAIN Code[p.code].task_queues = {}
    <2>1. p.table[a] = ProjectTable(p.code) BY <1>6 DEF PreparingInv, OwnTable
    <2>2. DOMAIN p.table[a] = {CeleryDefault} BY <1>8, <2>1 DEF ProjectTable
    <2>3. QED BY <1>5, <1>7, <1>8, <2>2
  <1>9. CASE DOMAIN Code[p.code].task_queues # {}
    <2>1. e \in Warned(p) BY <1>5, <1>6, <1>7, <1>9 DEF Warned, HasProjectQueue
    <2>2. QED BY <2>1 DEF PreparingInv
  <1>10. QED BY <1>8, <1>9

\* A process whose checks reached the queues and named none is not refused for its task_queues.
THEOREM RefusedAfterWarning == Spec => WarnedBeforeRefusal
  <1> DEFINE Told ==
          \A x \in Processes :
              /\ proc[x].pc = "preparing" /\ proc'[x].pc = "stopped"
              /\ proc[x].checked
              /\ ~ThrottleRefused(proc[x])
              /\ Range(proc[x].dumpers) \subseteq Code[proc[x].code].supported
              => \/ proc[x].warned # {}
                 \/ \E e \in Entries(proc[x]) : /\ e.queue.name = CeleryDefault
                                                /\ DOMAIN Code[proc[x].code].task_queues = {}
  <1>1. IInv /\ [Next]_vars => [Told]_vars
    <2> SUFFICES ASSUME IInv, Next, NEW x \in Processes,
                        proc[x].pc = "preparing", proc'[x].pc = "stopped", proc[x].checked,
                        ~ThrottleRefused(proc[x]), Range(proc[x].dumpers) \subseteq Code[proc[x].code].supported
                 PROVE  \/ proc[x].warned # {}
                        \/ \E e \in Entries(proc[x]) : /\ e.queue.name = CeleryDefault
                                                       /\ DOMAIN Code[proc[x].code].task_queues = {}
      BY DEF vars
    <2>1. proc \in [Processes -> ProcessState] /\ proc[x] \in ProcessState /\ ProcessInv(proc[x], broker)
      BY DEF IInv, TypeOK
    <2>2. Registered(proc[x]) /\ PreparingInv(proc[x]) BY <2>1 DEF ProcessInv
    <2>3. proc'[x] # proc[x] OBVIOUS
    <2>4. ASSUME NEW y \in Processes, NEW v \in Versions, NEW k \in EntryPoints, Start(y, v, k) PROVE FALSE
      BY <2>1, <2>3, <2>4 DEF Start, Started
    <2>5. ASSUME NEW y \in Processes, NEW f \in Faults(proc[y].code), Check(y, f) PROVE FALSE
      <3>1. y # x BY <2>5 DEF Check
      <3>2. proc'[x] = proc[x] BY <2>1, <2>5, <3>1 DEF Check
      <3>3. QED BY <2>3, <3>2
    <2>6. ASSUME NEW y \in Processes, NEW f \in Faults(proc[y].code), Load(y, f) PROVE FALSE
      <3>1. y # x BY <2>6 DEF Load
      <3>2. proc'[x] = proc[x] BY <2>1, <2>6, <3>1 DEF Load
      <3>3. QED BY <2>3, <3>2
    <2>7. ASSUME NEW y \in Processes, Verify(y) PROVE FALSE
      <3>1. y # x BY <2>7 DEF Verify
      <3>2. proc'[x] = proc[x] BY <2>1, <2>7, <3>1 DEF Verify
      <3>3. QED BY <2>3, <3>2
    <2>8. ASSUME NEW y \in Processes, GoBlind(y) PROVE FALSE
      <3>1. y # x BY <2>8 DEF GoBlind
      <3>2. proc'[x] = proc[x] BY <2>1, <2>8, <3>1 DEF GoBlind
      <3>3. QED BY <2>3, <3>2
    <2>9. ASSUME NEW y \in Processes, NEW q \in QueuesOf(proc[y].code), Use(y, q) PROVE FALSE
      <3>1. y # x BY <2>9 DEF Use
      <3>2. proc'[x] = proc[x] BY <2>1, <2>9, <3>1 DEF Use
      <3>3. QED BY <2>3, <3>2
    <2>10. ASSUME NEW n \in Names, Delete(n) PROVE FALSE
      <3>1. proc'[x] = [proc[x] EXCEPT !.verified = @ \ {n}] BY <2>10 DEF Delete
      <3>2. proc'[x].pc = proc[x].pc BY <2>1, <3>1 DEF ProcessState
      <3>3. QED BY <3>2
    <2>11. Connection => FALSE BY <2>3 DEF Connection
    <2>12. ASSUME NEW y \in Processes, Install(y) PROVE y = x /\ ConfigurationRefused(proc[x])
      <3>1. y = x
        <4>1. SUFFICES ASSUME y # x PROVE FALSE OBVIOUS
        <4>2. proc'[x] = proc[x] BY <2>1, <2>12, <4>1 DEF Install
        <4>3. QED BY <2>3, <4>2
      <3>2. SUFFICES ASSUME ~ConfigurationRefused(proc[x]) PROVE FALSE BY <3>1
      <3> DEFINE p == proc[x]
                 pend == IF p.kind = "dry_run" THEN << >> ELSE ToDeclare(p)
                 q == [InstallAll(p) EXCEPT !.pc = "verifying", !.checked = FALSE, !.warned = {}, !.pending = pend]
      <3>3. proc'[x] = Proceed(q) BY <2>1, <2>12, <3>1, <3>2 DEF Install
      <3>4. q.pc = "verifying" /\ [q EXCEPT !.pc = "running"].pc = "running"
        <4> DEFINE tables == [a \in Apps |-> Installed(p.table[a], p.queues[a])]
        <4>1. InstallAll(p) = [p EXCEPT !.table = tables] BY DEF InstallAll
        <4> HIDE DEF tables, pend
        <4>2. QED BY <2>1, <4>1 DEF ProcessState
      <3> HIDE DEF q
      <3>5. Proceed(q) = q \/ Proceed(q) = [q EXCEPT !.pc = "running"] BY DEF Proceed
      <3>6. Proceed(q).pc # "stopped" BY <3>4, <3>5
      <3>7. QED BY <3>3, <3>6
    <2>13. ConfigurationRefused(proc[x])
      BY <2>4, <2>5, <2>6, <2>7, <2>8, <2>9, <2>10, <2>11, <2>12 DEF Next
    <2>14. QED BY <2>1, <2>2, <2>13, RefusedIsWarned
  <1>2. [][Told]_vars => WarnedBeforeRefusal BY DEF WarnedBeforeRefusal
  <1>3. QED BY <1>1, <1>2, Invariant, PTL DEF Spec
=============================================================================
