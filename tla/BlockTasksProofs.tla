-------------------------- MODULE BlockTasksProofs --------------------------
(***************************************************************************)
(* Proofs about BlockTasks for every value of its constants: types, what a *)
(* failed attempt records, and, for one dispatcher, that no save() of a    *)
(* row read earlier loses what was committed in between.                   *)
(***************************************************************************)
EXTENDS BlockTasks, TLAPS

-----------------------------------------------------------------------------
(* What one step does to a row *)

NewRow == [AbsentRow EXCEPT !.status = "pending"]
Stamped(r) == [r EXCEPT !.updated_at = 0]

\* r2 is what one step can make of the row r; c is a row that was read earlier.
RowStep(r, r2) ==
    \/ r2 = r
    \/ r2 = AgeRow(r)
    \/ r2 = Stamped(r)
    \/ r2 = AbsentRow
    \/ r2 = NewRow
    \/ \E c \in Row : r2 = BackToPending(c) \/ r2 = Succeeded(c) \/ r2 = Failed(c)

\* FailedIsDecided of one row
RowDecided(r) == r.status = "failed" => (r.next_retry_at = None <=> Exhausted(r))

\* Ageing keeps NULL apart from instants.
LEMMA AgeType ==
    /\ \A t \in Int : Age(t) \in Int /\ Age(t) <= t
    /\ Age(None) = None
    /\ \A t \in Instant : Age(t) \in Instant /\ (Age(t) = None <=> t = None)
  BY BlockTasksAssumption DEF Age, Instant, Optional

\* A row is still a row one second later, with the same status and count.
LEMMA AgeRowFacts ==
    ASSUME NEW r \in Row
    PROVE  /\ AgeRow(r) \in Row
           /\ AgeRow(r).status = r.status /\ AgeRow(r).attempt_count = r.attempt_count
           /\ AgeRow(r).next_retry_at = Age(r.next_retry_at) /\ AgeRow(r).updated_at = Age(r.updated_at)
  BY AgeType DEF AgeRow, Row

\* task_mark_as_failed() counts the try, and dates the next one if there is one.
LEMMA FailedFacts ==
    ASSUME NEW r \in Row
    PROVE  /\ Failed(r) \in Row
           /\ Failed(r).status = "failed" /\ Failed(r).attempt_count = r.attempt_count + 1
           /\ Failed(r).updated_at = 0
           /\ TaskCanRetry(Failed(r)) <=> r.attempt_count + 1 < MaxAttemptLimit
           /\ Failed(r).next_retry_at = IF r.attempt_count + 1 < MaxAttemptLimit
                                        THEN RetryDelay(r.attempt_count + 1) ELSE None
           /\ RetryDelay(r.attempt_count + 1) \in Nat
  <1> DEFINE n == r.attempt_count + 1
             f == [r EXCEPT !.status = "failed", !.attempt_count = @ + 1, !.updated_at = 0]
             retry == IF n < MaxAttemptLimit THEN RetryDelay(n) ELSE None
             date == IF TaskCanRetry(f) THEN RetryDelay(f.attempt_count) ELSE None
  <1>1. n \in Nat /\ RetryDelay(n) \in Nat BY BlockTasksAssumption DEF Row, RetryDelay
  <1>2. f.status = "failed" /\ f.attempt_count = n /\ f.updated_at = 0 BY DEF Row
  <1>3. TaskCanRetry(f) <=> n < MaxAttemptLimit BY <1>2 DEF TaskCanRetry
  <1>4. Failed(r) = [f EXCEPT !.next_retry_at = retry]
    <2>1. Failed(r) = [f EXCEPT !.next_retry_at = date] BY DEF Failed
    <2> HIDE DEF f, n
    <2>2. date = retry BY <1>2, <1>3
    <2> HIDE DEF date, retry
    <2>3. QED BY <2>1, <2>2
  <1>5. f \in Row
    <2>1. f = [r EXCEPT !.status = "failed", !.attempt_count = n, !.updated_at = 0] OBVIOUS
    <2> HIDE DEF f, n
    <2>2. n \in Nat /\ 0 \in Int BY <1>1
    <2>3. QED BY <2>1, <2>2 DEF Row
  <1>6. retry \in Instant
    <2>1. n < MaxAttemptLimit => retry = RetryDelay(n) /\ RetryDelay(n) \in Int BY <1>1
    <2>2. ~(n < MaxAttemptLimit) => retry = None OBVIOUS
    <2>3. QED BY <2>1, <2>2 DEF Instant, Optional
  <1> HIDE DEF f, retry
  <1>7. /\ Failed(r) \in Row /\ Failed(r).status = f.status /\ Failed(r).attempt_count = f.attempt_count
        /\ Failed(r).updated_at = f.updated_at /\ Failed(r).next_retry_at = retry
    BY <1>4, <1>5, <1>6 DEF Row
  <1>8. TaskCanRetry(Failed(r)) <=> n < MaxAttemptLimit BY <1>2, <1>7 DEF TaskCanRetry
  <1>9. QED BY <1>1, <1>2, <1>7, <1>8 DEF retry

\* The other rows that are saved
LEMMA SavedFacts ==
    ASSUME NEW r \in Row
    PROVE  /\ AbsentRow \in Row /\ AbsentRow.status = "absent" /\ AbsentRow.attempt_count = 0
           /\ NewRow \in Row /\ NewRow.status = "pending" /\ NewRow.attempt_count = 0
           /\ Stamped(r) \in Row /\ Stamped(r).status = r.status
           /\ Stamped(r).attempt_count = r.attempt_count /\ Stamped(r).next_retry_at = r.next_retry_at
           /\ BackToPending(r) \in Row /\ BackToPending(r).status = "pending"
           /\ BackToPending(r).attempt_count = r.attempt_count
           /\ Succeeded(r) \in Row /\ Succeeded(r).status = "success"
           /\ Succeeded(r).attempt_count = r.attempt_count
  <1>1. None \in Instant /\ 0 \in Int /\ 0 \in Nat BY DEF Instant, Optional
  <1>2. AbsentRow \in Row /\ AbsentRow.status = "absent" /\ AbsentRow.attempt_count = 0
    BY <1>1 DEF AbsentRow, Row
  <1>3. NewRow \in Row /\ NewRow.status = "pending" /\ NewRow.attempt_count = 0
    BY <1>2 DEF NewRow, Row
  <1>4. /\ Stamped(r) \in Row /\ Stamped(r).status = r.status
        /\ Stamped(r).attempt_count = r.attempt_count /\ Stamped(r).next_retry_at = r.next_retry_at
    BY <1>1 DEF Stamped, Row
  <1>5. /\ BackToPending(r) \in Row /\ BackToPending(r).status = "pending"
        /\ BackToPending(r).attempt_count = r.attempt_count
    BY <1>1 DEF BackToPending, Row
  <1>6. /\ Succeeded(r) \in Row /\ Succeeded(r).status = "success"
        /\ Succeeded(r).attempt_count = r.attempt_count
    BY <1>1 DEF Succeeded, Row
  <1>7. QED BY <1>2, <1>3, <1>4, <1>5, <1>6

\* A row stays a row, and decided.
LEMMA RowStepOK ==
    ASSUME NEW r \in Row, NEW r2, RowStep(r, r2)
    PROVE  r2 \in Row /\ (RowDecided(r) => RowDecided(r2))
  <1>1. CASE r2 = r BY <1>1
  <1>2. CASE r2 = AgeRow(r)
    <2>1. r2.next_retry_at = None <=> r.next_retry_at = None BY <1>2, AgeRowFacts, AgeType DEF Row
    <2>2. QED BY <1>2, <2>1, AgeRowFacts DEF RowDecided, Exhausted
  <1>3. CASE r2 = Stamped(r) BY <1>3, SavedFacts DEF RowDecided, Exhausted
  <1>4. CASE r2 = AbsentRow \/ r2 = NewRow BY <1>4, SavedFacts DEF RowDecided
  <1>5. ASSUME NEW c \in Row, r2 = BackToPending(c) \/ r2 = Succeeded(c)
        PROVE  r2 \in Row /\ RowDecided(r2)
    BY <1>5, SavedFacts DEF RowDecided
  <1>6. ASSUME NEW c \in Row, r2 = Failed(c) PROVE r2 \in Row /\ RowDecided(r2)
    <2>1. r2 \in Row /\ r2.attempt_count = c.attempt_count + 1 BY <1>6, FailedFacts
    <2>2. r2.next_retry_at = None <=> ~(r2.attempt_count < MaxAttemptLimit)
      BY <1>6, <2>1, FailedFacts, BlockTasksAssumption
    <2>3. QED BY <1>6, <2>1, <2>2, BlockTasksAssumption DEF RowDecided, Exhausted, Row
  <1>7. QED BY <1>1, <1>2, <1>3, <1>4, <1>5, <1>6 DEF RowStep

-----------------------------------------------------------------------------
(* Types *)

\* TypeOK with what Send and the commits write: every process that is not idle has an attempt.
TypeInv == TypeOK /\ \A p \in Procs : proc[p].pc # "idle" => proc[p].att \in Attempts

ProcsOK(f) == f \in [Procs -> Proc] /\ \A p \in Procs : f[p].pc # "idle" => f[p].att \in Attempts
RowsStep == row' \in [Attempts -> Row] /\ \A a \in Attempts : RowStep(row[a], row'[a])
StepOK ==
    /\ RowsStep /\ ProcsOK(proc')
    /\ lock' \in [Attempts -> Optional(Workers)]
    /\ broker' \in [Ids -> Optional(Message)]
    /\ stable' \in BOOLEAN

\* The facts every action starts from
LEMMA ProcFacts ==
    ASSUME TypeInv, NEW p \in Procs
    PROVE  /\ proc \in [Procs -> Proc] /\ row \in [Attempts -> Row]
           /\ proc[p] \in Proc /\ proc[p].copy \in Row
           /\ proc[p].pc # "idle" => proc[p].att \in Attempts /\ row[proc[p].att] \in Row
  BY DEF TypeInv, TypeOK, Proc

\* No step of a row is a step.
LEMMA SameRows == ASSUME TypeInv, UNCHANGED row PROVE RowsStep
  BY DEF TypeInv, TypeOK, RowsStep, RowStep

\* A row that is written leaves the others alone.
LEMMA WriteRows ==
    ASSUME TypeInv, NEW a \in Attempts, NEW r2, row' = [row EXCEPT ![a] = r2], RowStep(row[a], r2)
    PROVE  RowsStep
  <1>1. row \in [Attempts -> Row] BY DEF TypeInv, TypeOK
  <1>2. r2 \in Row BY <1>1, RowStepOK
  <1>3. \A b \in Attempts : RowStep(row[b], row[b]) BY DEF RowStep
  <1>4. QED BY <1>1, <1>2, <1>3 DEF RowsStep

\* A process that moves leaves the others alone.
LEMMA MoveProcs ==
    ASSUME TypeInv, NEW p \in Procs, NEW c \in Proc, c.pc # "idle" => c.att \in Attempts,
           proc' = [proc EXCEPT ![p] = c]
    PROVE  ProcsOK(proc')
  BY DEF TypeInv, TypeOK, ProcsOK

\* A process between two executions
LEMMA IdleFacts == IdleProc \in Proc /\ IdleProc.pc = "idle" /\ IdleProc.copy = AbsentRow
  <1>1. AbsentRow \in Row BY DEF AbsentRow, Row, Instant, Optional
  <1>2. QED BY <1>1 DEF IdleProc, Proc, Optional

\* The process ends.
LEMMA DoneProcs == ASSUME TypeInv, NEW p \in Procs, Done(p) PROVE ProcsOK(proc')
  BY IdleFacts, MoveProcs DEF Done

\* The record after Continue()
LEMMA ContinueFacts ==
    ASSUME TypeInv, NEW p \in Procs, NEW pc, NEW r, Continue(p, pc, r)
    PROVE  \E c : /\ proc' = [proc EXCEPT ![p] = c] /\ c.pc = pc /\ c.copy = r /\ c.att = proc[p].att
                  /\ pc \in {"idle"} \cup DispatchPCs \cup WorkerPCs /\ r \in Row => c \in Proc
  <1> DEFINE c == [proc[p] EXCEPT !.pc = pc, !.copy = r]
  <1>1. proc[p] \in Proc /\ proc \in [Procs -> Proc] BY ProcFacts
  <1>2. proc' = [proc EXCEPT ![p] = c] BY <1>1 DEF Continue
  <1>3. c.pc = pc /\ c.copy = r /\ c.att = proc[p].att BY <1>1 DEF Proc
  <1>4. pc \in {"idle"} \cup DispatchPCs \cup WorkerPCs /\ r \in Row => c \in Proc BY <1>1 DEF Proc
  <1>5. QED BY <1>2, <1>3, <1>4

\* The process goes on with a row.
LEMMA ContinueProcs ==
    ASSUME TypeInv, NEW p \in Procs, NEW pc \in DispatchPCs \cup WorkerPCs, NEW r \in Row,
           Continue(p, pc, r), proc[p].pc # "idle"
    PROVE  ProcsOK(proc')
  <1>1. PICK c : /\ proc' = [proc EXCEPT ![p] = c] /\ c.pc = pc /\ c.copy = r /\ c.att = proc[p].att
                 /\ c \in Proc
    BY ContinueFacts
  <1>2. proc[p].att \in Attempts BY ProcFacts
  <1>3. QED BY <1>1, <1>2, MoveProcs

\* Submit() and the sweep start an execute().
LEMMA SubmitProcs ==
    ASSUME TypeInv, NEW p \in Procs, NEW a \in Attempts,
           proc' = [proc EXCEPT ![p] = [IdleProc EXCEPT !.pc = "submit", !.att = a]]
    PROVE  ProcsOK(proc')
  <1> DEFINE c == [IdleProc EXCEPT !.pc = "submit", !.att = a]
  <1>1. c \in Proc /\ c.att = a /\ c.pc = "submit" BY IdleFacts DEF Proc, Optional, DispatchPCs
  <1> HIDE DEF c
  <1>2. QED BY <1>1, MoveProcs DEF c

-----------------------------------------------------------------------------
(* Every action keeps the types and makes a row step of every row *)

\* execute() of a dispatcher
LEMMA ExecuteOK == ASSUME TypeInv, NEW d \in Dispatchers, ExecuteStep(d) PROVE StepOK
  <1> DEFINE a == proc[d].att
  <1>0. d \in Procs BY DEF Procs
  <1>1. /\ lock' \in [Attempts -> Optional(Workers)] /\ broker' \in [Ids -> Optional(Message)]
        /\ stable' \in BOOLEAN
    BY DEF TypeInv, TypeOK, ExecuteStep, Create, Get, Reopen, RecordDispatch
  <1>2. proc[d].pc # "idle" BY DEF At, ExecuteStep, Create, Get, Reopen, RecordDispatch
  <1>3. a \in Attempts /\ row[a] \in Row /\ proc[d].copy \in Row BY <1>0, <1>2, ProcFacts
  <1> HIDE DEF a
  <1>4. CASE Create(d)
    <2>1. row' = [row EXCEPT ![a] = NewRow] /\ Continue(d, "opened", NewRow)
      BY <1>4 DEF Create, Save, NewRow, a
    <2>2. RowsStep BY <2>1, <1>3, WriteRows DEF RowStep
    <2>3. NewRow \in Row BY <1>3, SavedFacts
    <2>4. ProcsOK(proc') BY <2>1, <2>3, <1>0, <1>2, ContinueProcs DEF DispatchPCs
    <2>5. QED BY <1>1, <2>2, <2>4 DEF StepOK
  <1>5. CASE Get(d)
    <2>1. RowsStep BY <1>5, SameRows DEF Get
    <2>2. Continue(d, "opened", row[a]) \/ Continue(d, "reopen", row[a]) \/ Done(d)
      BY <1>5 DEF Get, a
    <2>3. ProcsOK(proc') BY <2>2, <1>0, <1>2, <1>3, ContinueProcs, DoneProcs DEF DispatchPCs
    <2>4. QED BY <1>1, <2>1, <2>3 DEF StepOK
  <1>6. CASE Reopen(d)
    <2> DEFINE r == BackToPending(proc[d].copy)
    <2>1. row' = [row EXCEPT ![a] = r] /\ Continue(d, "opened", r) BY <1>6 DEF Reopen, Save, a
    <2>2. r \in Row /\ RowStep(row[a], r) BY <1>3, SavedFacts DEF RowStep
    <2> HIDE DEF r
    <2>3. RowsStep BY <2>1, <2>2, <1>3, WriteRows
    <2>4. ProcsOK(proc') BY <2>1, <2>2, <1>0, <1>2, ContinueProcs DEF DispatchPCs
    <2>5. QED BY <1>1, <2>3, <2>4 DEF StepOK
  <1>7. CASE RecordDispatch(d)
    <2>1. CASE row[a].status = "absent"
      <3>1. UNCHANGED row /\ Done(d) BY <1>7, <2>1 DEF RecordDispatch, a
      <3>2. QED BY <3>1, <1>0, <1>1, SameRows, DoneProcs DEF StepOK
    <2>2. CASE row[a].status # "absent"
      <3> DEFINE r == Stamped(row[a])
      <3>1. row' = [row EXCEPT ![a] = r] /\ Continue(d, "recorded", proc[d].copy)
        BY <1>7, <2>2 DEF RecordDispatch, Save, Stamped, a
      <3>2. RowStep(row[a], r) BY DEF RowStep
      <3> HIDE DEF r
      <3>3. RowsStep BY <3>1, <3>2, <1>3, WriteRows
      <3>4. ProcsOK(proc') BY <3>1, <1>0, <1>2, <1>3, ContinueProcs DEF DispatchPCs
      <3>5. QED BY <1>1, <3>3, <3>4 DEF StepOK
    <2>3. QED BY <2>1, <2>2
  <1>8. QED BY <1>4, <1>5, <1>6, <1>7 DEF ExecuteStep

\* A worker's transaction ends, or its retry is recorded.
LEMMA WorkerOK == ASSUME TypeInv, NEW w \in Workers, WorkerStep(w) PROVE StepOK
  <1> DEFINE a == proc[w].att
             c == proc[w].copy
  <1>0. w \in Procs BY DEF Procs
  <1>1. broker' \in [Ids -> Optional(Message)] /\ stable' \in BOOLEAN
    BY DEF TypeInv, TypeOK, WorkerStep, FinishSuccess, FinishFailure, Rollback, ScheduleRetry
  <1>2. proc[w].pc # "idle" BY DEF At, WorkerStep, FinishSuccess, FinishFailure, Rollback, ScheduleRetry
  <1>3. a \in Attempts /\ row[a] \in Row /\ c \in Row BY <1>0, <1>2, ProcFacts
  <1>4. lock' \in [Attempts -> Optional(Workers)]
    <2>1. lock \in [Attempts -> Optional(Workers)] /\ None \in Optional(Workers)
      BY DEF TypeInv, TypeOK, Optional
    <2>2. lock' = lock \/ lock' = [lock EXCEPT ![a] = None]
      BY DEF WorkerStep, FinishSuccess, FinishFailure, Rollback, ScheduleRetry, Commit
    <2>3. QED BY <2>1, <2>2
  <1> HIDE DEF a, c
  <1>5. CASE FinishSuccess(w)
    <2>1. row' = [row EXCEPT ![a] = Succeeded(c)] /\ Done(w) BY <1>5 DEF FinishSuccess, Commit, a, c
    <2>2. RowStep(row[a], Succeeded(c)) BY <1>3 DEF RowStep
    <2>3. RowsStep BY <2>1, <2>2, <1>3, WriteRows
    <2>4. QED BY <2>1, <2>3, <1>0, <1>1, <1>4, DoneProcs DEF StepOK
  <1>6. CASE FinishFailure(w)
    <2> DEFINE r == Failed(c)
    <2>1. row' = [row EXCEPT ![a] = r] /\ (Continue(w, "failed", r) \/ Done(w))
      BY <1>6 DEF FinishFailure, Commit, a, c
    <2>2. RowStep(row[a], r) /\ r \in Row BY <1>3, FailedFacts DEF RowStep
    <2> HIDE DEF r
    <2>3. RowsStep BY <2>1, <2>2, <1>3, WriteRows
    <2>4. ProcsOK(proc') BY <2>1, <2>2, <1>0, <1>2, ContinueProcs, DoneProcs DEF WorkerPCs
    <2>5. QED BY <2>3, <2>4, <1>1, <1>4 DEF StepOK
  <1>7. CASE ScheduleRetry(w)
    <2> DEFINE r == BackToPending(c)
    <2>1. row' = [row EXCEPT ![a] = r] /\ Continue(w, "requeued", r)
      BY <1>7 DEF ScheduleRetry, Save, a, c
    <2>2. RowStep(row[a], r) /\ r \in Row BY <1>3, SavedFacts DEF RowStep
    <2> HIDE DEF r
    <2>3. RowsStep BY <2>1, <2>2, <1>3, WriteRows
    <2>4. ProcsOK(proc') BY <2>1, <2>2, <1>0, <1>2, ContinueProcs DEF WorkerPCs
    <2>5. QED BY <2>3, <2>4, <1>1, <1>4 DEF StepOK
  <1>8. CASE Rollback(w)
    <2>1. UNCHANGED row /\ Done(w) BY <1>8 DEF Rollback
    <2>2. QED BY <2>1, <1>0, <1>1, <1>4, DoneProcs, SameRows DEF StepOK
  <1>9. QED BY <1>5, <1>6, <1>7, <1>8 DEF WorkerStep

\* A message is delivered.
LEMMA ReceiveOK == ASSUME TypeInv, NEW w \in Workers, NEW m \in Ids, Receive(w, m) PROVE StepOK
  <1> DEFINE a == broker[m].att
             c == [pc |-> "running", att |-> a, copy |-> [row[a] EXCEPT !.status = "running"]]
  <1>0. w \in Procs BY DEF Procs
  <1>1. RowsStep /\ stable' \in BOOLEAN BY SameRows DEF Receive, TypeInv, TypeOK
  <1>2. a \in Attempts
    BY BlockTasksAssumption DEF Receive, TypeInv, TypeOK, Optional, Message
  <1>3. broker' \in [Ids -> Optional(Message)] BY DEF Receive, TypeInv, TypeOK, Optional
  <1>4. CASE UNCHANGED <<lock, proc>>
    <2>1. ProcsOK(proc') BY <1>4 DEF ProcsOK, TypeInv, TypeOK
    <2>2. QED BY <1>1, <1>3, <1>4, <2>1 DEF StepOK, TypeInv, TypeOK
  <1>5. CASE lock' = [lock EXCEPT ![a] = w] /\ proc' = [proc EXCEPT ![w] = c]
    <2>1. lock' \in [Attempts -> Optional(Workers)] BY <1>5, <1>2 DEF TypeInv, TypeOK, Optional
    <2>2. row[a] \in Row BY <1>2 DEF TypeInv, TypeOK
    <2> HIDE DEF a
    <2>3. [row[a] EXCEPT !.status = "running"] \in Row BY <2>2 DEF Row
    <2>4. c \in Proc /\ c.att = a BY <2>3, <1>2 DEF Proc, Optional, WorkerPCs
    <2> HIDE DEF c
    <2>5. ProcsOK(proc') BY <2>4, <1>0, <1>2, <1>5, MoveProcs
    <2>6. QED BY <1>1, <1>3, <2>1, <2>5 DEF StepOK
  <1>6. QED BY <1>4, <1>5 DEF Receive

\* apply_async() of a dispatcher or a worker
LEMMA SendOK == ASSUME TypeInv, NEW p \in Procs, SendStep(p) PROVE StepOK
  <1>1. RowsStep /\ stable' \in BOOLEAN /\ lock' \in [Attempts -> Optional(Workers)]
    BY SameRows DEF SendStep, Send, SendFails, TypeInv, TypeOK
  <1>2. ProcsOK(proc') BY DoneProcs DEF SendStep, Send, SendFails
  <1>3. broker' \in [Ids -> Optional(Message)]
    <2>1. broker \in [Ids -> Optional(Message)] BY DEF TypeInv, TypeOK
    <2>2. CASE Send(p)
      <3>1. proc[p].att \in Attempts /\ proc[p].copy.next_retry_at \in Instant
        BY <2>2, ProcFacts DEF Send, Row
      <3>2. [att |-> proc[p].att, eta |-> proc[p].copy.next_retry_at] \in Optional(Message)
        BY <3>1 DEF Message, Optional
      <3>3. QED BY <2>1, <2>2, <3>2 DEF Send
    <2>3. QED BY <2>1, <2>2 DEF SendStep, SendFails
  <1>4. QED BY <1>1, <1>2, <1>3 DEF StepOK

\* The sweep takes up a stuck attempt.
LEMMA SweepOK == ASSUME TypeInv, NEW d \in Dispatchers, Sweep(d) PROVE StepOK
  <1>0. d \in Procs BY DEF Procs
  <1>1. PICK a \in Attempts : RecoverStuckTask(d, a) BY DEF Sweep
  <1>2. row[a] \in Row BY DEF TypeInv, TypeOK
  <1>3. RowsStep BY <1>1, <1>2, WriteRows DEF RecoverStuckTask, Save, RowStep
  <1>4. ProcsOK(proc') BY <1>0, <1>1, SubmitProcs DEF RecoverStuckTask
  <1>5. QED BY <1>1, <1>3, <1>4 DEF StepOK, RecoverStuckTask, TypeInv, TypeOK

\* Submissions, the cleanup, crashes, lost messages and the end of the faults
LEMMA OthersOK ==
    ASSUME TypeInv,
           \/ \E d \in Dispatchers, a \in Attempts : Submit(d, a)
           \/ \E a \in Attempts : CleanupOldTasks(a)
           \/ \E p \in Procs : Crash(p)
           \/ \E m \in Ids : LoseMessage(m)
           \/ Stabilise
           \/ UNCHANGED vars
    PROVE  StepOK
  <1>1. ASSUME NEW d \in Dispatchers, NEW a \in Attempts, Submit(d, a) PROVE StepOK
    <2>1. ProcsOK(proc') BY <1>1, SubmitProcs, d \in Procs DEF Submit, Procs
    <2>2. QED BY <1>1, <2>1, SameRows DEF StepOK, Submit, TypeInv, TypeOK
  <1>2. ASSUME UNCHANGED proc PROVE ProcsOK(proc') BY <1>2 DEF ProcsOK, TypeInv, TypeOK
  <1>3. ASSUME NEW a \in Attempts, CleanupOldTasks(a) PROVE StepOK
    <2>1. RowsStep BY <1>3, WriteRows DEF CleanupOldTasks, Save, RowStep
    <2>2. QED BY <1>2, <1>3, <2>1 DEF StepOK, CleanupOldTasks, TypeInv, TypeOK
  <1>4. ASSUME NEW p \in Procs, Crash(p) PROVE StepOK
    <2>1. ProcsOK(proc') BY <1>4, DoneProcs DEF Crash
    <2>2. lock' \in [Attempts -> Optional(Workers)] BY <1>4 DEF Crash, TypeInv, TypeOK, Optional
    <2>3. QED BY <1>4, <2>1, <2>2, SameRows DEF StepOK, Crash, TypeInv, TypeOK
  <1>5. ASSUME NEW m \in Ids, LoseMessage(m) PROVE StepOK
    <2>1. broker' \in [Ids -> Optional(Message)] BY <1>5 DEF LoseMessage, TypeInv, TypeOK, Optional
    <2>2. QED BY <1>2, <1>5, <2>1, SameRows DEF StepOK, LoseMessage, TypeInv, TypeOK
  <1>6. CASE Stabilise \/ UNCHANGED vars
    BY <1>2, <1>6, SameRows DEF StepOK, Stabilise, vars, TypeInv, TypeOK
  <1>7. QED BY <1>1, <1>3, <1>4, <1>5, <1>6

\* A second passes.
LEMMA TickOK == ASSUME TypeInv, Tick PROVE StepOK
  <1>1. RowsStep BY AgeRowFacts DEF Tick, RowsStep, RowStep, TypeInv, TypeOK
  <1>2. broker' \in [Ids -> Optional(Message)]
    <2>1. ASSUME NEW m \in Message PROVE [m EXCEPT !.eta = Age(@)] \in Message
      BY AgeType DEF Message
    <2>2. QED BY <2>1 DEF Tick, TypeInv, TypeOK, Optional
  <1>3. ProcsOK(proc')
    <2>1. ASSUME NEW c \in Proc
          PROVE  LET c2 == [c EXCEPT !.copy = AgeRow(@)] IN c2 \in Proc /\ c2.pc = c.pc /\ c2.att = c.att
      BY AgeRowFacts DEF Proc
    <2>2. QED BY <2>1 DEF Tick, ProcsOK, TypeInv, TypeOK
  <1>4. QED BY <1>1, <1>2, <1>3 DEF StepOK, Tick, TypeInv, TypeOK

\* Every step
LEMMA EveryStepOK == ASSUME TypeInv, [Next \/ Stabilise]_vars PROVE StepOK
  <1>1. CASE \E d \in Dispatchers : ExecuteStep(d) \/ Sweep(d) BY <1>1, ExecuteOK, SweepOK
  <1>2. CASE \E w \in Workers : WorkerStep(w) \/ \E m \in Ids : Receive(w, m)
    BY <1>2, WorkerOK, ReceiveOK
  <1>3. CASE \E p \in Procs : SendStep(p) BY <1>3, SendOK
  <1>4. CASE \/ \E d \in Dispatchers, a \in Attempts : Submit(d, a)
             \/ \E a \in Attempts : CleanupOldTasks(a)
             \/ \E p \in Procs : Crash(p)
             \/ \E m \in Ids : LoseMessage(m)
             \/ Stabilise
             \/ UNCHANGED vars
    BY <1>4, OthersOK
  <1>5. CASE Tick BY <1>5, TickOK
  <1>6. QED BY <1>1, <1>2, <1>3, <1>4, <1>5, BlockTasksAssumption DEF Next

\* What every step keeps
DecidedInv == TypeInv /\ FailedIsDecided

\* Init establishes it.
LEMMA DecidedInit == ASSUME Init PROVE DecidedInv
  <1>1. AbsentRow \in Row /\ RowDecided(AbsentRow)
    BY DEF AbsentRow, Row, Instant, Optional, RowDecided
  <1>2. TypeInv BY <1>1, IdleFacts DEF Init, TypeInv, TypeOK, Optional
  <1>3. QED BY <1>1, <1>2 DEF Init, DecidedInv, FailedIsDecided, RowDecided

\* Every step keeps it.
LEMMA DecidedStep == ASSUME DecidedInv, [Next \/ Stabilise]_vars PROVE DecidedInv'
  <1>1. StepOK BY EveryStepOK DEF DecidedInv
  <1>2. TypeInv' BY <1>1 DEF StepOK, RowsStep, ProcsOK, TypeInv, TypeOK
  <1>3. \A a \in Attempts : RowDecided(row'[a])
    <2>1. SUFFICES ASSUME NEW a \in Attempts PROVE RowDecided(row'[a]) OBVIOUS
    <2>2. row[a] \in Row /\ RowDecided(row[a])
      BY DEF DecidedInv, FailedIsDecided, RowDecided, TypeInv, TypeOK
    <2>3. RowStep(row[a], row'[a]) BY <1>1 DEF StepOK, RowsStep
    <2>4. QED BY <2>2, <2>3, RowStepOK
  <1>4. QED BY <1>2, <1>3 DEF DecidedInv, FailedIsDecided, RowDecided, Exhausted

\* TypeOK, with or without the end of the faults, for every value of the constants.
THEOREM Types == Spec \/ FairSpec => []TypeOK
  <1>1. DecidedInv => TypeOK BY DEF DecidedInv, TypeInv
  <1>2. QED BY <1>1, DecidedInit, DecidedStep, PTL DEF Spec, FairSpec

\* A committed failure has a retry time exactly if tries are left (task_mark_as_failed()).
THEOREM FailuresAreDecided == Spec \/ FairSpec => []FailedIsDecided
  <1>1. DecidedInv => FailedIsDecided BY DEF DecidedInv
  <1>2. QED BY <1>1, DecidedInit, DecidedStep, PTL DEF Spec, FairSpec

-----------------------------------------------------------------------------
(* No lost update, for one dispatching process *)

\* What SuccessIsFinal and TriesAreKept say of one row
RowGood(r, r2) ==
    /\ r.status = "success" => r2.status \in {"success", "absent"}
    /\ r2.status # "absent" => /\ r2.attempt_count >= r.attempt_count
                               /\ Exhausted(r) => r2.status = "failed"
RowsGood == \A a \in Attempts : RowGood(row[a], row'[a])

NewIfAbsent(r) == r.status = "absent" => r.attempt_count = 0
RunsOn(c, r) == r.status = "pending" /\ c.copy = [r EXCEPT !.status = "running"]
RetryRow(r) ==
    /\ r.status = "failed" /\ r.attempt_count < MaxAttemptLimit /\ r.updated_at = 0
    /\ r.next_retry_at \in Int /\ r.next_retry_at > 0
AwaitsRetry(c, r) == r = c.copy /\ RetryRow(r)
MayReopen(c, r) == r.status = "absent" \/ (r = c.copy /\ Due(r))

\* What a process holds is what the table still says, whenever the process may save it:
\* the lock keeps it for a running worker; the retry date, until the worker has recorded
\* its retry; and that nobody else dispatches, for a submission that read FAILED.
AbsentIsNew == \A a \in Attempts : NewIfAbsent(row[a])
LockIsHeld == \A a \in Attempts :
    lock[a] # None => proc[lock[a]].pc = "running" /\ proc[lock[a]].att = a
RunHoldsRow == \A w \in Workers :
    proc[w].pc = "running" => lock[proc[w].att] = w /\ RunsOn(proc[w], row[proc[w].att])
RetryIsNext == \A w \in Workers :
    proc[w].pc = "failed" => AwaitsRetry(proc[w], row[proc[w].att])
OneRetries == \A w1, w2 \in Workers :
    proc[w1].pc = "failed" /\ proc[w2].pc = "failed" /\ proc[w1].att = proc[w2].att => w1 = w2
ReopenIsFresh == \A d \in Dispatchers :
    proc[d].pc = "reopen" => MayReopen(proc[d], row[proc[d].att])

CopiesFresh ==
    AbsentIsNew /\ LockIsHeld /\ RunHoldsRow /\ RetryIsNext /\ OneRetries /\ ReopenIsFresh

\* The hypotheses: one dispatching process, workers that record a retry in time, and
\* retries that are not due at once.
OneDispatcher == \A d1, d2 \in Dispatchers : d1 = d2
PromptWorkers == Workers \cap MayStall = {}
RetriesWait == \A n \in 0..DelaySteps : RetryDelays[n] > 0

OnlyMoves(p) == \A q \in Procs : q # p => proc'[q] = proc[q]

\* A record that is replaced leaves the other processes alone.
LEMMA MoveOnly ==
    ASSUME TypeInv, NEW p \in Procs, NEW c, proc' = [proc EXCEPT ![p] = c]
    PROVE  proc'[p] = c /\ OnlyMoves(p)
  BY DEF TypeInv, TypeOK, OnlyMoves

\* A process goes on without touching the table.
LEMMA MoveFresh ==
    ASSUME TypeInv, CopiesFresh, NEW p \in Procs, OnlyMoves(p), UNCHANGED <<row, lock>>,
           proc[p].pc # "running", proc'[p].pc \notin {"running", "failed"},
           proc'[p].pc = "reopen" => MayReopen(proc'[p], row[proc'[p].att])
    PROVE  CopiesFresh' /\ RowsGood
  <1> USE DEF Procs
  <1>0. \A a \in Attempts : lock[a] # None => lock[a] \in Workers BY DEF TypeInv, TypeOK, Optional
  <1>1. AbsentIsNew' BY DEF CopiesFresh, AbsentIsNew
  <1>2. LockIsHeld' BY <1>0 DEF CopiesFresh, LockIsHeld, OnlyMoves
  <1>3. RunHoldsRow' BY DEF CopiesFresh, RunHoldsRow, OnlyMoves
  <1>4. RetryIsNext' BY DEF CopiesFresh, RetryIsNext, OnlyMoves
  <1>5. OneRetries' BY DEF CopiesFresh, OneRetries, OnlyMoves
  <1>6. ReopenIsFresh' BY DEF CopiesFresh, ReopenIsFresh, OnlyMoves
  <1>7. RowsGood BY DEF RowsGood, RowGood, TypeInv, TypeOK, Row, Exhausted
  <1>8. QED BY <1>1, <1>2, <1>3, <1>4, <1>5, <1>6, <1>7 DEF CopiesFresh

\* Row b is written, by process p if p is one, while no other process counts on it.
LEMMA WriteFresh ==
    ASSUME TypeInv, CopiesFresh, NEW p, NEW b \in Attempts, NEW r \in Row, OnlyMoves(p),
           row' = [row EXCEPT ![b] = r], NewIfAbsent(r), RowGood(row[b], r),
           lock' = lock \/ lock' = [lock EXCEPT ![b] = None], lock'[b] = None,
           \A w \in Workers : w # p /\ proc[w].att = b => proc[w].pc \notin {"running", "failed"},
           \A d \in Dispatchers : d # p /\ proc[d].att = b /\ proc[d].pc = "reopen" => r.status = "absent",
           p \in Procs => /\ proc[p].pc = "running" => proc[p].att = b
                          /\ proc'[p].pc \notin {"running", "reopen"}
                          /\ proc'[p].pc = "failed" => proc'[p].att = b /\ AwaitsRetry(proc'[p], r)
    PROVE  CopiesFresh' /\ RowsGood
  <1> USE DEF Procs
  <1>0. \A a \in Attempts : lock[a] # None => lock[a] \in Workers BY DEF TypeInv, TypeOK, Optional
  <1>1. /\ row'[b] = r /\ \A a \in Attempts : a # b => row'[a] = row[a] /\ lock'[a] = lock[a]
        /\ \A q \in Procs : proc[q].pc # "idle" => proc[q].att \in Attempts
    BY DEF TypeInv, TypeOK
  <1>2. AbsentIsNew' BY <1>1 DEF CopiesFresh, AbsentIsNew
  <1>3. LockIsHeld' BY <1>0, <1>1 DEF CopiesFresh, LockIsHeld, OnlyMoves
  <1>4. RunHoldsRow' BY <1>1 DEF CopiesFresh, RunHoldsRow, OnlyMoves
  <1>5. RetryIsNext' BY <1>1 DEF CopiesFresh, RetryIsNext, OnlyMoves
  <1>6. OneRetries' BY <1>1 DEF CopiesFresh, OneRetries, OnlyMoves
  <1>7. ReopenIsFresh' BY <1>1 DEF CopiesFresh, ReopenIsFresh, OnlyMoves, MayReopen
  <1>8. RowsGood
    <2>1. \A a \in Attempts : RowGood(row[a], row[a])
      BY DEF RowGood, TypeInv, TypeOK, Row, Exhausted
    <2>2. QED BY <1>1, <2>1 DEF RowsGood
  <1>9. QED BY <1>2, <1>3, <1>4, <1>5, <1>6, <1>7, <1>8 DEF CopiesFresh

\* Who may count on a row that is not locked: nobody runs it, and a worker whose retry
\* comes next keeps it failed, not yet due.
LEMMA Unlocked ==
    ASSUME TypeInv, CopiesFresh, NEW b \in Attempts, lock[b] = None
    PROVE  /\ \A w \in Workers : proc[w].att = b => proc[w].pc # "running"
           /\ ~RetryRow(row[b]) =>
                  \A w \in Workers : proc[w].att = b => proc[w].pc # "failed"
  BY BlockTasksAssumption DEF CopiesFresh, RunHoldsRow, RetryIsNext, AwaitsRetry

\* The only dispatcher writes a row that nobody runs or is about to retry.
LEMMA DispatcherWrites ==
    ASSUME TypeInv, CopiesFresh, OneDispatcher, NEW d \in Dispatchers, NEW b \in Attempts, NEW r \in Row,
           Save(b, r), UNCHANGED lock, OnlyMoves(d), ~RetryRow(row[b]), RowGood(row[b], r), r.status # "absent",
           proc[d].pc # "running", proc'[d].pc \notin {"running", "reopen", "failed"}
    PROVE  CopiesFresh' /\ RowsGood
  <1>1. lock[b] = None /\ lock'[b] = None /\ row' = [row EXCEPT ![b] = r] BY DEF Save
  <1>2. \A w \in Workers : w # d /\ proc[w].att = b => proc[w].pc \notin {"running", "failed"}
    BY <1>1, Unlocked
  <1>3. \A e \in Dispatchers : e # d /\ proc[e].att = b /\ proc[e].pc = "reopen" => r.status = "absent"
    BY DEF OneDispatcher
  <1>4. NewIfAbsent(r) BY DEF NewIfAbsent
  <1>5. QED BY <1>1, <1>2, <1>3, <1>4, WriteFresh

\* execute(), of the only dispatcher
LEMMA ExecuteFresh ==
    ASSUME TypeInv, CopiesFresh, OneDispatcher, NEW d \in Dispatchers, ExecuteStep(d)
    PROVE  CopiesFresh' /\ RowsGood
  <1> DEFINE a == proc[d].att
  <1>0. d \in Procs BY DEF Procs
  <1>1. proc[d].pc \notin {"idle", "running"} BY DEF At, ExecuteStep, Create, Get, Reopen, RecordDispatch
  <1>2. a \in Attempts /\ row[a] \in Row /\ proc[d].copy \in Row /\ proc \in [Procs -> Proc]
    BY <1>0, <1>1, ProcFacts
  <1> HIDE DEF a
  <1>3. ASSUME NEW pc, NEW r, Continue(d, pc, r)
        PROVE  /\ proc'[d].pc = pc /\ proc'[d].copy = r /\ proc'[d].att = a /\ OnlyMoves(d)
    <2>1. PICK c : proc' = [proc EXCEPT ![d] = c] /\ c.pc = pc /\ c.copy = r /\ c.att = a
      BY <1>0, <1>3, ContinueFacts DEF a
    <2>2. QED BY <1>0, <2>1, MoveOnly
  <1>4. ASSUME Done(d) PROVE proc'[d].pc = "idle" /\ OnlyMoves(d)
    BY <1>0, <1>4, MoveOnly, IdleFacts DEF Done
  <1>5. CASE Create(d)
    <2>1. Save(a, NewRow) /\ Continue(d, "opened", NewRow) /\ row[a].status = "absent" /\ UNCHANGED lock
      BY <1>5 DEF Create, NewRow, a
    <2>2. NewRow \in Row /\ NewRow.status = "pending" /\ NewRow.attempt_count = 0 BY <1>2, SavedFacts
    <2>3. row[a].attempt_count = 0 BY <1>2, <2>1 DEF CopiesFresh, AbsentIsNew, NewIfAbsent
    <2>4. RowGood(row[a], NewRow) /\ ~RetryRow(row[a])
      BY <2>1, <2>2, <2>3 DEF RowGood, RetryRow, Exhausted
    <2>5. proc'[d].pc = "opened" /\ OnlyMoves(d) BY <1>3, <2>1
    <2>6. QED BY <1>1, <1>2, <2>1, <2>2, <2>4, <2>5, DispatcherWrites
  <1>6. CASE Get(d)
    <2>1. UNCHANGED <<row, lock>> BY <1>6 DEF Get
    <2>2. CASE Continue(d, "opened", row[a]) \/ Done(d)
      <3>1. proc'[d].pc \in {"opened", "idle"} /\ OnlyMoves(d) BY <1>3, <1>4, <2>2
      <3>2. QED BY <3>1, <1>0, <1>1, <2>1, MoveFresh
    <2>3. CASE Due(row[a]) /\ Continue(d, "reopen", row[a])
      <3>1. proc'[d].pc = "reopen" /\ proc'[d].copy = row[a] /\ proc'[d].att = a /\ OnlyMoves(d)
        BY <1>3, <2>3
      <3>2. MayReopen(proc'[d], row[proc'[d].att]) BY <3>1, <2>3 DEF MayReopen
      <3>3. QED BY <3>1, <3>2, <1>0, <1>1, <2>1, MoveFresh
    <2>4. QED BY <1>6, <2>2, <2>3 DEF Get, a
  <1>7. CASE Reopen(d)
    <2> DEFINE c == proc[d].copy
               r == BackToPending(c)
    <2>1. Save(a, r) /\ Continue(d, "opened", r) /\ UNCHANGED lock /\ proc[d].pc = "reopen"
      BY <1>7 DEF Reopen, At, a
    <2>2. r \in Row /\ r.status = "pending" /\ r.attempt_count = c.attempt_count /\ c \in Row
      BY <1>2, SavedFacts
    <2>3. MayReopen(proc[d], row[a]) BY <2>1 DEF CopiesFresh, ReopenIsFresh, a
    <2>4. RowGood(row[a], r) /\ ~RetryRow(row[a])
      <3>1. CASE row[a].status = "absent"
        <4>1. row[a].attempt_count = 0 BY <1>2, <3>1 DEF CopiesFresh, AbsentIsNew, NewIfAbsent
        <4>2. r.attempt_count >= 0 BY <2>2 DEF Row
        <4> HIDE DEF r
        <4>3. QED BY <3>1, <4>1, <4>2, <2>2 DEF RowGood, RetryRow, Exhausted
      <3>2. CASE row[a] = c /\ Due(row[a])
        <4>1. /\ c.status = "failed" /\ c.attempt_count < MaxAttemptLimit
              /\ c.next_retry_at # None => c.next_retry_at < 1
          BY <3>2 DEF Due, TaskCanRetry, NullOrBefore
        <4>2. c.attempt_count \in Int /\ MaxAttemptLimit \in Int BY <2>2, BlockTasksAssumption DEF Row
        <4> HIDE DEF r, c
        <4>3. ~RetryRow(c) BY <4>1, BlockTasksAssumption DEF RetryRow
        <4>4. RowGood(c, r) BY <4>1, <4>2, <2>2 DEF RowGood, Exhausted
        <4>5. QED BY <3>2, <4>3, <4>4
      <3>3. QED BY <2>3, <3>1, <3>2 DEF MayReopen
    <2>5. proc'[d].pc = "opened" /\ OnlyMoves(d) BY <1>3, <2>1
    <2> HIDE DEF r
    <2>6. QED BY <1>1, <1>2, <2>1, <2>2, <2>4, <2>5, DispatcherWrites
  <1>8. CASE RecordDispatch(d)
    <2>1. CASE row[a].status = "absent"
      <3>1. Done(d) /\ UNCHANGED <<row, lock>> BY <1>8, <2>1 DEF RecordDispatch, a
      <3>2. proc'[d].pc = "idle" /\ OnlyMoves(d) BY <3>1, <1>4
      <3>3. QED BY <3>1, <3>2, <1>0, <1>1, MoveFresh
    <2>2. CASE row[a].status # "absent"
      <3> DEFINE r == Stamped(row[a])
      <3>1. Save(a, r) /\ Continue(d, "recorded", proc[d].copy) /\ UNCHANGED lock
        BY <1>8, <2>2 DEF RecordDispatch, Stamped, a
      <3>2. /\ r \in Row /\ r.status = row[a].status /\ r.attempt_count = row[a].attempt_count
            /\ r.next_retry_at = row[a].next_retry_at /\ r.updated_at = 0
        BY <1>2, SavedFacts DEF Stamped, Row
      <3>3. proc'[d].pc = "recorded" /\ OnlyMoves(d) BY <1>3, <3>1
      <3>4. RowGood(row[a], r) BY <1>2, <3>2 DEF RowGood, Row, Exhausted
      <3> HIDE DEF r
      <3>5. CASE ~RetryRow(row[a]) BY <3>5, <1>1, <1>2, <2>2, <3>1, <3>2, <3>3, <3>4, DispatcherWrites
      <3>6. CASE RetryRow(row[a])
        <4>1. row[a].updated_at = 0 BY <3>6 DEF RetryRow
        <4>2. r = row[a] BY <1>2, <3>2, <4>1 DEF Row
        <4>3. UNCHANGED <<row, lock>> BY <1>2, <3>1, <4>2 DEF Save, TypeInv, TypeOK
        <4>4. QED BY <1>0, <1>1, <3>3, <4>3, MoveFresh
      <3>7. QED BY <3>5, <3>6
    <2>3. QED BY <2>1, <2>2
  <1>9. QED BY <1>5, <1>6, <1>7, <1>8 DEF ExecuteStep

\* The sweep
LEMMA SweepFresh ==
    ASSUME TypeInv, CopiesFresh, OneDispatcher, NEW d \in Dispatchers, Sweep(d)
    PROVE  CopiesFresh' /\ RowsGood
  <1>0. d \in Procs BY DEF Procs
  <1>1. PICK a \in Attempts : RecoverStuckTask(d, a) BY DEF Sweep
  <1> DEFINE c == [IdleProc EXCEPT !.pc = "submit", !.att = a]
             r == BackToPending(row[a])
  <1>2. row[a] \in Row BY DEF TypeInv, TypeOK
  <1>3. c.pc = "submit" BY IdleFacts DEF Proc
  <1>4. r \in Row /\ r.status = "pending" /\ r.attempt_count = row[a].attempt_count BY <1>2, SavedFacts
  <1>5. IsStuck(row[a]) /\ Save(a, r) /\ proc' = [proc EXCEPT ![d] = c] /\ UNCHANGED lock /\ proc[d].pc = "idle"
    BY <1>1 DEF RecoverStuckTask, At
  <1> HIDE DEF c, r
  <1>6. proc'[d].pc = "submit" /\ OnlyMoves(d) BY <1>0, <1>3, <1>5, MoveOnly
  <1>7. /\ row[a].attempt_count < MaxAttemptLimit /\ row[a].status \in {"pending", "running", "failed"}
        /\ row[a].status = "failed" => row[a].next_retry_at < -StaleTimeout
    BY <1>5 DEF IsStuck, Before
  <1>8. ~RetryRow(row[a]) BY <1>7, BlockTasksAssumption DEF RetryRow
  <1>9. RowGood(row[a], r) BY <1>2, <1>4, <1>7, BlockTasksAssumption DEF RowGood, Exhausted, Row
  <1>10. QED BY <1>4, <1>5, <1>6, <1>8, <1>9, DispatcherWrites

\* A retry that a worker has recorded is dated in the future.
LEMMA FailedAwaits ==
    ASSUME RetriesWait, NEW c \in Row, TaskCanRetry(Failed(c))
    PROVE  RetryRow(Failed(c))
  <1> DEFINE n == c.attempt_count + 1
  <1>1. n < MaxAttemptLimit /\ n \in Nat BY FailedFacts DEF Row
  <1>2. RetryDelay(n) \in Int /\ RetryDelay(n) > 0
    BY <1>1, BlockTasksAssumption DEF RetriesWait, RetryDelay
  <1> HIDE DEF n
  <1>3. Failed(c).next_retry_at = RetryDelay(n) BY <1>1, FailedFacts DEF n
  <1>4. Failed(c).attempt_count = n BY FailedFacts DEF n
  <1>5. Failed(c).status = "failed" /\ Failed(c).updated_at = 0 BY FailedFacts
  <1> HIDE DEF Failed
  <1>6. QED BY <1>1, <1>2, <1>3, <1>4, <1>5 DEF RetryRow

\* The transaction of a worker commits what it made of the row it locked.
LEMMA CommitFresh ==
    ASSUME TypeInv, CopiesFresh, NEW w \in Workers, proc[w].pc = "running", NEW r \in Row,
           Commit(w, r), OnlyMoves(w), r.status # "absent",
           r.attempt_count >= proc[w].copy.attempt_count,
           proc'[w].pc = "idle" \/ (/\ proc'[w].pc = "failed" /\ proc'[w].att = proc[w].att
                                   /\ AwaitsRetry(proc'[w], r))
    PROVE  CopiesFresh' /\ RowsGood
  <1> DEFINE a == proc[w].att
  <1>0. w \in Procs BY DEF Procs
  <1>1. a \in Attempts /\ row[a] \in Row /\ lock \in [Attempts -> Optional(Workers)]
    BY <1>0, ProcFacts DEF TypeInv, TypeOK
  <1>2. lock[a] = w /\ row[a].status = "pending" /\ proc[w].copy.attempt_count = row[a].attempt_count
    BY <1>1 DEF CopiesFresh, RunHoldsRow, RunsOn, Row
  <1>3. row' = [row EXCEPT ![a] = r] /\ lock' = [lock EXCEPT ![a] = None] /\ lock'[a] = None
    BY <1>1 DEF Commit
  <1> HIDE DEF a
  <1>4. RowGood(row[a], r) /\ NewIfAbsent(r) BY <1>2 DEF RowGood, Exhausted, NewIfAbsent
  <1>5. \A v \in Workers : v # w /\ proc[v].att = a => proc[v].pc \notin {"running", "failed"}
    BY <1>2 DEF CopiesFresh, RunHoldsRow, RetryIsNext, AwaitsRetry, RetryRow
  <1>6. \A d \in Dispatchers : d # w /\ proc[d].att = a => proc[d].pc # "reopen"
    BY <1>2 DEF CopiesFresh, ReopenIsFresh, MayReopen, Due
  <1>7. proc'[w].pc \notin {"running", "reopen"} /\ (proc'[w].pc = "failed" => proc'[w].att = a)
    BY DEF a
  <1>8. QED BY <1>0, <1>1, <1>3, <1>4, <1>5, <1>6, <1>7, WriteFresh DEF a

\* A process that ends what it does, with no row written, gives up the lock with the copy.
LEMMA EndFresh ==
    ASSUME TypeInv, CopiesFresh, NEW p \in Procs, UNCHANGED row, Done(p),
           lock' = [a \in Attempts |-> IF lock[a] = p THEN None ELSE lock[a]]
    PROVE  CopiesFresh' /\ RowsGood
  <1> USE DEF Procs
  <1>1. RowsGood BY DEF RowsGood, RowGood, TypeInv, TypeOK, Row, Exhausted
  <1>2. UNCHANGED row /\ proc'[p].pc = "idle" /\ OnlyMoves(p) BY MoveOnly, IdleFacts DEF Done
  <1>3. \A a \in Attempts : lock'[a] = IF lock[a] = p THEN None ELSE lock[a] OBVIOUS
  <1>4. /\ \A b \in Attempts : lock[b] # None => lock[b] \in Workers
        /\ \A q \in Procs : proc[q].pc # "idle" => proc[q].att \in Attempts
    BY DEF TypeInv, TypeOK, Optional
  <1>5. AbsentIsNew' BY <1>2 DEF CopiesFresh, AbsentIsNew
  <1>6. LockIsHeld' BY <1>2, <1>3, <1>4 DEF CopiesFresh, LockIsHeld, OnlyMoves
  <1>7. RunHoldsRow'
    <2>1. ASSUME NEW v \in Workers, v # p, proc[v].pc = "running" PROVE lock'[proc[v].att] = v
      BY <2>1, <1>3, <1>4 DEF CopiesFresh, RunHoldsRow
    <2>2. QED BY <1>2, <2>1 DEF CopiesFresh, RunHoldsRow, OnlyMoves
  <1>8. RetryIsNext' BY <1>2 DEF CopiesFresh, RetryIsNext, OnlyMoves
  <1>9. OneRetries' BY <1>2 DEF CopiesFresh, OneRetries, OnlyMoves
  <1>10. ReopenIsFresh' BY <1>2 DEF CopiesFresh, ReopenIsFresh, OnlyMoves
  <1>11. QED BY <1>1, <1>5, <1>6, <1>7, <1>8, <1>9, <1>10 DEF CopiesFresh

\* Workers
LEMMA WorkerFresh ==
    ASSUME TypeInv, CopiesFresh, RetriesWait, NEW w \in Workers, WorkerStep(w)
    PROVE  CopiesFresh' /\ RowsGood
  <1> DEFINE a == proc[w].att
             c == proc[w].copy
  <1>0. w \in Procs BY DEF Procs
  <1>1. proc[w].pc # "idle" BY DEF At, WorkerStep, FinishSuccess, FinishFailure, Rollback, ScheduleRetry
  <1>2. a \in Attempts /\ row[a] \in Row /\ c \in Row BY <1>0, <1>1, ProcFacts
  <1> HIDE DEF a, c
  <1>3. ASSUME NEW pc, NEW r, Continue(w, pc, r)
        PROVE  /\ proc'[w].pc = pc /\ proc'[w].copy = r /\ proc'[w].att = a /\ OnlyMoves(w)
    <2>1. PICK k : proc' = [proc EXCEPT ![w] = k] /\ k.pc = pc /\ k.copy = r /\ k.att = a
      BY <1>0, <1>3, ContinueFacts DEF a
    <2>2. QED BY <1>0, <2>1, MoveOnly
  <1>4. ASSUME Done(w) PROVE proc'[w].pc = "idle" /\ OnlyMoves(w)
    BY <1>0, <1>4, MoveOnly, IdleFacts DEF Done
  <1>5. CASE FinishSuccess(w)
    <2> DEFINE r == Succeeded(c)
    <2>1. Commit(w, r) /\ Done(w) /\ proc[w].pc = "running" BY <1>5 DEF FinishSuccess, At, c
    <2>2. r \in Row /\ r.status = "success" /\ r.attempt_count = c.attempt_count BY <1>2, SavedFacts
    <2> HIDE DEF r
    <2>3. r.attempt_count >= c.attempt_count BY <2>2, <1>2 DEF Row
    <2>4. QED BY <1>4, <2>1, <2>2, <2>3, CommitFresh DEF c
  <1>6. CASE FinishFailure(w)
    <2> DEFINE r == Failed(c)
    <2>1. Commit(w, r) /\ proc[w].pc = "running" BY <1>6 DEF FinishFailure, At, c
    <2>2. (TaskCanRetry(r) /\ Continue(w, "failed", r)) \/ Done(w) BY <1>6 DEF FinishFailure, c
    <2>3. r \in Row /\ r.status = "failed" /\ r.attempt_count = c.attempt_count + 1 BY <1>2, FailedFacts
    <2>4. TaskCanRetry(r) => RetryRow(r) BY <1>2, FailedAwaits
    <2> HIDE DEF r
    <2>5. r.attempt_count >= c.attempt_count BY <2>3, <1>2 DEF Row
    <2>6. OnlyMoves(w) /\ (proc'[w].pc = "idle" \/ (/\ proc'[w].pc = "failed" /\ proc'[w].att = a
                                                   /\ AwaitsRetry(proc'[w], r)))
      BY <1>3, <1>4, <2>2, <2>4 DEF AwaitsRetry
    <2>7. QED BY <2>1, <2>3, <2>5, <2>6, CommitFresh DEF a, c
  <1>7. CASE ScheduleRetry(w)
    <2> DEFINE r == BackToPending(c)
    <2>1. Save(a, r) /\ Continue(w, "requeued", r) /\ proc[w].pc = "failed" /\ UNCHANGED lock
      BY <1>7 DEF ScheduleRetry, At, a, c
    <2>2. r \in Row /\ r.status = "pending" /\ r.attempt_count = c.attempt_count BY <1>2, SavedFacts
    <2>3. row[a] = c /\ RetryRow(c) BY <2>1 DEF CopiesFresh, RetryIsNext, AwaitsRetry, a, c
    <2> HIDE DEF r
    <2>4. RowGood(row[a], r) /\ NewIfAbsent(r)
      BY <1>2, <2>2, <2>3, BlockTasksAssumption DEF RowGood, NewIfAbsent, RetryRow, Exhausted, Row
    <2>5. proc'[w].pc = "requeued" /\ OnlyMoves(w) BY <1>3, <2>1
    <2>6. \A v \in Workers : v # w /\ proc[v].att = a => proc[v].pc \notin {"running", "failed"}
      <3>1. lock[a] = None BY <2>1 DEF Save
      <3>2. QED BY <1>2, <2>1, <3>1, Unlocked DEF CopiesFresh, OneRetries, a
    <2>7. \A d \in Dispatchers : d # w /\ proc[d].att = a => proc[d].pc # "reopen"
      <3>1. ~Due(row[a]) /\ row[a].status # "absent"
        BY <2>3, BlockTasksAssumption DEF Due, NullOrBefore, RetryRow
      <3>2. QED BY <3>1 DEF CopiesFresh, ReopenIsFresh, MayReopen
    <2>8. lock'[a] = None /\ row' = [row EXCEPT ![a] = r] BY <2>1 DEF Save
    <2>9. QED BY <1>0, <1>2, <2>1, <2>2, <2>4, <2>5, <2>6, <2>7, <2>8, WriteFresh
  <1>8. CASE Rollback(w)
    <2>1. /\ UNCHANGED row /\ Done(w) /\ proc[w].pc = "running"
          /\ lock' = [lock EXCEPT ![a] = None]
      BY <1>8 DEF Rollback, At, a
    <2>2. lock \in [Attempts -> Optional(Workers)] BY DEF TypeInv, TypeOK
    <2>3. lock[a] = w /\ \A b \in Attempts : lock[b] = w => b = a
      BY <2>1, BlockTasksAssumption DEF CopiesFresh, RunHoldsRow, LockIsHeld, a
    <2>4. lock' = [b \in Attempts |-> IF lock[b] = w THEN None ELSE lock[b]] BY <2>1, <2>2, <2>3
    <2>5. QED BY <1>0, <2>1, <2>4, EndFresh
  <1>9. QED BY <1>5, <1>6, <1>7, <1>8 DEF WorkerStep

\* A message is delivered: the worker holds the row it locked.
LEMMA ReceiveFresh ==
    ASSUME TypeInv, CopiesFresh, NEW w \in Workers, NEW m \in Ids, Receive(w, m)
    PROVE  CopiesFresh' /\ RowsGood
  <1> USE DEF Procs
  <1> DEFINE a == broker[m].att
             c == [pc |-> "running", att |-> a, copy |-> [row[a] EXCEPT !.status = "running"]]
  <1>1. RowsGood BY DEF Receive, RowsGood, RowGood, TypeInv, TypeOK, Row, Exhausted
  <1>2. UNCHANGED row /\ proc[w].pc = "idle" BY DEF Receive, At
  <1>3. CASE UNCHANGED <<lock, proc>>
    BY <1>1, <1>2, <1>3 DEF CopiesFresh, AbsentIsNew, LockIsHeld, RunHoldsRow, RetryIsNext, OneRetries,
                            ReopenIsFresh
  <1>4. CASE /\ lock[a] = None /\ row[a].status = "pending" /\ lock' = [lock EXCEPT ![a] = w]
             /\ proc' = [proc EXCEPT ![w] = c]
    <2>1. a \in Attempts BY BlockTasksAssumption DEF Receive, TypeInv, TypeOK, Optional, Message
    <2>2. /\ c.pc = "running" /\ c.att = a /\ c.copy = [row[a] EXCEPT !.status = "running"] OBVIOUS
    <2> HIDE DEF a, c
    <2>3. proc'[w] = c /\ OnlyMoves(w) BY <1>4, MoveOnly
    <2>4. lock'[a] = w /\ \A b \in Attempts : b # a => lock'[b] = lock[b]
      BY <1>4, <2>1 DEF TypeInv, TypeOK
    <2>5. /\ \A b \in Attempts : lock[b] # None => lock[b] \in Workers
          /\ \A p \in Procs : proc[p].pc # "idle" => proc[p].att \in Attempts
      BY DEF TypeInv, TypeOK, Optional
    <2>6. AbsentIsNew' BY <1>2 DEF CopiesFresh, AbsentIsNew
    <2>7. LockIsHeld' BY <1>2, <2>2, <2>3, <2>4, <2>5 DEF CopiesFresh, LockIsHeld, OnlyMoves
    <2>8. RunHoldsRow'
      <3>1. RunsOn(c, row[a]) BY <1>4, <2>2 DEF RunsOn
      <3>2. ASSUME NEW v \in Workers, v # w, proc[v].pc = "running" PROVE lock'[proc[v].att] = v
        <4>1. lock[proc[v].att] = v /\ proc[v].att \in Attempts BY <3>2, <2>5 DEF CopiesFresh, RunHoldsRow
        <4>2. QED BY <4>1, <1>4, <2>4, BlockTasksAssumption
      <3>3. QED BY <1>2, <2>2, <2>3, <2>4, <3>1, <3>2 DEF CopiesFresh, RunHoldsRow, OnlyMoves
    <2>9. RetryIsNext' BY <1>2, <2>2, <2>3 DEF CopiesFresh, RetryIsNext, OnlyMoves
    <2>10. OneRetries' BY <2>2, <2>3 DEF CopiesFresh, OneRetries, OnlyMoves
    <2>11. ReopenIsFresh' BY <1>2, <2>2, <2>3, BlockTasksAssumption DEF CopiesFresh, ReopenIsFresh, OnlyMoves
    <2>12. QED BY <1>1, <2>6, <2>7, <2>8, <2>9, <2>10, <2>11 DEF CopiesFresh
  <1>5. QED BY <1>3, <1>4 DEF Receive

\* A crash gives up the lock with the copy.
LEMMA CrashFresh ==
    ASSUME TypeInv, CopiesFresh, NEW p \in Procs, Crash(p)
    PROVE  CopiesFresh' /\ RowsGood
  BY EndFresh DEF Crash

\* The cleanup deletes no row that a worker is about to save: those were just written.
LEMMA CleanupFresh ==
    ASSUME TypeInv, CopiesFresh, NEW a \in Attempts, CleanupOldTasks(a)
    PROVE  CopiesFresh' /\ RowsGood
  <1>1. PICK p : p \notin Procs BY NoSetContainsEverything
  <1>2. /\ row' = [row EXCEPT ![a] = AbsentRow] /\ lock[a] = None /\ UNCHANGED <<lock, proc>>
        /\ CleanupAge # None /\ row[a].updated_at < -CleanupAge
    BY DEF CleanupOldTasks, Save
  <1>3. OnlyMoves(p) BY <1>2 DEF OnlyMoves
  <1>4. AbsentRow \in Row /\ AbsentRow.status = "absent" /\ AbsentRow.attempt_count = 0
    BY IdleFacts DEF AbsentRow, Proc
  <1>5. RowGood(row[a], AbsentRow) /\ NewIfAbsent(AbsentRow) BY <1>4 DEF RowGood, NewIfAbsent
  <1>6. ~RetryRow(row[a]) BY <1>2, BlockTasksAssumption DEF RetryRow, Optional
  <1>7. \A w \in Workers : proc[w].att = a => proc[w].pc \notin {"running", "failed"}
    BY <1>2, <1>6, Unlocked
  <1>8. QED BY <1>1, <1>2, <1>3, <1>4, <1>5, <1>7, WriteFresh

\* A second passes for the row and for the copies of it alike.
LEMMA TickFresh ==
    ASSUME TypeInv, CopiesFresh, PromptWorkers, Tick
    PROVE  CopiesFresh' /\ RowsGood
  <1> USE DEF Procs
  <1>1. \A a \in Attempts : row[a] \in Row /\ row'[a] = AgeRow(row[a]) BY DEF Tick, TypeInv, TypeOK
  <1>2. /\ UNCHANGED lock
        /\ \A p \in Procs : /\ proc'[p].pc = proc[p].pc /\ proc'[p].att = proc[p].att
                            /\ proc'[p].copy = AgeRow(proc[p].copy)
    BY DEF Tick, TypeInv, TypeOK, Proc
  <1>3. /\ \A b \in Attempts : lock[b] # None => lock[b] \in Workers
        /\ \A q \in Procs : proc[q].pc # "idle" => proc[q].att \in Attempts
    BY DEF TypeInv, TypeOK, Optional
  <1>4. AbsentIsNew' BY <1>1, AgeRowFacts DEF CopiesFresh, AbsentIsNew, NewIfAbsent
  <1>5. LockIsHeld' BY <1>2, <1>3 DEF CopiesFresh, LockIsHeld
  <1>6. RunHoldsRow'
    <2>1. SUFFICES ASSUME NEW w \in Workers, proc[w].pc = "running"
                   PROVE  lock[proc[w].att] = w /\ RunsOn(proc'[w], row'[proc[w].att])
      BY <1>2 DEF RunHoldsRow
    <2> DEFINE r == row[proc[w].att]
    <2>2. r \in Row /\ row'[proc[w].att] = AgeRow(r) BY <1>1, <1>3, <2>1
    <2>3. lock[proc[w].att] = w /\ r.status = "pending" /\ proc[w].copy = [r EXCEPT !.status = "running"]
      BY <2>1 DEF CopiesFresh, RunHoldsRow, RunsOn
    <2> HIDE DEF r
    <2>4. AgeRow([r EXCEPT !.status = "running"]) = [AgeRow(r) EXCEPT !.status = "running"]
      BY <2>2 DEF AgeRow, Row
    <2>5. AgeRow(r).status = "pending" BY <2>2, <2>3, AgeRowFacts
    <2>6. proc'[w].copy = [AgeRow(r) EXCEPT !.status = "running"] BY <1>2, <2>3, <2>4
    <2>7. QED BY <2>2, <2>3, <2>5, <2>6 DEF RunsOn
  <1>7. \A w \in Workers : proc'[w].pc # "failed" BY <1>2 DEF Tick, PromptWorkers
  <1>8. RetryIsNext' /\ OneRetries' BY <1>7 DEF RetryIsNext, OneRetries
  <1>9. ReopenIsFresh'
    <2>1. SUFFICES ASSUME NEW d \in Dispatchers, proc[d].pc = "reopen"
                   PROVE  MayReopen(proc'[d], row'[proc[d].att])
      BY <1>2 DEF ReopenIsFresh
    <2> DEFINE r == row[proc[d].att]
    <2>2. r \in Row /\ row'[proc[d].att] = AgeRow(r) BY <1>1, <1>3, <2>1
    <2>3. r.status = "absent" \/ (r = proc[d].copy /\ Due(r))
      BY <2>1 DEF CopiesFresh, ReopenIsFresh, MayReopen
    <2>4. proc'[d].copy = AgeRow(proc[d].copy) BY <1>2
    <2> HIDE DEF r
    <2>5. Due(r) => Due(AgeRow(r))
      <3>1. r.next_retry_at \in Instant BY <2>2 DEF Row
      <3>2. NullOrBefore(r.next_retry_at, 1) => NullOrBefore(Age(r.next_retry_at), 1)
        BY <3>1, BlockTasksAssumption DEF NullOrBefore, Age, Instant, Optional
      <3>3. QED BY <2>2, <3>2, AgeRowFacts DEF Due, TaskCanRetry
    <2>6. QED BY <2>2, <2>3, <2>4, <2>5, AgeRowFacts DEF MayReopen
  <1>10. RowsGood BY <1>1, AgeRowFacts DEF RowsGood, RowGood, Exhausted, Row
  <1>11. QED BY <1>4, <1>5, <1>6, <1>8, <1>9, <1>10 DEF CopiesFresh

\* Messages that are sent or lost, submissions, the end of the faults
LEMMA OthersFresh ==
    ASSUME TypeInv, CopiesFresh,
           \/ \E d \in Dispatchers, a \in Attempts : Submit(d, a)
           \/ \E p \in Procs : SendStep(p)
           \/ \E m \in Ids : LoseMessage(m)
           \/ Stabilise
           \/ UNCHANGED vars
    PROVE  CopiesFresh' /\ RowsGood
  <1>1. ASSUME NEW d \in Dispatchers, NEW a \in Attempts, Submit(d, a) PROVE CopiesFresh' /\ RowsGood
    <2> DEFINE c == [IdleProc EXCEPT !.pc = "submit", !.att = a]
    <2>0. d \in Procs BY DEF Procs
    <2>1. c.pc = "submit" BY IdleFacts DEF Proc
    <2>2. /\ proc' = [proc EXCEPT ![d] = c] /\ proc[d].pc = "idle" /\ UNCHANGED <<row, lock>>
      BY <1>1 DEF Submit, At
    <2> HIDE DEF c
    <2>3. proc'[d].pc = "submit" /\ OnlyMoves(d) BY <2>0, <2>1, <2>2, MoveOnly
    <2>4. QED BY <2>0, <2>2, <2>3, MoveFresh
  <1>2. ASSUME NEW p \in Procs, SendStep(p) PROVE CopiesFresh' /\ RowsGood
    <2>1. Done(p) /\ proc[p].pc # "running" /\ UNCHANGED <<row, lock>>
      BY <1>2 DEF SendStep, Send, SendFails
    <2>2. proc'[p].pc = "idle" /\ OnlyMoves(p) BY <2>1, MoveOnly, IdleFacts DEF Done
    <2>3. QED BY <2>1, <2>2, MoveFresh
  <1>3. ASSUME UNCHANGED <<row, lock, proc>> PROVE CopiesFresh' /\ RowsGood
    <2>1. RowsGood BY <1>3 DEF RowsGood, RowGood, TypeInv, TypeOK, Row, Exhausted
    <2>2. QED BY <1>3, <2>1 DEF CopiesFresh, AbsentIsNew, LockIsHeld, RunHoldsRow, RetryIsNext, OneRetries,
                                ReopenIsFresh
  <1>4. QED BY <1>1, <1>2, <1>3 DEF LoseMessage, Stabilise, vars

\* Every step
LEMMA EveryStepFresh ==
    ASSUME TypeInv, CopiesFresh, OneDispatcher, PromptWorkers, RetriesWait, [Next \/ Stabilise]_vars
    PROVE  CopiesFresh' /\ RowsGood
  <1>1. CASE \E d \in Dispatchers : ExecuteStep(d) \/ Sweep(d) BY <1>1, ExecuteFresh, SweepFresh
  <1>2. CASE \E w \in Workers : WorkerStep(w) \/ \E m \in Ids : Receive(w, m)
    BY <1>2, WorkerFresh, ReceiveFresh
  <1>3. CASE \E p \in Procs : Crash(p) BY <1>3, CrashFresh
  <1>4. CASE \E a \in Attempts : CleanupOldTasks(a) BY <1>4, CleanupFresh
  <1>5. CASE \/ \E d \in Dispatchers, a \in Attempts : Submit(d, a)
             \/ \E p \in Procs : SendStep(p)
             \/ \E m \in Ids : LoseMessage(m)
             \/ Stabilise
             \/ UNCHANGED vars
    BY <1>5, OthersFresh
  <1>6. CASE Tick BY <1>6, TickFresh
  <1>7. QED BY <1>1, <1>2, <1>3, <1>4, <1>5, <1>6, BlockTasksAssumption DEF Next

\* Init establishes the invariant.
LEMMA FreshInit == ASSUME Init PROVE TypeInv /\ CopiesFresh
  <1>1. TypeInv BY DecidedInit DEF DecidedInv
  <1>2. \A p \in Procs : proc[p].pc = "idle" BY IdleFacts DEF Init
  <1>3. \A a \in Attempts : row[a].attempt_count = 0 /\ lock[a] = None BY DEF Init, AbsentRow
  <1>4. QED BY <1>1, <1>2, <1>3 DEF Procs, CopiesFresh, AbsentIsNew, NewIfAbsent, LockIsHeld, RunHoldsRow,
                                    RetryIsNext, OneRetries, ReopenIsFresh

\* Every step keeps it.
LEMMA FreshStep ==
    ASSUME OneDispatcher, PromptWorkers, RetriesWait,
           TypeInv /\ CopiesFresh, [Next \/ Stabilise]_vars
    PROVE  (TypeInv /\ CopiesFresh)' /\ RowsGood
  <1>1. StepOK BY EveryStepOK
  <1>2. TypeInv' BY <1>1 DEF StepOK, RowsStep, ProcsOK, TypeInv, TypeOK
  <1>3. QED BY <1>2, EveryStepFresh

\* With one dispatching process nothing runs an attempt again that succeeded: no save() of a
\* row read earlier writes over the SUCCESS a worker committed since.  The run lost_update
\* shows what a second dispatching process does.
THEOREM SuccessStays ==
    ASSUME OneDispatcher, PromptWorkers, RetriesWait
    PROVE  Spec \/ FairSpec => SuccessIsFinal
  <1> DEFINE Good == \A a \in Attempts :
                 row[a].status = "success" => row'[a].status \in {"success", "absent"}
  <1>1. ASSUME TypeInv /\ CopiesFresh, [Next \/ Stabilise]_vars PROVE (TypeInv /\ CopiesFresh)' /\ [Good]_vars
    BY <1>1, FreshStep DEF RowsGood, RowGood
  <1>2. QED BY <1>1, FreshInit, PTL DEF Spec, FairSpec, SuccessIsFinal

\* Under the same conditions no save() takes back a try that was counted, and an attempt
\* without tries left stays failed until it is cleaned up.
THEOREM TriesStay ==
    ASSUME OneDispatcher, PromptWorkers, RetriesWait
    PROVE  Spec \/ FairSpec => TriesAreKept
  <1> DEFINE Good == \A a \in Attempts :
                 row'[a].status # "absent" =>
                     /\ row'[a].attempt_count >= row[a].attempt_count
                     /\ Exhausted(row[a]) => row'[a].status = "failed"
  <1>1. ASSUME TypeInv /\ CopiesFresh, [Next \/ Stabilise]_vars PROVE (TypeInv /\ CopiesFresh)' /\ [Good]_vars
    BY <1>1, FreshStep DEF RowsGood, RowGood
  <1>2. QED BY <1>1, FreshInit, PTL DEF Spec, FairSpec, TriesAreKept
=============================================================================
