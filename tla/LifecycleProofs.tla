--------------------------- MODULE LifecycleProofs ---------------------------
(***************************************************************************)
(* QueueTasks implements AttemptLifecycle, for every value of the          *)
(* constants under which workers are killed before their lease can be      *)
(* taken over.  A statement changes one row, hence one phase; a process    *)
(* starts or ends one execution; and LeaseInv says that the row a sweep or *)
(* a claim takes is executed by nobody.                                    *)
(***************************************************************************)
EXTENDS QueueTasksProofs

-----------------------------------------------------------------------------
(* What the statements do to the phase and the tries of a row *)

\* Only a claim counts a try, and each statement moves the phase as its name says.
LEMMA RowPhases ==
    ASSUME NEW r \in Row, RowDecided(r), NEW now \in Int
    PROVE  /\ Phase(AgeRow(r)) = Phase(r) /\ AgeRow(r).attempt_count = r.attempt_count
           /\ \A seconds : /\ Phase(SetGiveUpDeadlineSet(r, seconds)) = Phase(r)
                           /\ SetGiveUpDeadlineSet(r, seconds).attempt_count = r.attempt_count
           /\ \A q : /\ Phase(RecordDispatchSet(r, q, now)) = Phase(r)
                     /\ RecordDispatchSet(r, q, now).attempt_count = r.attempt_count
           /\ \A q : RequeueWhere(r) => /\ Phase(RequeueSet(r, q, now)) = Phase(r)
                                        /\ RequeueSet(r, q, now).attempt_count = r.attempt_count
           /\ ReopenWhere(r) => /\ Phase(ReopenSet(r, now)) = Phase(r)
                                /\ ReopenSet(r, now).attempt_count = r.attempt_count
           /\ /\ Phase(ClaimExpiredMessageSet(r, now)) = Phase(r)
              /\ ClaimExpiredMessageSet(r, now).attempt_count = r.attempt_count
           /\ ResetToPendingSet(r, now).attempt_count = r.attempt_count
           /\ FinishSuccessSet(r, now).attempt_count = r.attempt_count
           /\ Phase(FinishSuccessSet(r, now)) = "success"
           /\ \A reason \in GiveUpReasons : CouldStillRun(r) =>
                  /\ Phase(r) = "open" /\ Phase(GiveUpSet(r, reason, now)) = "given_up"
                  /\ GiveUpSet(r, reason, now).attempt_count = r.attempt_count
           /\ \A delay : /\ Phase(FailureSet(r, delay, now)) \in {"open", "given_up"}
                         /\ FailureSet(r, delay, now).attempt_count = r.attempt_count
           /\ r.status = "running" => Phase(r) = "running"
           /\ \A token, limit : ClaimWhere(r) =>
                  /\ Phase(r) = "open" /\ Phase(ClaimSet(r, token, limit, now)) = "running"
                  /\ ClaimSet(r, token, limit, now).attempt_count = r.attempt_count + 1
  <1>1. Phase(AgeRow(r)) = Phase(r) /\ AgeRow(r).attempt_count = r.attempt_count
    BY DEF AgeRow, Row, Phase
  <1>2. ASSUME NEW seconds
        PROVE  /\ Phase(SetGiveUpDeadlineSet(r, seconds)) = Phase(r)
               /\ SetGiveUpDeadlineSet(r, seconds).attempt_count = r.attempt_count
    BY DEF SetGiveUpDeadlineSet, Row, Phase
  <1>3. ASSUME NEW q
        PROVE  /\ Phase(RecordDispatchSet(r, q, now)) = Phase(r)
               /\ RecordDispatchSet(r, q, now).attempt_count = r.attempt_count
    BY DEF RecordDispatchSet, Row, Phase
  <1>4. ASSUME NEW q, RequeueWhere(r)
        PROVE  /\ Phase(RequeueSet(r, q, now)) = Phase(r)
               /\ RequeueSet(r, q, now).attempt_count = r.attempt_count
    BY <1>4 DEF RequeueSet, RequeueWhere, Row, Phase
  <1>5. ReopenWhere(r) => /\ Phase(ReopenSet(r, now)) = Phase(r)
                          /\ ReopenSet(r, now).attempt_count = r.attempt_count
    BY DEF ReopenSet, ReopenWhere, Row, Phase
  <1>6. /\ Phase(ClaimExpiredMessageSet(r, now)) = Phase(r)
        /\ ClaimExpiredMessageSet(r, now).attempt_count = r.attempt_count
    BY DEF ClaimExpiredMessageSet, Row, Phase
  <1>7. ResetToPendingSet(r, now).attempt_count = r.attempt_count
    BY DEF ResetToPendingSet, Row
  <1>8. FinishSuccessSet(r, now).attempt_count = r.attempt_count /\ Phase(FinishSuccessSet(r, now)) = "success"
    BY DEF FinishSuccessSet, Row, Phase
  <1>9. ASSUME NEW reason \in GiveUpReasons, CouldStillRun(r)
        PROVE  /\ Phase(r) = "open" /\ Phase(GiveUpSet(r, reason, now)) = "given_up"
               /\ GiveUpSet(r, reason, now).attempt_count = r.attempt_count
    <2>1. reason # None BY ConstantsAssumption DEF GiveUpReasons
    <2>2. QED BY <1>9, <2>1 DEF CouldStillRun, GiveUpSet, Row, Phase
  <1>10. ASSUME NEW delay
         PROVE  /\ Phase(FailureSet(r, delay, now)) \in {"open", "given_up"}
                /\ FailureSet(r, delay, now).attempt_count = r.attempt_count
    BY DEF FailureSet, Row, Phase
  <1>11. r.status = "running" => Phase(r) = "running" BY DEF Phase
  <1>12. ASSUME NEW token, NEW limit, ClaimWhere(r)
         PROVE  /\ Phase(r) = "open" /\ Phase(ClaimSet(r, token, limit, now)) = "running"
                /\ ClaimSet(r, token, limit, now).attempt_count = r.attempt_count + 1
    <2>1. r.give_up_reason = None BY <1>12 DEF RowDecided, ClaimWhere
    <2>2. QED BY <1>12, <2>1 DEF ClaimWhere, ClaimSet, Row, Phase
  <1>13. QED
    BY <1>1, <1>2, <1>3, <1>4, <1>5, <1>6, <1>7, <1>8, <1>9, <1>10, <1>11, <1>12

\* A stuck row is open or running, and waits for a worker after its reset.
LEMMA StuckPhase ==
    ASSUME NEW r \in Row, RowDecided(r), NEW now \in Int, IsStuck(r, now)
    PROVE  Phase(r) \in {"open", "running"} /\ Phase(ResetToPendingSet(r, now)) = "open"
  <1>1. r.status \in {"pending", "running", "failed"} BY DEF IsStuck
  <1>2. r.status = "failed" => r.next_retry_at # None BY DEF IsStuck, Before
  <1>3. r.give_up_reason = None BY <1>1, <1>2 DEF RowDecided
  <1>4. /\ ResetToPendingSet(r, now).status = "pending"
        /\ ResetToPendingSet(r, now).give_up_reason = r.give_up_reason
    BY DEF ResetToPendingSet, Row
  <1>5. QED BY <1>1, <1>3, <1>4 DEF Phase

-----------------------------------------------------------------------------
(* What a step does to the abstract variables *)

LifecycleStep == Lifecycle!Next \/ UNCHANGED Lifecycle!vars

\* Without an UPDATE, phases and tries stay.
LEMMA SameRow == ASSUME UNCHANGED row PROVE UNCHANGED <<Phases, Tries>>
  BY DEF Phases, Tries

\* An UPDATE moves one phase and one count.
LEMMA UpdateRow ==
    ASSUME TypeInv, NEW a \in Attempts, NEW r2, Update(a, r2)
    PROVE  /\ Phases' = [Phases EXCEPT ![a] = Phase(r2)] /\ Phases[a] = Phase(row[a])
           /\ Tries' = [Tries EXCEPT ![a] = r2.attempt_count] /\ Tries[a] = row[a].attempt_count
  <1>1. row \in [Attempts -> Row] /\ row' = [row EXCEPT ![a] = r2] BY DEF TypeInv, TypeOK, Update
  <1>2. \A b \in Attempts : row'[b] = IF b = a THEN r2 ELSE row[b] BY <1>1
  <1>3. Phases' = [b \in Attempts |-> IF b = a THEN Phase(r2) ELSE Phase(row[b])]
    BY <1>2 DEF Phases
  <1>4. Tries' = [b \in Attempts |-> IF b = a THEN r2.attempt_count ELSE row[b].attempt_count]
    BY <1>2 DEF Tries
  <1>5. QED BY <1>3, <1>4 DEF Phases, Tries

\* A statement that keeps phase and count is a stutter of both.
LEMMA KeptRow ==
    ASSUME TypeInv, NEW a \in Attempts, NEW r2, Update(a, r2), Phase(r2) = Phase(row[a]),
           r2.attempt_count = row[a].attempt_count
    PROVE  UNCHANGED <<Phases, Tries>>
  <1>1. \A b \in Attempts : Phase(row'[b]) = Phase(row[b]) /\ row'[b].attempt_count = row[b].attempt_count
    BY DEF Update, TypeInv, TypeOK
  <1>2. QED BY <1>1 DEF Phases, Tries

\* Nobody starts or ends an execution.
LEMMA SameRunners ==
    ASSUME \A w \in Workers : /\ Executing(w)' <=> Executing(w)
                              /\ Executing(w) => proc'[w].att = proc[w].att
    PROVE  UNCHANGED Runners
  <1>1. \A a \in Attempts, w \in Workers : ExecutingAttempt(w, a)' <=> ExecutingAttempt(w, a)
    BY DEF ExecutingAttempt
  <1>2. \A a \in Attempts : {w \in Workers : ExecutingAttempt(w, a)}' = {w \in Workers : ExecutingAttempt(w, a)}
    BY <1>1
  <1>3. QED BY <1>2 DEF Runners

\* A process that executes nothing before and after its step
LEMMA QuietMove ==
    ASSUME TypeInv, NEW p \in Procs, NEW c, proc' = [proc EXCEPT ![p] = c],
           p \in Workers => ~Executing(p) /\ c.pc \notin {"claimed", "running"}
    PROVE  UNCHANGED Runners
  <1>1. \A w \in Workers : proc'[w] = IF w = p THEN c ELSE proc[w] BY DEF TypeInv, TypeOK, Procs
  <1>2. \A w \in Workers : /\ Executing(w)' <=> Executing(w)
                           /\ Executing(w) => proc'[w].att = proc[w].att
    BY <1>1 DEF Executing
  <1>3. QED BY <1>2, SameRunners

\* The only worker on an attempt stops.
LEMMA StopMove ==
    ASSUME TypeInv, Leased, NEW p \in Workers, Executing(p), NEW c, proc' = [proc EXCEPT ![p] = c],
           c.pc \notin {"claimed", "running"}
    PROVE  /\ proc[p].att \in Attempts
           /\ Runners[proc[p].att] = {p}
           /\ Runners' = [Runners EXCEPT ![proc[p].att] = {}]
  <1> DEFINE a == proc[p].att
  <1>1. a \in Attempts BY ProcFacts DEF Procs, Executing
  <1>2. \A w \in Workers : proc'[w] = IF w = p THEN c ELSE proc[w] BY DEF TypeInv, TypeOK, Procs
  <1>3. \A w \in Workers : ExecutingAttempt(w, a) <=> w = p
    BY DEF Leased, Exclusive, ExecutingAttempt
  <1>4. \A b \in Attempts, w \in Workers :
            ExecutingAttempt(w, b)' <=> w # p /\ ExecutingAttempt(w, b)
    BY <1>2 DEF ExecutingAttempt, Executing
  <1>5. {w \in Workers : ExecutingAttempt(w, a)} = {p} BY <1>3
  <1>6. \A b \in Attempts : {w \in Workers : ExecutingAttempt(w, b)'} =
                            IF b = a THEN {} ELSE {w \in Workers : ExecutingAttempt(w, b)}
    <2> SUFFICES ASSUME NEW b \in Attempts
                 PROVE  {w \in Workers : ExecutingAttempt(w, b)'} =
                            IF b = a THEN {} ELSE {w \in Workers : ExecutingAttempt(w, b)}
      OBVIOUS
    <2>1. CASE b = a BY <1>3, <1>4, <2>1
    <2>2. CASE b # a
      <3>1. ~ExecutingAttempt(p, b) BY <2>2 DEF ExecutingAttempt
      <3>2. QED BY <1>4, <2>2, <3>1
    <2>3. QED BY <2>1, <2>2
  <1>7. Runners' = [b \in Attempts |-> IF b = a THEN {} ELSE {w \in Workers : ExecutingAttempt(w, b)}]
    BY <1>6 DEF Runners
  <1>8. QED BY <1>1, <1>5, <1>7 DEF Runners

\* Nobody executes an attempt a sweep may take, or that is not running.
LEMMA NoRunner ==
    ASSUME TypeInv, Leased, NEW a \in Attempts,
           \/ row[a].status # "running"
           \/ FailExpiredLeaseWhere(row[a])
           \/ \E now \in Int : IsStuck(row[a], now)
    PROVE  Runners[a] = {}
  <1>1. ASSUME NEW w \in Workers, ExecutingAttempt(w, a) PROVE FALSE
    <2>1. Executing(w) /\ proc[w].att = a BY <1>1 DEF ExecutingAttempt
    <2>2. row[a].status = "running" /\ ~FailExpiredLeaseWhere(row[a])
      BY <2>1, HeldRow, 0 \in Int
    <2>3. \A now \in Int : ~IsStuck(row[a], now) BY <2>1, HeldRow
    <2>4. QED BY <2>2, <2>3
  <1>2. QED BY <1>1 DEF Runners

-----------------------------------------------------------------------------
(* Abstract steps from what happened to phases, tries and runners *)

\* Nothing the abstract specification sees
LEMMA Stutter == ASSUME UNCHANGED <<Phases, Tries>>, UNCHANGED Runners PROVE LifecycleStep
  BY DEF LifecycleStep, Lifecycle!vars

\* A statement moves the phase of an attempt nobody starts or stops to execute.
LEMMA MovedPhase ==
    ASSUME TypeInv, NEW a \in Attempts, NEW r2, Update(a, r2), UNCHANGED Runners,
           r2.attempt_count = row[a].attempt_count,
           \/ Phase(row[a]) = "absent" /\ Phase(r2) = "open"
           \/ Phase(row[a]) = "open" /\ Phase(r2) = "given_up"
           \/ Phase(row[a]) = "running" /\ Runners[a] = {} /\ Phase(r2) \in {"open", "given_up"}
    PROVE  LifecycleStep
  <1>1. Phases' = [Phases EXCEPT ![a] = Phase(r2)] /\ Phases[a] = Phase(row[a]) BY UpdateRow
  <1>2. Tries' = Tries
    <2>1. \A b \in Attempts : row'[b].attempt_count = row[b].attempt_count
      BY DEF Update, TypeInv, TypeOK
    <2>2. QED BY <2>1 DEF Tries
  <1>3. CASE Phase(row[a]) = "absent" /\ Phase(r2) = "open"
    <2>1. Lifecycle!Record(a) BY <1>1, <1>2, <1>3 DEF Lifecycle!Record, Lifecycle!Move
    <2>2. QED BY <2>1 DEF LifecycleStep, Lifecycle!Next
  <1>4. CASE Phase(row[a]) = "open" /\ Phase(r2) = "given_up"
    <2>1. Lifecycle!GiveUp(a) BY <1>1, <1>2, <1>4 DEF Lifecycle!GiveUp, Lifecycle!Move
    <2>2. QED BY <2>1 DEF LifecycleStep, Lifecycle!Next
  <1>5. CASE Phase(row[a]) = "running" /\ Runners[a] = {} /\ Phase(r2) \in {"open", "given_up"}
    <2>1. Lifecycle!Recover(a) BY <1>1, <1>2, <1>5 DEF Lifecycle!Recover, Lifecycle!Move
    <2>2. QED BY <2>1 DEF LifecycleStep, Lifecycle!Next
  <1>6. QED BY <1>3, <1>4, <1>5

\* A worker is gone without an outcome.
LEMMA Stopped ==
    ASSUME TypeInv, Leased, NEW p \in Workers, Executing(p), NEW c, proc' = [proc EXCEPT ![p] = c],
           c.pc \notin {"claimed", "running"}, UNCHANGED row
    PROVE  LifecycleStep
  <1>1. Lifecycle!Stop(proc[p].att, p) BY StopMove, SameRow DEF Lifecycle!Stop
  <1>2. QED BY <1>1, StopMove DEF LifecycleStep, Lifecycle!Next

\* A process ends that executed or did not.
LEMMA Ended ==
    ASSUME TypeInv, Leased, NEW p \in Procs, Done(p), UNCHANGED row PROVE LifecycleStep
  <1>1. IdleProc.pc = "idle" /\ proc' = [proc EXCEPT ![p] = IdleProc] BY DEF Done, IdleProc
  <1>2. CASE p \in Workers /\ Executing(p) BY <1>1, <1>2, Stopped
  <1>3. CASE p \in Workers => ~Executing(p)
    <2>1. UNCHANGED Runners BY <1>1, <1>3, QuietMove
    <2>2. QED BY <2>1, SameRow, Stutter
  <1>4. QED BY <1>2, <1>3

\* A worker records its outcome.
LEMMA Finished ==
    ASSUME TypeInv, Leased, NEW p \in Workers, Executing(p), NEW c, proc' = [proc EXCEPT ![p] = c],
           c.pc \notin {"claimed", "running"}, NEW r2, Update(proc[p].att, r2),
           r2.attempt_count = row[proc[p].att].attempt_count,
           Phase(r2) \in {"success", "open", "given_up"}
    PROVE  LifecycleStep
  <1> DEFINE a == proc[p].att
  <1>1. /\ a \in Attempts /\ Runners[a] = {p}
        /\ Runners' = [Runners EXCEPT ![a] = {}]
    BY StopMove
  <1>2. Phases' = [Phases EXCEPT ![a] = Phase(r2)] /\ Phases[a] = Phase(row[a]) BY <1>1, UpdateRow
  <1>3. Phase(row[a]) = "running" BY DEF Leased, Protected, Phase
  <1>4. Tries' = Tries
    <2>1. \A b \in Attempts : row'[b].attempt_count = row[b].attempt_count
      BY <1>1 DEF Update, TypeInv, TypeOK
    <2>2. QED BY <2>1 DEF Tries
  <1>5. Lifecycle!Finish(a, p) BY <1>1, <1>2, <1>3, <1>4 DEF Lifecycle!Finish, Lifecycle!Move
  <1>6. QED BY <1>1, <1>5 DEF LifecycleStep, Lifecycle!Next

\* Statements that keep phase and count, by a process that executes nothing
LEMMA KeptStep ==
    ASSUME TypeInv, UNCHANGED Runners, NEW a \in Attempts, NEW r2, Update(a, r2),
           Phase(r2) = Phase(row[a]), r2.attempt_count = row[a].attempt_count
    PROVE  LifecycleStep
  BY KeptRow, Stutter

\* A process with another pc than those of a worker between claim and end executes nothing.
LEMMA NotExecuting ==
    ASSUME NEW p, proc[p].pc \notin {"claimed", "running"} PROVE ~Executing(p)
  BY DEF Executing

-----------------------------------------------------------------------------
(* One lemma per group of actions *)

\* A row that does not exist counts no tries.
Fresh == \A a \in Attempts : row[a].status = "absent" => row[a].attempt_count = 0

\* No statement brings a row out of existence, or counts a try of one that does not exist.
LEMMA FreshStep == TypeInv /\ Fresh /\ [Next]_vars => Fresh'
  <1> SUFFICES ASSUME TypeInv, Fresh, [Next]_vars, NEW a \in Attempts, row'[a].status = "absent"
               PROVE  row'[a].attempt_count = 0
    BY DEF Fresh
  <1> DEFINE r == row[a]
             r2 == row'[a]
  <1>1. r \in Row /\ RowStep(r, r2) BY NextOK DEF StepOK, RowsStep, TypeInv, TypeOK
  <1> HIDE DEF r2
  <1>2. r2.status = "absent" BY DEF r2
  <1>3. r.status = "absent" /\ r2.attempt_count = r.attempt_count
    <2>1. CASE r2 = r BY <1>2, <2>1
    <2>2. CASE r2 = AgeRow(r) BY <1>1, <1>2, <2>2 DEF AgeRow, Row
    <2>3. ASSUME NEW seconds \in Int, r2 = SetGiveUpDeadlineSet(r, seconds)
          PROVE  r.status = "absent" /\ r2.attempt_count = r.attempt_count
      BY <1>1, <1>2, <2>3 DEF SetGiveUpDeadlineSet, Row
    <2>4. ASSUME NEW now \in Int, NEW q \in Queues, r2 = RecordDispatchSet(r, q, now)
          PROVE  r.status = "absent" /\ r2.attempt_count = r.attempt_count
      BY <1>1, <1>2, <2>4 DEF RecordDispatchSet, Row
    <2>5. ASSUME NEW now \in Int, r2 = ClaimExpiredMessageSet(r, now)
          PROVE  r.status = "absent" /\ r2.attempt_count = r.attempt_count
      BY <1>1, <1>2, <2>5 DEF ClaimExpiredMessageSet, Row
    <2>6. ASSUME NEW now \in Int,
                 \/ r2 = CreatedRow(now) \/ r2 = ReopenSet(r, now)
                 \/ \E q \in Queues : r2 = RequeueSet(r, q, now)
                 \/ \E token \in Tokens, limit \in Optional(Nat \ {0}) : r2 = ClaimSet(r, token, limit, now)
                 \/ r2 = FinishSuccessSet(r, now)
                 \/ \E delay \in Optional(Nat) : r2 = FailureSet(r, delay, now)
                 \/ \E reason \in GiveUpReasons : r2 = GiveUpSet(r, reason, now)
                 \/ r2 = ResetToPendingSet(r, now)
          PROVE  FALSE
      BY <1>1, <1>2, <2>6 DEF CreatedRow, AbsentRow, ReopenSet, RequeueSet, ClaimSet, FinishSuccessSet,
         FailureSet, GiveUpSet, ResetToPendingSet, Row
    <2>7. QED BY <1>1, <2>1, <2>2, <2>3, <2>4, <2>5, <2>6 DEF RowStep
  <1>4. QED BY <1>3 DEF Fresh, r2

\* Steps of QueueExecutor.execute()
LEMMA ExecuteLifecycle ==
    ASSUME TypeInv, Decided, Leased, Fresh, NEW p \in Procs, ExecuteStep(p) PROVE LifecycleStep
  <1> DEFINE a == proc[p].att
  <1>1. /\ proc[p] \in Proc /\ proc \in [Procs -> Proc] /\ Skew[p] \in Int
        /\ proc[p].pc # "idle" => a \in Attempts /\ row[a] \in Row /\ RowDecided(row[a])
    BY ProcFacts DEF TypeInv, TypeOK, Decided
  <1>2. ASSUME NEW recorded, NEW eta
        PROVE  OpenedProc(p, recorded, eta).pc \in {"dated", "opened"}
    BY <1>1 DEF OpenedProc, Proc
  <1>3. ASSUME NEW pc, Goto(p, pc), pc \in {"dated", "agreed", "recorded"}, ~Executing(p)
        PROVE  UNCHANGED Runners
    <2>1. proc' = [proc EXCEPT ![p] = [proc[p] EXCEPT !.pc = pc]] BY <1>1, <1>3 DEF Goto
    <2>2. [proc[p] EXCEPT !.pc = pc].pc = pc BY <1>1 DEF Proc
    <2>3. QED BY <1>3, <2>1, <2>2, QuietMove
  <1>4. CASE Create(p)
    <2>1. proc[p].pc = "submit" /\ row[a].status = "absent" BY <1>4 DEF Create, At
    <2>2. UNCHANGED Runners BY <1>2, <1>4, <2>1, QuietMove, NotExecuting DEF Create
    <2>3. Phase(row[a]) = "absent" BY <2>1 DEF Phase
    <2>4. Phase(CreatedRow(Skew[p])) = "open" /\ CreatedRow(Skew[p]).attempt_count = row[a].attempt_count
      BY <1>1, <2>1 DEF CreatedRow, AbsentRow, Phase, Fresh
    <2>5. QED BY <1>1, <1>4, <2>1, <2>2, <2>3, <2>4, MovedPhase DEF Create
  <1>5. CASE Get(p)
    <2>1. proc[p].pc = "submit" /\ UNCHANGED row BY <1>5 DEF Get, At
    <2>2. CASE Done(p) BY <2>1, <2>2, Ended
    <2>3. CASE ~Done(p)
      <3> DEFINE r == row[a]
                 q == IF r.dispatch_queue = None THEN proc[p].queue ELSE r.dispatch_queue
                 c == [proc[p] EXCEPT !.pc = "reopen", !.queue = q, !.eta = r.next_retry_at]
      <3>1. \/ proc' = [proc EXCEPT ![p] = OpenedProc(p, r.dispatch_queue, r.next_retry_at)]
            \/ proc' = [proc EXCEPT ![p].pc = "reopen",
                                    ![p].queue = IF r.dispatch_queue = None THEN @ ELSE r.dispatch_queue,
                                    ![p].eta = r.next_retry_at]
        BY <1>5, <2>3 DEF Get
      <3>2. proc' = [proc EXCEPT ![p] = c] \/ proc' = [proc EXCEPT ![p] = OpenedProc(p, r.dispatch_queue, r.next_retry_at)]
        BY <1>1, <3>1
      <3>3. c.pc = "reopen" BY <1>1 DEF Proc
      <3> HIDE DEF c
      <3>4. UNCHANGED Runners BY <1>2, <2>1, <3>2, <3>3, QuietMove, NotExecuting
      <3>5. QED BY <2>1, <3>4, SameRow, Stutter
    <2>4. QED BY <2>2, <2>3
  <1>6. CASE Reopen(p)
    <2>1. proc[p].pc = "reopen" BY <1>6 DEF Reopen, At
    <2>2. CASE Done(p) /\ UNCHANGED row BY <2>2, Ended
    <2>3. CASE /\ ReopenWhere(row[a]) /\ Update(a, ReopenSet(row[a], Skew[p]))
               /\ proc' = [proc EXCEPT ![p] = OpenedProc(p, proc[p].queue, proc[p].eta)]
      <3>1. UNCHANGED Runners BY <1>2, <2>1, <2>3, QuietMove, NotExecuting
      <3>2. /\ Phase(ReopenSet(row[a], Skew[p])) = Phase(row[a])
            /\ ReopenSet(row[a], Skew[p]).attempt_count = row[a].attempt_count
        BY <1>1, <2>1, <2>3, RowPhases
      <3>3. QED BY <1>1, <2>1, <2>3, <3>1, <3>2, KeptStep
    <2>4. QED BY <1>6, <2>2, <2>3 DEF Reopen
  <1>7. ASSUME NEW lag \in Lags, SetGiveUpDeadline(p, lag) PROVE LifecycleStep
    <2>1. proc[p].pc = "opened" /\ Goto(p, "dated") BY <1>7 DEF SetGiveUpDeadline, At
    <2>2. UNCHANGED Runners BY <1>3, <2>1, NotExecuting
    <2>3. CASE UNCHANGED row BY <2>2, <2>3, SameRow, Stutter
    <2>4. ASSUME NEW seconds, Update(a, SetGiveUpDeadlineSet(row[a], seconds)) PROVE LifecycleStep
      <3>1. /\ Phase(SetGiveUpDeadlineSet(row[a], seconds)) = Phase(row[a])
            /\ SetGiveUpDeadlineSet(row[a], seconds).attempt_count = row[a].attempt_count
        BY <1>1, <2>1, RowPhases
      <3>2. QED BY <1>1, <2>1, <2>2, <2>4, <3>1, KeptStep
    <2>5. QED BY <1>7, <2>3, <2>4 DEF SetGiveUpDeadline
  <1>8. CASE CheckDeadline(p)
    <2>1. proc[p].pc = "dated" BY <1>8 DEF CheckDeadline, At
    <2>2. CASE /\ GiveUpIfPastDeadlineWhere(row[a]) /\ Done(p)
               /\ Update(a, GiveUpSet(row[a], "block_age", Skew[p]))
      <3>1. IdleProc.pc = "idle" /\ proc' = [proc EXCEPT ![p] = IdleProc] BY <2>2 DEF Done, IdleProc
      <3>2. UNCHANGED Runners BY <2>1, <3>1, QuietMove, NotExecuting
      <3>3. CouldStillRun(row[a]) /\ "block_age" \in GiveUpReasons
        BY <2>2 DEF GiveUpIfPastDeadlineWhere, GiveUpReasons
      <3>4. /\ Phase(row[a]) = "open" /\ Phase(GiveUpSet(row[a], "block_age", Skew[p])) = "given_up"
            /\ GiveUpSet(row[a], "block_age", Skew[p]).attempt_count = row[a].attempt_count
        BY <1>1, <2>1, <3>3, RowPhases
      <3>5. QED BY <1>1, <2>1, <2>2, <3>2, <3>4, MovedPhase
    <2>3. CASE Goto(p, "agreed") /\ UNCHANGED row
      <3>1. UNCHANGED Runners BY <1>3, <2>1, <2>3, NotExecuting
      <3>2. QED BY <2>3, <3>1, SameRow, Stutter
    <2>4. QED BY <1>8, <2>2, <2>3 DEF CheckDeadline
  <1>9. CASE RecordDispatch(p)
    <2>1. /\ proc[p].pc = "agreed" /\ Goto(p, "recorded")
          /\ Update(a, RecordDispatchSet(row[a], proc[p].queue, Skew[p]))
      BY <1>9 DEF RecordDispatch, At
    <2>2. UNCHANGED Runners BY <1>3, <2>1, NotExecuting
    <2>3. /\ Phase(RecordDispatchSet(row[a], proc[p].queue, Skew[p])) = Phase(row[a])
          /\ RecordDispatchSet(row[a], proc[p].queue, Skew[p]).attempt_count = row[a].attempt_count
      BY <1>1, <2>1, RowPhases
    <2>4. QED BY <1>1, <2>1, <2>2, <2>3, KeptStep
  <1>10. CASE Send(p) \/ SendFails(p) BY <1>10, Ended DEF Send, SendFails
  <1>11. QED BY <1>4, <1>5, <1>6, <1>7, <1>8, <1>9, <1>10 DEF ExecuteStep

\* Steps of dispatch_retry()
LEMMA RetryLifecycle ==
    ASSUME TypeInv, Decided, Leased, NEW p \in Procs, RetryStep(p) PROVE LifecycleStep
  <1> DEFINE a == proc[p].att
  <1>1. /\ proc[p] \in Proc /\ proc \in [Procs -> Proc] /\ Skew[p] \in Int
        /\ proc[p].pc # "idle" => a \in Attempts /\ row[a] \in Row /\ RowDecided(row[a])
    BY ProcFacts DEF TypeInv, TypeOK, Decided
  <1>2. CASE RefreshFailed(p)
    <2> DEFINE c == [proc[p] EXCEPT !.pc = "refreshed", !.eta = row[a].next_retry_at,
                                    !.queue = RedispatchQueue(row[a].dispatch_queue)]
    <2>1. proc[p].pc = "failed" /\ UNCHANGED row BY <1>2 DEF RefreshFailed, At
    <2>2. Done(p) \/ proc' = [proc EXCEPT ![p] = c] BY <1>1, <1>2 DEF RefreshFailed
    <2>3. c.pc = "refreshed" BY <1>1 DEF Proc
    <2> HIDE DEF c
    <2>4. CASE Done(p) BY <2>1, <2>4, Ended
    <2>5. CASE proc' = [proc EXCEPT ![p] = c]
      <3>1. UNCHANGED Runners BY <2>1, <2>3, <2>5, QuietMove, NotExecuting
      <3>2. QED BY <2>1, <3>1, SameRow, Stutter
    <2>6. QED BY <2>2, <2>4, <2>5
  <1>3. CASE RequeueForRetry(p)
    <2> DEFINE r2 == RequeueSet(row[a], proc[p].queue, Skew[p])
    <2>1. proc[p].pc = "refreshed" BY <1>3 DEF RequeueForRetry, At
    <2>2. CASE Done(p) /\ UNCHANGED row BY <2>2, Ended
    <2>3. CASE RequeueWhere(row[a]) /\ Update(a, r2) /\ Goto(p, "requeued")
      <3>1. proc' = [proc EXCEPT ![p] = [proc[p] EXCEPT !.pc = "requeued"]] BY <1>1, <2>3 DEF Goto
      <3>2. [proc[p] EXCEPT !.pc = "requeued"].pc = "requeued" BY <1>1 DEF Proc
      <3>3. UNCHANGED Runners BY <2>1, <3>1, <3>2, QuietMove, NotExecuting
      <3>4. Phase(r2) = Phase(row[a]) /\ r2.attempt_count = row[a].attempt_count
        BY <1>1, <2>1, <2>3, RowPhases
      <3>5. QED BY <1>1, <2>1, <2>3, <3>3, <3>4, KeptStep
    <2>4. QED BY <1>3, <2>2, <2>3 DEF RequeueForRetry
  <1>4. QED BY <1>2, <1>3 DEF RetryStep

\* The claim: the row was pending, hence executed by nobody.
LEMMA ClaimLifecycle ==
    ASSUME TypeInv, Decided, Leased, NEW p \in Workers, Claim(p) PROVE LifecycleStep
  <1> DEFINE a == proc[p].att
             r2 == ClaimSet(row[a], proc[p].token, HardLimit[proc[p].queue], Skew[p])
  <1>1. /\ p \in Procs /\ proc[p] \in Proc /\ proc \in [Procs -> Proc] /\ Skew[p] \in Int
        /\ proc[p].pc = "claim" /\ a \in Attempts /\ row[a] \in Row /\ RowDecided(row[a])
    BY ProcFacts DEF TypeInv, TypeOK, Decided, Procs, Claim, At
  <1>2. ASSUME NEW pc, Goto(p, pc)
        PROVE  /\ proc' = [proc EXCEPT ![p] = [proc[p] EXCEPT !.pc = pc]]
               /\ [proc[p] EXCEPT !.pc = pc].pc = pc /\ [proc[p] EXCEPT !.pc = pc].att = a
    BY <1>1, <1>2 DEF Goto, Proc
  <1>3. CASE Goto(p, "refused") /\ UNCHANGED row
    <2>1. ~Executing(p) BY <1>1, NotExecuting
    <2>2. [proc[p] EXCEPT !.pc = "refused"].pc = "refused" BY <1>1 DEF Proc
    <2>3. proc' = [proc EXCEPT ![p] = [proc[p] EXCEPT !.pc = "refused"]] BY <1>2, <1>3
    <2>4. UNCHANGED Runners BY <1>1, <2>1, <2>2, <2>3, QuietMove
    <2>5. QED BY <1>3, <2>4, SameRow, Stutter
  <1>4. CASE ClaimWhere(row[a]) /\ Update(a, r2) /\ Goto(p, "claimed")
    <2>1. /\ Phase(row[a]) = "open" /\ Phase(r2) = "running"
          /\ r2.attempt_count = row[a].attempt_count + 1
      BY <1>1, <1>4, RowPhases
    <2> HIDE DEF r2
    <2>2. /\ Phases' = [Phases EXCEPT ![a] = "running"] /\ Phases[a] = "open"
          /\ Tries' = [Tries EXCEPT ![a] = Tries[a] + 1]
      BY <1>1, <1>4, <2>1, UpdateRow
    <2>3. Runners[a] = {} BY <1>1, <1>4, NoRunner DEF ClaimWhere
    <2>4. Runners' = [Runners EXCEPT ![a] = {p}]
      <3>1. \A w \in Workers : w # p => proc'[w] = proc[w] BY <1>1, <1>2, <1>4 DEF Procs
      <3>2. proc'[p].pc = "claimed" /\ proc'[p].att = a BY <1>1, <1>2, <1>4
      <3>3. \A w \in Workers, b \in Attempts :
                ExecutingAttempt(w, b)' <=> IF w = p THEN b = a ELSE ExecutingAttempt(w, b)
        BY <3>1, <3>2 DEF ExecutingAttempt, Executing
      <3>4. \A w \in Workers : ~ExecutingAttempt(w, a) BY <1>1, <2>3 DEF Runners
      <3>5. \A b \in Attempts : ~ExecutingAttempt(p, b) BY <1>1 DEF ExecutingAttempt, Executing
      <3>6. \A b \in Attempts : {w \in Workers : ExecutingAttempt(w, b)'} =
                                IF b = a THEN {p} ELSE {w \in Workers : ExecutingAttempt(w, b)}
        <4> SUFFICES ASSUME NEW b \in Attempts
                     PROVE  {w \in Workers : ExecutingAttempt(w, b)'} =
                                IF b = a THEN {p} ELSE {w \in Workers : ExecutingAttempt(w, b)}
          OBVIOUS
        <4>1. CASE b = a BY <3>3, <3>4, <4>1
        <4>2. CASE b # a BY <3>3, <3>5, <4>2
        <4>3. QED BY <4>1, <4>2
      <3>7. Runners' = [b \in Attempts |-> IF b = a THEN {p} ELSE {w \in Workers : ExecutingAttempt(w, b)}]
        BY <3>6 DEF Runners
      <3>8. QED BY <3>7 DEF Runners
    <2>5. Lifecycle!Start(a, p) BY <2>2, <2>3, <2>4 DEF Lifecycle!Start, Lifecycle!Move
    <2>6. QED BY <1>1, <2>5 DEF LifecycleStep, Lifecycle!Next
  <1>5. QED BY <1>3, <1>4 DEF Claim

\* Steps of TaskRunner.run() after the claim
LEMMA WorkerLifecycle ==
    ASSUME TypeInv, Decided, Leased, NEW p \in Workers,
           \/ GiveUpRefused(p) \/ LoadClaim(p) \/ FinishSuccess(p) \/ FinishFailure(p)
           \/ HardKill(p)
    PROVE  LifecycleStep
  <1> DEFINE a == proc[p].att
  <1>1. /\ p \in Procs /\ proc[p] \in Proc /\ proc \in [Procs -> Proc] /\ Skew[p] \in Int
        /\ proc[p].pc # "idle" => a \in Attempts /\ row[a] \in Row /\ RowDecided(row[a])
    BY ProcFacts DEF TypeInv, TypeOK, Decided, Procs
  <1>2. IdleProc.pc = "idle" /\ (Done(p) => proc' = [proc EXCEPT ![p] = IdleProc])
    BY DEF Done, IdleProc
  <1>3. CASE GiveUpRefused(p)
    <2> DEFINE r2 == GiveUpSet(row[a], "block_age", Skew[p])
    <2>1. proc[p].pc = "refused" /\ Done(p) BY <1>3 DEF GiveUpRefused, At
    <2>2. CASE UNCHANGED row BY <1>1, <2>1, <2>2, Ended
    <2>3. CASE GiveUpIfPastDeadlineWhere(row[a]) /\ Update(a, r2)
      <3>1. UNCHANGED Runners BY <1>1, <1>2, <2>1, QuietMove, NotExecuting
      <3>2. CouldStillRun(row[a]) /\ "block_age" \in GiveUpReasons
        BY <2>3 DEF GiveUpIfPastDeadlineWhere, GiveUpReasons
      <3>3. /\ Phase(row[a]) = "open" /\ Phase(r2) = "given_up"
            /\ r2.attempt_count = row[a].attempt_count
        BY <1>1, <2>1, <3>2, RowPhases
      <3>4. QED BY <1>1, <2>1, <2>3, <3>1, <3>3, MovedPhase
    <2>4. QED BY <1>3, <2>2, <2>3 DEF GiveUpRefused
  <1>4. CASE LoadClaim(p)
    <2> DEFINE c == [proc[p] EXCEPT !.pc = "running", !.tries = row[a].attempt_count,
                                    !.queue = row[a].dispatch_queue]
    <2>1. proc' = [proc EXCEPT ![p] = c] /\ UNCHANGED row BY <1>1, <1>4 DEF LoadClaim
    <2>2. c.pc = "running" /\ c.att = a BY <1>1 DEF Proc
    <2>3. Executing(p) BY <1>4 DEF LoadClaim, At, Executing
    <2> HIDE DEF c
    <2>4. \A w \in Workers : proc'[w] = IF w = p THEN c ELSE proc[w] BY <1>1, <2>1 DEF Procs
    <2>5. \A w \in Workers : /\ Executing(w)' <=> Executing(w)
                             /\ Executing(w) => proc'[w].att = proc[w].att
      BY <2>2, <2>3, <2>4 DEF Executing
    <2>6. QED BY <2>1, <2>5, SameRunners, SameRow, Stutter
  <1>5. CASE FinishSuccess(p)
    <2> DEFINE r2 == FinishSuccessSet(row[a], Skew[p])
    <2>1. Executing(p) /\ Done(p) /\ proc[p].pc # "idle" BY <1>5 DEF FinishSuccess, At, Executing
    <2>2. CASE UNCHANGED row BY <1>1, <2>1, <2>2, Ended
    <2>3. CASE Update(a, r2)
      <3>1. r2.attempt_count = row[a].attempt_count /\ Phase(r2) = "success"
        BY <1>1, <2>1, RowPhases
      <3>2. QED BY <1>2, <2>1, <2>3, <3>1, Finished
    <2>4. QED BY <1>5, <2>2, <2>3 DEF FinishSuccess
  <1>6. CASE FinishFailure(p)
    <2> DEFINE delay == RetryDelayOf(proc[p].queue, proc[p].tries)
               r2 == FailureSet(row[a], delay, Skew[p])
    <2>1. Executing(p) /\ proc[p].pc # "idle" BY <1>6 DEF FinishFailure, At, Executing
    <2>2. CASE Done(p) /\ UNCHANGED row BY <1>1, <2>2, Ended
    <2>3. CASE Update(a, r2) /\ Goto(p, "failed")
      <3>1. r2.attempt_count = row[a].attempt_count /\ Phase(r2) \in {"open", "given_up"}
        BY <1>1, <2>1, RowPhases
      <3>2. /\ proc' = [proc EXCEPT ![p] = [proc[p] EXCEPT !.pc = "failed"]]
            /\ [proc[p] EXCEPT !.pc = "failed"].pc = "failed"
        BY <1>1, <2>3 DEF Goto, Proc
      <3> HIDE DEF r2
      <3>3. QED BY <2>1, <2>3, <3>1, <3>2, Finished
    <2>4. QED BY <1>6, <2>2, <2>3 DEF FinishFailure
  <1>7. CASE HardKill(p) BY <1>1, <1>7, Ended DEF HardKill
  <1>8. QED BY <1>3, <1>4, <1>5, <1>6, <1>7

\* Submissions and deliveries: nothing is executed yet.
LEMMA StartLifecycle ==
    ASSUME TypeInv,
           \/ \E p \in Submitters, a \in Attempts, q \in Queues : Submit(p, a, q)
           \/ \E w \in Workers, m \in Tokens : Receive(w, m)
    PROVE  LifecycleStep
  <1>1. UNCHANGED row BY DEF Submit, Receive
  <1>2. ASSUME NEW p \in Submitters, NEW a \in Attempts, NEW q \in Queues, Submit(p, a, q)
        PROVE  UNCHANGED Runners
    BY <1>2, QuietMove, ProcessAssumption DEF Submit, Procs
  <1>3. ASSUME NEW w \in Workers, NEW m \in Tokens, Receive(w, m) PROVE UNCHANGED Runners
    <2> DEFINE c == [IdleProc EXCEPT !.pc = "claim", !.att = broker[m].att, !.token = m,
                                     !.left = HardLimit[broker[m].queue], !.queue = broker[m].queue]
    <2>1. UNCHANGED proc \/ proc' = [proc EXCEPT ![w] = c] BY <1>3 DEF Receive
    <2>2. c.pc = "claim" /\ w \in Procs /\ proc[w].pc = "idle" BY <1>3 DEF IdleProc, Procs, Receive, At
    <2> HIDE DEF c
    <2>3. CASE UNCHANGED proc BY <2>3, SameRunners DEF Executing
    <2>4. CASE proc' = [proc EXCEPT ![w] = c] BY <2>2, <2>4, QuietMove, NotExecuting
    <2>5. QED BY <2>1, <2>3, <2>4
  <1>4. QED BY <1>1, <1>2, <1>3, SameRow, Stutter

\* Steps of QueueReconciler.reconcile(): what they take is executed by nobody.
LEMMA SweepLifecycle ==
    ASSUME TypeInv, Decided, Leased, NEW s \in Sweepers, SweepStart(s) \/ SweepStep(s)
    PROVE  LifecycleStep
  <1>1. /\ s \in Procs /\ s \notin Workers /\ proc \in [Procs -> Proc] /\ Skew[s] \in Int
        /\ proc[s].pc # "idle" => proc[s].att \in Attempts
        /\ \A a \in Attempts : row[a] \in Row /\ RowDecided(row[a])
    BY ProcFacts, ProcessAssumption DEF TypeInv, TypeOK, Decided, Procs
  <1>2. ASSUME NEW c, proc' = [proc EXCEPT ![s] = c] PROVE UNCHANGED Runners
    BY <1>1, <1>2, QuietMove
  <1>3. ASSUME NEW a \in Attempts, ListExpiredLease(s, a) PROVE LifecycleStep
    <2>1. proc' = [proc EXCEPT ![s] = [proc[s] EXCEPT !.pc = "listed", !.att = a]]
      BY <1>1, <1>3 DEF ListExpiredLease
    <2>2. QED BY <1>2, <1>3, <2>1, SameRow, Stutter DEF ListExpiredLease
  <1>4. ASSUME NEW a \in Attempts, RecoverExpiredMessage(s, a) PROVE LifecycleStep
    <2> DEFINE r2 == ClaimExpiredMessageSet(row[a], Skew[s])
    <2>1. UNCHANGED Runners BY <1>2, <1>4 DEF RecoverExpiredMessage, Resend
    <2>2. Phase(r2) = Phase(row[a]) /\ r2.attempt_count = row[a].attempt_count BY <1>1, RowPhases
    <2>3. QED BY <1>4, <2>1, <2>2, KeptStep DEF RecoverExpiredMessage
  <1>5. ASSUME NEW a \in Attempts, RecoverStuckTask(s, a) PROVE LifecycleStep
    <2> DEFINE r2 == ResetToPendingSet(row[a], Skew[s])
    <2>1. UNCHANGED Runners BY <1>2, <1>5 DEF RecoverStuckTask, Resend
    <2>2. IsStuck(row[a], Skew[s]) /\ Update(a, r2) BY <1>5 DEF RecoverStuckTask
    <2>3. Phase(row[a]) \in {"open", "running"} /\ Phase(r2) = "open" BY <1>1, <2>2, StuckPhase
    <2>4. r2.attempt_count = row[a].attempt_count BY <1>1, RowPhases
    <2>5. Runners[a] = {} BY <1>1, <2>2, NoRunner
    <2> HIDE DEF r2
    <2>6. CASE Phase(row[a]) = "open" BY <2>1, <2>2, <2>3, <2>4, <2>6, KeptStep
    <2>7. CASE Phase(row[a]) = "running" BY <2>1, <2>2, <2>3, <2>4, <2>5, <2>7, MovedPhase
    <2>8. QED BY <2>3, <2>6, <2>7
  <1>6. CASE ReadExpiredLease(s)
    <2> DEFINE r == row[proc[s].att]
    <2>1. proc' = [proc EXCEPT ![s] = [proc[s] EXCEPT !.pc = "read", !.tries = r.attempt_count,
                                                      !.queue = r.dispatch_queue]]
      BY <1>1, <1>6 DEF ReadExpiredLease
    <2>2. QED BY <1>2, <1>6, <2>1, SameRow, Stutter DEF ReadExpiredLease
  <1>7. CASE FailExpiredLease(s)
    <2> DEFINE a == proc[s].att
               delay == RetryDelayOf(proc[s].queue, proc[s].tries)
               r2 == FailureSet(row[a], delay, Skew[s])
    <2>1. a \in Attempts BY <1>1, <1>7 DEF FailExpiredLease, At
    <2>2. CASE Done(s) /\ UNCHANGED row BY <1>1, <2>2, Ended
    <2>3. CASE FailExpiredLeaseWhere(row[a]) /\ Update(a, r2) /\ Goto(s, "failed")
      <3>1. proc' = [proc EXCEPT ![s] = [proc[s] EXCEPT !.pc = "failed"]] BY <1>1, <2>3 DEF Goto
      <3>2. UNCHANGED Runners BY <1>2, <3>1
      <3>3. Runners[a] = {} /\ row[a].status = "running"
        BY <2>1, <2>3, NoRunner DEF FailExpiredLeaseWhere
      <3>4. /\ r2.attempt_count = row[a].attempt_count /\ Phase(r2) \in {"open", "given_up"}
            /\ Phase(row[a]) = "running"
        BY <1>1, <2>1, <3>3, RowPhases
      <3> HIDE DEF r2
      <3>5. QED BY <2>1, <2>3, <3>2, <3>3, <3>4, MovedPhase
    <2>4. QED BY <1>7, <2>2, <2>3 DEF FailExpiredLease
  <1>8. QED BY <1>3, <1>4, <1>5, <1>6, <1>7 DEF SweepStart, SweepStep

\* Steps of the environment
LEMMA EnvironmentLifecycle ==
    ASSUME TypeInv, Decided, Leased,
           \/ \E p \in Procs : Crash(p)
           \/ \E a \in Attempts : GiveUpByHand(a)
           \/ \E m \in Tokens : LoseMessage(m) \/ DropExpired(m)
           \/ Tick
           \/ UNCHANGED vars
    PROVE  LifecycleStep
  <1>1. ASSUME NEW p \in Procs, Crash(p) PROVE LifecycleStep BY <1>1, Ended DEF Crash
  <1>2. ASSUME UNCHANGED proc PROVE UNCHANGED Runners BY <1>2, SameRunners DEF Executing
  <1>3. ASSUME NEW a \in Attempts, GiveUpByHand(a) PROVE LifecycleStep
    <2> DEFINE r2 == GiveUpSet(row[a], "manual", 0)
    <2>1. CouldStillRun(row[a]) /\ Update(a, r2) /\ UNCHANGED Runners BY <1>2, <1>3 DEF GiveUpByHand
    <2>2. row[a] \in Row /\ RowDecided(row[a]) /\ "manual" \in GiveUpReasons /\ 0 \in Int
      BY DEF TypeInv, TypeOK, Decided, GiveUpReasons
    <2>3. /\ Phase(row[a]) = "open" /\ Phase(r2) = "given_up"
          /\ r2.attempt_count = row[a].attempt_count
      BY <2>1, <2>2, RowPhases
    <2>4. QED BY <2>1, <2>3, MovedPhase
  <1>4. CASE (\E m \in Tokens : LoseMessage(m) \/ DropExpired(m)) \/ UNCHANGED vars
    <2>1. UNCHANGED <<row, proc>> BY <1>4 DEF LoseMessage, DropExpired, vars
    <2>2. QED BY <1>2, <2>1, SameRow, Stutter
  <1>5. CASE Tick
    <2>1. \A a \in Attempts : row'[a] = AgeRow(row[a]) BY <1>5 DEF Tick
    <2>2. \A a \in Attempts : /\ Phase(row'[a]) = Phase(row[a])
                              /\ row'[a].attempt_count = row[a].attempt_count
      BY <2>1, RowPhases, 0 \in Int DEF TypeInv, TypeOK, Decided
    <2>3. \A p \in Procs : proc'[p].pc = proc[p].pc /\ proc'[p].att = proc[p].att
      BY <1>5 DEF Tick, TypeInv, TypeOK, Proc
    <2>4. UNCHANGED Runners BY <2>3, SameRunners DEF Executing, Procs
    <2>5. UNCHANGED <<Phases, Tries>> BY <2>2 DEF Phases, Tries
    <2>6. QED BY <2>4, <2>5, Stutter
  <1>6. QED BY <1>1, <1>3, <1>4, <1>5

\* Every step is a step of the life of one attempt, or none.
LEMMA NextLifecycle ==
    ASSUME TypeInv, Decided, Leased, Fresh, [Next]_vars PROVE LifecycleStep
  <1>1. ASSUME NEW w \in Workers, WorkerStep(w) PROVE LifecycleStep
    BY <1>1, ClaimLifecycle, WorkerLifecycle DEF WorkerStep
  <1>2. CASE Next
    BY <1>1, <1>2, ExecuteLifecycle, RetryLifecycle, StartLifecycle, SweepLifecycle,
       EnvironmentLifecycle DEF Next
  <1>3. CASE UNCHANGED vars BY <1>3, EnvironmentLifecycle
  <1>4. QED BY <1>2, <1>3

\* README "Execution guarantees": if every worker is killed before its lease can be taken
\* over, then executors, workers, sweeps and the give-up command implement the life of an
\* attempt: one runner at a time, every start counted, recovery only of what nobody runs, and
\* success and give-up for good.
THEOREM LifecycleImplemented == ASSUME KilledBeforeTakeover PROVE Spec => ImplementsLifecycle
  <1>1. Init => LeaseInv /\ Fresh
    BY DEF Init, IdleProc, AbsentRow, LeaseInv, Leased, LimitOK, Exclusive, Executing, Procs, Fresh
  <1>2. Init => Lifecycle!Init
    <2> SUFFICES ASSUME Init PROVE Lifecycle!Init OBVIOUS
    <2>1. \A a \in Attempts : Phase(row[a]) = "absent" /\ row[a].attempt_count = 0
      BY DEF Init, AbsentRow, Phase
    <2>2. \A a \in Attempts : {w \in Workers : ExecutingAttempt(w, a)} = {}
      BY DEF Init, IdleProc, ExecutingAttempt, Executing, Procs
    <2>3. QED BY <2>1, <2>2 DEF Lifecycle!Init, Phases, Tries, Runners
  <1>3. TypeInv /\ Decided /\ LeaseInv /\ Fresh /\ [Next]_vars => [Lifecycle!Next]_(Lifecycle!vars)
    BY NextLifecycle DEF LeaseInv, LifecycleStep
  <1>4. QED
    BY <1>1, <1>2, <1>3, TypeInvInit, TypeInvStep, DecidedInductive, LeaseInvStep, FreshStep, PTL
       DEF Spec, ImplementsLifecycle, Lifecycle!Spec
=============================================================================
