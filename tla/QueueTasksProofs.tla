-------------------------- MODULE QueueTasksProofs --------------------------
(***************************************************************************)
(* Proofs about QueueTasks for every value of its constants.               *)
(***************************************************************************)
EXTENDS QueueTasks, TLAPS

-----------------------------------------------------------------------------
(* Row operators return rows *)

\* Ageing keeps NULL apart from instants.
LEMMA AgeType ==
    /\ \A t \in Int : Age(t) \in Int /\ Age(t) <= t /\ Age(t) >= t - 1
    /\ Age(None) = None
    /\ \A t \in Instant : Age(t) \in Instant /\ (Age(t) = None <=> t = None)
  BY ConstantsAssumption DEF Age, Instant, Optional

\* A row is still a row one second later.
LEMMA AgeRowType == \A r \in Row : AgeRow(r) \in Row
  BY AgeType DEF AgeRow, Row

\* A lease length is a natural number, or NULL.
LEMMA LeaseType == \A limit \in Optional(Nat \ {0}) : LeaseSeconds(limit) \in Instant
  BY ConstantsAssumption DEF LeaseSeconds, Instant, Optional

\* The delay computed from what was read is a natural number, or None.
LEMMA DelayType ==
    \A q \in Optional(Queues), n \in Nat : RetryDelayOf(q, n) \in Optional(Nat)
  BY ConstantsAssumption DEF RetryDelayOf, RetryDelay, Optional

\* Each SET clause yields a row.
LEMMA SetTypes ==
    ASSUME NEW r \in Row, NEW now \in Int
    PROVE  /\ CreatedRow(now) \in Row
           /\ ReopenSet(r, now) \in Row
           /\ \A q \in Queues : RecordDispatchSet(r, q, now) \in Row /\ RequeueSet(r, q, now) \in Row
           /\ ClaimExpiredMessageSet(r, now) \in Row
           /\ \A token \in Tokens, limit \in Optional(Nat \ {0}) : ClaimSet(r, token, limit, now) \in Row
           /\ FinishSuccessSet(r, now) \in Row
           /\ \A delay \in Optional(Nat) : FailureSet(r, delay, now) \in Row
           /\ \A seconds \in Int : SetGiveUpDeadlineSet(r, seconds) \in Row
           /\ \A reason \in GiveUpReasons : GiveUpSet(r, reason, now) \in Row
           /\ ResetToPendingSet(r, now) \in Row
  <1>0. 0 \in Instant /\ None \in Instant /\ (\A i \in Int : i \in Instant)
    BY DEF Instant, Optional
  <1>1. CreatedRow(now) \in Row
    BY DEF CreatedRow, AbsentRow, Row, Instant, Optional, Statuses
  <1>2. ReopenSet(r, now) \in Row
    BY DEF ReopenSet, Row, Statuses
  <1>3. ASSUME NEW q \in Queues
        PROVE  RecordDispatchSet(r, q, now) \in Row /\ RequeueSet(r, q, now) \in Row
    <2>1. q \in Optional(Queues) BY DEF Optional
    <2>2. RecordDispatchSet(r, q, now) \in Row
      BY <1>0, <2>1 DEF RecordDispatchSet, Row
    <2>3. RequeueSet(r, q, now) \in Row
      BY <1>0, <2>1 DEF RequeueSet, Row, Statuses
    <2>4. QED BY <2>2, <2>3
  <1>4. ClaimExpiredMessageSet(r, now) \in Row
    <2>1. None \in Optional(Tokens) BY DEF Optional
    <2>2. QED BY <1>0, <2>1 DEF ClaimExpiredMessageSet, Row
  <1>5. ASSUME NEW token \in Tokens, NEW limit \in Optional(Nat \ {0})
        PROVE  ClaimSet(r, token, limit, now) \in Row
    <2>1. token \in Optional(Tokens) BY DEF Optional
    <2>2. LeaseSeconds(limit) \in Instant BY LeaseType
    <2>3. r.attempt_count + 1 \in Nat BY DEF Row
    <2>4. QED BY <2>1, <2>2, <2>3 DEF ClaimSet, Row, Statuses
  <1>6. FinishSuccessSet(r, now) \in Row
    BY DEF FinishSuccessSet, Row, Instant, Optional, Statuses
  <1>7. ASSUME NEW delay \in Optional(Nat) PROVE FailureSet(r, delay, now) \in Row
    <2> DEFINE too_late == delay # None /\ Before(r.give_up_at, delay)
               retry == IF delay = None \/ too_late THEN None ELSE now + delay
               reason == IF delay = None THEN "attempts" ELSE IF too_late THEN "block_age" ELSE None
    <2>1. retry \in Instant
      <3>1. delay # None => now + delay \in Int BY DEF Optional
      <3>2. QED BY <1>0, <3>1
    <2>2. reason \in Optional(GiveUpReasons) BY DEF Optional, GiveUpReasons
    <2>3. FailureSet(r, delay, now) =
            [r EXCEPT !.status = "failed", !.lease_expires_at = None, !.updated_at = now,
                      !.next_retry_at = retry, !.give_up_reason = reason]
      BY DEF FailureSet
    <2> HIDE DEF retry, reason
    <2>4. QED BY <1>0, <2>1, <2>2, <2>3 DEF Row, Statuses
  <1>8. \A seconds \in Int : SetGiveUpDeadlineSet(r, seconds) \in Row
    BY DEF SetGiveUpDeadlineSet, Row, Instant, Optional
  <1>9. \A reason \in GiveUpReasons : GiveUpSet(r, reason, now) \in Row
    BY DEF GiveUpSet, Row, Instant, Optional, Statuses
  <1>10. ResetToPendingSet(r, now) \in Row
    BY DEF ResetToPendingSet, Row, Optional, Statuses
  <1>11. QED BY <1>1, <1>2, <1>3, <1>4, <1>5, <1>6, <1>7, <1>8, <1>9, <1>10

-----------------------------------------------------------------------------
(* What one step does to a row *)

\* r2 is the row r, r one second later, or r after one of the UPDATE statements whose WHERE
\* clause r satisfies.
RowStep(r, r2) ==
    \/ r2 = r
    \/ r2 = AgeRow(r)
    \/ \E seconds \in Int : r2 = SetGiveUpDeadlineSet(r, seconds)
    \/ \E now \in Int :
        \/ r.status = "absent" /\ r2 = CreatedRow(now)
        \/ ReopenWhere(r) /\ r2 = ReopenSet(r, now)
        \/ \E q \in Queues : r2 = RecordDispatchSet(r, q, now)
        \/ \E q \in Queues : RequeueWhere(r) /\ r2 = RequeueSet(r, q, now)
        \/ r.status = "pending" /\ r2 = ClaimExpiredMessageSet(r, now)
        \/ \E token \in Tokens, limit \in Optional(Nat \ {0}) :
               ClaimWhere(r) /\ r2 = ClaimSet(r, token, limit, now)
        \/ r.status = "running" /\ r2 = FinishSuccessSet(r, now)
        \/ \E delay \in Optional(Nat) : r.status = "running" /\ r2 = FailureSet(r, delay, now)
        \/ \E reason \in GiveUpReasons : CouldStillRun(r) /\ r2 = GiveUpSet(r, reason, now)
        \/ IsStuck(r, now) /\ r2 = ResetToPendingSet(r, now)

\* Every UPDATE the model makes is one of these.
LEMMA RowStepIntro ==
    ASSUME NEW r \in Row, NEW now \in Int
    PROVE  /\ RowStep(r, r) /\ RowStep(r, AgeRow(r))
           /\ \A seconds \in Int : RowStep(r, SetGiveUpDeadlineSet(r, seconds))
           /\ r.status = "absent" => RowStep(r, CreatedRow(now))
           /\ ReopenWhere(r) => RowStep(r, ReopenSet(r, now))
           /\ \A q \in Queues : RowStep(r, RecordDispatchSet(r, q, now))
           /\ \A q \in Queues : RequeueWhere(r) => RowStep(r, RequeueSet(r, q, now))
           /\ r.status = "pending" => RowStep(r, ClaimExpiredMessageSet(r, now))
           /\ \A token \in Tokens, limit \in Optional(Nat \ {0}) :
                  ClaimWhere(r) => RowStep(r, ClaimSet(r, token, limit, now))
           /\ r.status = "running" => RowStep(r, FinishSuccessSet(r, now))
           /\ \A delay \in Optional(Nat) : r.status = "running" => RowStep(r, FailureSet(r, delay, now))
           /\ \A reason \in GiveUpReasons : CouldStillRun(r) => RowStep(r, GiveUpSet(r, reason, now))
           /\ IsStuck(r, now) => RowStep(r, ResetToPendingSet(r, now))
  <1>1. RowStep(r, r) /\ RowStep(r, AgeRow(r))
    BY DEF RowStep
  <1>2. \A seconds \in Int : RowStep(r, SetGiveUpDeadlineSet(r, seconds))
    BY DEF RowStep
  <1>3. r.status = "absent" => RowStep(r, CreatedRow(now))
    BY DEF RowStep
  <1>4. ReopenWhere(r) => RowStep(r, ReopenSet(r, now))
    BY DEF RowStep
  <1>5. \A q \in Queues : RowStep(r, RecordDispatchSet(r, q, now))
    BY DEF RowStep
  <1>6. \A q \in Queues : RequeueWhere(r) => RowStep(r, RequeueSet(r, q, now))
    BY DEF RowStep
  <1>7. r.status = "pending" => RowStep(r, ClaimExpiredMessageSet(r, now))
    BY DEF RowStep
  <1>8. \A token \in Tokens, limit \in Optional(Nat \ {0}) :
            ClaimWhere(r) => RowStep(r, ClaimSet(r, token, limit, now))
    BY DEF RowStep
  <1>9. r.status = "running" => RowStep(r, FinishSuccessSet(r, now))
    BY DEF RowStep
  <1>10. \A delay \in Optional(Nat) : r.status = "running" => RowStep(r, FailureSet(r, delay, now))
    BY DEF RowStep
  <1>11. \A reason \in GiveUpReasons : CouldStillRun(r) => RowStep(r, GiveUpSet(r, reason, now))
    BY DEF RowStep
  <1>12. IsStuck(r, now) => RowStep(r, ResetToPendingSet(r, now))
    BY DEF RowStep
  <1>13. QED
    BY <1>1, <1>2, <1>3, <1>4, <1>5, <1>6, <1>7, <1>8, <1>9, <1>10, <1>11, <1>12

\* A row stays a row.
LEMMA RowStepType == ASSUME NEW r \in Row, NEW r2, RowStep(r, r2) PROVE r2 \in Row
  <1>1. CASE r2 = r \/ r2 = AgeRow(r) BY <1>1, AgeRowType
  <1>2. CASE \E seconds \in Int : r2 = SetGiveUpDeadlineSet(r, seconds)
    BY <1>2, SetTypes, 0 \in Int
  <1>3. ASSUME NEW now \in Int,
               r2 \in {CreatedRow(now), ReopenSet(r, now), ClaimExpiredMessageSet(r, now),
                       FinishSuccessSet(r, now), ResetToPendingSet(r, now)}
        PROVE  r2 \in Row
    BY <1>3, SetTypes
  <1>4. ASSUME NEW now \in Int, NEW q \in Queues,
               r2 = RecordDispatchSet(r, q, now) \/ r2 = RequeueSet(r, q, now)
        PROVE  r2 \in Row
    BY <1>4, SetTypes
  <1>5. ASSUME NEW now \in Int, NEW token \in Tokens, NEW limit \in Optional(Nat \ {0}),
               r2 = ClaimSet(r, token, limit, now)
        PROVE  r2 \in Row
    BY <1>5, SetTypes
  <1>6. ASSUME NEW now \in Int, NEW delay \in Optional(Nat), r2 = FailureSet(r, delay, now)
        PROVE  r2 \in Row
    BY <1>6, SetTypes
  <1>7. ASSUME NEW now \in Int, NEW reason \in GiveUpReasons, r2 = GiveUpSet(r, reason, now)
        PROVE  r2 \in Row
    BY <1>7, SetTypes
  <1>8. QED BY <1>1, <1>2, <1>3, <1>4, <1>5, <1>6, <1>7 DEF RowStep

-----------------------------------------------------------------------------
(* The inductive type invariant *)

\* What a process needs to have read before it gets where it is.
ProcOK(c) ==
    /\ c.pc # "idle" => c.att \in Attempts
    /\ c.pc \in {"claim", "claimed", "running"} => c.token \in Tokens
    /\ c.pc \in {"claim", "refreshed", "requeued"} \cup SubmitPCs => c.queue \in Queues
    /\ c.pc = "opened" => GiveUpAfterBlocks[c.queue] # None

\* TypeOK is not inductive: what Send and Claim write is well typed because of ProcOK.
TypeInv == TypeOK /\ \A p \in Procs : ProcOK(proc[p])

RowsStep == row' \in [Attempts -> Row] /\ \A a \in Attempts : RowStep(row[a], row'[a])
ProcsOK(f) == f \in [Procs -> Proc] /\ \A p \in Procs : ProcOK(f[p])

\* An UPDATE of one row leaves the others alone.
LEMMA UpdateRows ==
    ASSUME TypeOK, NEW a \in Attempts, NEW r2, RowStep(row[a], r2), Update(a, r2)
    PROVE  RowsStep
  <1>1. row \in [Attempts -> Row] /\ row[a] \in Row BY DEF TypeOK
  <1>2. r2 \in Row BY <1>1, RowStepType
  <1>3. row' = [row EXCEPT ![a] = r2] BY DEF Update
  <1>4. \A b \in Attempts : RowStep(row[b], row[b]) BY DEF RowStep
  <1>5. QED BY <1>1, <1>2, <1>3, <1>4 DEF RowsStep

\* No UPDATE is a stuttering step of every row.
LEMMA SameRows == ASSUME TypeOK, UNCHANGED row PROVE RowsStep
  <1>1. \A b \in Attempts : RowStep(row[b], row[b]) BY DEF RowStep
  <1>2. QED BY <1>1 DEF RowsStep, TypeOK

\* A step of one process leaves the others alone.
LEMMA UpdateProc ==
    ASSUME TypeInv, NEW p \in Procs, NEW c \in Proc, ProcOK(c),
           proc' = [proc EXCEPT ![p] = c]
    PROVE  ProcsOK(proc')
  BY DEF TypeInv, TypeOK, ProcsOK

\* A step of the environment leaves the processes as they are.
LEMMA SameProcs == ASSUME TypeInv, UNCHANGED proc PROVE ProcsOK(proc')
  BY DEF TypeInv, TypeOK, ProcsOK

\* An ended process is well typed.
LEMMA DoneProc == ASSUME TypeInv, NEW p \in Procs, Done(p) PROVE ProcsOK(proc')
  <1>1. IdleProc \in Proc
    BY DEF IdleProc, Proc, Optional, Instant, PCs
  <1>2. ProcOK(IdleProc)
    BY DEF IdleProc, ProcOK, SubmitPCs
  <1>3. QED BY <1>1, <1>2, UpdateProc DEF Done

\* A process that goes on keeps its record but for pc.
LEMMA GotoProc ==
    ASSUME TypeInv, NEW p \in Procs, NEW pc, Goto(p, pc),
           [proc[p] EXCEPT !.pc = pc] \in Proc, ProcOK([proc[p] EXCEPT !.pc = pc])
    PROVE  ProcsOK(proc')
  <1>1. proc \in [Procs -> Proc] BY DEF TypeInv, TypeOK
  <1>2. proc' = [proc EXCEPT ![p] = [proc[p] EXCEPT !.pc = pc]]
    BY <1>1 DEF Goto
  <1>3. QED BY <1>2, UpdateProc

\* Every pc the actions go to is one.
LEMMA PCsType ==
    /\ "idle" \in PCs /\ WorkerPCs \subseteq PCs /\ RetryPCs \subseteq PCs
    /\ SweepPCs \subseteq PCs /\ SubmitPCs \subseteq PCs
  BY DEF PCs

\* Setting pc alone
LEMMA SetPc ==
    ASSUME NEW c \in Proc, NEW pc \in PCs
    PROVE  /\ [c EXCEPT !.pc = pc] \in Proc
           /\ [c EXCEPT !.pc = pc].pc = pc
           /\ [c EXCEPT !.pc = pc].att = c.att
           /\ [c EXCEPT !.pc = pc].token = c.token
           /\ [c EXCEPT !.pc = pc].queue = c.queue
  BY DEF Proc

\* The facts every action starts from
LEMMA ProcFacts ==
    ASSUME TypeInv, NEW p \in Procs
    PROVE  /\ proc[p] \in Proc /\ ProcOK(proc[p]) /\ Skew[p] \in Int
           /\ proc[p].pc # "idle" => proc[p].att \in Attempts /\ row[proc[p].att] \in Row
  BY ProcessAssumption DEF TypeInv, TypeOK, ProcOK

\* What TypeInv needs of a step
StepOK ==
    /\ RowsStep
    /\ ProcsOK(proc')
    /\ broker' \in [Tokens -> Optional(Message)]
    /\ stable' \in BOOLEAN

\* The record after create_or_reopen() names a queue, with a deadline policy if "opened".
LEMMA OpenedType ==
    ASSUME TypeInv, NEW p \in Procs, proc[p].pc \in {"submit", "reopen"},
           NEW recorded \in Optional(Queues), NEW eta \in Instant
    PROVE  OpenedProc(p, recorded, eta) \in Proc /\ ProcOK(OpenedProc(p, recorded, eta))
  <1> DEFINE q == IF recorded = None THEN proc[p].queue ELSE recorded
             pc == IF GiveUpAfterBlocks[q] = None THEN "dated" ELSE "opened"
  <1>1. proc[p] \in Proc /\ proc[p].att \in Attempts /\ proc[p].queue \in Queues
    BY ProcFacts DEF ProcOK, SubmitPCs
  <1>2. q \in Queues BY <1>1 DEF Optional
  <1>3. pc \in {"dated", "opened"} /\ pc \in PCs BY DEF PCs, SubmitPCs
  <1>4. q \in Optional(Queues) BY <1>2 DEF Optional
  <1>5. pc = "opened" => GiveUpAfterBlocks[q] # None OBVIOUS
  <1>6. OpenedProc(p, recorded, eta) = [proc[p] EXCEPT !.pc = pc, !.queue = q, !.eta = eta]
    BY DEF OpenedProc
  <1> HIDE DEF q, pc
  <1>7. OpenedProc(p, recorded, eta) \in Proc BY <1>1, <1>3, <1>4, <1>6 DEF Proc
  <1>8. /\ OpenedProc(p, recorded, eta).pc = pc
        /\ OpenedProc(p, recorded, eta).att = proc[p].att
        /\ OpenedProc(p, recorded, eta).queue = q
    BY <1>1, <1>6 DEF Proc
  <1>9. ProcOK(OpenedProc(p, recorded, eta))
    BY <1>1, <1>2, <1>3, <1>5, <1>8 DEF ProcOK
  <1>10. QED BY <1>7, <1>9

\* Steps of QueueExecutor.execute()
LEMMA ExecuteStepOK == ASSUME TypeInv, NEW p \in Procs, ExecuteStep(p) PROVE StepOK
  <1> DEFINE a == proc[p].att
  <1>1. /\ proc[p] \in Proc /\ ProcOK(proc[p]) /\ Skew[p] \in Int
        /\ proc[p].pc # "idle" => a \in Attempts /\ row[a] \in Row
    BY ProcFacts
  <1>2. TypeOK /\ broker \in [Tokens -> Optional(Message)] /\ stable \in BOOLEAN
    BY DEF TypeInv, TypeOK
  <1>3. CASE Create(p)
    <2>1. a \in Attempts /\ row[a] \in Row BY <1>1, <1>3 DEF Create, At
    <2>2. RowStep(row[a], CreatedRow(Skew[p])) BY <1>1, <1>3, <2>1, RowStepIntro DEF Create
    <2>3. RowsStep BY <1>2, <1>3, <2>1, <2>2, UpdateRows DEF Create
    <2>4. None \in Optional(Queues) /\ None \in Instant BY DEF Optional, Instant
    <2>5. OpenedProc(p, None, None) \in Proc /\ ProcOK(OpenedProc(p, None, None))
      BY <1>3, <2>4, OpenedType DEF Create, At
    <2>6. ProcsOK(proc') BY <1>3, <2>5, UpdateProc DEF Create
    <2>7. QED BY <1>2, <1>3, <2>3, <2>6 DEF StepOK, Create
  <1>4. CASE Get(p)
    <2>1. a \in Attempts /\ row[a] \in Row /\ proc[p].queue \in Queues
      BY <1>1, <1>4 DEF Get, At, ProcOK, SubmitPCs
    <2>2. row[a].dispatch_queue \in Optional(Queues) /\ row[a].next_retry_at \in Instant
      BY <2>1 DEF Row
    <2>3. RowsStep BY <1>2, <1>4, SameRows DEF Get
    <2>4. CASE proc' = [proc EXCEPT ![p] = OpenedProc(p, row[a].dispatch_queue, row[a].next_retry_at)]
      <3>1. ProcsOK(proc') BY <1>4, <2>2, <2>4, OpenedType, UpdateProc DEF Get, At
      <3>2. QED BY <1>2, <1>4, <2>3, <3>1 DEF StepOK, Get
    <2>5. CASE proc' = [proc EXCEPT ![p].pc = "reopen",
                                    ![p].queue = IF row[a].dispatch_queue = None THEN @ ELSE row[a].dispatch_queue,
                                    ![p].eta = row[a].next_retry_at]
      <3> DEFINE q == IF row[a].dispatch_queue = None THEN proc[p].queue ELSE row[a].dispatch_queue
                 c == [proc[p] EXCEPT !.pc = "reopen", !.queue = q, !.eta = row[a].next_retry_at]
      <3>1. q \in Queues /\ q \in Optional(Queues) BY <2>1, <2>2 DEF Optional
      <3>2. "reopen" \in PCs BY DEF PCs, SubmitPCs
      <3>3. proc' = [proc EXCEPT ![p] = c] BY <1>2, <2>5 DEF TypeOK
      <3> HIDE DEF q
      <3>4. c \in Proc BY <1>1, <2>2, <3>1, <3>2 DEF Proc
      <3>5. c.pc = "reopen" /\ c.att = a /\ c.queue = q BY <1>1 DEF Proc
      <3>6. ProcOK(c) BY <2>1, <3>1, <3>5 DEF ProcOK
      <3>7. ProcsOK(proc') BY <3>3, <3>4, <3>6, UpdateProc
      <3>8. QED BY <1>2, <1>4, <2>3, <3>7 DEF StepOK, Get
    <2>6. CASE Done(p)
      <3>1. ProcsOK(proc') BY <2>6, DoneProc
      <3>2. QED BY <1>2, <1>4, <2>3, <3>1 DEF StepOK, Get
    <2>7. QED BY <1>4, <2>4, <2>5, <2>6 DEF Get
  <1>5. CASE Reopen(p)
    <2>1. a \in Attempts /\ row[a] \in Row /\ proc[p].queue \in Queues
      BY <1>1, <1>5 DEF Reopen, At, ProcOK, SubmitPCs
    <2>2. CASE /\ ReopenWhere(row[a])
               /\ Update(a, ReopenSet(row[a], Skew[p]))
               /\ proc' = [proc EXCEPT ![p] = OpenedProc(p, proc[p].queue, proc[p].eta)]
      <3>1. RowsStep BY <1>1, <1>2, <2>1, <2>2, RowStepIntro, UpdateRows
      <3>2. proc[p].queue \in Optional(Queues) /\ proc[p].eta \in Instant BY <1>1 DEF Proc
      <3>3. ProcsOK(proc') BY <1>5, <2>2, <3>2, OpenedType, UpdateProc DEF Reopen, At
      <3>4. QED BY <1>2, <1>5, <3>1, <3>3 DEF StepOK, Reopen
    <2>3. CASE Done(p) /\ UNCHANGED row
      <3>1. RowsStep /\ ProcsOK(proc') BY <1>2, <2>3, SameRows, DoneProc
      <3>2. QED BY <1>2, <1>5, <3>1 DEF StepOK, Reopen
    <2>4. QED BY <1>5, <2>2, <2>3 DEF Reopen
  <1>6. ASSUME NEW lag \in Lags, SetGiveUpDeadline(p, lag) PROVE StepOK
    <2>1. /\ a \in Attempts /\ row[a] \in Row
          /\ proc[p].queue \in Queues /\ GiveUpAfterBlocks[proc[p].queue] # None
      BY <1>1, <1>6 DEF SetGiveUpDeadline, At, ProcOK, SubmitPCs
    <2>2. ASSUME lag # None
          PROVE  (GiveUpAfterBlocks[proc[p].queue] - lag) * BlockTime \in Int
      <3>1. lag \in Int BY <1>6, <2>2, ProcessAssumption DEF Optional
      <3>2. GiveUpAfterBlocks[proc[p].queue] \in Nat BY <2>1, ConstantsAssumption DEF Optional
      <3>3. BlockTime \in Int BY ConstantsAssumption
      <3>4. QED BY <3>1, <3>2, <3>3
    <2>3. RowsStep
      <3>1. CASE lag = None BY <1>2, <1>6, <3>1, SameRows DEF SetGiveUpDeadline
      <3>2. CASE lag # None
        <4> DEFINE seconds == (GiveUpAfterBlocks[proc[p].queue] - lag) * BlockTime
        <4>1. seconds \in Int BY <2>2, <3>2
        <4>2. Update(a, SetGiveUpDeadlineSet(row[a], seconds))
          BY <1>6, <3>2 DEF SetGiveUpDeadline
        <4> HIDE DEF seconds
        <4>3. RowStep(row[a], SetGiveUpDeadlineSet(row[a], seconds))
          BY <1>1, <2>1, <4>1, RowStepIntro
        <4>4. QED BY <1>2, <2>1, <4>2, <4>3, UpdateRows
      <3>3. QED BY <3>1, <3>2
    <2>4. "dated" \in PCs BY DEF PCs, SubmitPCs
    <2>5. ProcsOK(proc')
      <3>1. [proc[p] EXCEPT !.pc = "dated"] \in Proc BY <1>1, <2>4, SetPc
      <3>2. ProcOK([proc[p] EXCEPT !.pc = "dated"])
        BY <1>1, <2>1, <2>4, SetPc DEF ProcOK
      <3>3. QED BY <1>6, <3>1, <3>2, GotoProc DEF SetGiveUpDeadline
    <2>6. QED BY <1>2, <1>6, <2>3, <2>5 DEF StepOK, SetGiveUpDeadline
  <1>7. CASE CheckDeadline(p)
    <2>1. a \in Attempts /\ row[a] \in Row /\ proc[p].queue \in Queues
      BY <1>1, <1>7 DEF CheckDeadline, At, ProcOK, SubmitPCs
    <2>2. CASE /\ GiveUpIfPastDeadlineWhere(row[a])
               /\ Update(a, GiveUpSet(row[a], "block_age", Skew[p]))
               /\ Done(p)
      <3>1. CouldStillRun(row[a]) /\ "block_age" \in GiveUpReasons
        BY <2>2 DEF GiveUpIfPastDeadlineWhere, GiveUpReasons
      <3>2. RowStep(row[a], GiveUpSet(row[a], "block_age", Skew[p]))
        BY <1>1, <2>1, <3>1, RowStepIntro
      <3>3. RowsStep /\ ProcsOK(proc') BY <1>2, <2>1, <2>2, <3>2, UpdateRows, DoneProc
      <3>4. QED BY <1>2, <1>7, <3>3 DEF StepOK, CheckDeadline
    <2>3. CASE Goto(p, "agreed") /\ UNCHANGED row
      <3>1. "agreed" \in PCs BY DEF PCs, SubmitPCs
      <3>2. [proc[p] EXCEPT !.pc = "agreed"] \in Proc BY <1>1, <3>1, SetPc
      <3>3. ProcOK([proc[p] EXCEPT !.pc = "agreed"])
        BY <1>1, <2>1, <3>1, SetPc DEF ProcOK
      <3>4. RowsStep /\ ProcsOK(proc') BY <1>2, <2>3, <3>2, <3>3, SameRows, GotoProc
      <3>5. QED BY <1>2, <1>7, <3>4 DEF StepOK, CheckDeadline
    <2>4. QED BY <1>7, <2>2, <2>3 DEF CheckDeadline
  <1>8. CASE RecordDispatch(p)
    <2>1. a \in Attempts /\ row[a] \in Row /\ proc[p].queue \in Queues
      BY <1>1, <1>8 DEF RecordDispatch, At, ProcOK, SubmitPCs
    <2>2. RowStep(row[a], RecordDispatchSet(row[a], proc[p].queue, Skew[p]))
      BY <1>1, <2>1, RowStepIntro
    <2>3. RowsStep BY <1>2, <1>8, <2>1, <2>2, UpdateRows DEF RecordDispatch
    <2>4. "recorded" \in PCs BY DEF PCs, SubmitPCs
    <2>5. [proc[p] EXCEPT !.pc = "recorded"] \in Proc BY <1>1, <2>4, SetPc
    <2>6. ProcOK([proc[p] EXCEPT !.pc = "recorded"])
      BY <1>1, <2>1, <2>4, SetPc DEF ProcOK
    <2>7. ProcsOK(proc') BY <1>8, <2>5, <2>6, GotoProc DEF RecordDispatch
    <2>8. QED BY <1>2, <1>8, <2>3, <2>7 DEF StepOK, RecordDispatch
  <1>9. CASE Send(p)
    <2>1. a \in Attempts /\ proc[p].queue \in Queues /\ proc[p].eta \in Instant
      BY <1>1, <1>9 DEF Send, ProcOK, SubmitPCs, Proc
    <2> DEFINE msg == [att |-> a, queue |-> proc[p].queue, eta |-> proc[p].eta,
                       expires |-> MessageExpiry(proc[p].queue, proc[p].eta, Skew[p])]
    <2>2. MessageExpiry(proc[p].queue, proc[p].eta, Skew[p]) \in Instant
      BY <1>1, <2>1, ConstantsAssumption DEF MessageExpiry, Instant, Optional
    <2>3. msg \in Optional(Message) BY <2>1, <2>2 DEF Message, Optional
    <2>4. PICK m \in Tokens : broker' = [broker EXCEPT ![m] = msg]
      BY <1>9 DEF Send, FreshIds
    <2>5. broker' \in [Tokens -> Optional(Message)] BY <1>2, <2>3, <2>4
    <2>6. RowsStep /\ ProcsOK(proc') BY <1>2, <1>9, SameRows, DoneProc DEF Send
    <2>7. QED BY <1>2, <1>9, <2>5, <2>6 DEF StepOK, Send
  <1>10. CASE SendFails(p)
    <2>1. RowsStep /\ ProcsOK(proc') BY <1>2, <1>10, SameRows, DoneProc DEF SendFails
    <2>2. QED BY <1>2, <1>10, <2>1 DEF StepOK, SendFails
  <1>11. QED
    BY <1>3, <1>4, <1>5, <1>6, <1>7, <1>8, <1>9, <1>10 DEF ExecuteStep

\* Steps of dispatch_retry()
LEMMA RetryStepOK == ASSUME TypeInv, NEW p \in Procs, RetryStep(p) PROVE StepOK
  <1> DEFINE a == proc[p].att
  <1>1. /\ proc[p] \in Proc /\ ProcOK(proc[p]) /\ Skew[p] \in Int
        /\ proc[p].pc # "idle" => a \in Attempts /\ row[a] \in Row
    BY ProcFacts
  <1>2. TypeOK /\ broker \in [Tokens -> Optional(Message)] /\ stable \in BOOLEAN
    BY DEF TypeInv, TypeOK
  <1>3. CASE RefreshFailed(p)
    <2>1. a \in Attempts /\ row[a] \in Row BY <1>1, <1>3 DEF RefreshFailed, At
    <2>2. RowsStep BY <1>2, <1>3, SameRows DEF RefreshFailed
    <2>3. CASE Done(p)
      BY <1>2, <1>3, <2>2, <2>3, DoneProc DEF StepOK, RefreshFailed
    <2>4. CASE proc' = [proc EXCEPT ![p].pc = "refreshed", ![p].eta = row[a].next_retry_at,
                                    ![p].queue = RedispatchQueue(row[a].dispatch_queue)]
      <3> DEFINE q == RedispatchQueue(row[a].dispatch_queue)
                 c == [proc[p] EXCEPT !.pc = "refreshed", !.eta = row[a].next_retry_at, !.queue = q]
      <3>1. q \in Queues /\ q \in Optional(Queues)
        BY <2>1, ConstantsAssumption DEF RedispatchQueue, Row, Optional
      <3>2. "refreshed" \in PCs /\ row[a].next_retry_at \in Instant BY <2>1 DEF PCs, RetryPCs, Row
      <3>3. proc' = [proc EXCEPT ![p] = c] BY <1>2, <2>4 DEF TypeOK
      <3> HIDE DEF q
      <3>4. c \in Proc BY <1>1, <3>1, <3>2 DEF Proc
      <3>5. c.pc = "refreshed" /\ c.att = a /\ c.queue = q BY <1>1 DEF Proc
      <3>6. ProcOK(c) BY <2>1, <3>1, <3>5 DEF ProcOK
      <3>7. ProcsOK(proc') BY <3>3, <3>4, <3>6, UpdateProc
      <3>8. QED BY <1>2, <1>3, <2>2, <3>7 DEF StepOK, RefreshFailed
    <2>5. QED BY <1>3, <2>3, <2>4 DEF RefreshFailed
  <1>4. CASE RequeueForRetry(p)
    <2>1. a \in Attempts /\ row[a] \in Row /\ proc[p].queue \in Queues
      BY <1>1, <1>4 DEF RequeueForRetry, At, ProcOK
    <2>2. CASE /\ RequeueWhere(row[a])
               /\ Update(a, RequeueSet(row[a], proc[p].queue, Skew[p]))
               /\ Goto(p, "requeued")
      <3>1. RowStep(row[a], RequeueSet(row[a], proc[p].queue, Skew[p]))
        BY <1>1, <2>1, <2>2, RowStepIntro
      <3>2. "requeued" \in PCs BY DEF PCs, RetryPCs
      <3>3. [proc[p] EXCEPT !.pc = "requeued"] \in Proc BY <1>1, <3>2, SetPc
      <3>4. ProcOK([proc[p] EXCEPT !.pc = "requeued"])
        BY <1>1, <2>1, <3>2, SetPc DEF ProcOK
      <3>5. RowsStep /\ ProcsOK(proc')
        BY <1>2, <2>1, <2>2, <3>1, <3>3, <3>4, UpdateRows, GotoProc
      <3>6. QED BY <1>2, <1>4, <3>5 DEF StepOK, RequeueForRetry
    <2>3. CASE Done(p) /\ UNCHANGED row
      BY <1>2, <1>4, <2>3, SameRows, DoneProc DEF StepOK, RequeueForRetry
    <2>4. QED BY <1>4, <2>2, <2>3 DEF RequeueForRetry
  <1>5. QED BY <1>3, <1>4 DEF RetryStep

\* Steps of TaskRunner.run()
LEMMA WorkerStepOK == ASSUME TypeInv, NEW w \in Workers, WorkerStep(w) PROVE StepOK
  <1> DEFINE a == proc[w].att
  <1>0. w \in Procs BY DEF Procs
  <1>1. /\ proc[w] \in Proc /\ ProcOK(proc[w]) /\ Skew[w] \in Int
        /\ proc[w].pc # "idle" => a \in Attempts /\ row[a] \in Row
    BY <1>0, ProcFacts
  <1>2. TypeOK /\ broker \in [Tokens -> Optional(Message)] /\ stable \in BOOLEAN
    BY DEF TypeInv, TypeOK
  <1>3. CASE Claim(w)
    <2>1. a \in Attempts /\ row[a] \in Row /\ proc[w].queue \in Queues /\ proc[w].token \in Tokens
      BY <1>1, <1>3 DEF Claim, At, ProcOK
    <2>2. HardLimit[proc[w].queue] \in Optional(Nat \ {0}) BY <2>1, ConstantsAssumption
    <2>3. CASE /\ ClaimWhere(row[a])
               /\ Update(a, ClaimSet(row[a], proc[w].token, HardLimit[proc[w].queue], Skew[w]))
               /\ Goto(w, "claimed")
      <3>1. RowStep(row[a], ClaimSet(row[a], proc[w].token, HardLimit[proc[w].queue], Skew[w]))
        BY <1>1, <2>1, <2>2, <2>3, RowStepIntro
      <3>2. "claimed" \in PCs BY DEF PCs, WorkerPCs
      <3>3. [proc[w] EXCEPT !.pc = "claimed"] \in Proc BY <1>1, <3>2, SetPc
      <3>4. ProcOK([proc[w] EXCEPT !.pc = "claimed"])
        BY <1>1, <2>1, <3>2, SetPc DEF ProcOK, SubmitPCs
      <3>5. RowsStep /\ ProcsOK(proc')
        BY <1>0, <1>2, <2>1, <2>3, <3>1, <3>3, <3>4, UpdateRows, GotoProc
      <3>6. QED BY <1>2, <1>3, <3>5 DEF StepOK, Claim
    <2>4. CASE Goto(w, "refused") /\ UNCHANGED row
      <3>1. "refused" \in PCs BY DEF PCs, WorkerPCs
      <3>2. [proc[w] EXCEPT !.pc = "refused"] \in Proc BY <1>1, <3>1, SetPc
      <3>3. ProcOK([proc[w] EXCEPT !.pc = "refused"])
        BY <1>1, <2>1, <3>1, SetPc DEF ProcOK, SubmitPCs
      <3>4. RowsStep /\ ProcsOK(proc') BY <1>0, <1>2, <2>4, <3>2, <3>3, SameRows, GotoProc
      <3>5. QED BY <1>2, <1>3, <3>4 DEF StepOK, Claim
    <2>5. QED BY <1>3, <2>3, <2>4 DEF Claim
  <1>4. CASE GiveUpRefused(w)
    <2>1. a \in Attempts /\ row[a] \in Row BY <1>1, <1>4 DEF GiveUpRefused, At
    <2>2. RowsStep
      <3>1. CASE GiveUpIfPastDeadlineWhere(row[a])
        <4>1. CouldStillRun(row[a]) /\ "block_age" \in GiveUpReasons
          BY <3>1 DEF GiveUpIfPastDeadlineWhere, GiveUpReasons
        <4>2. RowStep(row[a], GiveUpSet(row[a], "block_age", Skew[w]))
          BY <1>1, <2>1, <4>1, RowStepIntro
        <4>3. QED BY <1>2, <1>4, <2>1, <3>1, <4>2, UpdateRows DEF GiveUpRefused
      <3>2. CASE ~GiveUpIfPastDeadlineWhere(row[a])
        BY <1>2, <1>4, <3>2, SameRows DEF GiveUpRefused
      <3>3. QED BY <3>1, <3>2
    <2>3. QED BY <1>0, <1>2, <1>4, <2>2, DoneProc DEF StepOK, GiveUpRefused
  <1>5. CASE LoadClaim(w)
    <2>1. a \in Attempts /\ row[a] \in Row /\ proc[w].token \in Tokens
      BY <1>1, <1>5 DEF LoadClaim, At, ProcOK
    <2> DEFINE c == [proc[w] EXCEPT !.pc = "running", !.tries = row[a].attempt_count,
                                    !.queue = row[a].dispatch_queue]
    <2>2. proc' = [proc EXCEPT ![w] = c] BY <1>0, <1>2, <1>5 DEF LoadClaim, TypeOK
    <2>3. "running" \in PCs /\ row[a].attempt_count \in Nat /\ row[a].dispatch_queue \in Optional(Queues)
      BY <2>1 DEF PCs, WorkerPCs, Row
    <2>4. c \in Proc BY <1>1, <2>3 DEF Proc
    <2>5. c.pc = "running" /\ c.att = a /\ c.token = proc[w].token BY <1>1 DEF Proc
    <2>6. ProcOK(c) BY <2>1, <2>5 DEF ProcOK, SubmitPCs
    <2>7. RowsStep /\ ProcsOK(proc')
      BY <1>0, <1>2, <1>5, <2>2, <2>4, <2>6, SameRows, UpdateProc DEF LoadClaim
    <2>8. QED BY <1>2, <1>5, <2>7 DEF StepOK, LoadClaim
  <1>6. CASE FinishSuccess(w)
    <2>1. a \in Attempts /\ row[a] \in Row BY <1>1, <1>6 DEF FinishSuccess, At
    <2>2. RowsStep
      <3>1. CASE FinishWhere(row[a], proc[w].token)
        <4>1. RowStep(row[a], FinishSuccessSet(row[a], Skew[w]))
          BY <1>1, <2>1, <3>1, RowStepIntro DEF FinishWhere
        <4>2. QED BY <1>2, <1>6, <2>1, <3>1, <4>1, UpdateRows DEF FinishSuccess
      <3>2. CASE ~FinishWhere(row[a], proc[w].token)
        BY <1>2, <1>6, <3>2, SameRows DEF FinishSuccess
      <3>3. QED BY <3>1, <3>2
    <2>3. QED BY <1>0, <1>2, <1>6, <2>2, DoneProc DEF StepOK, FinishSuccess
  <1>7. CASE FinishFailure(w)
    <2>1. a \in Attempts /\ row[a] \in Row BY <1>1, <1>7 DEF FinishFailure, At
    <2> DEFINE delay == RetryDelayOf(proc[w].queue, proc[w].tries)
    <2>2. delay \in Optional(Nat) BY <1>1, DelayType DEF Proc
    <2>3. CASE /\ FinishWhere(row[a], proc[w].token)
               /\ Update(a, FailureSet(row[a], delay, Skew[w]))
               /\ Goto(w, "failed")
      <3>1. row[a].status = "running" BY <2>3 DEF FinishWhere
      <3> HIDE DEF delay
      <3>2. RowStep(row[a], FailureSet(row[a], delay, Skew[w]))
        BY <1>1, <2>1, <2>2, <3>1, RowStepIntro
      <3>3. "failed" \in PCs BY DEF PCs, RetryPCs
      <3>4. [proc[w] EXCEPT !.pc = "failed"] \in Proc BY <1>1, <3>3, SetPc
      <3>5. ProcOK([proc[w] EXCEPT !.pc = "failed"])
        BY <1>1, <2>1, <3>3, SetPc DEF ProcOK, SubmitPCs
      <3>6. RowsStep /\ ProcsOK(proc')
        BY <1>0, <1>2, <2>1, <2>3, <3>2, <3>4, <3>5, UpdateRows, GotoProc
      <3>7. QED BY <1>2, <1>7, <3>6 DEF StepOK, FinishFailure
    <2>4. CASE Done(w) /\ UNCHANGED row
      BY <1>0, <1>2, <1>7, <2>4, SameRows, DoneProc DEF StepOK, FinishFailure
    <2>5. QED BY <1>7, <2>3, <2>4 DEF FinishFailure
  <1>8. CASE HardKill(w)
    BY <1>0, <1>2, <1>8, SameRows, DoneProc DEF StepOK, HardKill
  <1>9. QED BY <1>3, <1>4, <1>5, <1>6, <1>7, <1>8 DEF WorkerStep

\* A delivery and a submission start a process on an attempt.
LEMMA StartOK ==
    ASSUME TypeInv,
           \/ \E p \in Submitters, a \in Attempts, q \in Queues : Submit(p, a, q)
           \/ \E w \in Workers, m \in Tokens : Receive(w, m)
    PROVE  StepOK
  <1>1. TypeOK /\ broker \in [Tokens -> Optional(Message)] /\ stable \in BOOLEAN
    BY DEF TypeInv, TypeOK
  <1>2. RowsStep BY <1>1, SameRows DEF Submit, Receive
  <1>3. ASSUME NEW p \in Submitters, NEW a \in Attempts, NEW q \in Queues, Submit(p, a, q)
        PROVE  StepOK
    <2> DEFINE c == [IdleProc EXCEPT !.pc = "submit", !.att = a, !.queue = q]
    <2>1. c \in Proc BY DEF IdleProc, Proc, PCs, SubmitPCs, Optional, Instant
    <2>2. ProcOK(c) BY DEF IdleProc, ProcOK
    <2>3. p \in Procs /\ proc' = [proc EXCEPT ![p] = c] BY <1>3 DEF Submit, Procs
    <2>4. ProcsOK(proc') BY <2>1, <2>2, <2>3, UpdateProc
    <2>5. QED BY <1>1, <1>2, <1>3, <2>4 DEF StepOK, Submit
  <1>4. ASSUME NEW w \in Workers, NEW m \in Tokens, Receive(w, m) PROVE StepOK
    <2>1. broker[m] \in Message BY <1>1, <1>4 DEF Receive, Optional
    <2>2. broker' \in [Tokens -> Optional(Message)]
      <3>1. None \in Optional(Message) BY DEF Optional
      <3>2. QED BY <1>1, <1>4, <3>1 DEF Receive
    <2>3. ProcsOK(proc')
      <3>1. CASE row[broker[m].att].status = "pending"
        <4> DEFINE limit == HardLimit[broker[m].queue]
                   c == [IdleProc EXCEPT !.pc = "claim", !.att = broker[m].att, !.token = m,
                                         !.left = limit, !.queue = broker[m].queue]
        <4>1. broker[m].att \in Attempts /\ broker[m].queue \in Queues BY <2>1 DEF Message
        <4>2. limit \in Instant BY <4>1, ConstantsAssumption DEF Optional, Instant
        <4>3. proc' = [proc EXCEPT ![w] = c] BY <1>4, <3>1 DEF Receive
        <4> HIDE DEF limit
        <4>4. c \in Proc BY <4>1, <4>2 DEF IdleProc, Proc, PCs, WorkerPCs, Optional, Instant
        <4>5. ProcOK(c) BY <4>1 DEF IdleProc, ProcOK
        <4>6. QED BY <4>3, <4>4, <4>5, UpdateProc DEF Procs
      <3>2. CASE row[broker[m].att].status # "pending"
        BY <1>4, <3>2, SameProcs DEF Receive
      <3>3. QED BY <3>1, <3>2
    <2>4. QED BY <1>1, <1>2, <1>4, <2>2, <2>3 DEF StepOK, Receive
  <1>5. QED BY <1>3, <1>4

\* The call of execute() by a sweep
LEMMA ResendOK ==
    ASSUME TypeInv, NEW s \in Procs, NEW a \in Attempts, Resend(s, a) PROVE ProcsOK(proc')
  <1> DEFINE q == RedispatchQueue(row[a].dispatch_queue)
             c == [IdleProc EXCEPT !.pc = "submit", !.att = a, !.queue = q]
  <1>1. q \in Queues
    BY ConstantsAssumption DEF RedispatchQueue, TypeInv, TypeOK, Row, Optional
  <1>2. proc' = [proc EXCEPT ![s] = c] BY DEF Resend
  <1> HIDE DEF q
  <1>3. c \in Proc BY <1>1 DEF IdleProc, Proc, PCs, SubmitPCs, Optional, Instant
  <1>4. ProcOK(c) BY <1>1 DEF IdleProc, ProcOK
  <1>5. QED BY <1>2, <1>3, <1>4, UpdateProc

\* Steps of QueueReconciler.reconcile()
LEMMA SweepOK == ASSUME TypeInv, NEW s \in Sweepers, SweepStart(s) \/ SweepStep(s) PROVE StepOK
  <1>0. s \in Procs BY DEF Procs
  <1>1. /\ proc[s] \in Proc /\ ProcOK(proc[s]) /\ Skew[s] \in Int
        /\ proc[s].pc # "idle" => proc[s].att \in Attempts /\ row[proc[s].att] \in Row
    BY <1>0, ProcFacts
  <1>2. TypeOK /\ broker \in [Tokens -> Optional(Message)] /\ stable \in BOOLEAN
    BY DEF TypeInv, TypeOK
  <1>3. ASSUME NEW a \in Attempts, ListExpiredLease(s, a) PROVE StepOK
    <2> DEFINE c == [proc[s] EXCEPT !.pc = "listed", !.att = a]
    <2>1. proc' = [proc EXCEPT ![s] = c] BY <1>0, <1>2, <1>3 DEF ListExpiredLease, TypeOK
    <2>2. c \in Proc BY <1>1 DEF Proc, PCs, SweepPCs, Optional
    <2>3. c.pc = "listed" /\ c.att = a BY <1>1 DEF Proc
    <2>4. ProcOK(c) BY <2>3 DEF ProcOK, SubmitPCs
    <2>5. RowsStep /\ ProcsOK(proc')
      BY <1>0, <1>2, <1>3, <2>1, <2>2, <2>4, SameRows, UpdateProc DEF ListExpiredLease
    <2>6. QED BY <1>2, <1>3, <2>5 DEF StepOK, ListExpiredLease
  <1>4. ASSUME NEW a \in Attempts, RecoverExpiredMessage(s, a) PROVE StepOK
    <2>1. row[a] \in Row /\ row[a].status = "pending"
      BY <1>2, <1>4 DEF RecoverExpiredMessage, ExpiredMessage, TypeOK
    <2>2. RowStep(row[a], ClaimExpiredMessageSet(row[a], Skew[s])) BY <1>1, <2>1, RowStepIntro
    <2>3. RowsStep /\ ProcsOK(proc')
      BY <1>0, <1>2, <1>4, <2>2, UpdateRows, ResendOK DEF RecoverExpiredMessage
    <2>4. QED BY <1>2, <1>4, <2>3 DEF StepOK, RecoverExpiredMessage
  <1>5. ASSUME NEW a \in Attempts, RecoverStuckTask(s, a) PROVE StepOK
    <2>1. row[a] \in Row /\ IsStuck(row[a], Skew[s]) BY <1>2, <1>5 DEF RecoverStuckTask, TypeOK
    <2>2. RowStep(row[a], ResetToPendingSet(row[a], Skew[s])) BY <1>1, <2>1, RowStepIntro
    <2>3. RowsStep /\ ProcsOK(proc')
      BY <1>0, <1>2, <1>5, <2>2, UpdateRows, ResendOK DEF RecoverStuckTask
    <2>4. QED BY <1>2, <1>5, <2>3 DEF StepOK, RecoverStuckTask
  <1>6. CASE ReadExpiredLease(s)
    <2> DEFINE a == proc[s].att
               c == [proc[s] EXCEPT !.pc = "read", !.tries = row[a].attempt_count,
                                    !.queue = row[a].dispatch_queue]
    <2>1. a \in Attempts /\ row[a] \in Row BY <1>1, <1>6 DEF ReadExpiredLease, At
    <2>2. proc' = [proc EXCEPT ![s] = c] BY <1>0, <1>2, <1>6 DEF ReadExpiredLease, TypeOK
    <2>3. row[a].attempt_count \in Nat /\ row[a].dispatch_queue \in Optional(Queues) BY <2>1 DEF Row
    <2>4. c \in Proc BY <1>1, <2>3 DEF Proc, PCs, SweepPCs
    <2>5. c.pc = "read" /\ c.att = a BY <1>1 DEF Proc
    <2>6. ProcOK(c) BY <2>1, <2>5 DEF ProcOK, SubmitPCs
    <2>7. RowsStep /\ ProcsOK(proc')
      BY <1>0, <1>2, <1>6, <2>2, <2>4, <2>6, SameRows, UpdateProc DEF ReadExpiredLease
    <2>8. QED BY <1>2, <1>6, <2>7 DEF StepOK, ReadExpiredLease
  <1>7. CASE FailExpiredLease(s)
    <2> DEFINE a == proc[s].att
               delay == RetryDelayOf(proc[s].queue, proc[s].tries)
    <2>1. a \in Attempts /\ row[a] \in Row BY <1>1, <1>7 DEF FailExpiredLease, At
    <2>2. delay \in Optional(Nat) BY <1>1, DelayType DEF Proc
    <2>3. CASE /\ FailExpiredLeaseWhere(row[a])
               /\ Update(a, FailureSet(row[a], delay, Skew[s]))
               /\ Goto(s, "failed")
      <3>1. row[a].status = "running" BY <2>3 DEF FailExpiredLeaseWhere
      <3> HIDE DEF delay
      <3>2. RowStep(row[a], FailureSet(row[a], delay, Skew[s]))
        BY <1>1, <2>1, <2>2, <3>1, RowStepIntro
      <3>3. "failed" \in PCs BY DEF PCs, RetryPCs
      <3>4. [proc[s] EXCEPT !.pc = "failed"] \in Proc BY <1>1, <3>3, SetPc
      <3>5. ProcOK([proc[s] EXCEPT !.pc = "failed"])
        BY <1>1, <2>1, <3>3, SetPc DEF ProcOK, SubmitPCs
      <3>6. RowsStep /\ ProcsOK(proc')
        BY <1>0, <1>2, <2>1, <2>3, <3>2, <3>4, <3>5, UpdateRows, GotoProc
      <3>7. QED BY <1>2, <1>7, <3>6 DEF StepOK, FailExpiredLease
    <2>4. CASE Done(s) /\ UNCHANGED row
      BY <1>0, <1>2, <1>7, <2>4, SameRows, DoneProc DEF StepOK, FailExpiredLease
    <2>5. QED BY <1>7, <2>3, <2>4 DEF FailExpiredLease
  <1>8. QED BY <1>3, <1>4, <1>5, <1>6, <1>7 DEF SweepStart, SweepStep

\* Steps of the environment
LEMMA EnvironmentOK ==
    ASSUME TypeInv,
           \/ \E p \in Procs : Crash(p)
           \/ \E a \in Attempts : GiveUpByHand(a)
           \/ \E m \in Tokens : LoseMessage(m) \/ DropExpired(m)
    PROVE  StepOK
  <1>1. TypeOK /\ broker \in [Tokens -> Optional(Message)] /\ stable \in BOOLEAN
    BY DEF TypeInv, TypeOK
  <1>2. ASSUME NEW p \in Procs, Crash(p) PROVE StepOK
    BY <1>1, <1>2, SameRows, DoneProc DEF StepOK, Crash
  <1>3. ASSUME NEW a \in Attempts, GiveUpByHand(a) PROVE StepOK
    <2>1. row[a] \in Row /\ CouldStillRun(row[a]) /\ "manual" \in GiveUpReasons
      BY <1>1, <1>3 DEF GiveUpByHand, TypeOK, GiveUpReasons
    <2>2. RowStep(row[a], GiveUpSet(row[a], "manual", 0)) BY <2>1, RowStepIntro
    <2>3. RowsStep /\ ProcsOK(proc') BY <1>1, <1>3, <2>2, UpdateRows, SameProcs DEF GiveUpByHand
    <2>4. QED BY <1>1, <1>3, <2>3 DEF StepOK, GiveUpByHand
  <1>4. ASSUME NEW m \in Tokens, LoseMessage(m) \/ DropExpired(m) PROVE StepOK
    <2>1. RowsStep /\ ProcsOK(proc')
      BY <1>1, <1>4, SameRows, SameProcs DEF LoseMessage, DropExpired
    <2>2. None \in Optional(Message) BY DEF Optional
    <2>3. broker' \in [Tokens -> Optional(Message)] BY <1>1, <1>4, <2>2 DEF LoseMessage, DropExpired
    <2>4. QED BY <1>1, <1>4, <2>1, <2>3 DEF StepOK, LoseMessage, DropExpired
  <1>5. QED BY <1>2, <1>3, <1>4

\* The passing of time
LEMMA TickOK == ASSUME TypeInv, Tick PROVE StepOK
  <1>1. TypeOK /\ \A p \in Procs : proc[p] \in Proc /\ ProcOK(proc[p]) BY DEF TypeInv, TypeOK
  <1>2. RowsStep
    <2>1. row' = [a \in Attempts |-> AgeRow(row[a])] BY DEF Tick
    <2>2. \A a \in Attempts : row[a] \in Row BY <1>1 DEF TypeOK
    <2>3. \A a \in Attempts : AgeRow(row[a]) \in Row BY <2>2, AgeRowType
    <2>4. \A a \in Attempts : RowStep(row[a], AgeRow(row[a])) BY DEF RowStep
    <2>5. QED BY <2>1, <2>3, <2>4 DEF RowsStep
  <1>3. broker' \in [Tokens -> Optional(Message)]
    <2> DEFINE Next1(m) == IF broker[m] = None THEN None
                           ELSE [broker[m] EXCEPT !.eta = Age(@), !.expires = Age(@)]
    <2>1. ASSUME NEW m \in Tokens PROVE Next1(m) \in Optional(Message)
      <3>1. CASE broker[m] = None BY <3>1 DEF Optional
      <3>2. CASE broker[m] # None
        <4>1. broker[m] \in Message BY <1>1, <3>2 DEF TypeOK, Optional
        <4>2. [broker[m] EXCEPT !.eta = Age(@), !.expires = Age(@)] \in Message
          BY <4>1, AgeType DEF Message
        <4>3. QED BY <3>2, <4>2 DEF Optional
      <3>3. QED BY <3>1, <3>2
    <2>2. broker' = [m \in Tokens |-> Next1(m)] BY DEF Tick
    <2> HIDE DEF Next1
    <2>3. QED BY <2>1, <2>2
  <1>4. ProcsOK(proc')
    <2> DEFINE Left(p) == IF proc[p].left = None THEN None ELSE proc[p].left - 1
               Later(p) == [proc[p] EXCEPT !.eta = Age(@), !.left = IF @ = None THEN None ELSE @ - 1]
    <2>1. ASSUME NEW p \in Procs PROVE Later(p) \in Proc /\ ProcOK(Later(p))
      <3>1. Left(p) \in Instant BY <1>1 DEF Proc, Instant, Optional
      <3>2. Age(proc[p].eta) \in Instant BY <1>1, AgeType DEF Proc
      <3>3. Later(p) = [proc[p] EXCEPT !.eta = Age(proc[p].eta), !.left = Left(p)] BY <1>1 DEF Proc
      <3> HIDE DEF Left, Later
      <3>4. Later(p) \in Proc BY <1>1, <3>1, <3>2, <3>3 DEF Proc
      <3>5. /\ Later(p).pc = proc[p].pc /\ Later(p).att = proc[p].att
            /\ Later(p).token = proc[p].token /\ Later(p).queue = proc[p].queue
        BY <1>1, <3>3 DEF Proc
      <3>6. QED BY <1>1, <3>4, <3>5 DEF ProcOK
    <2>2. proc' = [p \in Procs |-> Later(p)] BY DEF Tick
    <2> HIDE DEF Later
    <2>3. QED BY <2>1, <2>2 DEF ProcsOK
  <1>5. QED BY <1>1, <1>2, <1>3, <1>4 DEF StepOK, Tick, TypeOK

\* One step of the system from a well-typed state
LEMMA NextOK == ASSUME TypeInv, [Next]_vars PROVE StepOK
  <1>1. CASE Next
    BY <1>1, ExecuteStepOK, RetryStepOK, WorkerStepOK, StartOK, SweepOK, EnvironmentOK, TickOK DEF Next
  <1>2. CASE UNCHANGED vars
    BY <1>2, SameRows, SameProcs DEF vars, StepOK, TypeInv, TypeOK
  <1>3. QED BY <1>1, <1>2

\* The inductive step of TypeInv
LEMMA TypeInvStep == TypeInv /\ [Next]_vars => TypeInv'
  BY NextOK DEF StepOK, RowsStep, ProcsOK, TypeInv, TypeOK

\* An empty table, an empty broker and idle processes are well typed.
LEMMA TypeInvInit == Init => TypeInv
  <1> SUFFICES ASSUME Init PROVE TypeInv
    OBVIOUS
  <1>1. AbsentRow \in Row
    BY DEF AbsentRow, Row, Instant, Optional, Statuses
  <1>2. IdleProc \in Proc
    BY DEF IdleProc, Proc, Optional, Instant, PCs
  <1>3. ProcOK(IdleProc)
    BY DEF IdleProc, ProcOK, SubmitPCs
  <1>4. None \in Optional(Message) BY DEF Optional
  <1>5. QED BY <1>1, <1>2, <1>3, <1>4 DEF Init, TypeInv, TypeOK

\* The variables of QueueTasks keep their types: every UPDATE writes a row and every message
\* sent names an attempt and a queue, whatever a process read before.
THEOREM TypeCorrect == Spec => []TypeOK
  <1>1. TypeInv => TypeOK BY DEF TypeInv
  <1>2. QED BY <1>1, TypeInvInit, TypeInvStep, PTL DEF Spec

-----------------------------------------------------------------------------
(* Failed, given up, succeeded *)

\* FailedIsDecided of one row, with what makes it inductive: only a failed row has a reason,
\* so no claim, success or failure ever meets one.
RowDecided(r) ==
    /\ r.status = "failed" => (r.next_retry_at = None <=> r.give_up_reason # None)
    /\ r.give_up_reason # None => r.status = "failed"

\* A row past its WHERE clauses: success is never left, and a decided row stays decided, its
\* give-up included.
LEMMA RowStepDecided ==
    ASSUME NEW r \in Row, NEW r2, RowStep(r, r2)
    PROVE  /\ r.status = "success" => r2.status = "success"
           /\ RowDecided(r) => RowDecided(r2)
           /\ RowDecided(r) /\ r.give_up_reason # None =>
                  /\ r2.status = "failed" /\ r2.give_up_reason = r.give_up_reason
                  /\ r2.next_retry_at = None /\ r2.attempt_count = r.attempt_count
  <1> DEFINE Good ==
        /\ r.status = "success" => r2.status = "success"
        /\ RowDecided(r) => RowDecided(r2)
        /\ RowDecided(r) /\ r.give_up_reason # None =>
               /\ r2.status = "failed" /\ r2.give_up_reason = r.give_up_reason
               /\ r2.next_retry_at = None /\ r2.attempt_count = r.attempt_count
  <1>1. CASE r2 = r BY <1>1 DEF RowDecided
  <1>2. CASE r2 = AgeRow(r)
    <2>1. /\ r2.status = r.status /\ r2.next_retry_at = Age(r.next_retry_at)
          /\ r2.give_up_reason = r.give_up_reason /\ r2.attempt_count = r.attempt_count
      BY <1>2 DEF AgeRow, Row
    <2>2. r2.next_retry_at = None <=> r.next_retry_at = None BY <2>1, AgeType DEF Row
    <2>3. QED BY <2>1, <2>2 DEF RowDecided
  <1>3. CASE \E seconds \in Int : r2 = SetGiveUpDeadlineSet(r, seconds)
    BY <1>3 DEF SetGiveUpDeadlineSet, Row, RowDecided
  <1>4. ASSUME NEW now \in Int, NEW q \in Queues,
               \/ r2 = RecordDispatchSet(r, q, now)
               \/ RequeueWhere(r) /\ r2 = RequeueSet(r, q, now)
        PROVE  Good
    BY <1>4 DEF RecordDispatchSet, RequeueWhere, RequeueSet, Row, RowDecided
  <1>5. ASSUME NEW now \in Int, r.status = "absent", r2 = CreatedRow(now) PROVE Good
    BY <1>5 DEF CreatedRow, AbsentRow, RowDecided
  <1>6. ASSUME NEW now \in Int,
               \/ ReopenWhere(r) /\ r2 = ReopenSet(r, now)
               \/ r.status = "pending" /\ r2 = ClaimExpiredMessageSet(r, now)
               \/ r.status = "running" /\ r2 = FinishSuccessSet(r, now)
        PROVE  Good
    BY <1>6 DEF ReopenWhere, ReopenSet, ClaimExpiredMessageSet, FinishSuccessSet, Row, RowDecided
  <1>7. ASSUME NEW now \in Int, NEW token \in Tokens, NEW limit \in Optional(Nat \ {0}),
               ClaimWhere(r), r2 = ClaimSet(r, token, limit, now)
        PROVE  Good
    BY <1>7 DEF ClaimWhere, ClaimSet, Row, RowDecided
  <1>8. ASSUME NEW now \in Int, NEW delay \in Optional(Nat), r.status = "running",
               r2 = FailureSet(r, delay, now)
        PROVE  Good
    <2> DEFINE too_late == delay # None /\ Before(r.give_up_at, delay)
    <2>1. /\ r2.status = "failed"
          /\ r2.next_retry_at = IF delay = None \/ too_late THEN None ELSE now + delay
          /\ r2.give_up_reason = IF delay = None THEN "attempts"
                                 ELSE IF too_late THEN "block_age" ELSE None
      BY <1>8 DEF FailureSet, Row
    <2>2. None # "attempts" /\ None # "block_age" BY ConstantsAssumption
    <2>3. delay # None => now + delay # None BY ConstantsAssumption DEF Optional
    <2> HIDE DEF too_late
    <2>4. RowDecided(r2) BY <2>1, <2>2, <2>3 DEF RowDecided
    <2>5. QED BY <1>8, <2>4 DEF RowDecided
  <1>9. ASSUME NEW now \in Int, NEW reason \in GiveUpReasons, CouldStillRun(r),
               r2 = GiveUpSet(r, reason, now)
        PROVE  Good
    <2>1. reason # None BY ConstantsAssumption DEF GiveUpReasons
    <2>2. QED BY <1>9, <2>1 DEF CouldStillRun, GiveUpSet, Row, RowDecided
  <1>10. ASSUME NEW now \in Int, IsStuck(r, now), r2 = ResetToPendingSet(r, now) PROVE Good
    <2>1. r.status \in {"pending", "running"} \/ (r.status = "failed" /\ r.next_retry_at # None)
      BY <1>10 DEF IsStuck, Before
    <2>2. QED BY <1>10, <2>1 DEF ResetToPendingSet, Row, RowDecided
  <1> HIDE DEF Good
  <1>11. Good
    BY <1>4, <1>5, <1>6, <1>7, <1>8, <1>9, <1>10, <1>1, <1>2, <1>3 DEF RowStep, Good
  <1>12. QED BY <1>11 DEF Good

\* The inductive invariant for FailedIsDecided and GivenUpIsFinal
Decided == \A a \in Attempts : RowDecided(row[a])

\* Decided holds of the empty table and is kept by every step.
LEMMA DecidedInductive ==
    /\ Init => Decided
    /\ TypeInv /\ Decided /\ [Next]_vars => Decided'
  <1>1. Init => Decided BY DEF Init, AbsentRow, Decided, RowDecided
  <1>2. ASSUME TypeInv, Decided, [Next]_vars PROVE Decided'
    <2>1. \A a \in Attempts : row[a] \in Row /\ RowStep(row[a], row'[a])
      BY <1>2, NextOK DEF StepOK, RowsStep, TypeInv, TypeOK
    <2>2. \A a \in Attempts : RowDecided(row[a]) => RowDecided(row'[a]) BY <2>1, RowStepDecided
    <2>3. QED BY <1>2, <2>2 DEF Decided
  <1>3. QED BY <1>1, <1>2

\* _failure_fields() and the give-up updates: in every reachable state a failed attempt has a
\* retry time or a reason why there is none, never neither and never both.
THEOREM AlwaysDecided == Spec => []FailedIsDecided
  <1>1. Decided => FailedIsDecided BY DEF Decided, RowDecided, FailedIsDecided
  <1>2. QED BY <1>1, TypeInvInit, TypeInvStep, DecidedInductive, PTL DEF Spec

\* README "Execution guarantees": no late worker, sweep, submission or give-up changes the
\* status of an attempt that succeeded.
THEOREM SuccessStays == Spec => SuccessIsFinal
  <1>1. TypeInv /\ [Next]_vars =>
            [\A a \in Attempts : row[a].status = "success" => row'[a].status = "success"]_vars
    <2> SUFFICES ASSUME TypeInv, [Next]_vars, NEW a \in Attempts, row[a].status = "success"
                 PROVE  row'[a].status = "success"
      OBVIOUS
    <2>1. row[a] \in Row /\ RowStep(row[a], row'[a])
      BY NextOK DEF StepOK, RowsStep, TypeInv, TypeOK
    <2>2. QED BY <2>1, RowStepDecided
  <1>2. QED BY <1>1, TypeInvInit, TypeInvStep, PTL DEF Spec, SuccessIsFinal

\* README "Giving up attempts": a given-up attempt keeps its reason, gets no retry time and is
\* never claimed again, whichever process read it before the give-up.
THEOREM GiveUpStays == Spec => GivenUpIsFinal
  <1> DEFINE Kept ==
        \A a \in Attempts :
          row[a].give_up_reason # None =>
              /\ row'[a].status = "failed"
              /\ row'[a].give_up_reason = row[a].give_up_reason
              /\ row'[a].next_retry_at = None
              /\ row'[a].attempt_count = row[a].attempt_count
  <1>1. TypeInv /\ Decided /\ [Next]_vars => [Kept]_vars
    <2> SUFFICES ASSUME TypeInv, Decided, [Next]_vars PROVE Kept
      OBVIOUS
    <2>1. \A a \in Attempts : row[a] \in Row /\ RowStep(row[a], row'[a]) /\ RowDecided(row[a])
      BY NextOK DEF StepOK, RowsStep, TypeInv, TypeOK, Decided
    <2>2. QED BY <2>1, RowStepDecided
  <1>2. QED BY <1>1, TypeInvInit, TypeInvStep, DecidedInductive, PTL DEF Spec, GivenUpIsFinal

-----------------------------------------------------------------------------
(* At most one worker executes an attempt                                  *)

\* The argument: a claim writes a lease that ends Margin seconds after the worker's hard time
\* limit, time lowers both alike, the worker is gone KillDelay <= Margin seconds after its
\* limit; hence a lease has not expired while its worker executes, and no WHERE clause but the
\* worker's own lets the row leave RUNNING.

\* The row r of an executing worker c is claimed until Margin seconds after c's hard limit,
\* or for good when there is no limit.
Protected(c, r) ==
    /\ r.status = "running" /\ r.celery_task_id = c.token
    /\ IF c.left = None THEN r.lease_expires_at = None /\ StaleTimeout = None
       ELSE r.lease_expires_at # None /\ r.lease_expires_at >= c.left + Margin

\* A worker outlives its limit by KillDelay at most, and has no more time left at its claim
\* than lease_seconds() counts on.
LimitOK(c) ==
    /\ c.left # None => c.left >= -KillDelay
    /\ c.pc = "claim" => IF HardLimit[c.queue] = None THEN c.left = None
                         ELSE c.left # None /\ c.left <= HardLimit[c.queue]

Exclusive == \A w1, w2 \in Workers :
    Executing(w1) /\ Executing(w2) /\ proc[w1].att = proc[w2].att => w1 = w2

Leased ==
    /\ \A w \in Workers : /\ LimitOK(proc[w])
                          /\ Executing(w) => Protected(proc[w], row[proc[w].att])
    /\ Exclusive

LeaseInv == KilledBeforeTakeover => Leased

-----------------------------------------------------------------------------
(* Steps that leave the claims of the other workers alone *)

RowKept(r, r2) ==
    /\ r2.status = r.status /\ r2.lease_expires_at = r.lease_expires_at
    /\ r2.celery_task_id = r.celery_task_id

\* The rows of all executing workers keep status, lease and token; of all but p.
AllKept == \A w \in Workers : Executing(w) => RowKept(row[proc[w].att], row'[proc[w].att])
ClaimsKept(p) ==
    \A w \in Workers : w # p /\ Executing(w) => RowKept(row[proc[w].att], row'[proc[w].att])

\* The step neither brings worker w to a claim nor disturbs the claim w holds.
Calm(w) ==
    \/ proc'[w] = IdleProc
    \/ /\ proc'[w].left = proc[w].left
       /\ proc'[w].pc = "claim" => proc'[w] = proc[w]
       /\ Executing(w)' => /\ Executing(w) /\ proc'[w].att = proc[w].att
                           /\ proc'[w].token = proc[w].token
                           /\ RowKept(row[proc[w].att], row'[proc[w].att])

\* No sweep touches the row of an executing worker.
LEMMA HeldRow ==
    ASSUME TypeInv, Leased, NEW w \in Workers, Executing(w), NEW now \in Int
    PROVE  /\ row[proc[w].att].status = "running"
           /\ ~FailExpiredLeaseWhere(row[proc[w].att])
           /\ ~IsStuck(row[proc[w].att], now)
  <1> DEFINE r == row[proc[w].att]
             c == proc[w]
  <1>1. c \in Proc /\ r \in Row
    BY ProcFacts DEF Procs, Executing
  <1>2. LimitOK(c) /\ Protected(c, r) BY DEF Leased
  <1>3. ~FailExpiredLeaseWhere(r)
    <2>1. CASE c.left = None BY <1>2, <2>1 DEF Protected, FailExpiredLeaseWhere, Before
    <2>2. CASE c.left # None
      <3>1. c.left \in Int /\ c.left >= -KillDelay
        BY <1>1, <1>2, <2>2 DEF LimitOK, Proc, Instant, Optional
      <3>2. r.lease_expires_at \in Int /\ r.lease_expires_at >= c.left + Margin
        BY <1>1, <1>2, <2>2 DEF Protected, Row, Instant, Optional
      <3>3. KillDelay \in Nat /\ Margin \in Nat /\ KillDelay <= Margin
        BY ConstantsAssumption, ProcessAssumption
      <3>4. QED BY <3>1, <3>2, <3>3 DEF FailExpiredLeaseWhere, Before
    <2>3. QED BY <2>1, <2>2
  <1>4. ~IsStuck(r, now) BY <1>2 DEF IsStuck, Protected
  <1>5. QED BY <1>2, <1>3, <1>4 DEF Protected

\* An UPDATE of a row that is not running, that keeps status, lease and token, or that a sweep makes
\* disturbs no claim.
LEMMA UpdateKept ==
    ASSUME TypeInv, Leased, NEW a \in Attempts, NEW r2, Update(a, r2),
           \/ row[a].status # "running"
           \/ RowKept(row[a], r2)
           \/ FailExpiredLeaseWhere(row[a])
           \/ \E now \in Int : IsStuck(row[a], now)
    PROVE  AllKept /\ \A p : ClaimsKept(p)
  <1> SUFFICES ASSUME NEW w \in Workers, Executing(w)
               PROVE  RowKept(row[proc[w].att], row'[proc[w].att])
    BY DEF AllKept, ClaimsKept
  <1>1. row \in [Attempts -> Row] /\ proc[w].att \in Attempts
    BY ProcFacts DEF Procs, Executing, TypeInv, TypeOK
  <1>2. row' = [row EXCEPT ![a] = r2] BY DEF Update
  <1>3. CASE proc[w].att # a BY <1>1, <1>2, <1>3 DEF RowKept
  <1>4. CASE proc[w].att = a
    <2>1. /\ row[a].status = "running" /\ ~FailExpiredLeaseWhere(row[a])
          /\ \A now \in Int : ~IsStuck(row[a], now)
      BY <1>4, HeldRow, 0 \in Int
    <2>2. RowKept(row[a], r2) BY <2>1
    <2>3. QED BY <1>1, <1>2, <1>4, <2>2
  <1>5. QED BY <1>3, <1>4

\* A step without an UPDATE disturbs no claim.
LEMMA SameKept == ASSUME UNCHANGED row PROVE AllKept /\ \A p : ClaimsKept(p)
  BY DEF AllKept, ClaimsKept, RowKept

\* A process that moves, but to no claim, leaves every worker calm.
LEMMA MoveCalm ==
    ASSUME TypeInv, NEW p \in Procs, NEW c, proc' = [proc EXCEPT ![p] = c], ClaimsKept(p),
           p \in Workers => \/ c = IdleProc
                            \/ /\ c.left = proc[p].left
                               /\ c.pc \notin {"claim", "claimed", "running"}
    PROVE  \A w \in Workers : Calm(w)
  <1> SUFFICES ASSUME NEW w \in Workers PROVE Calm(w)
    OBVIOUS
  <1>1. proc \in [Procs -> Proc] /\ w \in Procs BY DEF TypeInv, TypeOK, Procs
  <1>2. CASE w # p
    <2>1. proc'[w] = proc[w] BY <1>1, <1>2
    <2>2. QED BY <1>2, <2>1 DEF Calm, Executing, ClaimsKept
  <1>3. CASE w = p
    <2>1. proc'[w] = c BY <1>1, <1>3
    <2>2. QED BY <1>3, <2>1 DEF Calm, Executing
  <1>4. QED BY <1>2, <1>3

\* The process ends.
LEMMA DoneCalm ==
    ASSUME TypeInv, NEW p \in Procs, Done(p), ClaimsKept(p)
    PROVE  \A w \in Workers : Calm(w)
  BY MoveCalm DEF Done

\* The process goes on, to no claim.
LEMMA GotoCalm ==
    ASSUME TypeInv, NEW p \in Procs, NEW pc \in PCs \ {"claim", "claimed", "running"}, Goto(p, pc),
           ClaimsKept(p)
    PROVE  \A w \in Workers : Calm(w)
  <1> DEFINE c == [proc[p] EXCEPT !.pc = pc]
  <1>1. proc[p] \in Proc /\ proc \in [Procs -> Proc] BY DEF TypeInv, TypeOK
  <1>2. proc' = [proc EXCEPT ![p] = c] BY <1>1 DEF Goto
  <1>3. c.left = proc[p].left /\ c.pc = pc BY <1>1 DEF Proc
  <1> HIDE DEF c
  <1>4. QED BY <1>2, <1>3, MoveCalm

\* Nothing but the rows changes.
LEMMA StillCalm == ASSUME UNCHANGED proc, AllKept PROVE \A w \in Workers : Calm(w)
  BY DEF Calm, Executing, AllKept

\* Calm steps keep the invariant.
LEMMA CalmOK == ASSUME Leased, \A w \in Workers : Calm(w) PROVE Leased'
  <1>1. ASSUME NEW w \in Workers PROVE LimitOK(proc'[w])
    <2>1. CASE proc'[w] = IdleProc BY <2>1 DEF IdleProc, LimitOK
    <2>2. CASE proc'[w].left = proc[w].left /\ (proc'[w].pc = "claim" => proc'[w] = proc[w])
      BY <2>2 DEF Leased, LimitOK
    <2>3. QED BY <2>1, <2>2 DEF Calm
  <1>2. ASSUME NEW w \in Workers, Executing(w)'
        PROVE  /\ Executing(w) /\ proc'[w].att = proc[w].att /\ proc'[w].left = proc[w].left
               /\ proc'[w].token = proc[w].token
               /\ RowKept(row[proc[w].att], row'[proc[w].att])
    <2>1. proc'[w] # IdleProc BY <1>2 DEF Executing, IdleProc
    <2>2. QED BY <1>2, <2>1 DEF Calm
  <1>3. ASSUME NEW w \in Workers, Executing(w)' PROVE Protected(proc'[w], row'[proc'[w].att])
    BY <1>2, <1>3 DEF Leased, Protected, RowKept
  <1>4. Exclusive' BY <1>2 DEF Leased, Exclusive
  <1>5. QED BY <1>1, <1>3, <1>4 DEF Leased

-----------------------------------------------------------------------------
(* One lemma per group of actions *)

\* Steps of QueueExecutor.execute()
LEMMA ExecuteStepCalm ==
    ASSUME TypeInv, Leased, NEW p \in Procs, ExecuteStep(p) PROVE \A w \in Workers : Calm(w)
  <1> DEFINE a == proc[p].att
  <1>1. /\ proc[p] \in Proc /\ proc \in [Procs -> Proc] /\ Skew[p] \in Int
        /\ proc[p].pc # "idle" => a \in Attempts /\ row[a] \in Row
    BY ProcFacts DEF TypeInv, TypeOK
  <1>2. ASSUME NEW recorded, NEW eta
        PROVE  /\ OpenedProc(p, recorded, eta).left = proc[p].left
               /\ OpenedProc(p, recorded, eta).pc \in {"dated", "opened"}
    BY <1>1 DEF OpenedProc, Proc
  <1>3. {"dated", "agreed", "recorded"} \subseteq PCs \ {"claim", "claimed", "running"}
    BY DEF PCs, SubmitPCs
  <1>4. CASE Create(p)
    <2>1. ClaimsKept(p) BY <1>1, <1>4, UpdateKept DEF Create, At
    <2>2. QED BY <1>2, <1>4, <2>1, MoveCalm DEF Create
  <1>5. CASE Get(p)
    <2> DEFINE r == row[a]
               q == IF r.dispatch_queue = None THEN proc[p].queue ELSE r.dispatch_queue
               c == [proc[p] EXCEPT !.pc = "reopen", !.queue = q, !.eta = r.next_retry_at]
    <2>1. ClaimsKept(p) BY <1>5, SameKept DEF Get
    <2>2. CASE proc' = [proc EXCEPT ![p] = OpenedProc(p, r.dispatch_queue, r.next_retry_at)]
      BY <1>2, <2>1, <2>2, MoveCalm
    <2>3. CASE proc' = [proc EXCEPT ![p].pc = "reopen",
                                    ![p].queue = IF r.dispatch_queue = None THEN @ ELSE r.dispatch_queue,
                                    ![p].eta = r.next_retry_at]
      <3>1. proc' = [proc EXCEPT ![p] = c] BY <1>1, <2>3
      <3>2. c.left = proc[p].left /\ c.pc = "reopen" BY <1>1 DEF Proc
      <3> HIDE DEF c
      <3>3. QED BY <2>1, <3>1, <3>2, MoveCalm
    <2>4. CASE Done(p) BY <2>1, <2>4, DoneCalm
    <2>5. QED BY <1>5, <2>2, <2>3, <2>4 DEF Get
  <1>6. CASE Reopen(p)
    <2>1. CASE /\ ReopenWhere(row[a]) /\ Update(a, ReopenSet(row[a], Skew[p]))
               /\ proc' = [proc EXCEPT ![p] = OpenedProc(p, proc[p].queue, proc[p].eta)]
      <3>1. ClaimsKept(p) BY <1>1, <1>6, <2>1, UpdateKept DEF Reopen, At, ReopenWhere
      <3>2. QED BY <1>2, <2>1, <3>1, MoveCalm
    <2>2. CASE Done(p) /\ UNCHANGED row BY <2>2, SameKept, DoneCalm
    <2>3. QED BY <1>6, <2>1, <2>2 DEF Reopen
  <1>7. ASSUME NEW lag \in Lags, SetGiveUpDeadline(p, lag) PROVE \A w \in Workers : Calm(w)
    <2>1. a \in Attempts /\ row[a] \in Row BY <1>1, <1>7 DEF SetGiveUpDeadline, At
    <2>2. ASSUME NEW seconds PROVE RowKept(row[a], SetGiveUpDeadlineSet(row[a], seconds))
      BY <2>1 DEF RowKept, SetGiveUpDeadlineSet, Row
    <2>3. ClaimsKept(p) BY <1>7, <2>1, <2>2, UpdateKept, SameKept DEF SetGiveUpDeadline
    <2>4. QED BY <1>3, <1>7, <2>3, GotoCalm DEF SetGiveUpDeadline
  <1>8. CASE CheckDeadline(p)
    <2>1. CASE /\ GiveUpIfPastDeadlineWhere(row[a]) /\ Done(p)
               /\ Update(a, GiveUpSet(row[a], "block_age", Skew[p]))
      <3>1. ClaimsKept(p)
        BY <1>1, <1>8, <2>1, UpdateKept DEF CheckDeadline, At, GiveUpIfPastDeadlineWhere, CouldStillRun
      <3>2. QED BY <2>1, <3>1, DoneCalm
    <2>2. CASE Goto(p, "agreed") /\ UNCHANGED row BY <1>3, <2>2, SameKept, GotoCalm
    <2>3. QED BY <1>8, <2>1, <2>2 DEF CheckDeadline
  <1>9. CASE RecordDispatch(p)
    <2>1. a \in Attempts /\ row[a] \in Row BY <1>1, <1>9 DEF RecordDispatch, At
    <2>2. RowKept(row[a], RecordDispatchSet(row[a], proc[p].queue, Skew[p]))
      BY <2>1 DEF RowKept, RecordDispatchSet, Row
    <2>3. ClaimsKept(p) BY <1>9, <2>1, <2>2, UpdateKept DEF RecordDispatch
    <2>4. QED BY <1>3, <1>9, <2>3, GotoCalm DEF RecordDispatch
  <1>10. CASE Send(p) \/ SendFails(p)
    BY <1>10, SameKept, DoneCalm DEF Send, SendFails
  <1>11. QED BY <1>4, <1>5, <1>6, <1>7, <1>8, <1>9, <1>10 DEF ExecuteStep

\* Steps of dispatch_retry()
LEMMA RetryStepCalm ==
    ASSUME TypeInv, Leased, NEW p \in Procs, RetryStep(p) PROVE \A w \in Workers : Calm(w)
  <1> DEFINE a == proc[p].att
  <1>1. /\ proc[p] \in Proc /\ proc \in [Procs -> Proc]
        /\ proc[p].pc # "idle" => a \in Attempts /\ row[a] \in Row
    BY ProcFacts DEF TypeInv, TypeOK
  <1>2. CASE RefreshFailed(p)
    <2> DEFINE c == [proc[p] EXCEPT !.pc = "refreshed", !.eta = row[a].next_retry_at,
                                    !.queue = RedispatchQueue(row[a].dispatch_queue)]
    <2>1. ClaimsKept(p) BY <1>2, SameKept DEF RefreshFailed
    <2>2. Done(p) \/ proc' = [proc EXCEPT ![p] = c] BY <1>1, <1>2 DEF RefreshFailed
    <2>3. c.left = proc[p].left /\ c.pc = "refreshed" BY <1>1 DEF Proc
    <2> HIDE DEF c
    <2>4. QED BY <2>1, <2>2, <2>3, DoneCalm, MoveCalm
  <1>3. CASE RequeueForRetry(p)
    <2>1. CASE /\ RequeueWhere(row[a]) /\ Update(a, RequeueSet(row[a], proc[p].queue, Skew[p]))
               /\ Goto(p, "requeued")
      <3>1. ClaimsKept(p) BY <1>1, <1>3, <2>1, UpdateKept DEF RequeueForRetry, At, RequeueWhere
      <3>2. "requeued" \in PCs \ {"claim", "claimed", "running"} BY DEF PCs, RetryPCs
      <3>3. QED BY <2>1, <3>1, <3>2, GotoCalm
    <2>2. CASE Done(p) /\ UNCHANGED row BY <2>2, SameKept, DoneCalm
    <2>3. QED BY <1>3, <2>1, <2>2 DEF RequeueForRetry
  <1>4. QED BY <1>2, <1>3 DEF RetryStep

\* Steps of TaskRunner.run() after the claim: the outcome a worker writes is written to a row
\* no other worker executes.
LEMMA WorkerStepCalm ==
    ASSUME TypeInv, Leased, NEW p \in Workers,
           \/ GiveUpRefused(p) \/ LoadClaim(p) \/ FinishSuccess(p) \/ FinishFailure(p)
           \/ HardKill(p)
    PROVE  \A w \in Workers : Calm(w)
  <1> DEFINE a == proc[p].att
  <1>1. /\ p \in Procs /\ proc[p] \in Proc /\ proc \in [Procs -> Proc] /\ row \in [Attempts -> Row]
        /\ proc[p].pc # "idle" => a \in Attempts /\ row[a] \in Row
    BY ProcFacts DEF TypeInv, TypeOK, Procs
  <1>2. ASSUME At(p, "running"), NEW r2, Update(a, r2) PROVE ClaimsKept(p)
    <2> SUFFICES ASSUME NEW w \in Workers, w # p, Executing(w)
                 PROVE  RowKept(row[proc[w].att], row'[proc[w].att])
      BY DEF ClaimsKept
    <2>1. Executing(p) BY <1>2 DEF At, Executing
    <2>2. proc[w].att # a BY <2>1 DEF Leased, Exclusive
    <2>3. row' = [row EXCEPT ![a] = r2] BY <1>2 DEF Update
    <2>4. proc[w].att \in Attempts BY ProcFacts DEF Procs, Executing
    <2>5. QED BY <1>1, <2>2, <2>3, <2>4 DEF RowKept
  <1>3. CASE GiveUpRefused(p)
    <2>1. ClaimsKept(p)
      BY <1>1, <1>3, UpdateKept, SameKept
         DEF GiveUpRefused, At, GiveUpIfPastDeadlineWhere, CouldStillRun
    <2>2. QED BY <1>1, <1>3, <2>1, DoneCalm DEF GiveUpRefused
  <1>4. CASE LoadClaim(p)
    <2> DEFINE c == [proc[p] EXCEPT !.pc = "running", !.tries = row[a].attempt_count,
                                    !.queue = row[a].dispatch_queue]
    <2>1. proc' = [proc EXCEPT ![p] = c] BY <1>1, <1>4 DEF LoadClaim
    <2>2. c.left = proc[p].left /\ c.pc = "running" /\ c.att = a /\ c.token = proc[p].token BY <1>1 DEF Proc
    <2>3. Executing(p) BY <1>4 DEF LoadClaim, At, Executing
    <2>4. row' = row BY <1>4 DEF LoadClaim
    <2> HIDE DEF c
    <2>5. SUFFICES ASSUME NEW w \in Workers PROVE Calm(w) OBVIOUS
    <2>6. proc'[w] = IF w = p THEN c ELSE proc[w] BY <1>1, <2>1 DEF Procs
    <2>7. QED BY <2>2, <2>3, <2>4, <2>6 DEF Calm, Executing, RowKept
  <1>5. CASE FinishSuccess(p)
    <2>1. ClaimsKept(p) BY <1>2, <1>5, SameKept DEF FinishSuccess
    <2>2. QED BY <1>1, <1>5, <2>1, DoneCalm DEF FinishSuccess
  <1>6. CASE FinishFailure(p)
    <2>1. ClaimsKept(p) BY <1>2, <1>6, SameKept DEF FinishFailure
    <2>2. "failed" \in PCs \ {"claim", "claimed", "running"} BY DEF PCs, RetryPCs
    <2>3. QED BY <1>1, <1>6, <2>1, <2>2, DoneCalm, GotoCalm DEF FinishFailure
  <1>7. CASE HardKill(p) BY <1>1, <1>7, SameKept, DoneCalm DEF HardKill
  <1>8. QED BY <1>3, <1>4, <1>5, <1>6, <1>7

\* Steps of QueueReconciler.reconcile() and of submitters: they are not workers, and what they
\* update is not running, or its lease has expired, or it is stuck.
LEMMA SweepCalm ==
    ASSUME TypeInv, Leased, NEW s \in Procs \ Workers,
           \/ SweepStart(s) \/ SweepStep(s)
           \/ \E a \in Attempts, q \in Queues : Submit(s, a, q)
    PROVE  \A w \in Workers : Calm(w)
  <1>1. /\ proc \in [Procs -> Proc] /\ Skew[s] \in Int
        /\ proc[s].pc # "idle" => proc[s].att \in Attempts /\ row[proc[s].att] \in Row
    BY ProcFacts DEF TypeInv, TypeOK
  <1>2. ASSUME NEW c, proc' = [proc EXCEPT ![s] = c], ClaimsKept(s)
        PROVE  \A w \in Workers : Calm(w)
    BY <1>2, MoveCalm
  <1>3. ASSUME NEW a \in Attempts, NEW q \in Queues, Submit(s, a, q)
        PROVE  \A w \in Workers : Calm(w)
    BY <1>2, <1>3, SameKept DEF Submit
  <1>4. ASSUME NEW a \in Attempts, ListExpiredLease(s, a) PROVE \A w \in Workers : Calm(w)
    <2>1. proc' = [proc EXCEPT ![s] = [proc[s] EXCEPT !.pc = "listed", !.att = a]]
      BY <1>1, <1>4 DEF ListExpiredLease
    <2>2. QED BY <1>2, <1>4, <2>1, SameKept DEF ListExpiredLease
  <1>5. ASSUME NEW a \in Attempts, RecoverExpiredMessage(s, a) PROVE \A w \in Workers : Calm(w)
    <2>1. ClaimsKept(s) BY <1>5, UpdateKept DEF RecoverExpiredMessage, ExpiredMessage
    <2>2. QED BY <1>2, <1>5, <2>1 DEF RecoverExpiredMessage, Resend
  <1>6. ASSUME NEW a \in Attempts, RecoverStuckTask(s, a) PROVE \A w \in Workers : Calm(w)
    <2>1. ClaimsKept(s) BY <1>1, <1>6, UpdateKept DEF RecoverStuckTask
    <2>2. QED BY <1>2, <1>6, <2>1 DEF RecoverStuckTask, Resend
  <1>7. CASE ReadExpiredLease(s)
    <2> DEFINE r == row[proc[s].att]
    <2>1. proc' = [proc EXCEPT ![s] = [proc[s] EXCEPT !.pc = "read", !.tries = r.attempt_count,
                                                      !.queue = r.dispatch_queue]]
      BY <1>1, <1>7 DEF ReadExpiredLease
    <2>2. QED BY <1>2, <1>7, <2>1, SameKept DEF ReadExpiredLease
  <1>8. CASE FailExpiredLease(s)
    <2>1. ClaimsKept(s) BY <1>1, <1>8, UpdateKept, SameKept DEF FailExpiredLease, At
    <2>2. "failed" \in PCs \ {"claim", "claimed", "running"} BY DEF PCs, RetryPCs
    <2>3. QED BY <1>8, <2>1, <2>2, DoneCalm, GotoCalm DEF FailExpiredLease
  <1>9. QED BY <1>3, <1>4, <1>5, <1>6, <1>7, <1>8 DEF SweepStart, SweepStep

\* Steps of the environment
LEMMA EnvironmentCalm ==
    ASSUME TypeInv, Leased,
           \/ \E p \in Procs : Crash(p)
           \/ \E a \in Attempts : GiveUpByHand(a)
           \/ \E m \in Tokens : LoseMessage(m) \/ DropExpired(m)
           \/ UNCHANGED vars
    PROVE  \A w \in Workers : Calm(w)
  <1>1. ASSUME NEW p \in Procs, Crash(p) PROVE \A w \in Workers : Calm(w)
    BY <1>1, SameKept, DoneCalm DEF Crash
  <1>2. ASSUME NEW a \in Attempts, GiveUpByHand(a) PROVE \A w \in Workers : Calm(w)
    BY <1>2, UpdateKept, StillCalm DEF GiveUpByHand, CouldStillRun
  <1>3. CASE \E m \in Tokens : LoseMessage(m) \/ DropExpired(m)
    BY <1>3, SameKept, StillCalm DEF LoseMessage, DropExpired
  <1>4. CASE UNCHANGED vars BY <1>4, SameKept, StillCalm DEF vars
  <1>5. QED BY <1>1, <1>2, <1>3, <1>4

-----------------------------------------------------------------------------
(* The steps that are not calm *)

\* The delivery of a message: the worker has the whole hard limit left.
LEMMA ReceiveOK == ASSUME TypeInv, Leased, NEW p \in Workers, NEW m \in Tokens, Receive(p, m) PROVE Leased'
  <1>1. CASE row[broker[m].att].status # "pending"
    <2>1. UNCHANGED proc /\ UNCHANGED row BY <1>1 DEF Receive
    <2>2. QED BY <2>1, SameKept, StillCalm, CalmOK
  <1>2. CASE row[broker[m].att].status = "pending"
    <2> DEFINE limit == HardLimit[broker[m].queue]
               c == [IdleProc EXCEPT !.pc = "claim", !.att = broker[m].att, !.token = m,
                                     !.left = limit, !.queue = broker[m].queue]
    <2>1. proc' = [proc EXCEPT ![p] = c] /\ row' = row BY <1>2 DEF Receive
    <2>2. c.pc = "claim" /\ c.left = limit /\ c.queue = broker[m].queue BY DEF IdleProc
    <2>3. limit \in Optional(Nat \ {0})
      BY ConstantsAssumption DEF Receive, TypeInv, TypeOK, Message, Optional
    <2>4. LimitOK(c) BY <2>2, <2>3, ProcessAssumption DEF LimitOK, Optional
    <2> HIDE DEF c, limit
    <2>5. \A w \in Workers : proc'[w] = IF w = p THEN c ELSE proc[w]
      BY <2>1 DEF TypeInv, TypeOK, Procs
    <2>6. \A w \in Workers : Executing(w)' => proc'[w] = proc[w] /\ Executing(w)
      BY <2>2, <2>5 DEF Executing
    <2>7. \A w \in Workers : LimitOK(proc'[w]) BY <2>4, <2>5 DEF Leased
    <2>8. Exclusive' BY <2>6 DEF Leased, Exclusive
    <2>9. QED BY <2>1, <2>6, <2>7, <2>8 DEF Leased
  <1>3. QED BY <1>1, <1>2

\* The claim: the row was pending, so nobody executed it, and lease_seconds() adds the margin
\* to a limit the worker has started to use up.
LEMMA ClaimOK ==
    ASSUME TypeInv, Leased, KilledBeforeTakeover, NEW p \in Workers, Claim(p) PROVE Leased'
  <1> DEFINE a == proc[p].att
             limit == HardLimit[proc[p].queue]
             r2 == ClaimSet(row[a], proc[p].token, limit, Skew[p])
             c == [proc[p] EXCEPT !.pc = "claimed"]
  <1>1. /\ p \in Procs /\ proc[p] \in Proc /\ proc \in [Procs -> Proc] /\ row \in [Attempts -> Row]
        /\ a \in Attempts /\ row[a] \in Row /\ proc[p].queue \in Queues
    BY ProcFacts DEF TypeInv, TypeOK, Procs, ProcOK, Claim, At
  <1>2. CASE Goto(p, "refused") /\ UNCHANGED row
    <2>1. "refused" \in PCs \ {"claim", "claimed", "running"} BY DEF PCs, WorkerPCs
    <2>2. QED BY <1>1, <1>2, <2>1, SameKept, GotoCalm, CalmOK
  <1>3. CASE ClaimWhere(row[a]) /\ Update(a, r2) /\ Goto(p, "claimed")
    <2>1. proc' = [proc EXCEPT ![p] = c] BY <1>1, <1>3 DEF Goto
    <2>2. c.pc = "claimed" /\ c.left = proc[p].left /\ c.att = a /\ c.token = proc[p].token BY <1>1 DEF Proc
    <2>3. /\ r2.status = "running" /\ r2.lease_expires_at = LeaseSeconds(limit)
          /\ r2.celery_task_id = proc[p].token
      BY <1>1 DEF ClaimSet, Row
    <2>4. row' = [row EXCEPT ![a] = r2] BY <1>3 DEF Update
    <2>5. Protected(c, r2)
      <3>1. LimitOK(proc[p]) /\ proc[p].pc = "claim" BY DEF Leased, Claim, At
      <3>2. CASE limit = None
        <4>1. StaleTimeout = None BY <1>1, <3>2 DEF KilledBeforeTakeover
        <4>2. c.left = None BY <2>2, <3>1, <3>2 DEF LimitOK
        <4>3. QED BY <2>2, <2>3, <3>2, <4>1, <4>2 DEF Protected, LeaseSeconds
      <3>3. CASE limit # None
        <4>1. limit \in Nat /\ Margin \in Nat /\ None \notin Int
          BY <1>1, <3>3, ConstantsAssumption DEF Optional
        <4>2. c.left # None /\ c.left <= limit BY <2>2, <3>1, <3>3 DEF LimitOK
        <4>3. c.left \in Int BY <1>1, <2>2, <4>2 DEF Proc, Instant, Optional
        <4>4. r2.lease_expires_at = limit + Margin BY <2>3, <3>3 DEF LeaseSeconds
        <4> HIDE DEF r2, limit, c
        <4>5. QED BY <2>2, <2>3, <4>1, <4>2, <4>3, <4>4 DEF Protected
      <3>4. QED BY <3>2, <3>3
    <2>6. LimitOK(c)
      BY <2>2 DEF Leased, LimitOK
    <2> HIDE DEF c, r2, limit
    <2>7. \A w \in Workers : proc'[w] = IF w = p THEN c ELSE proc[w] BY <1>1, <2>1 DEF Procs
    <2>8. ASSUME NEW w \in Workers, w # p, Executing(w)'
          PROVE  Executing(w) /\ proc'[w] = proc[w] /\ proc[w].att # a /\ row'[proc[w].att] = row[proc[w].att]
      <3>1. proc'[w] = proc[w] /\ Executing(w) BY <2>7, <2>8 DEF Executing
      <3>2. row[proc[w].att].status = "running" BY <3>1 DEF Leased, Protected
      <3>3. proc[w].att # a BY <1>3, <3>2 DEF ClaimWhere
      <3>4. proc[w].att \in Attempts BY <3>1, ProcFacts DEF Procs, Executing
      <3>5. QED BY <1>1, <2>4, <3>1, <3>3, <3>4
    <2>9. \A w \in Workers : LimitOK(proc'[w]) BY <2>6, <2>7 DEF Leased
    <2>10. ASSUME NEW w \in Workers, Executing(w)' PROVE Protected(proc'[w], row'[proc'[w].att])
      <3>1. CASE w = p BY <1>1, <2>2, <2>4, <2>5, <2>7, <3>1
      <3>2. CASE w # p BY <2>8, <2>10, <3>2 DEF Leased
      <3>3. QED BY <3>1, <3>2
    <2>11. Exclusive'
      <3> SUFFICES ASSUME NEW w1 \in Workers, NEW w2 \in Workers, Executing(w1)', Executing(w2)',
                          proc'[w1].att = proc'[w2].att
                   PROVE  w1 = w2
        BY DEF Exclusive
      <3>1. proc'[p].att = a BY <2>2, <2>7
      <3>2. CASE w1 # p /\ w2 # p BY <2>8, <3>2 DEF Leased, Exclusive
      <3>3. CASE w1 = p /\ w2 # p BY <2>8, <3>1, <3>3
      <3>4. CASE w1 # p /\ w2 = p BY <2>8, <3>1, <3>4
      <3>5. QED BY <3>2, <3>3, <3>4
    <2>12. QED BY <2>9, <2>10, <2>11 DEF Leased
  <1>4. QED BY <1>2, <1>3 DEF Claim

\* The passing of time lowers lease and limit alike, and does not pass a worker's last moment.
LEMMA TickLeased == ASSUME TypeInv, Leased, Tick PROVE Leased'
  <1>1. ASSUME NEW w \in Workers
        PROVE  /\ proc[w] \in Proc
               /\ proc'[w].pc = proc[w].pc /\ proc'[w].att = proc[w].att /\ proc'[w].queue = proc[w].queue
               /\ proc'[w].token = proc[w].token
               /\ proc'[w].left = IF proc[w].left = None THEN None ELSE proc[w].left - 1
    <2>1. w \in Procs /\ proc[w] \in Proc BY DEF Procs, TypeInv, TypeOK
    <2>2. proc'[w] = [proc[w] EXCEPT !.eta = Age(@), !.left = IF @ = None THEN None ELSE @ - 1]
      BY <2>1 DEF Tick
    <2>3. QED BY <2>1, <2>2 DEF Proc
  <1>2. ASSUME NEW a \in Attempts
        PROVE  /\ row[a] \in Row /\ row'[a].status = row[a].status
               /\ row'[a].celery_task_id = row[a].celery_task_id
               /\ row'[a].lease_expires_at = Age(row[a].lease_expires_at)
    <2>1. row[a] \in Row /\ row'[a] = AgeRow(row[a]) BY DEF Tick, TypeInv, TypeOK
    <2>2. QED BY <2>1 DEF AgeRow, Row
  <1>3. None \notin Int /\ KillDelay \in Nat /\ Margin \in Nat
    BY ConstantsAssumption, ProcessAssumption
  <1>4. ASSUME NEW w \in Workers PROVE LimitOK(proc'[w])
    <2>1. LimitOK(proc[w]) /\ (proc[w].left # None => proc[w].left > -KillDelay) BY DEF Leased, Tick
    <2>2. proc[w].left # None => proc[w].left \in Int BY <1>1 DEF Proc, Instant, Optional
    <2>3. proc[w].pc = "claim" => HardLimit[proc[w].queue] \in Optional(Nat)
      <3>1. proc[w].pc = "claim" => proc[w].queue \in Queues BY ProcFacts DEF Procs, ProcOK
      <3>2. QED BY <3>1, ConstantsAssumption DEF Optional
    <2>4. QED BY <1>1, <1>3, <2>1, <2>2, <2>3 DEF LimitOK, Optional
  <1>5. ASSUME NEW w \in Workers, Executing(w)' PROVE Protected(proc'[w], row'[proc'[w].att])
    <2> DEFINE a == proc[w].att
    <2>1. Executing(w) /\ a \in Attempts /\ Protected(proc[w], row[a])
      BY <1>1, <1>5, ProcFacts DEF Executing, Leased, Procs
    <2>2. row[a].lease_expires_at # None => row[a].lease_expires_at \in Int
      BY <1>2, <2>1 DEF Row, Instant, Optional
    <2>3. proc[w].left # None => proc[w].left \in Int BY <1>1 DEF Proc, Instant, Optional
    <2>4. proc'[w].left = None => row'[a].lease_expires_at = None /\ StaleTimeout = None
      BY <1>1, <1>2, <1>3, <2>1, <2>3, AgeType DEF Protected
    <2>5. proc'[w].left # None => /\ row'[a].lease_expires_at # None
                                  /\ row'[a].lease_expires_at >= proc'[w].left + Margin
      BY <1>1, <1>2, <1>3, <2>1, <2>2, <2>3, AgeType DEF Protected
    <2>6. QED BY <1>1, <1>2, <2>1, <2>4, <2>5 DEF Protected
  <1>6. Exclusive' BY <1>1 DEF Leased, Exclusive, Executing
  <1>7. QED BY <1>4, <1>5, <1>6 DEF Leased

\* The inductive step of LeaseInv
LEMMA LeaseInvStep == TypeInv /\ LeaseInv /\ [Next]_vars => LeaseInv'
  <1> SUFFICES ASSUME TypeInv, Leased, KilledBeforeTakeover, [Next]_vars PROVE Leased'
    BY DEF LeaseInv, KilledBeforeTakeover
  <1>1. ASSUME NEW w \in Workers, WorkerStep(w) PROVE Leased'
    BY <1>1, ClaimOK, WorkerStepCalm, CalmOK DEF WorkerStep
  <1>2. ASSUME NEW s \in Sweepers, SweepStart(s) \/ SweepStep(s) PROVE Leased'
    BY <1>2, SweepCalm, CalmOK, ProcessAssumption DEF Procs
  <1>3. ASSUME NEW p \in Submitters, NEW a \in Attempts, NEW q \in Queues, Submit(p, a, q)
        PROVE  Leased'
    BY <1>3, SweepCalm, CalmOK, ProcessAssumption DEF Procs
  <1>4. CASE Next
    BY <1>1, <1>2, <1>3, <1>4, ExecuteStepCalm, RetryStepCalm, EnvironmentCalm, CalmOK, ReceiveOK,
       TickLeased DEF Next
  <1>5. CASE UNCHANGED vars BY <1>5, EnvironmentCalm, CalmOK
  <1>6. QED BY <1>4, <1>5

\* README "Execution guarantees": whatever is submitted twice, delivered twice, swept, retried,
\* crashed or delayed, at most one worker executes an attempt, provided the pool kills a
\* worker within the recovery margin after its hard time limit, or nothing sweeps claims
\* without one.
THEOREM OnlyOneRunner == Spec => []OneRunner
  <1>1. Init => LeaseInv
    BY DEF Init, IdleProc, LeaseInv, Leased, LimitOK, Exclusive, Executing, Procs
  <1>2. LeaseInv => OneRunner
    BY DEF LeaseInv, Leased, Exclusive, OneRunner, ExecutingAttempt
  <1>3. QED BY <1>1, <1>2, TypeInvInit, TypeInvStep, LeaseInvStep, PTL DEF Spec

\* task_runner.py: no outcome of a worker that ends in time is refused by the fence, since the
\* row still carries the token of its claim.
THEOREM OutcomesAreRecorded == Spec => []OutcomeIsRecorded
  <1>1. Init => LeaseInv
    BY DEF Init, IdleProc, LeaseInv, Leased, LimitOK, Exclusive, Executing, Procs
  <1>2. LeaseInv => OutcomeIsRecorded
    BY DEF LeaseInv, Leased, Protected, OutcomeIsRecorded, Executing, At, FinishWhere
  <1>3. QED BY <1>1, <1>2, TypeInvInit, TypeInvStep, LeaseInvStep, PTL DEF Spec
=============================================================================
