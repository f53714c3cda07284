---------------------------- MODULE FenceProofs -----------------------------
(***************************************************************************)
(* What the claim token is worth: whose outcome the fence lets through,    *)
(* hence how many tries an attempt gets, and hence when none of its        *)
(* messages can be delivered any more, for every value of the constants.   *)
(* Most steps are calm: they give no worker a token and no row a token or  *)
(* a try.  What is left are the send and the delivery of a message, the    *)
(* claim and the read after it.                                            *)
(***************************************************************************)
EXTENDS QueueTasksProofs

-----------------------------------------------------------------------------
(* Calm and quiet steps *)

\* The row gets no new token, no claim, and no try while it is running or keeps its token.
RowTame(r, r2) ==
    /\ \/ r2.celery_task_id = None
       \/ r2.celery_task_id = r.celery_task_id /\ r2.attempt_count = r.attempt_count
    /\ r.status = "running" => r2.attempt_count = r.attempt_count
    /\ r2.status = "running" => r.status = "running"

\* No time passes for the row.
RowTimeless(r, r2) ==
    r2.status = r.status /\ r.status # "absent" =>
        /\ r2.next_retry_at \in {None, r.next_retry_at}
        /\ r2.dispatched_at \in {0, r.dispatched_at}

\* No lease expires, and no other time comes closer.
RowStays(r, r2) ==
    /\ FailExpiredLeaseWhere(r2) => FailExpiredLeaseWhere(r)
    /\ RowTimeless(r, r2)

\* An execution that fails with a retry time had a try left and gets the delay of a queue for
\* it, and a row that does not exist gets no queue.
RowCounts(r, r2) ==
    /\ r.status = "running" /\ r2.status = "failed" /\ r2.next_retry_at # None =>
           /\ AllowsRetry(r2.dispatch_queue, r2.attempt_count)
           /\ \E p \in Procs, q \in Queues :
                  r2.next_retry_at = Skew[p] + RetryDelay(q, r2.attempt_count)
    /\ r.status = "absent" => r2.dispatch_queue \in {None, r.dispatch_queue}

SameWork(c, c2) ==
    c2.pc = c.pc /\ c2.att = c.att /\ c2.tries = c.tries /\ c2.queue = c.queue

\* The process gets no token, and comes to no claim.
ProcTame(c, c2) ==
    /\ c2.token \in {None, c.token}
    /\ c2.pc \in {"claim", "claimed", "running"} => c2.token = c.token /\ SameWork(c, c2)

\* The process has not just recorded a dispatch, and has not just read an expired lease.
ProcStays(c, c2) == c2.pc \in {"recorded", "requeued", "read"} => SameWork(c, c2)

\* The process has seen the row it works on.
ProcSeen(c, c2) ==
    \/ c2.pc \in {"idle", "submit"}
    \/ c.pc \notin {"idle", "submit"} /\ c2.att = c.att
    \/ row'[c2.att].status # "absent"

RowsTame == \A a \in Attempts : RowTame(row[a], row'[a])
RowsStay == \A a \in Attempts : RowStays(row[a], row'[a])
RowsCount == \A a \in Attempts : RowCounts(row[a], row'[a])
ProcsTame == \A p \in Procs : ProcTame(proc[p], proc'[p])
ProcsStay == \A p \in Procs : ProcStays(proc[p], proc'[p])
ProcsSeen == \A p \in Procs : ProcSeen(proc[p], proc'[p])
BrokerTame == \A m \in Tokens : broker'[m] # None => broker[m] # None /\ broker'[m].att = broker[m].att

CalmStep == RowsTame /\ ProcsTame /\ BrokerTame
QuietStep == CalmStep /\ RowsStay /\ ProcsStay /\ ProcsSeen

\* The statements but the claim are tame; only failures need the count.
LEMMA TameSets ==
    ASSUME NEW r \in Row, NEW now,
           NEW r2, \/ r2 = r
                   \/ \E s : r2 = SetGiveUpDeadlineSet(r, s)
                   \/ r.status = "absent" /\ r2 = CreatedRow(now)
                   \/ r2 = ReopenSet(r, now)
                   \/ \E q : RequeueWhere(r) /\ r2 = RequeueSet(r, q, now)
                   \/ r2 = ClaimExpiredMessageSet(r, now)
                   \/ r2 = FinishSuccessSet(r, now)
                   \/ \E reason : CouldStillRun(r) /\ r2 = GiveUpSet(r, reason, now)
                   \/ r2 = ResetToPendingSet(r, now)
    PROVE  RowTame(r, r2) /\ RowStays(r, r2) /\ RowCounts(r, r2)
  <1> DEFINE Good == RowTame(r, r2) /\ RowStays(r, r2) /\ RowCounts(r, r2)
  <1> USE DEF RowTame, RowStays, RowTimeless, RowCounts, FailExpiredLeaseWhere
  <1>1. CASE r2 = r BY <1>1
  <1>2. ASSUME NEW s, r2 = SetGiveUpDeadlineSet(r, s) PROVE Good BY <1>2 DEF SetGiveUpDeadlineSet, Row
  <1>3. CASE r.status = "absent" /\ r2 = CreatedRow(now) BY <1>3 DEF CreatedRow, AbsentRow
  <1>4. CASE r2 = ReopenSet(r, now) BY <1>4 DEF ReopenSet, Row
  <1>6. ASSUME NEW q, RequeueWhere(r), r2 = RequeueSet(r, q, now) PROVE Good
    BY <1>6 DEF RequeueWhere, RequeueSet, Row
  <1>7. CASE r2 = ClaimExpiredMessageSet(r, now) BY <1>7 DEF ClaimExpiredMessageSet, Row
  <1>8. CASE r2 = FinishSuccessSet(r, now) BY <1>8 DEF FinishSuccessSet, Row
  <1>9. ASSUME NEW reason, CouldStillRun(r), r2 = GiveUpSet(r, reason, now) PROVE Good
    BY <1>9 DEF CouldStillRun, GiveUpSet, Row
  <1>10. CASE r2 = ResetToPendingSet(r, now) BY <1>10 DEF ResetToPendingSet, Row
  <1>11. QED BY <1>1, <1>2, <1>3, <1>4, <1>6, <1>7, <1>8, <1>9, <1>10

\* A failure is tame, whatever delay it was computed with.
LEMMA FailureTame ==
    ASSUME NEW r \in Row, r.status = "running", NEW delay, NEW now
    PROVE  RowTame(r, FailureSet(r, delay, now)) /\ RowStays(r, FailureSet(r, delay, now))
  BY DEF RowTame, RowStays, RowTimeless, FailExpiredLeaseWhere, FailureSet, Row

\* The stamp of a dispatch is tame.
LEMMA RecordTame ==
    ASSUME NEW r \in Row, NEW q, NEW now
    PROVE  /\ RowTame(r, RecordDispatchSet(r, q, now)) /\ RowStays(r, RecordDispatchSet(r, q, now))
           /\ r.status # "absent" => RowCounts(r, RecordDispatchSet(r, q, now))
  BY DEF RowTame, RowStays, RowTimeless, RowCounts, FailExpiredLeaseWhere, RecordDispatchSet, Row

\* An UPDATE of one row leaves the others alone.
LEMMA UpdateTame ==
    ASSUME TypeInv, NEW a \in Attempts, NEW r2, Update(a, r2), RowTame(row[a], r2), RowStays(row[a], r2)
    PROVE  RowsTame /\ RowsStay /\ (RowCounts(row[a], r2) => RowsCount)
  <1>1. row \in [Attempts -> Row] /\ row' = [row EXCEPT ![a] = r2] BY DEF TypeInv, TypeOK, Update
  <1>2. \A b \in Attempts : row'[b] = IF b = a THEN r2 ELSE row[b] BY <1>1
  <1>3. \A b \in Attempts : RowTame(row[b], row[b]) /\ RowStays(row[b], row[b]) /\ RowCounts(row[b], row[b])
    BY DEF RowTame, RowStays, RowTimeless, RowCounts
  <1>4. QED BY <1>2, <1>3 DEF RowsTame, RowsStay, RowsCount

\* A step without an UPDATE
LEMMA SameTame == ASSUME UNCHANGED row PROVE RowsTame /\ RowsStay /\ RowsCount
  BY DEF RowsTame, RowsStay, RowsCount, RowTame, RowStays, RowTimeless, RowCounts

\* A step without a send
LEMMA SameBroker == ASSUME UNCHANGED broker PROVE BrokerTame
  BY DEF BrokerTame

\* A process that moves leaves the others alone.
LEMMA MoveTame ==
    ASSUME TypeInv, NEW p \in Procs, NEW c, proc' = [proc EXCEPT ![p] = c], ProcTame(proc[p], c)
    PROVE  /\ ProcsTame
           /\ ProcStays(proc[p], c) => ProcsStay
           /\ ProcSeen(proc[p], c) => ProcsSeen
  <1>1. proc \in [Procs -> Proc] BY DEF TypeInv, TypeOK
  <1>2. \A q \in Procs : proc'[q] = IF q = p THEN c ELSE proc[q] BY <1>1
  <1>3. \A q \in Procs : /\ ProcTame(proc[q], proc[q]) /\ ProcStays(proc[q], proc[q])
                         /\ ProcSeen(proc[q], proc[q])
    BY DEF ProcTame, ProcStays, ProcSeen, SameWork
  <1>4. QED BY <1>2, <1>3 DEF ProcsTame, ProcsStay, ProcsSeen

\* The process ends.
LEMMA DoneTame == ASSUME TypeInv, NEW p \in Procs, Done(p) PROVE ProcsTame /\ ProcsStay /\ ProcsSeen
  <1>1. ProcTame(proc[p], IdleProc) /\ ProcStays(proc[p], IdleProc) /\ ProcSeen(proc[p], IdleProc)
    BY DEF ProcTame, ProcStays, ProcSeen, IdleProc
  <1>2. QED BY <1>1, MoveTame DEF Done

\* The process goes on with its attempt, to no claim.
LEMMA GotoTame ==
    ASSUME TypeInv, NEW p \in Procs, NEW pc, Goto(p, pc), pc \notin {"claim", "claimed", "running"},
           proc[p].pc \notin {"idle", "submit"}
    PROVE  ProcsTame /\ ProcsSeen /\ (pc \notin {"recorded", "requeued", "read"} => ProcsStay)
  <1> DEFINE c == [proc[p] EXCEPT !.pc = pc]
  <1>1. proc[p] \in Proc /\ proc \in [Procs -> Proc] BY DEF TypeInv, TypeOK
  <1>2. proc' = [proc EXCEPT ![p] = c] BY <1>1 DEF Goto
  <1>3. c.token = proc[p].token /\ c.pc = pc /\ c.att = proc[p].att BY <1>1 DEF Proc
  <1> HIDE DEF c
  <1>4. ProcTame(proc[p], c) /\ ProcSeen(proc[p], c) BY <1>3 DEF ProcTame, ProcSeen
  <1>5. pc \notin {"recorded", "requeued", "read"} => ProcStays(proc[p], c) BY <1>3 DEF ProcStays
  <1>6. QED BY <1>2, <1>4, <1>5, MoveTame

\* No process moves.
LEMMA StillTame == ASSUME UNCHANGED proc PROVE ProcsTame /\ ProcsStay /\ ProcsSeen
  BY DEF ProcsTame, ProcsStay, ProcsSeen, ProcTame, ProcStays, ProcSeen, SameWork

-----------------------------------------------------------------------------
(* One lemma per group of actions *)

\* Steps of QueueExecutor.execute() but the send
LEMMA ExecuteTame ==
    ASSUME TypeInv, NEW p \in Procs, ExecuteStep(p), ~Send(p)
    PROVE  CalmStep /\ RowsStay /\ ProcsSeen /\ (RecordDispatch(p) \/ (ProcsStay /\ RowsCount))
  <1> DEFINE a == proc[p].att
             Good == CalmStep /\ RowsStay /\ ProcsSeen /\ (RecordDispatch(p) \/ (ProcsStay /\ RowsCount))
  <1>1. /\ proc[p] \in Proc /\ proc \in [Procs -> Proc] /\ row \in [Attempts -> Row]
        /\ proc[p].pc # "idle" => a \in Attempts /\ row[a] \in Row
    BY ProcFacts DEF TypeInv, TypeOK
  <1>2. ASSUME NEW c, proc' = [proc EXCEPT ![p] = c], c.att = a, c.token = proc[p].token,
               c.pc \in {"dated", "opened", "reopen"}, row'[a].status # "absent"
        PROVE  ProcsTame /\ ProcsStay /\ ProcsSeen
    <2>1. ProcTame(proc[p], c) /\ ProcStays(proc[p], c) /\ ProcSeen(proc[p], c)
      BY <1>2 DEF ProcTame, ProcStays, ProcSeen
    <2>2. QED BY <1>2, <2>1, MoveTame
  <1>3. ASSUME NEW recorded, NEW eta, proc' = [proc EXCEPT ![p] = OpenedProc(p, recorded, eta)],
               row'[a].status # "absent"
        PROVE  ProcsTame /\ ProcsStay /\ ProcsSeen
    <2>1. /\ OpenedProc(p, recorded, eta).token = proc[p].token
          /\ OpenedProc(p, recorded, eta).att = a
          /\ OpenedProc(p, recorded, eta).pc \in {"dated", "opened"}
      BY <1>1 DEF OpenedProc, Proc
    <2>2. QED BY <1>2, <1>3, <2>1
  <1>4. CASE Create(p)
    <2>1. a \in Attempts /\ row[a] \in Row /\ row[a].status = "absent" BY <1>1, <1>4 DEF Create, At
    <2>2. Update(a, CreatedRow(Skew[p])) BY <1>4 DEF Create
    <2> DEFINE r2 == CreatedRow(Skew[p])
    <2>6. RowTame(row[a], r2) /\ RowStays(row[a], r2) /\ RowCounts(row[a], r2) BY <2>1, TameSets
    <2>3. RowsTame /\ RowsStay /\ RowsCount BY <2>1, <2>2, <2>6, UpdateTame
    <2>4. row'[a].status # "absent" BY <1>1, <2>1, <2>2 DEF Update, CreatedRow, AbsentRow
    <2>5. QED BY <1>3, <1>4, <2>3, <2>4, SameBroker DEF Create, CalmStep
  <1>5. CASE Get(p)
    <2> DEFINE r == row[a]
               q == IF r.dispatch_queue = None THEN proc[p].queue ELSE r.dispatch_queue
               c == [proc[p] EXCEPT !.pc = "reopen", !.queue = q, !.eta = r.next_retry_at]
    <2>1. row'[a].status # "absent" /\ UNCHANGED row /\ UNCHANGED broker BY <1>5 DEF Get
    <2>2. CASE proc' = [proc EXCEPT ![p] = OpenedProc(p, r.dispatch_queue, r.next_retry_at)]
      BY <1>3, <2>1, <2>2, SameTame, SameBroker DEF CalmStep
    <2>3. CASE proc' = [proc EXCEPT ![p].pc = "reopen",
                                    ![p].queue = IF r.dispatch_queue = None THEN @ ELSE r.dispatch_queue,
                                    ![p].eta = r.next_retry_at]
      <3>1. proc' = [proc EXCEPT ![p] = c] BY <1>1, <2>3
      <3>2. c.token = proc[p].token /\ c.pc = "reopen" /\ c.att = a BY <1>1 DEF Proc
      <3> HIDE DEF c
      <3>3. QED BY <1>2, <2>1, <3>1, <3>2, SameTame, SameBroker DEF CalmStep
    <2>4. CASE Done(p) BY <2>1, <2>4, DoneTame, SameTame, SameBroker DEF CalmStep
    <2>5. QED BY <1>5, <2>2, <2>3, <2>4 DEF Get
  <1>6. CASE Reopen(p)
    <2>0. UNCHANGED broker /\ a \in Attempts /\ row[a] \in Row BY <1>1, <1>6 DEF Reopen, At
    <2>1. CASE /\ Update(a, ReopenSet(row[a], Skew[p]))
               /\ proc' = [proc EXCEPT ![p] = OpenedProc(p, proc[p].queue, proc[p].eta)]
      <3> DEFINE r2 == ReopenSet(row[a], Skew[p])
      <3>0. RowTame(row[a], r2) /\ RowStays(row[a], r2) /\ RowCounts(row[a], r2) BY <2>0, TameSets
      <3>1. RowsTame /\ RowsStay /\ RowsCount
        <4> HIDE DEF r2
        <4>1. QED BY <2>0, <2>1, <3>0, UpdateTame DEF r2
      <3>2. row'[a].status # "absent" BY <1>1, <2>0, <2>1 DEF Update, ReopenSet, Row
      <3>3. QED BY <1>3, <2>0, <2>1, <3>1, <3>2, SameBroker DEF CalmStep
    <2>2. CASE Done(p) /\ UNCHANGED row BY <2>0, <2>2, DoneTame, SameTame, SameBroker DEF CalmStep
    <2>3. QED BY <1>6, <2>1, <2>2 DEF Reopen
  <1>7. ASSUME NEW lag \in Lags, SetGiveUpDeadline(p, lag) PROVE Good
    <2>1. /\ a \in Attempts /\ row[a] \in Row /\ UNCHANGED broker /\ Goto(p, "dated")
          /\ proc[p].pc = "opened"
      BY <1>1, <1>7 DEF SetGiveUpDeadline, At
    <2>2. UNCHANGED row \/ \E s : Update(a, SetGiveUpDeadlineSet(row[a], s))
      BY <1>7 DEF SetGiveUpDeadline
    <2>3. RowsTame /\ RowsStay /\ RowsCount
      <3>1. CASE UNCHANGED row BY <3>1, SameTame
      <3>2. ASSUME NEW s, Update(a, SetGiveUpDeadlineSet(row[a], s)) PROVE RowsTame /\ RowsStay /\ RowsCount
        <4> DEFINE r2 == SetGiveUpDeadlineSet(row[a], s)
        <4>1. RowTame(row[a], r2) /\ RowStays(row[a], r2) /\ RowCounts(row[a], r2) BY <2>1, TameSets
        <4> HIDE DEF r2
        <4>2. QED BY <2>1, <3>2, <4>1, UpdateTame DEF r2
      <3>3. QED BY <2>2, <3>1, <3>2
    <2>4. QED BY <2>1, <2>3, GotoTame, SameBroker DEF CalmStep
  <1>8. CASE CheckDeadline(p)
    <2>1. a \in Attempts /\ row[a] \in Row /\ UNCHANGED broker /\ proc[p].pc = "dated"
      BY <1>1, <1>8 DEF CheckDeadline, At
    <2>2. CASE /\ GiveUpIfPastDeadlineWhere(row[a]) /\ Done(p)
               /\ Update(a, GiveUpSet(row[a], "block_age", Skew[p]))
      <3> DEFINE r2 == GiveUpSet(row[a], "block_age", Skew[p])
      <3>0. RowTame(row[a], r2) /\ RowStays(row[a], r2) /\ RowCounts(row[a], r2)
        BY <2>1, <2>2, TameSets DEF GiveUpIfPastDeadlineWhere
      <3>1. RowsTame /\ RowsStay /\ RowsCount
        <4> HIDE DEF r2
        <4>1. QED BY <2>1, <2>2, <3>0, UpdateTame DEF r2
      <3>2. QED BY <2>1, <2>2, <3>1, DoneTame, SameBroker DEF CalmStep
    <2>3. CASE Goto(p, "agreed") /\ UNCHANGED row
      BY <2>1, <2>3, GotoTame, SameTame, SameBroker DEF CalmStep
    <2>4. QED BY <1>8, <2>2, <2>3 DEF CheckDeadline
  <1>9. CASE RecordDispatch(p)
    <2>1. /\ a \in Attempts /\ row[a] \in Row /\ UNCHANGED broker /\ proc[p].pc = "agreed"
          /\ Goto(p, "recorded") /\ Update(a, RecordDispatchSet(row[a], proc[p].queue, Skew[p]))
      BY <1>1, <1>9 DEF RecordDispatch, At
    <2> DEFINE r2 == RecordDispatchSet(row[a], proc[p].queue, Skew[p])
    <2>0. RowTame(row[a], r2) /\ RowStays(row[a], r2) BY <2>1, RecordTame
    <2>2. RowsTame /\ RowsStay BY <2>0, <2>1, UpdateTame
    <2>3. QED BY <1>9, <2>1, <2>2, GotoTame, SameBroker DEF CalmStep
  <1>10. CASE SendFails(p) BY <1>10, SameTame, DoneTame, SameBroker DEF SendFails, CalmStep
  <1>11. QED BY <1>4, <1>5, <1>6, <1>7, <1>8, <1>9, <1>10 DEF ExecuteStep

\* Steps of dispatch_retry()
LEMMA RetryTame ==
    ASSUME TypeInv, NEW p \in Procs, RetryStep(p)
    PROVE  CalmStep /\ RowsStay /\ RowsCount /\ ProcsSeen /\ (RequeueForRetry(p) \/ ProcsStay)
  <1> DEFINE a == proc[p].att
  <1>1. /\ proc[p] \in Proc /\ proc \in [Procs -> Proc]
        /\ proc[p].pc # "idle" => a \in Attempts /\ row[a] \in Row
    BY ProcFacts DEF TypeInv, TypeOK
  <1>2. CASE RefreshFailed(p)
    <2> DEFINE c == [proc[p] EXCEPT !.pc = "refreshed", !.eta = row[a].next_retry_at,
                                    !.queue = RedispatchQueue(row[a].dispatch_queue)]
    <2>1. UNCHANGED row /\ UNCHANGED broker /\ proc[p].pc = "failed" BY <1>2 DEF RefreshFailed, At
    <2>2. Done(p) \/ proc' = [proc EXCEPT ![p] = c] BY <1>1, <1>2 DEF RefreshFailed
    <2>3. c.token = proc[p].token /\ c.pc = "refreshed" /\ c.att = a BY <1>1 DEF Proc
    <2> HIDE DEF c
    <2>4. ProcTame(proc[p], c) /\ ProcStays(proc[p], c) /\ ProcSeen(proc[p], c)
      BY <2>1, <2>3 DEF ProcTame, ProcStays, ProcSeen
    <2>5. ProcsTame /\ ProcsStay /\ ProcsSeen BY <2>2, <2>4, DoneTame, MoveTame
    <2>6. QED BY <2>1, <2>5, SameTame, SameBroker DEF CalmStep
  <1>3. CASE RequeueForRetry(p)
    <2>1. a \in Attempts /\ row[a] \in Row /\ UNCHANGED broker /\ proc[p].pc = "refreshed"
      BY <1>1, <1>3 DEF RequeueForRetry, At
    <2>2. CASE /\ RequeueWhere(row[a]) /\ Goto(p, "requeued")
               /\ Update(a, RequeueSet(row[a], proc[p].queue, Skew[p]))
      <3> DEFINE r2 == RequeueSet(row[a], proc[p].queue, Skew[p])
      <3>0. RowTame(row[a], r2) /\ RowStays(row[a], r2) /\ RowCounts(row[a], r2) BY <2>1, <2>2, TameSets
      <3>1. RowsTame /\ RowsStay /\ RowsCount BY <2>1, <2>2, <3>0, UpdateTame
      <3>2. QED BY <1>3, <2>1, <2>2, <3>1, GotoTame, SameBroker DEF CalmStep
    <2>3. CASE Done(p) /\ UNCHANGED row BY <2>1, <2>3, DoneTame, SameTame, SameBroker DEF CalmStep
    <2>4. QED BY <1>3, <2>2, <2>3 DEF RequeueForRetry
  <1>4. QED BY <1>2, <1>3 DEF RetryStep

\* Steps of TaskRunner.run() after the claim
LEMMA WorkerTame ==
    ASSUME TypeInv, NEW p \in Workers,
           GiveUpRefused(p) \/ FinishSuccess(p) \/ FinishFailure(p) \/ HardKill(p)
    PROVE  QuietStep /\ (FinishFailure(p) \/ RowsCount)
  <1> DEFINE a == proc[p].att
  <1>1. /\ p \in Procs /\ proc[p] \in Proc
        /\ proc[p].pc # "idle" => a \in Attempts /\ row[a] \in Row
    BY ProcFacts DEF Procs
  <1>2. CASE GiveUpRefused(p)
    <2>1. a \in Attempts /\ row[a] \in Row /\ UNCHANGED broker /\ Done(p)
      BY <1>1, <1>2 DEF GiveUpRefused, At
    <2>2. \/ UNCHANGED row
          \/ CouldStillRun(row[a]) /\ Update(a, GiveUpSet(row[a], "block_age", Skew[p]))
      BY <1>2 DEF GiveUpRefused, GiveUpIfPastDeadlineWhere
    <2> DEFINE r2 == GiveUpSet(row[a], "block_age", Skew[p])
    <2>5. CouldStillRun(row[a]) => RowTame(row[a], r2) /\ RowStays(row[a], r2) /\ RowCounts(row[a], r2)
      BY <2>1, TameSets
    <2> HIDE DEF r2
    <2>3. RowsTame /\ RowsStay /\ RowsCount BY <2>1, <2>2, <2>5, UpdateTame, SameTame DEF r2
    <2>4. QED BY <1>1, <2>1, <2>3, DoneTame, SameBroker DEF QuietStep, CalmStep
  <1>3. CASE FinishSuccess(p)
    <2>1. a \in Attempts /\ row[a] \in Row /\ UNCHANGED broker /\ Done(p)
      BY <1>1, <1>3 DEF FinishSuccess, At
    <2>2. UNCHANGED row \/ Update(a, FinishSuccessSet(row[a], Skew[p])) BY <1>3 DEF FinishSuccess
    <2>3. RowsTame /\ RowsStay /\ RowsCount BY <2>1, <2>2, TameSets, UpdateTame, SameTame
    <2>4. QED BY <1>1, <2>1, <2>3, DoneTame, SameBroker DEF QuietStep, CalmStep
  <1>4. CASE FinishFailure(p)
    <2>1. a \in Attempts /\ row[a] \in Row /\ UNCHANGED broker /\ proc[p].pc = "running"
      BY <1>1, <1>4 DEF FinishFailure, At
    <2>2. CASE /\ Goto(p, "failed") /\ row[a].status = "running"
               /\ \E delay : Update(a, FailureSet(row[a], delay, Skew[p]))
      <3>1. RowsTame /\ RowsStay BY <2>1, <2>2, FailureTame, UpdateTame
      <3>2. QED BY <1>1, <1>4, <2>1, <2>2, <3>1, GotoTame, SameBroker DEF QuietStep, CalmStep
    <2>3. CASE Done(p) /\ UNCHANGED row
      BY <1>1, <2>1, <2>3, DoneTame, SameTame, SameBroker DEF QuietStep, CalmStep
    <2>4. QED BY <1>4, <2>2, <2>3 DEF FinishFailure, FinishWhere
  <1>5. CASE HardKill(p) BY <1>1, <1>5, SameTame, DoneTame, SameBroker DEF HardKill, QuietStep, CalmStep
  <1>6. QED BY <1>2, <1>3, <1>4, <1>5

\* Steps of QueueReconciler.reconcile() and of submitters
LEMMA SweepTame ==
    ASSUME TypeInv, NEW s \in Procs,
           \/ SweepStart(s) \/ SweepStep(s)
           \/ \E a \in Attempts, q \in Queues : Submit(s, a, q)
    PROVE  /\ CalmStep /\ RowsStay /\ ProcsSeen
           /\ FailExpiredLease(s) \/ RowsCount
           /\ ReadExpiredLease(s) \/ ProcsStay
  <1> DEFINE Good == /\ CalmStep /\ RowsStay /\ ProcsSeen
                     /\ FailExpiredLease(s) \/ RowsCount
                     /\ ReadExpiredLease(s) \/ ProcsStay
  <1>1. /\ proc[s] \in Proc /\ proc \in [Procs -> Proc] /\ row \in [Attempts -> Row]
        /\ proc[s].pc # "idle" => proc[s].att \in Attempts /\ row[proc[s].att] \in Row
    BY ProcFacts DEF TypeInv, TypeOK
  <1>2. ASSUME At(s, "idle"), NEW a, NEW q,
               proc' = [proc EXCEPT ![s] = [IdleProc EXCEPT !.pc = "submit", !.att = a, !.queue = q]]
        PROVE  ProcsTame /\ ProcsStay /\ ProcsSeen
    <2> DEFINE c == [IdleProc EXCEPT !.pc = "submit", !.att = a, !.queue = q]
    <2>1. c.pc = "submit" /\ c.token = None BY DEF IdleProc
    <2> HIDE DEF c
    <2>2. ProcTame(proc[s], c) /\ ProcStays(proc[s], c) /\ ProcSeen(proc[s], c)
      BY <2>1 DEF ProcTame, ProcStays, ProcSeen
    <2>3. proc' = [proc EXCEPT ![s] = c] BY <1>2 DEF c
    <2>4. QED BY <2>2, <2>3, MoveTame
  <1>3. ASSUME NEW a \in Attempts, NEW q \in Queues, Submit(s, a, q) PROVE Good
    <2>1. UNCHANGED row /\ UNCHANGED broker BY <1>3 DEF Submit
    <2>2. ProcsTame /\ ProcsStay /\ ProcsSeen BY <1>2, <1>3 DEF Submit
    <2>3. QED BY <2>1, <2>2, SameTame, SameBroker DEF CalmStep
  <1>4. ASSUME NEW a \in Attempts, ListExpiredLease(s, a) PROVE Good
    <2> DEFINE c == [proc[s] EXCEPT !.pc = "listed", !.att = a]
    <2>1. proc' = [proc EXCEPT ![s] = c] BY <1>1, <1>4 DEF ListExpiredLease
    <2>2. c.pc = "listed" /\ c.att = a /\ c.token = proc[s].token BY <1>1 DEF Proc
    <2> HIDE DEF c
    <2>3. UNCHANGED row /\ UNCHANGED broker /\ row[a].status = "running"
      BY <1>4 DEF ListExpiredLease, FailExpiredLeaseWhere
    <2>4. ProcTame(proc[s], c) /\ ProcStays(proc[s], c) /\ ProcSeen(proc[s], c)
      BY <2>2, <2>3 DEF ProcTame, ProcStays, ProcSeen
    <2>5. QED BY <2>1, <2>3, <2>4, MoveTame, SameTame, SameBroker DEF CalmStep
  <1>5. ASSUME NEW a \in Attempts, RecoverExpiredMessage(s, a) \/ RecoverStuckTask(s, a) PROVE Good
    <2>1. At(s, "idle") /\ Resend(s, a) /\ UNCHANGED broker /\ row[a] \in Row
      BY <1>1, <1>5 DEF RecoverExpiredMessage, RecoverStuckTask
    <2>2. \/ Update(a, ClaimExpiredMessageSet(row[a], Skew[s]))
          \/ Update(a, ResetToPendingSet(row[a], Skew[s]))
      BY <1>5 DEF RecoverExpiredMessage, RecoverStuckTask
    <2> DEFINE r2 == IF Update(a, ClaimExpiredMessageSet(row[a], Skew[s]))
                     THEN ClaimExpiredMessageSet(row[a], Skew[s]) ELSE ResetToPendingSet(row[a], Skew[s])
    <2>6. RowTame(row[a], r2) /\ RowStays(row[a], r2) /\ RowCounts(row[a], r2) BY <2>1, TameSets
    <2>7. Update(a, r2) BY <2>2
    <2> HIDE DEF r2
    <2>3. RowsTame /\ RowsStay /\ RowsCount BY <2>6, <2>7, UpdateTame
    <2>4. ProcsTame /\ ProcsStay /\ ProcsSeen BY <1>2, <2>1 DEF Resend
    <2>5. QED BY <2>1, <2>3, <2>4, SameBroker DEF CalmStep
  <1>6. CASE ReadExpiredLease(s)
    <2> DEFINE r == row[proc[s].att]
               c == [proc[s] EXCEPT !.pc = "read", !.tries = r.attempt_count, !.queue = r.dispatch_queue]
    <2>1. proc' = [proc EXCEPT ![s] = c] BY <1>1, <1>6 DEF ReadExpiredLease
    <2>2. c.pc = "read" /\ c.att = proc[s].att /\ c.token = proc[s].token BY <1>1 DEF Proc
    <2> HIDE DEF c
    <2>3. UNCHANGED row /\ UNCHANGED broker /\ proc[s].pc = "listed" BY <1>6 DEF ReadExpiredLease, At
    <2>4. ProcTame(proc[s], c) /\ ProcSeen(proc[s], c) BY <2>2, <2>3 DEF ProcTame, ProcSeen
    <2>5. QED BY <1>6, <2>1, <2>3, <2>4, MoveTame, SameTame, SameBroker DEF CalmStep
  <1>7. CASE FailExpiredLease(s)
    <2> DEFINE a == proc[s].att
    <2>1. a \in Attempts /\ row[a] \in Row /\ UNCHANGED broker /\ proc[s].pc = "read"
      BY <1>1, <1>7 DEF FailExpiredLease, At
    <2>2. CASE /\ Goto(s, "failed") /\ row[a].status = "running"
               /\ \E delay : Update(a, FailureSet(row[a], delay, Skew[s]))
      <3>1. RowsTame /\ RowsStay BY <2>1, <2>2, FailureTame, UpdateTame
      <3>2. QED BY <1>7, <2>1, <2>2, <3>1, GotoTame, SameBroker DEF CalmStep
    <2>3. CASE Done(s) /\ UNCHANGED row BY <2>1, <2>3, DoneTame, SameTame, SameBroker DEF CalmStep
    <2>4. QED BY <1>7, <2>2, <2>3 DEF FailExpiredLease, FailExpiredLeaseWhere
  <1>8. QED BY <1>3, <1>4, <1>5, <1>6, <1>7 DEF SweepStart, SweepStep

\* Steps of the environment
LEMMA EnvironmentTame ==
    ASSUME TypeInv,
           \/ \E p \in Procs : Crash(p)
           \/ \E a \in Attempts : GiveUpByHand(a)
           \/ \E m \in Tokens : LoseMessage(m) \/ DropExpired(m)
           \/ UNCHANGED vars
    PROVE  QuietStep /\ RowsCount
  <1>1. ASSUME NEW p \in Procs, Crash(p) PROVE QuietStep /\ RowsCount
    BY <1>1, SameTame, DoneTame, SameBroker DEF Crash, QuietStep, CalmStep
  <1>2. ASSUME NEW a \in Attempts, GiveUpByHand(a) PROVE QuietStep /\ RowsCount
    <2>1. row[a] \in Row BY DEF TypeInv, TypeOK
    <2> DEFINE r2 == GiveUpSet(row[a], "manual", 0)
    <2>0. RowTame(row[a], r2) /\ RowStays(row[a], r2) /\ RowCounts(row[a], r2)
      BY <1>2, <2>1, TameSets DEF GiveUpByHand
    <2> HIDE DEF r2
    <2>2. RowsTame /\ RowsStay /\ RowsCount BY <1>2, <2>0, UpdateTame DEF GiveUpByHand, r2
    <2>3. QED BY <1>2, <2>2, StillTame, SameBroker DEF GiveUpByHand, QuietStep, CalmStep
  <1>3. ASSUME NEW m \in Tokens, LoseMessage(m) \/ DropExpired(m) PROVE QuietStep /\ RowsCount
    <2>1. broker' = [broker EXCEPT ![m] = None] BY <1>3 DEF LoseMessage, DropExpired
    <2>2. BrokerTame BY <2>1 DEF BrokerTame, TypeInv, TypeOK
    <2>3. QED BY <1>3, <2>2, SameTame, StillTame DEF LoseMessage, DropExpired, QuietStep, CalmStep
  <1>4. CASE UNCHANGED vars
    BY <1>4, SameTame, StillTame, SameBroker DEF vars, QuietStep, CalmStep
  <1>5. QED BY <1>1, <1>2, <1>3, <1>4

\* The passing of time is calm, but leases expire.
LEMMA TickTame == ASSUME TypeInv, Tick PROVE CalmStep /\ ProcsStay /\ ProcsSeen /\ RowsCount
  <1>1. RowsTame /\ RowsCount
    <2> SUFFICES ASSUME NEW a \in Attempts PROVE RowTame(row[a], row'[a]) /\ RowCounts(row[a], row'[a])
      BY DEF RowsTame, RowsCount
    <2>1. row[a] \in Row /\ row'[a] = AgeRow(row[a]) BY DEF Tick, TypeInv, TypeOK
    <2>2. QED BY <2>1 DEF AgeRow, Row, RowTame, RowCounts
  <1>2. ProcsTame /\ ProcsStay /\ ProcsSeen
    <2> SUFFICES ASSUME NEW p \in Procs
                 PROVE  ProcTame(proc[p], proc'[p]) /\ ProcStays(proc[p], proc'[p]) /\ ProcSeen(proc[p], proc'[p])
      BY DEF ProcsTame, ProcsStay, ProcsSeen
    <2>1. proc[p] \in Proc BY DEF TypeInv, TypeOK
    <2>2. proc'[p] = [proc[p] EXCEPT !.eta = Age(@), !.left = IF @ = None THEN None ELSE @ - 1]
      BY DEF Tick
    <2>3. SameWork(proc[p], proc'[p]) /\ proc'[p].token = proc[p].token BY <2>1, <2>2 DEF SameWork, Proc
    <2>4. QED BY <2>3 DEF ProcTame, ProcStays, ProcSeen, SameWork
  <1>3. BrokerTame
    <2> SUFFICES ASSUME NEW m \in Tokens, broker'[m] # None
                 PROVE  broker[m] # None /\ broker'[m].att = broker[m].att
      BY DEF BrokerTame
    <2>1. broker'[m] = IF broker[m] = None THEN None
                       ELSE [broker[m] EXCEPT !.eta = Age(@), !.expires = Age(@)]
      BY DEF Tick
    <2>2. broker[m] # None /\ broker[m] \in Message BY <2>1 DEF TypeInv, TypeOK, Optional
    <2>3. QED BY <2>1, <2>2 DEF Message
  <1>4. QED BY <1>1, <1>2, <1>3 DEF CalmStep

-----------------------------------------------------------------------------
(* The fence *)

\* A message that is delivered once carries an id of its own: nobody has it while it waits, one
\* worker has it afterwards, and only the row of that worker's claim names it.
OwnTokens ==
    /\ \A m \in Tokens : broker[m] # None =>
           /\ \A w \in Workers : proc[w].token # m
           /\ \A a \in Attempts : row[a].celery_task_id # m
    /\ \A w1, w2 \in Workers : proc[w1].token # None /\ proc[w1].token = proc[w2].token => w1 = w2
    /\ \A w \in Workers, a \in Attempts :
           /\ At(w, "claim") => row[a].celery_task_id # proc[w].token
           /\ Executing(w) /\ row[a].celery_task_id = proc[w].token =>
                  /\ a = proc[w].att
                  /\ At(w, "running") => proc[w].tries = row[a].attempt_count

\* No try is counted between a worker's read after its claim and its outcome.
LatestClaims == \A w \in Workers : At(w, "running") => proc[w].tries = row[proc[w].att].attempt_count

FenceInv == (~Redelivers => OwnTokens) /\ (KilledBeforeTakeover => LatestClaims)

\* Executing workers hold a token and an attempt.
LEMMA ExecutingFacts ==
    ASSUME TypeInv, NEW w \in Workers, Executing(w) \/ At(w, "claim")
    PROVE  proc[w].token \in Tokens /\ proc[w].token # None /\ proc[w].att \in Attempts /\ w \in Procs
  <1>1. w \in Procs BY DEF Procs
  <1>2. proc[w].token \in Tokens /\ proc[w].att \in Attempts
    BY <1>1, ProcFacts DEF ProcOK, Executing, At
  <1>3. QED BY <1>1, <1>2, ConstantsAssumption

\* Calm steps give nobody an id.
LEMMA CalmTokens == ASSUME TypeInv, TypeInv', OwnTokens, CalmStep PROVE OwnTokens'
  <1>1. \A w \in Workers : ProcTame(proc[w], proc'[w]) BY DEF CalmStep, ProcsTame, Procs
  <1>2. \A a \in Attempts : RowTame(row[a], row'[a]) BY DEF CalmStep, RowsTame
  <1>3. ASSUME NEW m \in Tokens, broker'[m] # None
        PROVE  /\ \A w \in Workers : proc'[w].token # m
               /\ \A a \in Attempts : row'[a].celery_task_id # m
    <2>1. m # None /\ broker[m] # None BY <1>3, ConstantsAssumption DEF CalmStep, BrokerTame
    <2>2. QED BY <1>1, <1>2, <2>1 DEF OwnTokens, ProcTame, RowTame
  <1>4. ASSUME NEW w1 \in Workers, NEW w2 \in Workers, proc'[w1].token # None,
               proc'[w1].token = proc'[w2].token
        PROVE  w1 = w2
    BY <1>1, <1>4 DEF OwnTokens, ProcTame
  <1>5. ASSUME NEW w \in Workers, Executing(w)' \/ At(w, "claim")'
        PROVE  proc'[w].token # None /\ proc'[w].token = proc[w].token /\ SameWork(proc[w], proc'[w])
    <2>1. proc'[w].token # None
      <3>1. w \in Procs BY DEF Procs
      <3>2. ProcOK(proc'[w]) BY <3>1 DEF TypeInv
      <3>3. proc'[w].token \in Tokens BY <1>5, <3>2 DEF ProcOK, Executing, At
      <3>4. QED BY <3>3, ConstantsAssumption
    <2>2. proc'[w].pc \in {"claim", "claimed", "running"} BY <1>5 DEF Executing, At
    <2>3. QED BY <1>1, <2>1, <2>2 DEF ProcTame
  <1>6. ASSUME NEW w \in Workers, NEW a \in Attempts, At(w, "claim")'
        PROVE  row'[a].celery_task_id # proc'[w].token
    BY <1>2, <1>5, <1>6 DEF OwnTokens, RowTame, SameWork, At
  <1>7. ASSUME NEW w \in Workers, NEW a \in Attempts, Executing(w)', row'[a].celery_task_id = proc'[w].token
        PROVE  a = proc'[w].att /\ (At(w, "running")' => proc'[w].tries = row'[a].attempt_count)
    <2>1. row[a].celery_task_id = proc[w].token /\ row'[a].attempt_count = row[a].attempt_count
      BY <1>2, <1>5, <1>7 DEF RowTame
    <2>2. Executing(w) /\ (At(w, "running")' => At(w, "running")) BY <1>5, <1>7 DEF SameWork, Executing, At
    <2>3. QED BY <1>5, <1>7, <2>1, <2>2 DEF OwnTokens, SameWork
  <1>8. QED BY <1>3, <1>4, <1>6, <1>7 DEF OwnTokens

\* Calm steps count no try of a running attempt.
LEMMA CalmLatest == ASSUME TypeInv, Leased, LatestClaims, CalmStep PROVE LatestClaims'
  <1> SUFFICES ASSUME NEW w \in Workers, At(w, "running")'
               PROVE  proc'[w].tries = row'[proc'[w].att].attempt_count
    BY DEF LatestClaims
  <1>1. SameWork(proc[w], proc'[w])
    BY DEF CalmStep, ProcsTame, Procs, ProcTame, At
  <1>2. At(w, "running") /\ Executing(w) BY <1>1 DEF SameWork, At, Executing
  <1>3. proc[w].att \in Attempts BY <1>2, ExecutingFacts
  <1>4. row[proc[w].att].status = "running" BY <1>2 DEF Leased, Protected
  <1>5. row'[proc[w].att].attempt_count = row[proc[w].att].attempt_count
    BY <1>3, <1>4 DEF CalmStep, RowsTame, RowTame
  <1>6. QED BY <1>1, <1>2, <1>5 DEF LatestClaims, SameWork

\* The send: apply_async() takes an id nobody has.
LEMMA SendFence == ASSUME TypeInv, TypeInv', NEW p \in Procs, Send(p)
                   PROVE  /\ OwnTokens => OwnTokens'
                          /\ Leased /\ LatestClaims => LatestClaims'
  <1>1. RowsTame /\ ProcsTame /\ UNCHANGED row BY SameTame, DoneTame DEF Send
  <1>2. PICK m \in FreshIds : \E b : broker' = [broker EXCEPT ![m] = b] BY DEF Send
  <1>3. \A w \in Workers : ProcTame(proc[w], proc'[w]) BY <1>1 DEF ProcsTame, Procs
  <1>4. proc' = [proc EXCEPT ![p] = IdleProc] BY DEF Send, Done
  <1>5. ASSUME NEW w \in Workers, Executing(w)' \/ At(w, "claim")' PROVE proc'[w] = proc[w]
    BY <1>4, <1>5 DEF TypeInv, TypeOK, Procs, Executing, At, IdleProc
  <1>6. ASSUME OwnTokens PROVE OwnTokens'
    <2>1. ASSUME NEW k \in Tokens, broker'[k] # None
          PROVE  /\ \A w \in Workers : proc'[w].token # k
                 /\ \A a \in Attempts : row'[a].celery_task_id # k
      <3>1. k # None BY ConstantsAssumption
      <3>2. /\ \A w \in Workers : proc[w].token # k
            /\ \A a \in Attempts : row[a].celery_task_id # k
        BY <1>2, <1>6, <2>1 DEF FreshIds, OwnTokens, TypeInv, TypeOK
      <3>3. QED BY <1>1, <1>3, <3>1, <3>2 DEF ProcTame
    <2>2. ASSUME NEW w1 \in Workers, NEW w2 \in Workers, proc'[w1].token # None,
                 proc'[w1].token = proc'[w2].token
          PROVE  w1 = w2
      BY <1>3, <1>6, <2>2 DEF OwnTokens, ProcTame
    <2>3. ASSUME NEW w \in Workers, NEW a \in Attempts, At(w, "claim")'
          PROVE  row'[a].celery_task_id # proc'[w].token
      BY <1>1, <1>5, <1>6, <2>3 DEF OwnTokens, At
    <2>4. ASSUME NEW w \in Workers, NEW a \in Attempts, Executing(w)',
                 row'[a].celery_task_id = proc'[w].token
          PROVE  a = proc'[w].att /\ (At(w, "running")' => proc'[w].tries = row'[a].attempt_count)
      BY <1>1, <1>5, <1>6, <2>4 DEF OwnTokens, Executing, At
    <2>5. QED BY <2>1, <2>2, <2>3, <2>4 DEF OwnTokens
  <1>7. ASSUME LatestClaims PROVE LatestClaims'
    BY <1>1, <1>5, <1>7 DEF LatestClaims, At, Executing
  <1>8. QED BY <1>6, <1>7

\* The delivery: without redelivery the message is gone, and the worker alone has its id.
LEMMA ReceiveFence == ASSUME TypeInv, NEW p \in Workers, NEW m \in Tokens, Receive(p, m)
                      PROVE  /\ ~Redelivers /\ OwnTokens => OwnTokens'
                             /\ LatestClaims => LatestClaims'
  <1> DEFINE c == proc'[p]
  <1>1. /\ UNCHANGED row /\ m # None /\ broker[m] # None /\ At(p, "idle")
        /\ proc \in [Procs -> Proc] /\ broker \in [Tokens -> Optional(Message)] /\ p \in Procs
    BY ConstantsAssumption DEF Receive, TypeInv, TypeOK, Procs
  <1>2. \A w \in Workers : w # p => proc'[w] = proc[w] BY <1>1 DEF Receive, Procs
  <1>3. c = proc[p] \/ (c.pc = "claim" /\ c.token = m)
    <2> DEFINE k == [IdleProc EXCEPT !.pc = "claim", !.att = broker[m].att, !.token = m,
                                     !.left = HardLimit[broker[m].queue], !.queue = broker[m].queue]
    <2>1. k.pc = "claim" /\ k.token = m BY DEF IdleProc
    <2>2. proc' = proc \/ proc' = [proc EXCEPT ![p] = k] BY DEF Receive
    <2> HIDE DEF k
    <2>3. QED BY <1>1, <2>1, <2>2
  <1>4. ASSUME NEW w \in Workers, Executing(w)' PROVE proc'[w] = proc[w] /\ Executing(w)
    BY <1>2, <1>3, <1>4 DEF Executing
  <1>5. ASSUME ~Redelivers, OwnTokens PROVE OwnTokens'
    <2>1. broker' = [broker EXCEPT ![m] = None] BY <1>5 DEF Receive
    <2>2. /\ \A w \in Workers : proc[w].token # m
          /\ \A a \in Attempts : row[a].celery_task_id # m
      BY <1>1, <1>5 DEF OwnTokens
    <2>3. \A w \in Workers : proc'[w].token = proc[w].token \/ (w = p /\ proc'[w].token = m)
      BY <1>2, <1>3
    <2>4. ASSUME NEW k \in Tokens, broker'[k] # None
          PROVE  /\ \A w \in Workers : proc'[w].token # k
                 /\ \A a \in Attempts : row'[a].celery_task_id # k
      <3>1. k # m /\ broker[k] # None BY <1>1, <2>1, <2>4
      <3>2. QED BY <1>1, <1>5, <2>3, <3>1 DEF OwnTokens
    <2>5. ASSUME NEW w1 \in Workers, NEW w2 \in Workers, proc'[w1].token # None,
                 proc'[w1].token = proc'[w2].token
          PROVE  w1 = w2
      BY <1>5, <2>2, <2>3, <2>5 DEF OwnTokens
    <2>6. ASSUME NEW w \in Workers, NEW a \in Attempts, At(w, "claim")'
          PROVE  row'[a].celery_task_id # proc'[w].token
      <3>1. proc'[w] = proc[w] \/ proc'[w].token = m BY <1>2, <1>3
      <3>2. QED BY <1>1, <1>5, <2>2, <2>6, <3>1 DEF OwnTokens, At
    <2>7. ASSUME NEW w \in Workers, NEW a \in Attempts, Executing(w)',
                 row'[a].celery_task_id = proc'[w].token
          PROVE  a = proc'[w].att /\ (At(w, "running")' => proc'[w].tries = row'[a].attempt_count)
      BY <1>1, <1>4, <1>5, <2>7 DEF OwnTokens, At
    <2>8. QED BY <2>4, <2>5, <2>6, <2>7 DEF OwnTokens
  <1>6. ASSUME LatestClaims PROVE LatestClaims'
    BY <1>1, <1>4, <1>6 DEF LatestClaims, At, Executing
  <1>7. QED BY <1>5, <1>6

\* The claim: the row names the worker's own id, which no other row and no other worker has.
LEMMA ClaimFence == ASSUME TypeInv, NEW p \in Workers, Claim(p), ClaimWhere(row[proc[p].att])
                    PROVE  /\ OwnTokens => OwnTokens'
                           /\ Leased /\ LatestClaims => LatestClaims'
  <1> DEFINE a == proc[p].att
             t == proc[p].token
             c == [proc[p] EXCEPT !.pc = "claimed"]
             r2 == ClaimSet(row[a], t, HardLimit[proc[p].queue], Skew[p])
  <1>1. /\ At(p, "claim") /\ a \in Attempts /\ t \in Tokens /\ t # None /\ p \in Procs /\ row[a] \in Row
        /\ row \in [Attempts -> Row] /\ proc \in [Procs -> Proc] /\ proc[p] \in Proc
        /\ broker' = broker
    BY ExecutingFacts DEF Claim, At, TypeInv, TypeOK
  <1>2. proc' = [proc EXCEPT ![p] = c] /\ row' = [row EXCEPT ![a] = r2]
    BY <1>1 DEF Claim, Goto, Update
  <1>3. c.pc = "claimed" /\ c.att = a /\ c.token = t BY <1>1 DEF Proc
  <1>4. r2.celery_task_id = t BY <1>1 DEF ClaimSet, Row
  <1> HIDE DEF c, r2
  <1>5. \A w \in Workers : proc'[w] = IF w = p THEN c ELSE proc[w] BY <1>1, <1>2 DEF Procs
  <1>6. \A b \in Attempts : row'[b] = IF b = a THEN r2 ELSE row[b] BY <1>1, <1>2
  <1>7. \A w \in Workers : proc'[w].token = proc[w].token BY <1>3, <1>5
  <1>8. ASSUME OwnTokens PROVE OwnTokens'
    <2>1. ASSUME NEW m \in Tokens, broker'[m] # None
          PROVE  /\ \A w \in Workers : proc'[w].token # m
                 /\ \A b \in Attempts : row'[b].celery_task_id # m
      <3>1. \A w \in Workers : proc[w].token # m BY <1>1, <1>8, <2>1 DEF OwnTokens
      <3>2. t # m BY <3>1
      <3>3. \A b \in Attempts : row[b].celery_task_id # m BY <1>1, <1>8, <2>1 DEF OwnTokens
      <3>4. QED BY <1>4, <1>6, <1>7, <3>1, <3>2, <3>3
    <2>2. \A w1, w2 \in Workers : proc'[w1].token # None /\ proc'[w1].token = proc'[w2].token => w1 = w2
      BY <1>7, <1>8 DEF OwnTokens
    <2>3. ASSUME NEW w \in Workers, w # p PROVE t # proc[w].token
      BY <1>1, <1>8, <2>3 DEF OwnTokens
    <2>4. \A b \in Attempts : row[b].celery_task_id # t BY <1>1, <1>8 DEF OwnTokens
    <2>5. ASSUME NEW w \in Workers, NEW b \in Attempts, At(w, "claim")'
          PROVE  row'[b].celery_task_id # proc'[w].token
      <3>1. w # p /\ proc'[w] = proc[w] BY <1>3, <1>5, <2>5 DEF At
      <3>2. At(w, "claim") BY <2>5, <3>1 DEF At
      <3>3. row[b].celery_task_id # proc[w].token BY <1>8, <3>2 DEF OwnTokens
      <3>4. QED BY <1>4, <1>6, <2>3, <3>1, <3>3
    <2>6. ASSUME NEW w \in Workers, NEW b \in Attempts, Executing(w)',
                 row'[b].celery_task_id = proc'[w].token
          PROVE  b = proc'[w].att /\ (At(w, "running")' => proc'[w].tries = row'[b].attempt_count)
      <3>1. CASE w = p
        <4>1. b = a BY <1>6, <1>7, <2>4, <2>6, <3>1
        <4>2. ~At(w, "running")' BY <1>3, <1>5, <3>1 DEF At
        <4>3. QED BY <1>3, <1>5, <3>1, <4>1, <4>2
      <3>2. CASE w # p
        <4>1. proc'[w] = proc[w] /\ Executing(w) BY <1>5, <2>6, <3>2 DEF Executing
        <4>2. b # a BY <1>4, <1>6, <2>3, <2>6, <3>2, <4>1
        <4>3. QED BY <1>6, <1>8, <2>6, <4>1, <4>2 DEF OwnTokens, At
      <3>3. QED BY <3>1, <3>2
    <2>7. QED BY <2>1, <2>2, <2>5, <2>6 DEF OwnTokens
  <1>9. ASSUME Leased, LatestClaims, NEW w \in Workers, At(w, "running")'
        PROVE  proc'[w].tries = row'[proc'[w].att].attempt_count
    <2>1. proc'[w] = proc[w] /\ Executing(w) BY <1>3, <1>5, <1>9 DEF At, Executing
    <2>2. row[proc[w].att].status = "running" BY <1>9, <2>1 DEF Leased, Protected
    <2>3. proc[w].att # a BY <2>2 DEF ClaimWhere
    <2>4. proc[w].att \in Attempts BY <2>1, ExecutingFacts
    <2>5. QED BY <1>6, <1>9, <2>1, <2>3, <2>4 DEF LatestClaims, At
  <1>10. QED BY <1>8, <1>9 DEF LatestClaims

\* The read after the claim: the worker sees its own try.
LEMMA LoadFence == ASSUME TypeInv, NEW p \in Workers, LoadClaim(p)
                   PROVE  (OwnTokens => OwnTokens') /\ (LatestClaims => LatestClaims')
  <1> DEFINE a == proc[p].att
             c == [proc[p] EXCEPT !.pc = "running", !.tries = row[a].attempt_count,
                                  !.queue = row[a].dispatch_queue]
  <1>1. /\ At(p, "claimed") /\ Executing(p) /\ p \in Procs
        /\ proc \in [Procs -> Proc] /\ proc[p] \in Proc /\ UNCHANGED <<row, broker>>
    BY DEF LoadClaim, At, Executing, TypeInv, TypeOK, Procs
  <1>2. proc' = [proc EXCEPT ![p] = c] BY <1>1 DEF LoadClaim
  <1>3. c.pc = "running" /\ c.att = a /\ c.token = proc[p].token /\ c.tries = row[a].attempt_count
    BY <1>1 DEF Proc
  <1> HIDE DEF c
  <1>4. \A w \in Workers : proc'[w] = IF w = p THEN c ELSE proc[w] BY <1>1, <1>2 DEF Procs
  <1>5. \A w \in Workers : /\ proc'[w].token = proc[w].token /\ proc'[w].att = proc[w].att
                           /\ At(w, "claim")' => At(w, "claim")
                           /\ Executing(w)' => Executing(w)
    BY <1>1, <1>3, <1>4 DEF At, Executing
  <1>6. ASSUME OwnTokens PROVE OwnTokens'
    <2>1. ASSUME NEW w \in Workers, NEW b \in Attempts, Executing(w)',
                 row'[b].celery_task_id = proc'[w].token
          PROVE  b = proc'[w].att /\ (At(w, "running")' => proc'[w].tries = row'[b].attempt_count)
      <3>1. b = proc[w].att BY <1>1, <1>5, <1>6, <2>1 DEF OwnTokens
      <3>2. QED BY <1>1, <1>3, <1>4, <1>5, <1>6, <2>1, <3>1 DEF OwnTokens, At
    <2>2. QED BY <1>1, <1>5, <1>6, <2>1 DEF OwnTokens
  <1>7. ASSUME LatestClaims PROVE LatestClaims'
    BY <1>1, <1>3, <1>4, <1>7 DEF LatestClaims, At
  <1>8. QED BY <1>6, <1>7

\* The inductive step of FenceInv
LEMMA FenceStep == TypeInv /\ LeaseInv /\ FenceInv /\ [Next]_vars => FenceInv'
  <1> SUFFICES ASSUME TypeInv, LeaseInv, FenceInv, [Next]_vars PROVE FenceInv'
    OBVIOUS
  <1>1. TypeInv' BY TypeInvStep
  <1>2. ASSUME CalmStep PROVE FenceInv'
    <2>1. ~Redelivers => OwnTokens' BY <1>1, <1>2, CalmTokens DEF FenceInv
    <2>2. KilledBeforeTakeover => LatestClaims' BY <1>2, CalmLatest DEF FenceInv, LeaseInv
    <2>3. QED BY <2>1, <2>2 DEF FenceInv, KilledBeforeTakeover
  <1>3. ASSUME ~Redelivers /\ OwnTokens => OwnTokens',
               KilledBeforeTakeover /\ Leased /\ LatestClaims => LatestClaims'
        PROVE  FenceInv'
    BY <1>3 DEF FenceInv, LeaseInv, KilledBeforeTakeover
  <1>4. ASSUME NEW p \in Procs, ExecuteStep(p) PROVE FenceInv'
    <2>1. CASE Send(p) BY <1>1, <1>3, <2>1, SendFence
    <2>2. CASE ~Send(p) BY <1>2, <1>4, <2>2, ExecuteTame
    <2>3. QED BY <2>1, <2>2
  <1>5. ASSUME NEW w \in Workers, WorkerStep(w) PROVE FenceInv'
    <2>1. CASE Claim(w) /\ ClaimWhere(row[proc[w].att]) BY <1>3, <2>1, ClaimFence
    <2>2. CASE Claim(w) /\ ~ClaimWhere(row[proc[w].att])
      <3>1. /\ Goto(w, "refused") /\ UNCHANGED row /\ UNCHANGED broker /\ w \in Procs
            /\ proc[w].pc \notin {"idle", "submit"}
        BY <2>2 DEF Claim, Procs, At
      <3>2. CalmStep BY <3>1, GotoTame, SameTame, SameBroker DEF CalmStep
      <3>3. QED BY <1>2, <3>2
    <2>3. CASE LoadClaim(w) BY <1>3, <2>3, LoadFence
    <2>4. CASE GiveUpRefused(w) \/ FinishSuccess(w) \/ FinishFailure(w) \/ HardKill(w)
      BY <1>2, <2>4, WorkerTame DEF QuietStep
    <2>5. QED BY <1>5, <2>1, <2>2, <2>3, <2>4 DEF WorkerStep
  <1>6. ASSUME NEW p \in Procs,
               \/ RetryStep(p) \/ SweepStart(p) \/ SweepStep(p)
               \/ \E a \in Attempts, q \in Queues : Submit(p, a, q)
        PROVE  FenceInv'
    BY <1>2, <1>6, RetryTame, SweepTame
  <1>7. ASSUME NEW w \in Workers, NEW m \in Tokens, Receive(w, m) PROVE FenceInv'
    BY <1>3, <1>7, ReceiveFence
  <1>8. CASE Tick BY <1>2, <1>8, TickTame
  <1>9. CASE \/ \E p \in Procs : Crash(p)
             \/ \E a \in Attempts : GiveUpByHand(a)
             \/ \E m \in Tokens : LoseMessage(m) \/ DropExpired(m)
             \/ UNCHANGED vars
    BY <1>2, <1>9, EnvironmentTame DEF QuietStep
  <1>10. Sweepers \subseteq Procs /\ Submitters \subseteq Procs BY DEF Procs
  <1>11. QED BY <1>4, <1>5, <1>6, <1>7, <1>8, <1>9, <1>10 DEF Next

\* Nobody has a token at first.
LEMMA FenceInit == Init => FenceInv
  BY DEF Init, IdleProc, AbsentRow, FenceInv, OwnTokens, LatestClaims, Executing, At, Procs

\* LeaseInv at first
LEMMA LeaseInit == Init => LeaseInv
  BY DEF Init, IdleProc, LeaseInv, Leased, LimitOK, Exclusive, Executing, Procs

\* What FenceInv says of the fence
LEMMA FenceExact ==
    ASSUME ~Redelivers \/ KilledBeforeTakeover, TypeInv, FenceInv PROVE FenceIsExact
  <1> SUFFICES ASSUME NEW w \in Workers, At(w, "running"), FinishWhere(row[proc[w].att], proc[w].token)
               PROVE  proc[w].tries = row[proc[w].att].attempt_count
    BY DEF FenceIsExact
  <1>1. Executing(w) /\ proc[w].att \in Attempts BY ExecutingFacts DEF Executing, At
  <1>2. CASE ~Redelivers BY <1>1, <1>2 DEF FenceInv, OwnTokens, FinishWhere
  <1>3. CASE KilledBeforeTakeover BY <1>3 DEF FenceInv, LatestClaims
  <1>4. QED BY <1>2, <1>3

\* task_runner.py: the claim token fences the outcome.  A worker that passes the WHERE clause of
\* finish_success() or finish_failure() made the latest claim, however many sweeps have taken
\* the attempt over, provided a message is delivered once or workers are killed before their
\* claim can be taken over.  (Without either it is false: run fence_redelivery.)
THEOREM FenceHolds ==
    ASSUME ~Redelivers \/ KilledBeforeTakeover PROVE Spec => []FenceIsExact
  <1>1. TypeInv /\ FenceInv => FenceIsExact BY FenceExact
  <1>2. QED BY <1>1, TypeInvInit, TypeInvStep, LeaseInit, LeaseInvStep, FenceInit, FenceStep, PTL DEF Spec

-----------------------------------------------------------------------------
(* The tries of an attempt *)

\* All queues allow the same number of tries: record_dispatch() is filtered by id only, so of
\* two submissions under different policies the later one is recorded.
SameLimits == \A q1, q2 \in Queues : MaxAttempts[q1] = MaxAttempts[q2]

\* TriesLeft of one row
RowTries(r) ==
    r.dispatch_queue # None =>
        /\ r.status = "pending" \/ (r.status = "failed" /\ r.next_retry_at # None)
               => AllowsRetry(r.dispatch_queue, r.attempt_count)
        /\ MaxAttempts[r.dispatch_queue] # None => r.attempt_count <= MaxAttempts[r.dispatch_queue]

\* With it, what makes it inductive: an attempt without a queue was never tried, and a claim
\* that a sweep could take for stuck has a lease instead.
RowInv(r) ==
    /\ RowTries(r)
    /\ r.status = "absent" => r.dispatch_queue = None
    /\ r.dispatch_queue = None => r.attempt_count = 0 /\ r.status # "running"
    /\ StaleTimeout # None /\ r.status = "running" => r.lease_expires_at # None

\* A process that sends, delivers or executes has an attempt with a recorded queue.
ProcInv(c, f) ==
    /\ c.pc \in {"claim", "claimed", "running", "recorded", "requeued"} => f[c.att].dispatch_queue # None
    /\ c.pc = "running" => c.queue # None
    /\ c.pc \notin {"idle", "submit"} => f[c.att].status # "absent"

\* A sweep whose expired lease is still there has read its latest try.
SweepInv(c, f) ==
    c.pc = "read" /\ FailExpiredLeaseWhere(f[c.att]) => c.tries = f[c.att].attempt_count /\ c.queue # None

RowsInv == \A a \in Attempts : RowInv(row[a])
ProcsInv == \A p \in Procs : ProcInv(proc[p], row)
SweepsInv == \A s \in Sweepers : SweepInv(proc[s], row)
MessagesInv == \A m \in Tokens : broker[m] # None => row[broker[m].att].dispatch_queue # None
TriesInv == RowsInv /\ ProcsInv /\ SweepsInv /\ MessagesInv

\* The limit is the one of every queue.
LEMMA SameLimit ==
    ASSUME SameLimits, NEW q1 \in Queues, NEW q2 \in Queues, NEW n \in Nat
    PROVE  /\ q1 # None /\ AllowsRetry(q1, 0)
           /\ AllowsRetry(q1, n) <=> AllowsRetry(q2, n)
           /\ AllowsRetry(q1, n) /\ MaxAttempts[q1] # None => n + 1 <= MaxAttempts[q1]
           /\ MaxAttempts[q1] # None => 0 <= MaxAttempts[q1] /\ MaxAttempts[q1] \in Nat
  <1>1. q1 # None /\ q2 # None BY ConstantsAssumption
  <1>2. MaxAttempts[q1] = MaxAttempts[q2] BY DEF SameLimits
  <1>3. MaxAttempts[q1] # None => MaxAttempts[q1] \in Nat \ {0}
    BY ConstantsAssumption DEF Optional
  <1>4. QED BY <1>1, <1>2, <1>3 DEF AllowsRetry

\* A recorded queue stays recorded, and a row in existence.
RowOnward(r, r2) ==
    /\ r.dispatch_queue # None => r2.dispatch_queue # None
    /\ r.status # "absent" => r2.status # "absent"

\* A statement keeps RowInv, if a claim is one of an attempt with a queue and a failure was
\* computed from the tries of the row.
LEMMA RowInvStep ==
    ASSUME SameLimits, NEW r \in Row, NEW r2, RowStep(r, r2), RowDecided(r), RowInv(r), RowCounts(r, r2),
           r2.status = "running" /\ r.status # "running" => r.dispatch_queue # None
    PROVE  RowInv(r2) /\ RowOnward(r, r2)
  <1> DEFINE Good == RowInv(r2) /\ RowOnward(r, r2)
             q == r.dispatch_queue
             n == r.attempt_count
  <1>1. /\ r.dispatch_queue \in Optional(Queues) /\ n \in Nat /\ r2 \in Row
        /\ q # None => q \in Queues
    BY RowStepType DEF Row, Optional
  <1>2. ASSUME r2.dispatch_queue = q, r2.attempt_count = n,
               r2.status = "absent" => r.status = "absent",
               r.status # "absent" => r2.status # "absent",
               r2.status = "running" => r.status = "running" /\ (r2.lease_expires_at = None => r.lease_expires_at = None),
               r2.status = "pending" \/ (r2.status = "failed" /\ r2.next_retry_at # None) =>
                  \/ r.status = "pending" \/ (r.status = "failed" /\ r.next_retry_at # None)
                  \/ q = None
                  \/ AllowsRetry(q, n)
        PROVE  Good
    <2>1. RowTries(r2) BY <1>2 DEF RowInv, RowTries
    <2>2. QED BY <1>2, <2>1 DEF RowInv, RowOnward
  <1>3. CASE r2 = r BY <1>3 DEF RowOnward
  <1>4. CASE r2 = AgeRow(r)
    <2>1. /\ r2.dispatch_queue = q /\ r2.attempt_count = n /\ r2.status = r.status
          /\ r2.next_retry_at = Age(r.next_retry_at) /\ r2.lease_expires_at = Age(r.lease_expires_at)
      BY <1>4 DEF AgeRow, Row
    <2>2. /\ r2.next_retry_at # None => r.next_retry_at # None
          /\ r2.lease_expires_at = None => r.lease_expires_at = None
      BY <2>1, AgeType DEF Row
    <2>3. QED BY <1>2, <2>1, <2>2
  <1>5. ASSUME NEW s \in Int, r2 = SetGiveUpDeadlineSet(r, s) PROVE Good
    BY <1>2, <1>5 DEF SetGiveUpDeadlineSet, Row
  <1>6. ASSUME NEW now \in Int, r.status = "absent", r2 = CreatedRow(now) PROVE Good
    <2>1. /\ r2.dispatch_queue = None /\ r2.status = "pending" /\ r2.attempt_count = 0 BY <1>6 DEF CreatedRow, AbsentRow
    <2>2. q = None BY <1>6 DEF RowInv
    <2>3. QED BY <1>6, <2>1, <2>2 DEF RowInv, RowTries, RowOnward
  <1>7. ASSUME NEW now \in Int, ReopenWhere(r), r2 = ReopenSet(r, now) PROVE Good
    <2>1. r.status = "failed" /\ r.next_retry_at # None BY <1>7 DEF ReopenWhere, RowDecided
    <2>2. QED BY <1>2, <1>7, <2>1 DEF ReopenSet, Row
  <1>8. ASSUME NEW now \in Int, NEW k \in Queues, r.status # "absent",
               \/ r2 = RecordDispatchSet(r, k, now)
               \/ RequeueWhere(r) /\ r2 = RequeueSet(r, k, now)
        PROVE  Good
    <2>1. /\ r2.dispatch_queue = k /\ r2.attempt_count = n /\ r2.next_retry_at = r.next_retry_at
          /\ r2.lease_expires_at = r.lease_expires_at
          /\ \/ r2.status = r.status
             \/ r2.status = "pending" /\ r.status = "failed" /\ r.next_retry_at # None
      BY <1>8 DEF RecordDispatchSet, RequeueWhere, RequeueSet, Row, RowDecided
    <2>2. k # None /\ (MaxAttempts[k] # None => 0 <= MaxAttempts[k]) /\ AllowsRetry(k, 0)
      BY <1>1, SameLimit
    <2>3. RowTries(r2)
      <3>1. CASE q = None
        <4>1. n = 0 BY <3>1 DEF RowInv
        <4>2. QED BY <2>1, <2>2, <4>1 DEF RowTries
      <3>2. CASE q # None
        <4>1. (AllowsRetry(q, n) <=> AllowsRetry(k, n)) /\ MaxAttempts[k] = MaxAttempts[q]
          BY <1>1, <3>2, SameLimit DEF SameLimits
        <4>2. QED BY <2>1, <3>2, <4>1 DEF RowTries, RowInv
      <3>3. QED BY <3>1, <3>2
    <2>4. QED BY <1>8, <2>1, <2>2, <2>3 DEF RowInv, RowOnward
  <1>9. ASSUME NEW now \in Int,
               \/ r.status = "pending" /\ r2 = ClaimExpiredMessageSet(r, now)
               \/ r.status = "running" /\ r2 = FinishSuccessSet(r, now)
        PROVE  Good
    BY <1>2, <1>9 DEF ClaimExpiredMessageSet, FinishSuccessSet, Row
  <1>10. ASSUME NEW now \in Int, NEW token \in Tokens, NEW limit \in Optional(Nat \ {0}), ClaimWhere(r),
                r2 = ClaimSet(r, token, limit, now)
         PROVE  Good
    <2>1. /\ r2.dispatch_queue = q /\ r2.attempt_count = n + 1 /\ r2.status = "running"
          /\ r2.lease_expires_at = LeaseSeconds(limit) /\ r.status = "pending"
      BY <1>10 DEF ClaimSet, ClaimWhere, Row
    <2>2. q # None /\ q \in Queues BY <1>1, <2>1
    <2>3. MaxAttempts[q] # None => n + 1 <= MaxAttempts[q]
      BY <1>1, <2>1, <2>2, SameLimit DEF RowInv, RowTries
    <2>4. StaleTimeout # None => LeaseSeconds(limit) # None
      BY ConstantsAssumption DEF LeaseSeconds, Optional
    <2>5. QED BY <2>1, <2>2, <2>3, <2>4 DEF RowInv, RowTries, RowOnward
  <1>11. ASSUME NEW now \in Int, NEW delay \in Optional(Nat), r.status = "running",
                r2 = FailureSet(r, delay, now)
         PROVE  Good
    <2>1. r2.dispatch_queue = q /\ r2.attempt_count = n /\ r2.status = "failed"
      BY <1>11 DEF FailureSet, Row
    <2>2. r2.next_retry_at # None => AllowsRetry(q, n) BY <1>11, <2>1 DEF RowCounts
    <2>3. QED BY <1>2, <1>11, <2>1, <2>2
  <1>12. ASSUME NEW now \in Int, NEW reason \in GiveUpReasons, CouldStillRun(r),
                r2 = GiveUpSet(r, reason, now)
         PROVE  Good
    BY <1>2, <1>12 DEF CouldStillRun, GiveUpSet, Row
  <1>13. ASSUME NEW now \in Int, IsStuck(r, now), r2 = ResetToPendingSet(r, now) PROVE Good
    <2>1. r.status = "pending" \/ (r.status = "failed" /\ r.next_retry_at # None)
      BY <1>13 DEF IsStuck, Before, RowInv
    <2>2. QED BY <1>2, <1>13, <2>1 DEF ResetToPendingSet, Row
  <1>14. ASSUME NEW now \in Int, NEW k \in Queues, r2 = RecordDispatchSet(r, k, now), r.status = "absent"
         PROVE  FALSE
    <2>1. r2.dispatch_queue = k /\ k # None BY <1>14, ConstantsAssumption DEF RecordDispatchSet, Row
    <2>2. r2.dispatch_queue = None BY <1>14 DEF RowInv, RowCounts
    <2>3. QED BY <2>1, <2>2
  <1>15. QED
    BY <1>3, <1>4, <1>5, <1>6, <1>7, <1>8, <1>9, <1>10, <1>11, <1>12, <1>13, <1>14
       DEF RowStep, RequeueWhere

RowsOnward == \A a \in Attempts : RowOnward(row[a], row'[a])

\* An expired lease has not just expired, and no try was counted on it.
RowSteady(r, r2) == FailExpiredLeaseWhere(r2) => FailExpiredLeaseWhere(r) /\ r2.attempt_count = r.attempt_count
RowsSteady == \A a \in Attempts : RowSteady(row[a], row'[a])

\* Tame rows are steady.
LEMMA TameSteady == ASSUME RowsTame, RowsStay PROVE RowsSteady
  BY DEF RowsTame, RowsStay, RowsSteady, RowTame, RowStays, RowSteady, FailExpiredLeaseWhere

\* The rows, if the step counts and claims only attempts with a queue
LEMMA RowsInvStep ==
    ASSUME SameLimits, TypeInv, Decided, RowsInv, [Next]_vars, RowsCount,
           \A a \in Attempts : row'[a].status = "running" /\ row[a].status # "running"
                                  => row[a].dispatch_queue # None
    PROVE  RowsInv' /\ RowsOnward
  <1> SUFFICES ASSUME NEW a \in Attempts PROVE RowInv(row'[a]) /\ RowOnward(row[a], row'[a])
    BY DEF RowsInv, RowsOnward
  <1>1. row[a] \in Row /\ RowStep(row[a], row'[a]) /\ RowDecided(row[a]) /\ RowInv(row[a])
    BY NextOK DEF StepOK, RowsStep, TypeInv, TypeOK, Decided, RowsInv
  <1>2. RowCounts(row[a], row'[a]) BY DEF RowsCount
  <1>3. QED BY <1>1, <1>2, RowInvStep

\* The processes that work on as they did
LEMMA ProcInvKept ==
    ASSUME TypeInv, TypeInv', RowsOnward, NEW p \in Procs, ProcInv(proc[p], row),
           ProcTame(proc[p], proc'[p]), ProcStays(proc[p], proc'[p]), ProcSeen(proc[p], proc'[p])
    PROVE  /\ ProcInv(proc'[p], row')
           /\ RowsSteady /\ SweepInv(proc[p], row) => SweepInv(proc'[p], row')
  <1> DEFINE c == proc[p]
             c2 == proc'[p]
  <1>1. /\ c.pc # "idle" => c.att \in Attempts
        /\ c2.pc # "idle" => c2.att \in Attempts
    BY DEF TypeInv, ProcOK
  <1> HIDE DEF c, c2
  <1>2. \A a \in Attempts : RowOnward(row[a], row'[a]) BY DEF RowsOnward
  <1>3. c2.pc \in {"claim", "claimed", "running", "recorded", "requeued", "read"} => SameWork(c, c2)
    BY DEF ProcTame, ProcStays, c, c2
  <1>4. c2.pc \in {"claim", "claimed", "running", "recorded", "requeued"} => row'[c2.att].dispatch_queue # None
    BY <1>1, <1>2, <1>3 DEF SameWork, ProcInv, RowOnward, c
  <1>5. c2.pc = "running" => c2.queue # None BY <1>3 DEF SameWork, ProcInv, c
  <1>6. c2.pc \notin {"idle", "submit"} => row'[c2.att].status # "absent"
    BY <1>1, <1>2 DEF ProcSeen, ProcInv, RowOnward, c, c2
  <1>7. ASSUME RowsSteady, SweepInv(c, row) PROVE SweepInv(c2, row')
    BY <1>1, <1>3, <1>7 DEF SweepInv, SameWork, RowsSteady, RowSteady
  <1>8. QED BY <1>4, <1>5, <1>6, <1>7 DEF ProcInv, c, c2

\* The messages that are still there
LEMMA MessagesKept == ASSUME TypeInv, MessagesInv, RowsOnward, BrokerTame PROVE MessagesInv'
  <1> SUFFICES ASSUME NEW m \in Tokens, broker'[m] # None
               PROVE  row'[broker'[m].att].dispatch_queue # None
    BY DEF MessagesInv
  <1>1. broker[m] # None /\ broker'[m].att = broker[m].att BY DEF BrokerTame
  <1>2. broker[m].att \in Attempts BY <1>1 DEF TypeInv, TypeOK, Optional, Message
  <1>3. QED BY <1>1, <1>2 DEF MessagesInv, RowsOnward, RowOnward

\* Quiet steps keep the invariant.
LEMMA QuietTries ==
    ASSUME SameLimits, TypeInv, TypeInv', Decided, TriesInv, [Next]_vars, RowsCount, QuietStep
    PROVE  TriesInv'
  <1>1. RowsInv' /\ RowsOnward
    BY RowsInvStep DEF TriesInv, QuietStep, CalmStep, RowsTame, RowTame
  <1>2. ProcsInv' BY <1>1, ProcInvKept
    DEF TriesInv, ProcsInv, QuietStep, CalmStep, ProcsTame, ProcsStay, ProcsSeen
  <1>3. RowsSteady BY TameSteady DEF QuietStep, CalmStep
  <1>4. \A s \in Sweepers : s \in Procs BY DEF Procs
  <1>5. SweepsInv' BY <1>1, <1>3, <1>4, ProcInvKept
    DEF TriesInv, ProcsInv, SweepsInv, QuietStep, CalmStep, ProcsTame, ProcsStay, ProcsSeen
  <1>6. MessagesInv' BY <1>1, MessagesKept DEF TriesInv, QuietStep, CalmStep
  <1>7. QED BY <1>1, <1>2, <1>5, <1>6 DEF TriesInv

\* One process moves; the others see to themselves.
LEMMA MovedTries ==
    ASSUME TypeInv, TypeInv', TriesInv, RowsOnward, RowsSteady, NEW p \in Procs, NEW c,
           proc' = [proc EXCEPT ![p] = c], ProcInv(c, row'), p \in Sweepers => SweepInv(c, row')
    PROVE  ProcsInv' /\ SweepsInv'
  <1>1. \A q \in Procs : proc'[q] = IF q = p THEN c ELSE proc[q] BY DEF TypeInv, TypeOK
  <1>2. ASSUME NEW q \in Procs, q # p
        PROVE  ProcTame(proc[q], proc'[q]) /\ ProcStays(proc[q], proc'[q]) /\ ProcSeen(proc[q], proc'[q])
    BY <1>1, <1>2 DEF ProcTame, ProcStays, ProcSeen, SameWork
  <1>3. ASSUME NEW q \in Procs PROVE ProcInv(proc'[q], row')
    <2>1. CASE q = p BY <1>1, <2>1
    <2>2. CASE q # p BY <1>2, <2>2, ProcInvKept DEF TriesInv, ProcsInv
    <2>3. QED BY <2>1, <2>2
  <1>4. ASSUME NEW q \in Sweepers PROVE SweepInv(proc'[q], row')
    <2>1. q \in Procs BY DEF Procs
    <2>2. CASE q = p BY <1>1, <2>1, <2>2
    <2>3. CASE q # p BY <1>2, <2>1, <2>3, ProcInvKept DEF TriesInv, ProcsInv, SweepsInv
    <2>4. QED BY <2>2, <2>3
  <1>5. QED BY <1>3, <1>4 DEF ProcsInv, SweepsInv

\* A failure computed from the tries of the row counts.
LEMMA FailureCounts ==
    ASSUME SameLimits, NEW r \in Row, r.status = "running", r.dispatch_queue \in Queues,
           NEW q \in Queues, NEW p \in Procs
    PROVE  RowCounts(r, FailureSet(r, RetryDelayOf(q, r.attempt_count), Skew[p]))
  <1> DEFINE n == r.attempt_count
             delay == RetryDelayOf(q, n)
             r2 == FailureSet(r, delay, Skew[p])
  <1>1. n \in Nat BY DEF Row
  <1>2. /\ r2.dispatch_queue = r.dispatch_queue /\ r2.attempt_count = n
        /\ r2.next_retry_at # None => delay # None /\ r2.next_retry_at = Skew[p] + delay
    BY DEF FailureSet, Row
  <1>3. delay # None => AllowsRetry(q, n) /\ delay = RetryDelay(q, n) BY DEF RetryDelayOf
  <1>4. AllowsRetry(q, n) <=> AllowsRetry(r.dispatch_queue, n) BY <1>1, SameLimit
  <1> HIDE DEF delay, r2
  <1>5. QED BY <1>2, <1>3, <1>4 DEF RowCounts, r2, delay

\* The outcome of a worker and of a sweep: the fence, and the lease that is still expired, make
\* the tries that were read those of the row.
LEMMA OutcomeTries ==
    ASSUME SameLimits, TypeInv, FenceIsExact, TriesInv, NEW p \in Procs,
           (p \in Workers /\ FinishFailure(p)) \/ (p \in Sweepers /\ FailExpiredLease(p))
    PROVE  RowsCount
  <1> DEFINE a == proc[p].att
             r == row[a]
             delay == RetryDelayOf(proc[p].queue, proc[p].tries)
  <1>1. a \in Attempts /\ r \in Row /\ proc[p] \in Proc
    BY ProcFacts DEF FinishFailure, FailExpiredLease, At
  <1>2. CASE UNCHANGED row BY <1>2, SameTame
  <1>3. CASE /\ Update(a, FailureSet(r, delay, Skew[p]))
             /\ \/ p \in Workers /\ At(p, "running") /\ FinishWhere(r, proc[p].token)
                \/ p \in Sweepers /\ At(p, "read") /\ FailExpiredLeaseWhere(r)
    <2>1. r.status = "running" BY <1>3 DEF FinishWhere, FailExpiredLeaseWhere
    <2>2. proc[p].tries = r.attempt_count /\ proc[p].queue # None
      BY <1>3 DEF FenceIsExact, TriesInv, ProcsInv, ProcInv, SweepsInv, SweepInv, At
    <2>3. proc[p].queue \in Queues BY <1>1, <2>2 DEF Proc, Optional
    <2>4. r.dispatch_queue \in Queues
      BY <1>1, <2>1 DEF TriesInv, RowsInv, RowInv, Row, Optional
    <2>5. RowCounts(r, FailureSet(r, delay, Skew[p]))
      BY <1>1, <2>1, <2>2, <2>3, <2>4, FailureCounts
    <2> HIDE DEF delay
    <2>6. RowTame(r, FailureSet(r, delay, Skew[p])) /\ RowStays(r, FailureSet(r, delay, Skew[p]))
      BY <1>1, <2>1, FailureTame
    <2> HIDE DEF r
    <2>7. QED BY <1>1, <1>3, <2>5, <2>6, UpdateTame DEF r
  <1>4. QED BY <1>2, <1>3 DEF FinishFailure, FailExpiredLease

\* The stamps of record_dispatch() and requeue_for_retry(): the row has a queue from now on.
LEMMA RecordTries ==
    ASSUME SameLimits, TypeInv, TypeInv', Decided, TriesInv, [Next]_vars, NEW p \in Procs,
           RecordDispatch(p) \/ RequeueForRetry(p)
    PROVE  TriesInv'
  <1> DEFINE a == proc[p].att
             q == proc[p].queue
  <1>1. /\ a \in Attempts /\ row[a] \in Row /\ proc[p] \in Proc /\ q \in Queues /\ q # None
        /\ proc \in [Procs -> Proc] /\ row \in [Attempts -> Row]
        /\ proc[p].pc \in {"agreed", "refreshed"} /\ row[a].status # "absent"
    BY ProcFacts, ConstantsAssumption
       DEF RecordDispatch, RequeueForRetry, At, ProcOK, SubmitPCs, TypeInv, TypeOK, TriesInv, ProcsInv, ProcInv
  <1>2. CASE Done(p) /\ UNCHANGED <<row, broker>>
    BY <1>2, QuietTries, DoneTame, SameTame, SameBroker DEF QuietStep, CalmStep
  <1>3. ASSUME NEW r2, NEW pc \in {"recorded", "requeued"}, Update(a, r2), Goto(p, pc), UNCHANGED broker,
               RowTame(row[a], r2), RowStays(row[a], r2), RowCounts(row[a], r2),
               r2.dispatch_queue = q
        PROVE  TriesInv'
    <2> DEFINE c == [proc[p] EXCEPT !.pc = pc]
    <2>1. RowsTame /\ RowsStay /\ RowsCount BY <1>1, <1>3, UpdateTame
    <2>2. RowsInv' /\ RowsOnward BY <2>1, RowsInvStep DEF RowsTame, RowTame, TriesInv
    <2>3. RowsSteady BY <2>1, TameSteady
    <2>4. proc' = [proc EXCEPT ![p] = c] BY <1>1, <1>3 DEF Goto
    <2>5. c.pc = pc /\ c.att = a BY <1>1 DEF Proc
    <2>6. row'[a] = r2 BY <1>1, <1>3 DEF Update
    <2>7. row'[a].status # "absent" BY <1>1, <2>2 DEF RowsOnward, RowOnward
    <2> HIDE DEF c
    <2>8. ProcInv(c, row') /\ SweepInv(c, row') BY <1>1, <1>3, <2>5, <2>6, <2>7 DEF ProcInv, SweepInv
    <2>9. ProcsInv' /\ SweepsInv' BY <2>2, <2>3, <2>4, <2>8, MovedTries
    <2>10. MessagesInv' BY <1>3, <2>2, MessagesKept, SameBroker DEF TriesInv
    <2>11. QED BY <2>2, <2>9, <2>10 DEF TriesInv
  <1>4. CASE RecordDispatch(p)
    <2> DEFINE r2 == RecordDispatchSet(row[a], q, Skew[p])
    <2>1. RowTame(row[a], r2) /\ RowStays(row[a], r2) /\ RowCounts(row[a], r2) BY <1>1, RecordTame
    <2>2. r2.dispatch_queue = q BY <1>1 DEF RecordDispatchSet, Row
    <2> HIDE DEF r2
    <2>3. Update(a, r2) /\ Goto(p, "recorded") /\ UNCHANGED broker BY <1>4 DEF RecordDispatch, r2
    <2>4. QED BY <1>3, <2>1, <2>2, <2>3
  <1>5. CASE RequeueForRetry(p) /\ RequeueWhere(row[a])
    <2> DEFINE r2 == RequeueSet(row[a], q, Skew[p])
    <2>1. RowTame(row[a], r2) /\ RowStays(row[a], r2) /\ RowCounts(row[a], r2) BY <1>1, <1>5, TameSets
    <2>2. r2.dispatch_queue = q BY <1>1 DEF RequeueSet, Row
    <2> HIDE DEF r2
    <2>3. Update(a, r2) /\ Goto(p, "requeued") /\ UNCHANGED broker BY <1>5 DEF RequeueForRetry, r2
    <2>4. QED BY <1>3, <2>1, <2>2, <2>3
  <1>6. QED BY <1>2, <1>4, <1>5 DEF RequeueForRetry

\* The read of a sweep, and of a worker after its claim: the count as it is
LEMMA ReadTries ==
    ASSUME SameLimits, TypeInv, TypeInv', Decided, TriesInv, [Next]_vars, NEW p \in Procs,
           ReadExpiredLease(p) \/ LoadClaim(p)
    PROVE  TriesInv'
  <1> DEFINE a == proc[p].att
             pc == IF ReadExpiredLease(p) THEN "read" ELSE "running"
             c == [proc[p] EXCEPT !.pc = pc, !.tries = row[a].attempt_count, !.queue = row[a].dispatch_queue]
  <1>1. /\ a \in Attempts /\ row[a] \in Row /\ proc[p] \in Proc /\ proc \in [Procs -> Proc]
        /\ UNCHANGED <<row, broker>> /\ proc[p].pc \in {"listed", "claimed"}
        /\ LoadClaim(p) => proc[p].pc = "claimed"
    BY ProcFacts DEF ReadExpiredLease, LoadClaim, At, TypeInv, TypeOK
  <1>2. proc' = [proc EXCEPT ![p] = c] BY <1>1 DEF ReadExpiredLease, LoadClaim
  <1>3. /\ c.pc = pc /\ c.att = a /\ c.tries = row[a].attempt_count /\ c.queue = row[a].dispatch_queue
    BY <1>1 DEF Proc
  <1>4. pc \in {"read", "running"} /\ (pc = "running" => LoadClaim(p)) OBVIOUS
  <1> HIDE DEF c, pc
  <1>5. RowsInv' /\ RowsOnward /\ RowsSteady
    BY <1>1, SameTame, RowsInvStep, TameSteady DEF TriesInv
  <1>6. ProcInv(c, row')
    BY <1>1, <1>3, <1>4 DEF ProcInv, TriesInv, ProcsInv
  <1>7. SweepInv(c, row')
    BY <1>1, <1>3 DEF SweepInv, TriesInv, RowsInv, RowInv, FailExpiredLeaseWhere
  <1>8. ProcsInv' /\ SweepsInv' BY <1>2, <1>5, <1>6, <1>7, MovedTries
  <1>9. MessagesInv' BY <1>1, <1>5, MessagesKept, SameBroker DEF TriesInv
  <1>10. QED BY <1>5, <1>8, <1>9 DEF TriesInv

\* The send and the delivery: the message is one of an attempt with a recorded queue.
LEMMA MessageTries ==
    ASSUME SameLimits, TypeInv, TypeInv', Decided, TriesInv, [Next]_vars, NEW p \in Procs,
           Send(p) \/ \E m \in Tokens : Receive(p, m)
    PROVE  TriesInv'
  <1>1. UNCHANGED row /\ broker \in [Tokens -> Optional(Message)] /\ proc \in [Procs -> Proc]
    BY DEF Send, Receive, TypeInv, TypeOK
  <1>2. RowsInv' /\ RowsOnward /\ RowsSteady
    BY <1>1, SameTame, RowsInvStep, TameSteady DEF TriesInv
  <1>3. CASE Send(p)
    <2>1. Done(p) BY <1>3 DEF Send
    <2>2. ProcInv(IdleProc, row') /\ SweepInv(IdleProc, row') BY DEF IdleProc, ProcInv, SweepInv
    <2>3. ProcsInv' /\ SweepsInv' BY <1>2, <2>1, <2>2, MovedTries DEF Done
    <2>4. row[proc[p].att].dispatch_queue # None
      BY <1>3 DEF Send, TriesInv, ProcsInv, ProcInv
    <2>5. PICK m \in Tokens : \E b : broker' = [broker EXCEPT ![m] = b] /\ b.att = proc[p].att
      BY <1>3 DEF Send, FreshIds
    <2>6. MessagesInv' BY <1>1, <2>4, <2>5 DEF TriesInv, MessagesInv
    <2>7. QED BY <1>2, <2>3, <2>6 DEF TriesInv
  <1>4. ASSUME NEW m \in Tokens, Receive(p, m) PROVE TriesInv'
    <2> DEFINE c == [IdleProc EXCEPT !.pc = "claim", !.att = broker[m].att, !.token = m,
                                     !.left = HardLimit[broker[m].queue], !.queue = broker[m].queue]
    <2>1. BrokerTame BY <1>1, <1>4 DEF Receive, BrokerTame
    <2>2. MessagesInv' BY <1>2, <2>1, MessagesKept DEF TriesInv
    <2>3. CASE UNCHANGED proc
      BY <1>1, <1>2, <2>2, <2>3 DEF TriesInv, ProcsInv, SweepsInv
    <2>4. CASE proc' = [proc EXCEPT ![p] = c] /\ row[broker[m].att].status = "pending"
      <3>1. c.pc = "claim" /\ c.att = broker[m].att BY DEF IdleProc
      <3> HIDE DEF c
      <3>2. row[broker[m].att].dispatch_queue # None BY <1>4 DEF Receive, TriesInv, MessagesInv
      <3>3. ProcInv(c, row') /\ SweepInv(c, row') BY <1>1, <2>4, <3>1, <3>2 DEF ProcInv, SweepInv
      <3>4. QED BY <1>2, <2>2, <2>4, <3>3, MovedTries DEF TriesInv
    <2>5. QED BY <1>4, <2>3, <2>4 DEF Receive
  <1>5. QED BY <1>3, <1>4

\* The claim: a try is counted on an attempt with a queue, under a lease that has not expired.
LEMMA ClaimTries ==
    ASSUME SameLimits, TypeInv, TypeInv', Decided, TriesInv, [Next]_vars, NEW p \in Workers, Claim(p),
           ClaimWhere(row[proc[p].att])
    PROVE  TriesInv'
  <1> DEFINE a == proc[p].att
             limit == HardLimit[proc[p].queue]
             r2 == ClaimSet(row[a], proc[p].token, limit, Skew[p])
             c == [proc[p] EXCEPT !.pc = "claimed"]
  <1>1. /\ p \in Procs /\ a \in Attempts /\ row[a] \in Row /\ proc[p] \in Proc
        /\ proc \in [Procs -> Proc] /\ row \in [Attempts -> Row] /\ proc[p].pc = "claim"
        /\ proc[p].queue \in Queues /\ row[a].status = "pending" /\ UNCHANGED broker
    BY ProcFacts DEF Claim, At, TypeInv, TypeOK, Procs, ProcOK, ClaimWhere
  <1>2. row' = [row EXCEPT ![a] = r2] /\ proc' = [proc EXCEPT ![p] = c]
    BY <1>1 DEF Claim, Update, Goto
  <1>3. c.pc = "claimed" /\ c.att = a BY <1>1 DEF Proc
  <1>4. r2.status = "running" /\ r2.lease_expires_at = LeaseSeconds(limit) BY <1>1 DEF ClaimSet, Row
  <1>5. ~FailExpiredLeaseWhere(r2)
    <2>1. limit \in Optional(Nat) BY <1>1, ConstantsAssumption DEF Optional
    <2> HIDE DEF limit
    <2>2. LeaseSeconds(limit) # None => LeaseSeconds(limit) >= 0 /\ LeaseSeconds(limit) \in Nat
      BY <2>1, ConstantsAssumption DEF LeaseSeconds, Optional
    <2>3. QED BY <1>4, <2>2 DEF FailExpiredLeaseWhere, Before
  <1>6. row[a].dispatch_queue # None BY <1>1 DEF TriesInv, ProcsInv, ProcInv
  <1> HIDE DEF r2, c, limit
  <1>7. \A b \in Attempts : row'[b] = IF b = a THEN r2 ELSE row[b] BY <1>1, <1>2
  <1>8. RowsSteady BY <1>5, <1>7 DEF RowsSteady, RowSteady
  <1>9. RowsCount BY <1>1, <1>4, <1>7 DEF RowsCount, RowCounts
  <1>10. RowsInv' /\ RowsOnward BY <1>6, <1>7, <1>9, RowsInvStep DEF TriesInv
  <1>11. row'[a].dispatch_queue # None /\ row'[a].status # "absent"
    BY <1>1, <1>6, <1>10 DEF RowsOnward, RowOnward
  <1>12. ProcInv(c, row') /\ SweepInv(c, row') BY <1>3, <1>11 DEF ProcInv, SweepInv
  <1>13. ProcsInv' /\ SweepsInv' BY <1>1, <1>2, <1>8, <1>10, <1>12, MovedTries
  <1>14. MessagesInv' BY <1>1, <1>10, MessagesKept, SameBroker DEF TriesInv
  <1>15. QED BY <1>10, <1>13, <1>14 DEF TriesInv

\* The passing of time: no sweep is between its read and its UPDATE.
LEMMA TickTries ==
    ASSUME SameLimits, Sweepers \cap MayStall = {}, TypeInv, TypeInv', Decided, TriesInv, Tick, [Next]_vars
    PROVE  TriesInv'
  <1>1. CalmStep /\ ProcsStay /\ ProcsSeen /\ RowsCount BY TickTame
  <1>2. RowsInv' /\ RowsOnward BY <1>1, RowsInvStep DEF TriesInv, CalmStep, RowsTame, RowTame
  <1>3. ProcsInv' BY <1>1, <1>2, ProcInvKept
    DEF TriesInv, ProcsInv, CalmStep, ProcsTame, ProcsStay, ProcsSeen
  <1>4. SweepsInv'
    <2> SUFFICES ASSUME NEW s \in Sweepers PROVE proc'[s].pc # "read"
      BY DEF SweepsInv, SweepInv
    <2>1. s \in Procs /\ s \notin MayStall BY DEF Procs
    <2>2. proc[s].pc \in {"idle", "running"} BY <2>1 DEF Tick
    <2>3. ProcStays(proc[s], proc'[s]) BY <1>1, <2>1 DEF ProcsStay
    <2>4. QED BY <2>2, <2>3 DEF ProcStays, SameWork
  <1>5. MessagesInv' BY <1>1, <1>2, MessagesKept DEF TriesInv, CalmStep
  <1>6. QED BY <1>2, <1>3, <1>4, <1>5 DEF TriesInv

\* The inductive step of TriesInv
LEMMA TriesStep ==
    ASSUME SameLimits, Sweepers \cap MayStall = {}, ~Redelivers \/ KilledBeforeTakeover
    PROVE  TypeInv /\ FenceInv /\ Decided /\ TriesInv /\ [Next]_vars => TriesInv'
  <1> SUFFICES ASSUME TypeInv, FenceInv, Decided, TriesInv, [Next]_vars PROVE TriesInv'
    OBVIOUS
  <1>1. TypeInv' /\ FenceIsExact BY TypeInvStep, FenceExact
  <1>2. ASSUME QuietStep, RowsCount PROVE TriesInv' BY <1>1, <1>2, QuietTries
  <1>3. ASSUME NEW p \in Procs, ExecuteStep(p) PROVE TriesInv'
    <2>1. CASE Send(p) BY <1>1, <2>1, MessageTries
    <2>2. CASE RecordDispatch(p) BY <1>1, <2>2, RecordTries
    <2>3. CASE ~Send(p) /\ ~RecordDispatch(p) BY <1>2, <1>3, <2>3, ExecuteTame DEF QuietStep
    <2>4. QED BY <2>1, <2>2, <2>3
  <1>4. ASSUME NEW p \in Procs, RetryStep(p) PROVE TriesInv'
    <2>1. CASE RequeueForRetry(p) BY <1>1, <2>1, RecordTries
    <2>2. CASE ~RequeueForRetry(p) BY <1>2, <1>4, <2>2, RetryTame DEF QuietStep
    <2>3. QED BY <2>1, <2>2
  <1>5. Workers \subseteq Procs /\ Sweepers \subseteq Procs /\ Submitters \subseteq Procs BY DEF Procs
  <1>6. ASSUME NEW w \in Workers, WorkerStep(w) PROVE TriesInv'
    <2>1. CASE Claim(w) /\ ClaimWhere(row[proc[w].att]) BY <1>1, <2>1, ClaimTries
    <2>2. CASE Claim(w) /\ ~ClaimWhere(row[proc[w].att])
      <3>1. /\ Goto(w, "refused") /\ UNCHANGED row /\ UNCHANGED broker /\ w \in Procs
            /\ proc[w].pc \notin {"idle", "submit"}
        BY <2>2 DEF Claim, Procs, At
      <3>2. QuietStep /\ RowsCount BY <3>1, GotoTame, SameTame, SameBroker DEF QuietStep, CalmStep
      <3>3. QED BY <1>2, <3>2
    <2>3. CASE LoadClaim(w) BY <1>1, <1>5, <2>3, ReadTries
    <2>4. CASE GiveUpRefused(w) \/ FinishSuccess(w) \/ FinishFailure(w) \/ HardKill(w)
      BY <1>1, <1>2, <1>5, <2>4, WorkerTame, OutcomeTries
    <2>5. QED BY <1>6, <2>1, <2>2, <2>3, <2>4 DEF WorkerStep
  <1>7. ASSUME NEW s \in Sweepers, SweepStart(s) \/ SweepStep(s) PROVE TriesInv'
    <2>1. CASE ReadExpiredLease(s) BY <1>1, <1>5, <2>1, ReadTries
    <2>2. CASE ~ReadExpiredLease(s)
      BY <1>1, <1>2, <1>5, <1>7, <2>2, SweepTame, OutcomeTries DEF QuietStep
    <2>3. QED BY <2>1, <2>2
  <1>8. ASSUME NEW p \in Submitters, NEW a \in Attempts, NEW q \in Queues, Submit(p, a, q)
        PROVE  TriesInv'
    <2>1. UNCHANGED row /\ UNCHANGED broker BY <1>8 DEF Submit
    <2>2. QuietStep /\ RowsCount
      <3>1. CalmStep /\ RowsStay /\ ProcsSeen BY <1>5, <1>8, SweepTame
      <3>2. RowsCount BY <2>1, SameTame
      <3>3. ~ReadExpiredLease(p) BY <1>8 DEF Submit, ReadExpiredLease, At
      <3>4. ProcsStay BY <1>5, <1>8, <3>3, SweepTame
      <3>5. QED BY <3>1, <3>2, <3>4 DEF QuietStep
    <2>3. QED BY <1>2, <2>2
  <1>9. ASSUME NEW w \in Workers, NEW m \in Tokens, Receive(w, m) PROVE TriesInv'
    BY <1>1, <1>5, <1>9, MessageTries
  <1>10. CASE Tick BY <1>1, <1>10, TickTries
  <1>11. CASE \/ \E p \in Procs : Crash(p)
              \/ \E a \in Attempts : GiveUpByHand(a)
              \/ \E m \in Tokens : LoseMessage(m) \/ DropExpired(m)
              \/ UNCHANGED vars
    BY <1>2, <1>11, EnvironmentTame
  <1>12. QED BY <1>3, <1>4, <1>6, <1>7, <1>8, <1>9, <1>10, <1>11 DEF Next

\* Nothing is tried at first.
LEMMA TriesInit == Init => TriesInv
  <1> SUFFICES ASSUME Init PROVE TriesInv
    OBVIOUS
  <1>1. RowInv(AbsentRow) BY DEF AbsentRow, RowInv, RowTries
  <1>2. \A f : ProcInv(IdleProc, f) /\ SweepInv(IdleProc, f) BY DEF IdleProc, ProcInv, SweepInv
  <1>3. QED BY <1>1, <1>2 DEF Init, TriesInv, RowsInv, ProcsInv, SweepsInv, MessagesInv, Procs

\* queue_attempts._stuck_filter() relies on it: an attempt under a queue policy stays pending, or
\* failed with a retry time, only while the policy allows another try, and no attempt is tried
\* more than max_attempts times, whatever is swept, taken over, lost, crashed or sent twice.  It
\* takes the fence (messages delivered once, or workers killed in time), sweeps that are not
\* stalled between their read and their UPDATE, and one limit for all queues.
THEOREM TriesAreLimited ==
    ASSUME SameLimits, Sweepers \cap MayStall = {}, ~Redelivers \/ KilledBeforeTakeover
    PROVE  Spec => []TriesLeft
  <1>1. TriesInv => TriesLeft BY DEF TriesInv, RowsInv, RowInv, RowTries, TriesLeft
  <1>2. TypeInv /\ FenceInv /\ Decided /\ TriesInv /\ [Next]_vars => TriesInv' BY TriesStep
  <1>3. QED
    BY <1>1, <1>2, TypeInvInit, TypeInvStep, LeaseInit, LeaseInvStep, FenceInit, FenceStep,
       DecidedInductive, TriesInit, PTL DEF Spec

-----------------------------------------------------------------------------
(* What has expired is gone *)

\* The queues differ in no policy that decides when a message is sent again.
SamePolicies ==
    \A q1, q2 \in Queues : /\ MaxAttempts[q1] = MaxAttempts[q2]
                           /\ RetryDelays[q1] = RetryDelays[q2]
                           /\ MessageTtl[q1] = MessageTtl[q2]

Ttl == MessageTtl[DefaultQueue]
DelayAfter(tries) == RetryDelay(DefaultQueue, tries)

\* Every clock is between low and high, the retry time a failure chooses is at most slip before
\* one that an earlier failure has chosen, and the margin covers both.
MarginCovers(low, high, slip) ==
    /\ \A p \in Procs : low <= Skew[p] /\ Skew[p] <= high
    /\ \A tries \in Nat : \A n \in 1..(tries - 1) :
           AllowsRetry(DefaultQueue, tries) => high + DelayAfter(n) <= low + DelayAfter(tries) + slip
    /\ high - low + slip <= Margin

MarginIsEnough == \E low, high \in Int, slip \in Nat : MarginCovers(low, high, slip)

\* The values MarginIsEnough speaks of
Bounds == CHOOSE b \in [low: Int, high: Int, slip: Nat] : MarginCovers(b.low, b.high, b.slip)
Low == Bounds.low
High == Bounds.high
Slip == Bounds.slip

\* With delays that never decrease, a margin of twice the difference between the clocks is
\* enough.
LEMMA TwiceIsEnough ==
    ASSUME NEW low \in Int, NEW high \in Int, low <= high, 2 * (high - low) <= Margin,
           \A p \in Procs : low <= Skew[p] /\ Skew[p] <= high,
           \A n, k \in Nat : n <= k => DelayAfter(n) <= DelayAfter(k)
    PROVE  MarginIsEnough
  <1> DEFINE slip == high - low
  <1>1. slip \in Nat /\ high - low + slip <= Margin BY ConstantsAssumption
  <1>2. \A n \in Nat : DelayAfter(n) \in Nat
    BY ConstantsAssumption DEF DelayAfter, RetryDelay, Optional
  <1>3. ASSUME NEW k \in Nat, NEW n \in 1..(k - 1) PROVE high + DelayAfter(n) <= low + DelayAfter(k) + slip
    <2>1. n \in Nat /\ n <= k OBVIOUS
    <2>2. DelayAfter(n) <= DelayAfter(k) BY <2>1
    <2>3. DelayAfter(n) \in Nat /\ DelayAfter(k) \in Nat BY <1>2, <2>1
    <2>4. QED BY <2>2, <2>3
  <1>4. MarginCovers(low, high, slip) BY <1>1, <1>3 DEF MarginCovers
  <1> HIDE DEF slip
  <1>5. QED BY <1>1, <1>4 DEF MarginIsEnough

\* The attempt will not be sent again.
Closed(r) == r.status = "success" \/ r.give_up_reason # None

\* The retry time x was chosen by a failure of row r, if not by the latest one then for an
\* earlier try: the latest chose none much before it.
Chosen(x, r) ==
    \/ Closed(r)
    \/ /\ r.next_retry_at # None
       /\ x <= r.next_retry_at + Slip
       /\ \E n \in 1..r.attempt_count :
              /\ x <= High + DelayAfter(n)
              /\ r.status = "running" => n < r.attempt_count

\* A message of row r with this expiry was sent no later than its stamp, or with the ETA of a
\* retry; or it has expired beyond doubt.
ExpiryOK(expires, r) ==
    \/ expires <= -Horizon
    \/ r.dispatched_at # None /\ expires <= r.dispatched_at + High + Ttl
    \/ Chosen(expires - Ttl, r)

RowTimes(r) ==
    /\ r.next_retry_at # None => Chosen(r.next_retry_at, r)
    /\ r.dispatched_at # None => r.dispatched_at <= 0
    /\ r.status = "absent" => r.next_retry_at = None /\ r.dispatched_at = None
    /\ r.status = "running" => r.attempt_count >= 1

\* Where a process holds the retry time it will send
EtaPCs == {"reopen", "opened", "dated", "agreed", "recorded", "refreshed", "requeued"}

ProcTimes(c, f) ==
    /\ c.pc \in EtaPCs /\ c.eta # None => Chosen(c.eta, f[c.att])
    /\ c.pc \in {"recorded", "requeued"} => f[c.att].dispatched_at = 0

MessageTimes(b, f) == Ttl # None => b.expires # None /\ ExpiryOK(b.expires, f[b.att])

RowsTimes == \A a \in Attempts : RowTimes(row[a])
ProcsTimes == \A p \in Procs : ProcTimes(proc[p], row)
MessagesTimes == \A m \in Tokens : broker[m] # None => MessageTimes(broker[m], row)
ExpiryInv == RowsTimes /\ ProcsTimes /\ MessagesTimes

\* The arithmetic of the constants
LEMMA BoundFacts ==
    ASSUME MarginIsEnough, SamePolicies
    PROVE  /\ Low \in Int /\ High \in Int /\ Slip \in Nat /\ MarginCovers(Low, High, Slip)
           /\ SameLimits /\ DefaultQueue \in Queues
           /\ Ttl # None => Ttl \in Nat
           /\ \A n \in Nat : DelayAfter(n) \in Nat
           /\ \A q \in Queues : /\ MessageTtl[q] = Ttl
                                /\ \A n \in Nat : /\ RetryDelay(q, n) = DelayAfter(n)
                                                  /\ AllowsRetry(q, n) <=> AllowsRetry(DefaultQueue, n)
  <1>1. Bounds \in [low: Int, high: Int, slip: Nat] /\ MarginCovers(Bounds.low, Bounds.high, Bounds.slip)
    <2>1. PICK low \in Int, high \in Int, slip \in Nat : MarginCovers(low, high, slip)
      BY DEF MarginIsEnough
    <2> DEFINE b == [low |-> low, high |-> high, slip |-> slip]
    <2>2. b \in [low: Int, high: Int, slip: Nat] /\ MarginCovers(b.low, b.high, b.slip) BY <2>1
    <2> HIDE DEF b
    <2>3. QED BY <2>2 DEF Bounds
  <1>2. Low \in Int /\ High \in Int /\ Slip \in Nat /\ MarginCovers(Low, High, Slip)
    BY <1>1 DEF Low, High, Slip
  <1>3. SameLimits /\ DefaultQueue \in Queues BY ConstantsAssumption DEF SamePolicies, SameLimits
  <1>4. Ttl # None => Ttl \in Nat BY <1>3, ConstantsAssumption DEF Ttl, Optional
  <1>5. \A n \in Nat : DelayAfter(n) \in Nat
    BY <1>3, ConstantsAssumption DEF DelayAfter, RetryDelay, Optional
  <1>6. ASSUME NEW q \in Queues
        PROVE  /\ MessageTtl[q] = Ttl
               /\ \A n \in Nat : /\ RetryDelay(q, n) = DelayAfter(n)
                                 /\ AllowsRetry(q, n) <=> AllowsRetry(DefaultQueue, n)
    <2>1. MessageTtl[q] = Ttl /\ RetryDelays[q] = RetryDelays[DefaultQueue]
      BY <1>3 DEF SamePolicies, Ttl
    <2>2. QED BY <1>3, <2>1, SameLimit DEF RetryDelay, DelayAfter
  <1>7. QED BY <1>2, <1>3, <1>4, <1>5, <1>6

\* What the invariant is for
LEMMA ExpiryEnough ==
    ASSUME MarginIsEnough, SamePolicies, TypeInv, Decided, ExpiryInv
    PROVE  ExpiredMessageIsGone
  <1> SUFFICES ASSUME NEW a \in Attempts, NEW s \in Sweepers, NEW w \in Workers, NEW m \in Tokens,
                      ExpiredMessage(row[a], Skew[s]), broker[m] # None, broker[m].att = a
               PROVE  Before(broker[m].expires, Skew[w])
    BY DEF ExpiredMessageIsGone
  <1> DEFINE r == row[a]
             e == broker[m].expires
  <1>1. r \in Row /\ broker[m] \in Message /\ e \in Instant
    BY DEF TypeInv, TypeOK, Optional, Message
  <1>2. r.status = "pending" /\ r.dispatch_queue \in Queues /\ Ttl # None /\ Ttl \in Nat
    BY <1>1, BoundFacts DEF ExpiredMessage, Row, Optional
  <1>3. /\ r.dispatched_at # None /\ r.dispatched_at < -(Ttl + Margin)
        /\ r.next_retry_at # None => r.next_retry_at < Skew[s] - (Ttl + Margin)
    BY <1>2, BoundFacts DEF ExpiredMessage, Before, NullOrBefore
  <1>4. /\ Low <= Skew[w] /\ Skew[s] <= High /\ Skew[w] \in Int /\ Skew[s] \in Int /\ -Horizon < Skew[w]
        /\ Low \in Int /\ High \in Int /\ Slip \in Nat /\ High - Low + Slip <= Margin
        /\ Horizon \in Int /\ Margin \in Int
    BY BoundFacts, ProcessAssumption, HorizonAssumption, ConstantsAssumption DEF MarginCovers, Procs
  <1>5. ~Closed(r) BY <1>2, <1>1 DEF Closed, Decided, RowDecided
  <1>6. MessageTimes(broker[m], row) BY DEF ExpiryInv, MessagesTimes
  <1> HIDE DEF r
  <1>7. e # None /\ ExpiryOK(e, r) BY <1>2, <1>6 DEF MessageTimes, r
  <1>8. e \in Int BY <1>1, <1>7 DEF Instant, Optional
  <1> HIDE DEF e
  <1>10. r.dispatched_at \in Int /\ (r.next_retry_at # None => r.next_retry_at \in Int)
    BY <1>1, <1>3 DEF Row, Instant, Optional
  <1>11. e < Skew[w]
    <2>1. CASE e <= -Horizon BY <1>4, <1>8, <2>1
    <2>2. CASE e <= r.dispatched_at + High + Ttl BY <1>2, <1>3, <1>4, <1>8, <1>10, <2>2
    <2>3. CASE Chosen(e - Ttl, r)
      <3>1. r.next_retry_at # None /\ e - Ttl <= r.next_retry_at + Slip
        BY <1>5, <2>3 DEF Chosen
      <3>2. QED BY <1>2, <1>3, <1>4, <1>8, <1>10, <3>1
    <2>4. QED BY <1>7, <2>1, <2>2, <2>3 DEF ExpiryOK
  <1>12. QED BY <1>7, <1>11 DEF Before, e

-----------------------------------------------------------------------------
(* Rows *)

\* Nothing that was chosen or stamped before gets less true.
RowKeeps(r, r2) ==
    /\ RowTimes(r2)
    /\ \A x \in Int : Chosen(x, r) => Chosen(x, r2)
    /\ r.dispatched_at # None => r2.dispatched_at # None /\ r2.dispatched_at >= r.dispatched_at

RowsTimeless == \A a \in Attempts : RowTimeless(row[a], row'[a])
RowsKeep == \A a \in Attempts : RowKeeps(row[a], row'[a])

\* A failure chooses the retry time by the delay after its try, and no time chosen before is
\* later than that by more than slip.
LEMMA FailureKeeps ==
    ASSUME MarginIsEnough, SamePolicies, NEW r \in Row, NEW now \in Int, NEW delay \in Optional(Nat),
           r.status = "running", RowDecided(r), RowTimes(r), r.dispatch_queue \in Queues,
           RowCounts(r, FailureSet(r, delay, now))
    PROVE  RowKeeps(r, FailureSet(r, delay, now))
  <1> DEFINE r2 == FailureSet(r, delay, now)
             k == r.attempt_count
             t == r2.next_retry_at
  <1>1. /\ r2 \in Row /\ r2.status = "failed" /\ r2.attempt_count = k /\ k \in Nat /\ k >= 1
        /\ r2.dispatched_at = r.dispatched_at /\ r2.dispatch_queue = r.dispatch_queue
        /\ t \in Instant
        /\ t = None => r2.give_up_reason # None
    <2>1. r2 \in Row BY SetTypes
    <2>2. None # "attempts" /\ None # "block_age" BY ConstantsAssumption
    <2>3. delay # None => now + delay # None BY ConstantsAssumption DEF Optional
    <2>4. QED BY <2>1, <2>2, <2>3 DEF FailureSet, Row, RowTimes
  <1> HIDE DEF r2
  <1>2. CASE t = None
    <2>1. Closed(r2) BY <1>1, <1>2 DEF Closed
    <2>2. \A x \in Int : Chosen(x, r2) BY <2>1 DEF Chosen
    <2>3. r2.dispatched_at # None => r2.dispatched_at \in Int /\ r2.dispatched_at <= 0
      BY <1>1 DEF RowTimes, Row, Instant, Optional
    <2>4. QED BY <1>1, <1>2, <2>2, <2>3 DEF RowKeeps, RowTimes, r2
  <1>3. CASE t # None
    <2>1. t \in Int BY <1>1, <1>3 DEF Instant, Optional
    <2>2. AllowsRetry(DefaultQueue, k) BY <1>1, <1>3, BoundFacts DEF RowCounts, r2
    <2>3. PICK p \in Procs : t = Skew[p] + DelayAfter(k)
      BY <1>1, <1>3, BoundFacts DEF RowCounts, r2
    <2>4. /\ Low <= Skew[p] /\ Skew[p] <= High /\ Skew[p] \in Int /\ DelayAfter(k) \in Nat
          /\ Low \in Int /\ High \in Int /\ Slip \in Nat
      BY <1>1, BoundFacts, ProcessAssumption DEF MarginCovers
    <2>5. ASSUME NEW n \in 1..(k - 1) PROVE DelayAfter(n) \in Nat /\ High + DelayAfter(n) <= t + Slip
      <3>1. n \in Nat /\ DelayAfter(n) \in Nat BY <1>1, <2>5, BoundFacts
      <3>2. High + DelayAfter(n) <= Low + DelayAfter(k) + Slip
        BY <1>1, <2>2, <2>5, BoundFacts DEF MarginCovers
      <3>3. QED BY <2>1, <2>3, <2>4, <3>1, <3>2
    <2>6. ASSUME NEW x \in Int, x <= t + Slip, NEW n \in 1..k, x <= High + DelayAfter(n)
          PROVE  Chosen(x, r2)
      BY <1>1, <1>3, <2>6 DEF Chosen
    <2>7. Chosen(t, r2)
      <3>1. k \in 1..k /\ t <= High + DelayAfter(k) /\ t <= t + Slip BY <1>1, <2>1, <2>3, <2>4
      <3>2. QED BY <2>1, <2>6, <3>1
    <2>8. ASSUME NEW x \in Int, Chosen(x, r) PROVE Chosen(x, r2)
      <3>1. ~Closed(r) BY DEF Closed, RowDecided
      <3>2. PICK n \in 1..k : x <= High + DelayAfter(n) /\ n < k BY <2>8, <3>1 DEF Chosen
      <3>3. n \in 1..(k - 1) BY <1>1, <3>2
      <3>4. x <= t + Slip BY <2>1, <2>4, <2>5, <3>2, <3>3
      <3>5. QED BY <2>6, <3>2, <3>4
    <2>9. r2.dispatched_at # None => r2.dispatched_at \in Int /\ r2.dispatched_at <= 0
      BY <1>1 DEF RowTimes, Row, Instant, Optional
    <2>10. QED BY <1>1, <2>7, <2>8, <2>9 DEF RowKeeps, RowTimes, r2
  <1>4. QED BY <1>2, <1>3 DEF r2

\* A statement that changes neither the retry time nor the tries nor who is done with the row.
LEMMA SameKeeps ==
    ASSUME NEW r \in Row, NEW r2 \in Row, RowTimes(r),
           r2.next_retry_at = r.next_retry_at, r2.attempt_count = r.attempt_count,
           r2.give_up_reason = r.give_up_reason, r.status = "success" => r2.status = "success",
           r2.status = "running" => r.status = "running", r2.status = "absent" => r.status = "absent",
           r2.dispatched_at \in {0, r.dispatched_at}, r2.status = "absent" => r2.dispatched_at = r.dispatched_at
    PROVE  RowKeeps(r, r2)
  <1>1. \A x \in Int : Chosen(x, r) => Chosen(x, r2) BY DEF Chosen, Closed
  <1>2. r.next_retry_at # None => r.next_retry_at \in Int BY DEF Row, Instant, Optional
  <1>3. r2.next_retry_at # None => Chosen(r2.next_retry_at, r2) BY <1>1, <1>2 DEF RowTimes
  <1>4. r.dispatched_at # None => r.dispatched_at \in Int BY DEF Row, Instant, Optional
  <1>5. 0 # None BY ConstantsAssumption
  <1>6. /\ r2.dispatched_at # None => r2.dispatched_at <= 0
        /\ r.dispatched_at # None => r2.dispatched_at # None /\ r2.dispatched_at >= r.dispatched_at
    BY <1>4, <1>5 DEF RowTimes
  <1>7. RowTimes(r2) BY <1>3, <1>6 DEF RowTimes
  <1>8. QED BY <1>1, <1>6, <1>7 DEF RowKeeps

\* A statement that is done with the attempt
LEMMA ClosedKeeps ==
    ASSUME NEW r \in Row, NEW r2 \in Row, RowTimes(r), Closed(r2), r2.next_retry_at = None,
           r2.dispatched_at = r.dispatched_at, r2.status \notin {"absent", "running"}
    PROVE  RowKeeps(r, r2)
  <1>1. r.dispatched_at # None => r.dispatched_at \in Int BY DEF Row, Instant, Optional
  <1>2. QED BY <1>1 DEF RowKeeps, RowTimes, Chosen

\* A claim: what was chosen before was chosen for an earlier try.
LEMMA ClaimKeeps ==
    ASSUME NEW r \in Row, NEW token \in Tokens, NEW limit \in Optional(Nat \ {0}), NEW now \in Int,
           RowTimes(r), ClaimWhere(r), RowDecided(r)
    PROVE  RowKeeps(r, ClaimSet(r, token, limit, now))
  <1> DEFINE r2 == ClaimSet(r, token, limit, now)
             k == r.attempt_count
  <1>1. /\ r.status = "pending" /\ r2.status = "running" /\ r2.attempt_count = k + 1 /\ k \in Nat
        /\ r2.next_retry_at = r.next_retry_at /\ r2.dispatched_at = r.dispatched_at
    BY DEF ClaimWhere, ClaimSet, Row
  <1> HIDE DEF r2
  <1>2. ~Closed(r) BY <1>1 DEF Closed, RowDecided
  <1>3. ASSUME NEW x \in Int, Chosen(x, r) PROVE Chosen(x, r2)
    <2>1. /\ r.next_retry_at # None /\ x <= r.next_retry_at + Slip
      BY <1>2, <1>3 DEF Chosen
    <2>2. PICK n \in 1..k : x <= High + DelayAfter(n) BY <1>2, <1>3 DEF Chosen
    <2>3. n \in 1..(k + 1) /\ n < k + 1 BY <1>1, <2>2
    <2>4. QED BY <1>1, <2>1, <2>2, <2>3 DEF Chosen
  <1>4. r.next_retry_at # None => r.next_retry_at \in Int BY DEF Row, Instant, Optional
  <1>5. r.dispatched_at # None => r.dispatched_at \in Int BY DEF Row, Instant, Optional
  <1>6. RowTimes(r2) BY <1>1, <1>3, <1>4, <1>5 DEF RowTimes
  <1>7. QED BY <1>1, <1>3, <1>5, <1>6 DEF RowKeeps, r2

\* Every statement keeps what was chosen.
LEMMA RowKeepsStep ==
    ASSUME MarginIsEnough, SamePolicies, NEW r \in Row, NEW r2, RowStep(r, r2), RowDecided(r), RowInv(r),
           RowTimes(r), RowCounts(r, r2), RowTimeless(r, r2)
    PROVE  RowKeeps(r, r2)
  <1>1. r2 \in Row BY RowStepType
  <1>2. CASE r2 = r BY <1>2, SameKeeps
  <1>3. CASE r2 = AgeRow(r)
    <2>1. /\ r2.next_retry_at = Age(r.next_retry_at) /\ r2.dispatched_at = Age(r.dispatched_at)
          /\ r2.status = r.status /\ r2.attempt_count = r.attempt_count
          /\ r2.give_up_reason = r.give_up_reason
      BY <1>3 DEF AgeRow, Row
    <2>2. /\ r2.next_retry_at = None <=> r.next_retry_at = None
          /\ r.dispatched_at = None => r2.dispatched_at = None
      BY <2>1, AgeType DEF Row, Age
    <2>3. /\ r2.next_retry_at = r.next_retry_at
          /\ r2.dispatched_at \in {0, r.dispatched_at}
          /\ r2.status = "absent" => r2.dispatched_at = r.dispatched_at
      BY <2>1, <2>2 DEF RowTimes, RowTimeless
    <2>4. QED BY <1>1, <2>1, <2>3, SameKeeps
  <1>4. ASSUME NEW seconds \in Int, r2 = SetGiveUpDeadlineSet(r, seconds) PROVE RowKeeps(r, r2)
    <2>1. /\ r2.next_retry_at = r.next_retry_at /\ r2.attempt_count = r.attempt_count
          /\ r2.give_up_reason = r.give_up_reason /\ r2.status = r.status
          /\ r2.dispatched_at = r.dispatched_at
      BY <1>4 DEF SetGiveUpDeadlineSet, Row
    <2>2. QED BY <1>1, <2>1, SameKeeps
  <1>5. ASSUME NEW now \in Int, r.status = "absent", r2 = CreatedRow(now) PROVE RowKeeps(r, r2)
    <2>1. r2.next_retry_at = None /\ r2.dispatched_at = None /\ r2.status = "pending"
      BY <1>5 DEF CreatedRow, AbsentRow
    <2>2. \A x : ~Chosen(x, r) BY <1>5 DEF Chosen, Closed, RowTimes, RowDecided
    <2>3. QED BY <1>5, <2>1, <2>2 DEF RowKeeps, RowTimes
  <1>6. ASSUME NEW now \in Int, NEW q \in Queues,
               \/ r2 = RecordDispatchSet(r, q, now)
               \/ RequeueWhere(r) /\ r2 = RequeueSet(r, q, now)
        PROVE  RowKeeps(r, r2)
    <2>1. q # None /\ r2.dispatch_queue = q BY <1>6, ConstantsAssumption DEF RecordDispatchSet, RequeueSet, Row
    <2>2. r.status # "absent" BY <2>1 DEF RowCounts, RowInv
    <2>3. /\ r2.next_retry_at = r.next_retry_at /\ r2.attempt_count = r.attempt_count
          /\ r2.give_up_reason = r.give_up_reason /\ r2.dispatched_at = 0
          /\ r2.status = r.status \/ (r.status = "failed" /\ r2.status = "pending")
      BY <1>6 DEF RecordDispatchSet, RequeueWhere, RequeueSet, Row
    <2>4. QED BY <1>1, <2>2, <2>3, SameKeeps
  <1>7. ASSUME NEW now \in Int,
               \/ ReopenWhere(r) /\ r2 = ReopenSet(r, now)
               \/ r.status = "pending" /\ r2 = ClaimExpiredMessageSet(r, now)
               \/ IsStuck(r, now) /\ r2 = ResetToPendingSet(r, now)
        PROVE  RowKeeps(r, r2)
    <2>1. /\ r2.next_retry_at = r.next_retry_at /\ r2.attempt_count = r.attempt_count
          /\ r2.give_up_reason = r.give_up_reason /\ r2.dispatched_at \in {0, r.dispatched_at}
          /\ r2.status = "pending" /\ r.status \in {"pending", "running", "failed"}
      BY <1>7 DEF ReopenWhere, ReopenSet, ClaimExpiredMessageSet, IsStuck, ResetToPendingSet, Row
    <2>2. QED BY <1>1, <2>1, SameKeeps
  <1>8. ASSUME NEW now \in Int, NEW token \in Tokens, NEW limit \in Optional(Nat \ {0}),
               ClaimWhere(r), r2 = ClaimSet(r, token, limit, now)
        PROVE  RowKeeps(r, r2)
    BY <1>8, ClaimKeeps
  <1>9. ASSUME NEW now \in Int,
               \/ r.status = "running" /\ r2 = FinishSuccessSet(r, now)
               \/ \E reason \in GiveUpReasons : CouldStillRun(r) /\ r2 = GiveUpSet(r, reason, now)
        PROVE  RowKeeps(r, r2)
    <2>1. /\ r2.next_retry_at = None /\ r2.dispatched_at = r.dispatched_at
          /\ r2.status \notin {"absent", "running"}
          /\ r2.status = "success" \/ r2.give_up_reason # None
      <3>1. CASE r2 = FinishSuccessSet(r, now) BY <3>1 DEF FinishSuccessSet, Row
      <3>2. ASSUME NEW reason \in GiveUpReasons, r2 = GiveUpSet(r, reason, now)
            PROVE  /\ r2.next_retry_at = None /\ r2.dispatched_at = r.dispatched_at
                   /\ r2.status = "failed" /\ r2.give_up_reason # None
        <4>1. reason # None BY ConstantsAssumption DEF GiveUpReasons
        <4>2. QED BY <3>2, <4>1 DEF GiveUpSet, Row
      <3>3. QED BY <1>9, <3>1, <3>2
    <2>2. QED BY <1>1, <2>1, ClosedKeeps DEF Closed
  <1>10. ASSUME NEW now \in Int, NEW delay \in Optional(Nat), r.status = "running", r2 = FailureSet(r, delay, now)
         PROVE  RowKeeps(r, r2)
    <2>1. r.dispatch_queue \in Queues BY <1>10 DEF RowInv, Row, Optional
    <2>2. QED BY <1>10, <2>1, FailureKeeps
  <1>11. QED BY <1>2, <1>3, <1>4, <1>5, <1>6, <1>7, <1>8, <1>9, <1>10 DEF RowStep

\* The rows of a step that counts
LEMMA RowsKeepStep ==
    ASSUME MarginIsEnough, SamePolicies, TypeInv, Decided, RowsInv, RowsTimes, [Next]_vars, RowsCount,
           RowsTimeless
    PROVE  RowsKeep
  <1> SUFFICES ASSUME NEW a \in Attempts PROVE RowKeeps(row[a], row'[a])
    BY DEF RowsKeep
  <1>1. row[a] \in Row /\ RowStep(row[a], row'[a]) /\ RowDecided(row[a]) /\ RowInv(row[a])
    BY NextOK DEF StepOK, RowsStep, TypeInv, TypeOK, Decided, RowsInv
  <1>2. RowCounts(row[a], row'[a]) /\ RowTimeless(row[a], row'[a]) /\ RowTimes(row[a])
    BY DEF RowsCount, RowsTimeless, RowsTimes
  <1>3. QED BY <1>1, <1>2, RowKeepsStep

-----------------------------------------------------------------------------
(* Processes and messages *)

\* The process holds no retry time but the one it held, or the one it has just read; and it has
\* not just stamped a dispatch.
ProcCarries(c, c2) ==
    /\ c2.pc \in EtaPCs /\ c2.eta # None =>
           \/ c.pc \in EtaPCs /\ c2.att = c.att /\ c2.eta = c.eta
           \/ c2.eta = row[c2.att].next_retry_at
    /\ c2.pc \in {"recorded", "requeued"} =>
           \/ c.pc = c2.pc /\ c2.att = c.att
           \/ row'[c2.att].dispatched_at = 0

ProcsCarry == \A p \in Procs : ProcCarries(proc[p], proc'[p])

\* A process that moves leaves the others alone.
LEMMA MoveCarries ==
    ASSUME TypeInv, NEW p \in Procs, NEW c, proc' = [proc EXCEPT ![p] = c], ProcCarries(proc[p], c)
    PROVE  ProcsCarry
  <1>1. \A q \in Procs : proc'[q] = IF q = p THEN c ELSE proc[q] BY DEF TypeInv, TypeOK
  <1>2. \A q \in Procs : ProcCarries(proc[q], proc[q]) BY DEF ProcCarries
  <1>3. QED BY <1>1, <1>2 DEF ProcsCarry

\* The process goes where no retry time is held.
LEMMA EmptyCarries ==
    ASSUME TypeInv, NEW p \in Procs, NEW c, proc' = [proc EXCEPT ![p] = c], c.pc \notin EtaPCs
    PROVE  ProcsCarry
  BY MoveCarries DEF ProcCarries, EtaPCs

LEMMA DoneCarries == ASSUME TypeInv, NEW p \in Procs, Done(p) PROVE ProcsCarry
  <1>1. IdleProc.pc \notin EtaPCs BY DEF IdleProc, EtaPCs
  <1>2. QED BY <1>1, EmptyCarries DEF Done

LEMMA StillCarries == ASSUME UNCHANGED proc PROVE ProcsCarry
  BY DEF ProcsCarry, ProcCarries

\* The process goes on with what it holds.
LEMMA GotoCarries ==
    ASSUME TypeInv, NEW p \in Procs, NEW pc, Goto(p, pc), pc \in EtaPCs => proc[p].pc \in EtaPCs,
           pc \in {"recorded", "requeued"} => row'[proc[p].att].dispatched_at = 0
    PROVE  ProcsCarry
  <1> DEFINE c == [proc[p] EXCEPT !.pc = pc]
  <1>1. proc[p] \in Proc /\ proc \in [Procs -> Proc] BY DEF TypeInv, TypeOK
  <1>2. proc' = [proc EXCEPT ![p] = c] BY <1>1 DEF Goto
  <1>3. c.pc = pc /\ c.att = proc[p].att /\ c.eta = proc[p].eta BY <1>1 DEF Proc
  <1> HIDE DEF c
  <1>4. ProcCarries(proc[p], c) BY <1>3 DEF ProcCarries
  <1>5. QED BY <1>2, <1>4, MoveCarries

\* Steps of QueueExecutor.execute()
LEMMA ExecuteCarries == ASSUME TypeInv, NEW p \in Procs, ExecuteStep(p) PROVE ProcsCarry
  <1> DEFINE a == proc[p].att
  <1>1. /\ proc[p] \in Proc /\ proc \in [Procs -> Proc] /\ row \in [Attempts -> Row]
        /\ proc[p].pc # "idle" => a \in Attempts /\ row[a] \in Row
    BY ProcFacts DEF TypeInv, TypeOK
  <1>2. ASSUME NEW recorded, NEW eta, proc' = [proc EXCEPT ![p] = OpenedProc(p, recorded, eta)],
               \/ eta = None \/ eta = row[a].next_retry_at
               \/ eta = proc[p].eta /\ proc[p].pc \in EtaPCs
        PROVE  ProcsCarry
    <2> DEFINE c == OpenedProc(p, recorded, eta)
    <2>1. c.att = a /\ c.eta = eta /\ c.pc \in {"dated", "opened"} BY <1>1 DEF OpenedProc, Proc
    <2> HIDE DEF c
    <2>2. ProcCarries(proc[p], c) BY <1>2, <2>1 DEF ProcCarries
    <2>3. QED BY <1>2, <2>2, MoveCarries DEF c
  <1>3. CASE Create(p) BY <1>2, <1>3 DEF Create
  <1>4. CASE Get(p)
    <2> DEFINE r == row[a]
               q == IF r.dispatch_queue = None THEN proc[p].queue ELSE r.dispatch_queue
               c == [proc[p] EXCEPT !.pc = "reopen", !.queue = q, !.eta = r.next_retry_at]
    <2>1. CASE proc' = [proc EXCEPT ![p] = OpenedProc(p, r.dispatch_queue, r.next_retry_at)]
      BY <1>2, <2>1
    <2>2. CASE proc' = [proc EXCEPT ![p].pc = "reopen",
                                    ![p].queue = IF r.dispatch_queue = None THEN @ ELSE r.dispatch_queue,
                                    ![p].eta = r.next_retry_at]
      <3>1. proc' = [proc EXCEPT ![p] = c] BY <1>1, <2>2
      <3>2. c.pc = "reopen" /\ c.att = a /\ c.eta = r.next_retry_at BY <1>1 DEF Proc
      <3> HIDE DEF c
      <3>3. ProcCarries(proc[p], c) BY <3>2 DEF ProcCarries
      <3>4. QED BY <3>1, <3>3, MoveCarries
    <2>3. CASE Done(p) BY <2>3, DoneCarries
    <2>4. QED BY <1>4, <2>1, <2>2, <2>3 DEF Get
  <1>5. CASE Reopen(p)
    <2>1. proc[p].pc \in EtaPCs BY <1>5 DEF Reopen, At, EtaPCs
    <2>2. CASE proc' = [proc EXCEPT ![p] = OpenedProc(p, proc[p].queue, proc[p].eta)]
      BY <1>2, <2>1, <2>2
    <2>3. CASE Done(p) BY <2>3, DoneCarries
    <2>4. QED BY <1>5, <2>2, <2>3 DEF Reopen
  <1>6. ASSUME NEW lag \in Lags, SetGiveUpDeadline(p, lag) PROVE ProcsCarry
    BY <1>6, GotoCarries DEF SetGiveUpDeadline, At, EtaPCs
  <1>7. CASE CheckDeadline(p) BY <1>7, GotoCarries, DoneCarries DEF CheckDeadline, At, EtaPCs
  <1>8. CASE RecordDispatch(p)
    <2>1. a \in Attempts /\ proc[p].pc = "agreed" /\ Goto(p, "recorded")
      BY <1>1, <1>8 DEF RecordDispatch, At
    <2>2. row'[a].dispatched_at = 0
      BY <1>1, <1>8, <2>1 DEF RecordDispatch, Update, RecordDispatchSet, Row
    <2>3. QED BY <2>1, <2>2, GotoCarries DEF EtaPCs
  <1>9. CASE Send(p) \/ SendFails(p) BY <1>9, DoneCarries DEF Send, SendFails
  <1>10. QED BY <1>3, <1>4, <1>5, <1>6, <1>7, <1>8, <1>9 DEF ExecuteStep

\* Steps of dispatch_retry()
LEMMA RetryCarries == ASSUME TypeInv, NEW p \in Procs, RetryStep(p) PROVE ProcsCarry
  <1> DEFINE a == proc[p].att
  <1>1. /\ proc[p] \in Proc /\ proc \in [Procs -> Proc] /\ row \in [Attempts -> Row]
        /\ proc[p].pc # "idle" => a \in Attempts /\ row[a] \in Row
    BY ProcFacts DEF TypeInv, TypeOK
  <1>2. CASE RefreshFailed(p)
    <2> DEFINE c == [proc[p] EXCEPT !.pc = "refreshed", !.eta = row[a].next_retry_at,
                                    !.queue = RedispatchQueue(row[a].dispatch_queue)]
    <2>1. Done(p) \/ proc' = [proc EXCEPT ![p] = c] BY <1>1, <1>2 DEF RefreshFailed
    <2>2. c.pc = "refreshed" /\ c.att = a /\ c.eta = row[a].next_retry_at BY <1>1 DEF Proc
    <2> HIDE DEF c
    <2>3. ProcCarries(proc[p], c) BY <2>2 DEF ProcCarries
    <2>4. QED BY <2>1, <2>3, DoneCarries, MoveCarries
  <1>3. CASE RequeueForRetry(p)
    <2>1. a \in Attempts /\ proc[p].pc = "refreshed" BY <1>1, <1>3 DEF RequeueForRetry, At
    <2>2. CASE Update(a, RequeueSet(row[a], proc[p].queue, Skew[p])) /\ Goto(p, "requeued")
      <3>1. row'[a].dispatched_at = 0 BY <1>1, <2>1, <2>2 DEF Update, RequeueSet, Row
      <3>2. QED BY <2>1, <2>2, <3>1, GotoCarries DEF EtaPCs
    <2>3. QED BY <1>3, <2>2, DoneCarries DEF RequeueForRetry
  <1>4. QED BY <1>2, <1>3 DEF RetryStep

\* The other processes hold no retry time.
LEMMA OtherCarries ==
    ASSUME TypeInv,
           \/ \E p \in Workers : WorkerStep(p) \/ \E m \in Tokens : Receive(p, m)
           \/ \E p \in Sweepers : SweepStart(p) \/ SweepStep(p)
           \/ \E p \in Submitters, a \in Attempts, q \in Queues : Submit(p, a, q)
           \/ \E p \in Procs : Crash(p)
           \/ \E a \in Attempts : GiveUpByHand(a)
           \/ \E m \in Tokens : LoseMessage(m) \/ DropExpired(m)
           \/ UNCHANGED vars
    PROVE  ProcsCarry
  <1>1. /\ Workers \subseteq Procs /\ Sweepers \subseteq Procs /\ Submitters \subseteq Procs
        /\ proc \in [Procs -> Proc]
    BY DEF Procs, TypeInv, TypeOK
  <1>2. ASSUME NEW p \in Workers, WorkerStep(p) PROVE ProcsCarry
    <2> DEFINE r == row[proc[p].att]
               c == [proc[p] EXCEPT !.pc = "running", !.tries = r.attempt_count, !.queue = r.dispatch_queue]
    <2>1. CASE Done(p) BY <1>1, <2>1, DoneCarries
    <2>2. ASSUME NEW pc \in {"claimed", "refused", "failed"}, Goto(p, pc) PROVE ProcsCarry
      BY <1>1, <2>2, GotoCarries DEF EtaPCs
    <2>3. CASE LoadClaim(p)
      <3>1. proc' = [proc EXCEPT ![p] = c] BY <1>1, <2>3 DEF LoadClaim
      <3>2. c.pc \notin EtaPCs BY <1>1 DEF Proc, EtaPCs
      <3> HIDE DEF c
      <3>3. QED BY <1>1, <3>1, <3>2, EmptyCarries
    <2>4. QED
      BY <1>2, <2>1, <2>2, <2>3
         DEF WorkerStep, Claim, GiveUpRefused, FinishSuccess, FinishFailure, HardKill
  <1>3. ASSUME NEW p \in Workers, NEW m \in Tokens, Receive(p, m) PROVE ProcsCarry
    <2> DEFINE c == [IdleProc EXCEPT !.pc = "claim", !.att = broker[m].att, !.token = m,
                                     !.left = HardLimit[broker[m].queue], !.queue = broker[m].queue]
    <2>1. UNCHANGED proc \/ proc' = [proc EXCEPT ![p] = c] BY <1>3 DEF Receive
    <2>2. c.pc \notin EtaPCs BY DEF IdleProc, EtaPCs
    <2> HIDE DEF c
    <2>3. QED BY <1>1, <2>1, <2>2, EmptyCarries, StillCarries
  <1>4. ASSUME NEW p \in Procs, NEW a, NEW q,
               proc' = [proc EXCEPT ![p] = [IdleProc EXCEPT !.pc = "submit", !.att = a, !.queue = q]]
        PROVE  ProcsCarry
    <2> DEFINE c == [IdleProc EXCEPT !.pc = "submit", !.att = a, !.queue = q]
    <2>1. c.pc \notin EtaPCs BY DEF IdleProc, EtaPCs
    <2> HIDE DEF c
    <2>2. QED BY <1>4, <2>1, EmptyCarries DEF c
  <1>5. ASSUME NEW p \in Sweepers, SweepStart(p) PROVE ProcsCarry
    <2>1. ASSUME NEW a \in Attempts, ListExpiredLease(p, a) PROVE ProcsCarry
      <3> DEFINE c == [proc[p] EXCEPT !.pc = "listed", !.att = a]
      <3>1. proc' = [proc EXCEPT ![p] = c] BY <1>1, <2>1 DEF ListExpiredLease
      <3>2. c.pc \notin EtaPCs BY <1>1 DEF Proc, EtaPCs
      <3> HIDE DEF c
      <3>3. QED BY <1>1, <3>1, <3>2, EmptyCarries
    <2>2. ASSUME NEW a \in Attempts, RecoverExpiredMessage(p, a) \/ RecoverStuckTask(p, a)
          PROVE  ProcsCarry
      BY <1>1, <1>4, <2>2 DEF RecoverExpiredMessage, RecoverStuckTask, Resend
    <2>3. QED BY <1>5, <2>1, <2>2 DEF SweepStart
  <1>6. ASSUME NEW p \in Sweepers, SweepStep(p) PROVE ProcsCarry
    <2> DEFINE r == row[proc[p].att]
               c == [proc[p] EXCEPT !.pc = "read", !.tries = r.attempt_count, !.queue = r.dispatch_queue]
    <2>1. CASE ReadExpiredLease(p)
      <3>1. proc' = [proc EXCEPT ![p] = c] BY <1>1, <2>1 DEF ReadExpiredLease
      <3>2. c.pc \notin EtaPCs BY <1>1 DEF Proc, EtaPCs
      <3> HIDE DEF c
      <3>3. QED BY <1>1, <3>1, <3>2, EmptyCarries
    <2>2. CASE FailExpiredLease(p)
      BY <1>1, <2>2, GotoCarries, DoneCarries DEF FailExpiredLease, EtaPCs
    <2>3. QED BY <1>6, <2>1, <2>2 DEF SweepStep
  <1>7. ASSUME NEW p \in Submitters, NEW a \in Attempts, NEW q \in Queues, Submit(p, a, q)
        PROVE  ProcsCarry
    BY <1>1, <1>4, <1>7 DEF Submit
  <1>8. ASSUME NEW p \in Procs, Crash(p) PROVE ProcsCarry BY <1>8, DoneCarries DEF Crash
  <1>9. CASE \/ \E a \in Attempts : GiveUpByHand(a)
             \/ \E m \in Tokens : LoseMessage(m) \/ DropExpired(m)
             \/ UNCHANGED vars
    BY <1>9, StillCarries DEF GiveUpByHand, LoseMessage, DropExpired, vars
  <1>10. QED BY <1>2, <1>3, <1>5, <1>6, <1>7, <1>8, <1>9

\* A message is what it was when it was sent.
BrokerKeeps == \A m \in Tokens : broker'[m] # None => broker'[m] = broker[m]

\* No statement changes a message but the send.
LEMMA BrokerStep ==
    ASSUME TypeInv, [Next]_vars
    PROVE  Tick \/ BrokerKeeps \/ \E p \in Procs : Send(p)
  <1>1. broker \in [Tokens -> Optional(Message)] BY DEF TypeInv, TypeOK
  <1>2. UNCHANGED broker => BrokerKeeps BY DEF BrokerKeeps
  <1>3. ASSUME NEW m \in Tokens, broker' = [broker EXCEPT ![m] = None] PROVE BrokerKeeps
    BY <1>1, <1>3 DEF BrokerKeeps
  <1>4. ASSUME NEW p \in Procs, ExecuteStep(p), ~Send(p) PROVE UNCHANGED broker
    BY <1>4 DEF ExecuteStep, Create, Get, Reopen, SetGiveUpDeadline, CheckDeadline, RecordDispatch, SendFails
  <1>5. ASSUME NEW p \in Procs, RetryStep(p) PROVE UNCHANGED broker
    BY <1>5 DEF RetryStep, RefreshFailed, RequeueForRetry
  <1>6. ASSUME NEW p \in Workers, WorkerStep(p) PROVE UNCHANGED broker
    BY <1>6 DEF WorkerStep, Claim, GiveUpRefused, LoadClaim, FinishSuccess, FinishFailure, HardKill
  <1>7. ASSUME NEW p \in Workers, NEW m \in Tokens, Receive(p, m) PROVE BrokerKeeps
    BY <1>2, <1>3, <1>7 DEF Receive
  <1>8. ASSUME NEW p \in Sweepers, SweepStart(p) \/ SweepStep(p) PROVE UNCHANGED broker
    BY <1>8 DEF SweepStart, SweepStep, ListExpiredLease, RecoverExpiredMessage, RecoverStuckTask,
                ReadExpiredLease, FailExpiredLease
  <1>9. ASSUME NEW m \in Tokens, LoseMessage(m) \/ DropExpired(m) PROVE BrokerKeeps
    BY <1>3, <1>9 DEF LoseMessage, DropExpired
  <1>10. CASE UNCHANGED vars BY <1>2, <1>10 DEF vars
  <1>11. QED
    BY <1>2, <1>4, <1>5, <1>6, <1>7, <1>8, <1>9, <1>10 DEF Next, Crash, Submit, GiveUpByHand

-----------------------------------------------------------------------------
(* The inductive step *)

\* Every step counts, and time passes in none but Tick.
LEMMA StepCounts ==
    ASSUME SameLimits, TypeInv, FenceIsExact, TriesInv, [Next]_vars
    PROVE  RowsCount /\ (Tick \/ RowsTimeless)
  <1> DEFINE Good == RowsCount /\ RowsTimeless
  <1>1. RowsStay => RowsTimeless BY DEF RowsStay, RowStays, RowsTimeless
  <1>2. Workers \subseteq Procs /\ Sweepers \subseteq Procs /\ Submitters \subseteq Procs BY DEF Procs
  <1>3. UNCHANGED row => Good BY <1>1, SameTame
  <1>4. ASSUME NEW p \in Procs, ExecuteStep(p) PROVE Good
    <2>1. CASE RecordDispatch(p)
      <3> DEFINE a == proc[p].att
                 r2 == RecordDispatchSet(row[a], proc[p].queue, Skew[p])
      <3>1. a \in Attempts /\ row[a] \in Row /\ row[a].status # "absent" /\ Update(a, r2)
        BY <2>1, ProcFacts DEF RecordDispatch, At, TriesInv, ProcsInv, ProcInv
      <3>2. RowTame(row[a], r2) /\ RowStays(row[a], r2) /\ RowCounts(row[a], r2) BY <3>1, RecordTame
      <3> HIDE DEF r2, a
      <3>3. QED BY <1>1, <3>1, <3>2, UpdateTame
    <2>2. CASE Send(p) BY <1>3, <2>2 DEF Send
    <2>3. CASE ~Send(p) /\ ~RecordDispatch(p) BY <1>1, <1>4, <2>3, ExecuteTame
    <2>4. QED BY <2>1, <2>2, <2>3
  <1>5. ASSUME NEW p \in Procs, RetryStep(p) PROVE Good BY <1>1, <1>5, RetryTame
  <1>6. ASSUME NEW w \in Workers, WorkerStep(w) PROVE Good
    <2>1. CASE Claim(w)
      <3> DEFINE a == proc[w].att
                 r2 == ClaimSet(row[a], proc[w].token, HardLimit[proc[w].queue], Skew[w])
      <3>1. CASE ClaimWhere(row[a]) /\ Update(a, r2)
        <4>1. a \in Attempts /\ row[a] \in Row BY <1>2, <2>1, ProcFacts DEF Claim, At
        <4>2. row[a].status = "pending" /\ r2.status = "running" BY <3>1, <4>1 DEF ClaimWhere, ClaimSet, Row
        <4> HIDE DEF r2, a
        <4>3. \A b \in Attempts : row'[b] = IF b = a THEN r2 ELSE row[b]
          BY <3>1, <4>1 DEF Update, TypeInv, TypeOK
        <4>4. \A b \in Attempts : RowCounts(row[b], row'[b]) /\ RowTimeless(row[b], row'[b])
          BY <4>2, <4>3 DEF RowCounts, RowTimeless
        <4>5. QED BY <4>4 DEF RowsCount, RowsTimeless
      <3>2. QED BY <1>3, <2>1, <3>1 DEF Claim
    <2>2. CASE LoadClaim(w) BY <1>3, <2>2 DEF LoadClaim
    <2>3. CASE GiveUpRefused(w) \/ FinishSuccess(w) \/ FinishFailure(w) \/ HardKill(w)
      BY <1>1, <1>2, <2>3, WorkerTame, OutcomeTries DEF QuietStep
    <2>4. QED BY <1>6, <2>1, <2>2, <2>3 DEF WorkerStep
  <1>7. ASSUME NEW s \in Sweepers, SweepStart(s) \/ SweepStep(s) PROVE Good
    BY <1>1, <1>2, <1>7, SweepTame, OutcomeTries
  <1>8. CASE \/ \E w \in Workers, m \in Tokens : Receive(w, m)
             \/ \E p \in Submitters, a \in Attempts, q \in Queues : Submit(p, a, q)
    BY <1>3, <1>8 DEF Receive, Submit
  <1>9. CASE \/ \E p \in Procs : Crash(p)
             \/ \E a \in Attempts : GiveUpByHand(a)
             \/ \E m \in Tokens : LoseMessage(m) \/ DropExpired(m)
             \/ UNCHANGED vars
    BY <1>1, <1>9, EnvironmentTame DEF QuietStep
  <1>10. CASE Tick BY <1>10, TickTame
  <1>11. QED BY <1>4, <1>5, <1>6, <1>7, <1>8, <1>9, <1>10 DEF Next

\* The expiry of a message that is sent: from the stamp of this instant, or from the ETA.
LEMMA SendTimes ==
    ASSUME MarginIsEnough, SamePolicies, TypeInv, ExpiryInv, RowsKeep, NEW p \in Procs, Send(p)
    PROVE  MessagesTimes'
  <1> DEFINE c == proc[p]
             e == MessageExpiry(c.queue, c.eta, Skew[p])
  <1>1. /\ c.att \in Attempts /\ c.queue \in Queues /\ c.eta \in Instant /\ Skew[p] \in Int
        /\ c.pc \in {"recorded", "requeued"} /\ c.pc \in EtaPCs /\ row[c.att] \in Row
        /\ broker \in [Tokens -> Optional(Message)] /\ UNCHANGED row
    BY ProcFacts DEF Send, ProcOK, SubmitPCs, Proc, EtaPCs, TypeInv, TypeOK
  <1>2. /\ row[c.att].dispatched_at = 0
        /\ c.eta # None => Chosen(c.eta, row[c.att])
    BY <1>1 DEF ExpiryInv, ProcsTimes, ProcTimes
  <1>3. Ttl # None => e # None /\ ExpiryOK(e, row[c.att])
    <2> SUFFICES ASSUME Ttl # None PROVE e # None /\ ExpiryOK(e, row[c.att])
      OBVIOUS
    <2>1. /\ MessageTtl[c.queue] = Ttl /\ Ttl \in Nat /\ Skew[p] <= High /\ High \in Int
      BY <1>1, BoundFacts DEF MarginCovers
    <2>2. CASE c.eta # None /\ c.eta > Skew[p]
      <3>1. c.eta \in Int BY <1>1, <2>2 DEF Instant, Optional
      <3>2. e = c.eta + Ttl BY <2>1, <2>2 DEF MessageExpiry
      <3>3. e \in Int /\ e - Ttl = c.eta BY <2>1, <3>1, <3>2
      <3> HIDE DEF e
      <3>4. Chosen(e - Ttl, row[c.att]) BY <1>2, <2>2, <3>3
      <3>5. QED BY <3>3, <3>4, ConstantsAssumption DEF ExpiryOK
    <2>3. CASE ~(c.eta # None /\ c.eta > Skew[p])
      <3>1. e = Skew[p] + Ttl BY <2>1, <2>3 DEF MessageExpiry
      <3> HIDE DEF e
      <3>2. e \in Int /\ e <= 0 + High + Ttl BY <1>1, <2>1, <3>1
      <3>3. e # None /\ 0 # None BY <3>2, ConstantsAssumption
      <3>4. QED BY <1>2, <3>2, <3>3 DEF ExpiryOK
    <2>4. QED BY <2>2, <2>3
  <1> DEFINE b == [att |-> c.att, queue |-> c.queue, eta |-> c.eta, expires |-> e]
  <1>4. PICK m \in Tokens : broker' = [broker EXCEPT ![m] = b] BY DEF Send, FreshIds
  <1>5. b.expires = e /\ b.att = c.att OBVIOUS
  <1> HIDE DEF b, e, c
  <1>6. MessageTimes(b, row) BY <1>3, <1>5 DEF MessageTimes
  <1>7. \A k \in Tokens : broker'[k] = IF k = m THEN b ELSE broker[k] BY <1>1, <1>4
  <1>8. QED BY <1>1, <1>6, <1>7 DEF ExpiryInv, MessagesTimes

\* Messages and processes rely on rows that keep what was chosen.
LEMMA KeptTimes ==
    ASSUME MarginIsEnough, SamePolicies, TypeInv, TypeInv', ExpiryInv, RowsKeep, ProcsCarry
    PROVE  ProcsTimes' /\ (BrokerKeeps => MessagesTimes')
  <1>1. ASSUME NEW p \in Procs PROVE ProcTimes(proc'[p], row')
    <2> DEFINE c == proc[p]
               c2 == proc'[p]
    <2>1. /\ c2 \in Proc /\ c \in Proc /\ ProcCarries(c, c2) /\ ProcTimes(c, row)
          /\ c2.pc # "idle" => c2.att \in Attempts
      BY DEF TypeInv, TypeOK, ProcOK, ProcsCarry, ExpiryInv, ProcsTimes
    <2> HIDE DEF c, c2
    <2>2. ASSUME c2.pc \in EtaPCs, c2.eta # None PROVE Chosen(c2.eta, row'[c2.att])
      <3>1. c2.att \in Attempts /\ c2.eta \in Int BY <2>1, <2>2 DEF EtaPCs, Proc, Instant, Optional
      <3>2. Chosen(c2.eta, row[c2.att])
        BY <2>1, <2>2, <3>1 DEF ProcCarries, ProcTimes, ExpiryInv, RowsTimes, RowTimes
      <3>3. QED BY <3>1, <3>2 DEF RowsKeep, RowKeeps
    <2>3. ASSUME c2.pc \in {"recorded", "requeued"} PROVE row'[c2.att].dispatched_at = 0
      <3>1. c2.att \in Attempts BY <2>1, <2>3
      <3>2. CASE row'[c2.att].dispatched_at = 0 BY <3>2
      <3>3. CASE row[c2.att].dispatched_at = 0
        <4>1. 0 # None BY ConstantsAssumption
        <4>2. /\ row'[c2.att].dispatched_at # None
              /\ row'[c2.att].dispatched_at >= 0 /\ row'[c2.att].dispatched_at <= 0
          BY <3>1, <3>3, <4>1 DEF RowsKeep, RowKeeps, RowTimes
        <4>3. row'[c2.att].dispatched_at \in Int
          BY <3>1, <4>2 DEF TypeInv, TypeOK, Row, Instant, Optional
        <4>4. QED BY <4>2, <4>3
      <3>4. QED BY <2>1, <2>3, <3>2, <3>3 DEF ProcCarries, ProcTimes
    <2>4. QED BY <2>2, <2>3 DEF ProcTimes, c2
  <1>2. ASSUME BrokerKeeps, NEW m \in Tokens, broker'[m] # None PROVE MessageTimes(broker'[m], row')
    <2> DEFINE b == broker[m]
               a == b.att
    <2>1. broker'[m] = b /\ b # None /\ b \in Message /\ a \in Attempts /\ b.expires \in Instant
      BY <1>2 DEF BrokerKeeps, TypeInv, TypeOK, Optional, Message
    <2>2. MessageTimes(b, row) BY <2>1 DEF ExpiryInv, MessagesTimes
    <2>3. RowKeeps(row[a], row'[a]) BY <2>1 DEF RowsKeep
    <2>4. /\ row[a].dispatched_at # None => row[a].dispatched_at \in Int
          /\ row'[a].dispatched_at # None => row'[a].dispatched_at \in Int
      BY <2>1 DEF TypeInv, TypeOK, Row, Instant, Optional
    <2> HIDE DEF b
    <2>5. SUFFICES ASSUME Ttl # None PROVE b.expires # None /\ ExpiryOK(b.expires, row'[a])
      BY <2>1 DEF MessageTimes
    <2>6. b.expires # None /\ b.expires \in Int /\ ExpiryOK(b.expires, row[a])
      BY <2>1, <2>2, <2>5 DEF MessageTimes, Instant, Optional
    <2>7. Ttl \in Nat /\ High \in Int /\ b.expires - Ttl \in Int BY <2>5, <2>6, BoundFacts
    <2>8. CASE b.expires <= -Horizon BY <2>6, <2>8 DEF ExpiryOK
    <2>9. CASE row[a].dispatched_at # None /\ b.expires <= row[a].dispatched_at + High + Ttl
      <3>1. row'[a].dispatched_at # None /\ row'[a].dispatched_at >= row[a].dispatched_at
        BY <2>3, <2>9 DEF RowKeeps
      <3>2. b.expires <= row'[a].dispatched_at + High + Ttl BY <2>4, <2>6, <2>7, <2>9, <3>1
      <3>3. QED BY <2>6, <3>1, <3>2 DEF ExpiryOK
    <2>10. CASE Chosen(b.expires - Ttl, row[a])
      <3>1. Chosen(b.expires - Ttl, row'[a]) BY <2>3, <2>7, <2>10 DEF RowKeeps
      <3>2. QED BY <2>6, <3>1 DEF ExpiryOK
    <2>11. QED BY <2>6, <2>8, <2>9, <2>10 DEF ExpiryOK
  <1>3. QED BY <1>1, <1>2 DEF ProcsTimes, MessagesTimes

\* What was chosen stays so a second later.
LEMMA AgedChosen ==
    ASSUME MarginIsEnough, SamePolicies, NEW r \in Row, NEW x \in Int, Chosen(x, r), NEW y \in Int, y <= x,
           r.next_retry_at # None => y <= Age(r.next_retry_at) + Slip
    PROVE  Chosen(y, AgeRow(r))
  <1> DEFINE r2 == AgeRow(r)
  <1>1. /\ r2.status = r.status /\ r2.give_up_reason = r.give_up_reason
        /\ r2.attempt_count = r.attempt_count /\ r2.next_retry_at = Age(r.next_retry_at)
    BY DEF AgeRow, Row
  <1> HIDE DEF r2
  <1>2. CASE Closed(r) BY <1>1, <1>2 DEF Chosen, Closed, r2
  <1>3. CASE ~Closed(r)
    <2>1. r.next_retry_at # None /\ y <= Age(r.next_retry_at) + Slip BY <1>3 DEF Chosen
    <2>2. Age(r.next_retry_at) # None BY <2>1, AgeType DEF Row
    <2>3. PICK n \in 1..r.attempt_count :
              x <= High + DelayAfter(n) /\ (r.status = "running" => n < r.attempt_count)
      BY <1>3 DEF Chosen
    <2>4. n \in Nat /\ DelayAfter(n) \in Nat /\ High \in Int BY <2>3, BoundFacts DEF Row
    <2>5. y <= High + DelayAfter(n) BY <2>3, <2>4
    <2>6. QED BY <1>1, <2>1, <2>2, <2>3, <2>5 DEF Chosen, r2
  <1>4. QED BY <1>2, <1>3 DEF r2

\* The passing of time: the expiry of a message, its stamp and the retry time come closer
\* together, and no process holds a retry time.
LEMMA TickTimes ==
    ASSUME MarginIsEnough, SamePolicies, MayStall = {}, TypeInv, ExpiryInv, Tick
    PROVE  ExpiryInv'
  <1>1. Horizon \in Int /\ Slip \in Nat /\ High \in Int BY BoundFacts, ConstantsAssumption
  <1>2. ASSUME NEW a \in Attempts PROVE RowTimes(row'[a])
    <2> DEFINE r == row[a]
    <2>1. r \in Row /\ RowTimes(r) /\ row'[a] = AgeRow(r)
      BY DEF TypeInv, TypeOK, ExpiryInv, RowsTimes, Tick
    <2> HIDE DEF r
    <2>2. /\ AgeRow(r).next_retry_at = Age(r.next_retry_at) /\ AgeRow(r).status = r.status
          /\ AgeRow(r).dispatched_at = Age(r.dispatched_at) /\ AgeRow(r).attempt_count = r.attempt_count
      BY <2>1 DEF AgeRow, Row
    <2>3. ASSUME r.next_retry_at # None PROVE Chosen(Age(r.next_retry_at), AgeRow(r))
      <3> DEFINE t == r.next_retry_at
      <3>1. t \in Int /\ Chosen(t, r) BY <2>1, <2>3 DEF Row, Instant, Optional, RowTimes
      <3>2. Age(t) \in Int /\ Age(t) <= t BY <3>1, AgeType
      <3>3. Age(t) <= Age(t) + Slip BY <1>1, <3>2
      <3>4. QED BY <2>1, <3>1, <3>2, <3>3, AgedChosen
    <2>4. ASSUME r.dispatched_at # None PROVE Age(r.dispatched_at) <= 0
      <3>1. r.dispatched_at \in Int /\ r.dispatched_at <= 0
        BY <2>1, <2>4 DEF Row, Instant, Optional, RowTimes
      <3>2. QED BY <3>1, AgeType
    <2>5. /\ Age(r.next_retry_at) = None <=> r.next_retry_at = None
          /\ Age(r.dispatched_at) = None <=> r.dispatched_at = None
      BY <2>1, AgeType DEF Row
    <2>6. QED BY <2>1, <2>2, <2>3, <2>4, <2>5 DEF RowTimes
  <1>3. ASSUME NEW p \in Procs PROVE ProcTimes(proc'[p], row')
    <2>1. proc[p] \in Proc /\ proc[p].pc \in {"idle", "running"} BY DEF TypeInv, TypeOK, Tick
    <2>2. proc'[p] = [proc[p] EXCEPT !.eta = Age(@), !.left = IF @ = None THEN None ELSE @ - 1]
      BY DEF Tick
    <2>3. proc'[p].pc = proc[p].pc BY <2>1, <2>2 DEF Proc
    <2>4. QED BY <2>1, <2>3 DEF ProcTimes, EtaPCs
  <1>4. ASSUME NEW m \in Tokens, broker'[m] # None PROVE MessageTimes(broker'[m], row')
    <2> DEFINE b == broker[m]
               e == b.expires
               r == row[b.att]
    <2>1. broker'[m] = IF b = None THEN None ELSE [b EXCEPT !.eta = Age(@), !.expires = Age(@)]
      BY DEF Tick
    <2>2. b # None /\ b \in Message BY <1>4, <2>1 DEF TypeInv, TypeOK, Optional
    <2>3. /\ broker'[m].expires = Age(e) /\ broker'[m].att = b.att /\ b.att \in Attempts /\ e \in Instant
      BY <2>1, <2>2 DEF Message
    <2>4. r \in Row /\ row'[b.att] = AgeRow(r) BY <2>3 DEF TypeInv, TypeOK, Tick
    <2>5. MessageTimes(b, row) BY <2>2 DEF ExpiryInv, MessagesTimes
    <2> SUFFICES ASSUME Ttl # None PROVE Age(e) # None /\ ExpiryOK(Age(e), AgeRow(r))
      BY <2>3, <2>4 DEF MessageTimes
    <2>6. e # None /\ ExpiryOK(e, r) BY <2>5 DEF MessageTimes
    <2> HIDE DEF b, r, e
    <2>7. e \in Int /\ Ttl \in Nat BY <2>3, <2>6, BoundFacts DEF Instant, Optional
    <2>8. Age(e) \in Int /\ Age(e) # None BY <2>7, AgeType, ConstantsAssumption
    <2>9. CASE e <= -Horizon
      <3>1. Age(e) = e BY <2>6, <2>9 DEF Age
      <3>2. QED BY <2>8, <2>9, <3>1 DEF ExpiryOK
    <2>10. CASE ~(e <= -Horizon)
      <3>1. Age(e) = e - 1 BY <2>6, <2>10 DEF Age
      <3>2. CASE r.dispatched_at # None /\ e <= r.dispatched_at + High + Ttl
        <4>1. r.dispatched_at \in Int BY <2>4, <3>2 DEF Row, Instant, Optional
        <4>2. AgeRow(r).dispatched_at = Age(r.dispatched_at) BY <2>4 DEF AgeRow, Row
        <4>3. /\ Age(r.dispatched_at) \in Int /\ Age(r.dispatched_at) >= r.dispatched_at - 1
              /\ Age(r.dispatched_at) # None
          BY <4>1, AgeType, ConstantsAssumption
        <4>4. e - 1 <= Age(r.dispatched_at) + High + Ttl BY <1>1, <2>7, <3>2, <4>1, <4>3
        <4>5. QED BY <2>8, <3>1, <4>2, <4>3, <4>4 DEF ExpiryOK
      <3>3. CASE Chosen(e - Ttl, r)
        <4>1. e - Ttl \in Int /\ e - 1 - Ttl \in Int /\ e - 1 - Ttl <= e - Ttl BY <2>7
        <4>2. ASSUME r.next_retry_at # None, ~Closed(r) PROVE e - 1 - Ttl <= Age(r.next_retry_at) + Slip
          <5>1. r.next_retry_at \in Int /\ e - Ttl <= r.next_retry_at + Slip
            BY <2>4, <3>3, <4>2 DEF Row, Instant, Optional, Chosen
          <5>2. Age(r.next_retry_at) \in Int /\ Age(r.next_retry_at) >= r.next_retry_at - 1
            BY <5>1, AgeType
          <5>3. QED BY <1>1, <2>7, <5>1, <5>2
        <4>3. Chosen(e - 1 - Ttl, AgeRow(r))
          <5>1. CASE Closed(r)
            <6>1. AgeRow(r).status = r.status /\ AgeRow(r).give_up_reason = r.give_up_reason
              BY <2>4 DEF AgeRow, Row
            <6>2. QED BY <5>1, <6>1 DEF Chosen, Closed
          <5>2. CASE ~Closed(r) BY <2>4, <3>3, <4>1, <4>2, <5>2, AgedChosen
          <5>3. QED BY <5>1, <5>2
        <4>4. QED BY <2>8, <3>1, <4>3 DEF ExpiryOK
      <3>4. QED BY <2>6, <2>10, <3>2, <3>3 DEF ExpiryOK
    <2>11. QED BY <2>8, <2>9, <2>10
  <1>5. QED BY <1>2, <1>3, <1>4 DEF ExpiryInv, RowsTimes, ProcsTimes, MessagesTimes

\* The inductive step of ExpiryInv
LEMMA ExpiryStep ==
    ASSUME MarginIsEnough, SamePolicies, MayStall = {}, ~Redelivers \/ KilledBeforeTakeover
    PROVE  TypeInv /\ FenceInv /\ Decided /\ TriesInv /\ ExpiryInv /\ [Next]_vars => ExpiryInv'
  <1> SUFFICES ASSUME TypeInv, FenceInv, Decided, TriesInv, ExpiryInv, [Next]_vars PROVE ExpiryInv'
    OBVIOUS
  <1>1. TypeInv' /\ FenceIsExact /\ SameLimits BY TypeInvStep, FenceExact, BoundFacts
  <1>2. CASE Tick BY <1>2, TickTimes
  <1>3. CASE ~Tick
    <2>1. RowsCount /\ RowsTimeless BY <1>1, <1>3, StepCounts
    <2>2. RowsKeep BY <2>1, RowsKeepStep DEF TriesInv, ExpiryInv
    <2>3. RowsTimes' BY <2>2 DEF RowsKeep, RowKeeps, RowsTimes
    <2>4. ProcsCarry BY <1>3, ExecuteCarries, RetryCarries, OtherCarries DEF Next
    <2>5. BrokerKeeps \/ \E p \in Procs : Send(p) BY <1>3, BrokerStep
    <2>6. ProcsTimes' BY <1>1, <2>2, <2>4, KeptTimes
    <2>7. MessagesTimes' BY <1>1, <2>2, <2>4, <2>5, KeptTimes, SendTimes
    <2>8. QED BY <2>3, <2>6, <2>7 DEF ExpiryInv
  <1>4. QED BY <1>2, <1>3

\* Nothing is chosen, stamped or sent at first.
LEMMA ExpiryInit == Init => ExpiryInv
  <1> SUFFICES ASSUME Init PROVE ExpiryInv
    OBVIOUS
  <1>1. RowTimes(AbsentRow) BY DEF AbsentRow, RowTimes
  <1>2. \A f : ProcTimes(IdleProc, f) BY DEF IdleProc, ProcTimes, EtaPCs
  <1>3. QED BY <1>1, <1>2 DEF Init, ExpiryInv, RowsTimes, ProcsTimes, MessagesTimes

\* queue_attempts.expired_message_filter(): a message the sweep takes for expired can no longer be
\* delivered, on any worker's clock, whatever was retried, swept, taken over or sent again since.
\* The recovery margin has to cover the difference between the clocks, and once more what a later
\* retry time may come before an earlier one (nothing, if delays grow by the difference, or if
\* only one failure is retried; TwiceIsEnough: the difference, if they never decrease).  Besides
\* the fence, it takes queues with the same policies and processes that are not stalled between a
\* stamp and its send.
THEOREM ExpiredIsGone ==
    ASSUME MarginIsEnough, SamePolicies, MayStall = {}, ~Redelivers \/ KilledBeforeTakeover
    PROVE  Spec => []ExpiredMessageIsGone
  <1>1. SameLimits /\ Sweepers \cap MayStall = {} BY BoundFacts
  <1>2. TypeInv /\ FenceInv /\ Decided /\ TriesInv /\ [Next]_vars => TriesInv' BY <1>1, TriesStep
  <1>3. TypeInv /\ FenceInv /\ Decided /\ TriesInv /\ ExpiryInv /\ [Next]_vars => ExpiryInv'
    BY ExpiryStep
  <1>4. TypeInv /\ Decided /\ ExpiryInv => ExpiredMessageIsGone BY ExpiryEnough
  <1>5. QED
    BY <1>2, <1>3, <1>4, TypeInvInit, TypeInvStep, LeaseInit, LeaseInvStep, FenceInit, FenceStep,
       DecidedInductive, TriesInit, ExpiryInit, PTL DEF Spec
=============================================================================
