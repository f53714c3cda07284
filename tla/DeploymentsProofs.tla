------------------------- MODULE DeploymentsProofs --------------------------
(***************************************************************************)
(* Proofs about Deployments, and the formulas of time limits and retry     *)
(* delays it uses, for every queue, policy, version and deployment.        *)
(***************************************************************************)
EXTENDS Deployments, Numbers

-----------------------------------------------------------------------------
(* Time limits *)

\* A limit is a number of at least one second, or None, which is none.
LEMMA LimitType == None \notin Int /\ Limit = (Nat \ {0}) \cup {None}
  BY DeploymentAssumption DEF Limit, Optional

\* The limits celery_kwargs may set
OptionsOK(options) == \A n \in DOMAIN options : options[n] \in Limit
QueuesOK(queues) ==
    IsFiniteSet(queues) /\ \A q \in queues : q.soft_time_limit \in Limit /\ q.time_limit \in Limit

\* The soft limits the default is compared with
SoftLimits(options, queues) ==
    {q.soft_time_limit : q \in {x \in queues : x.time_limit = None}}
        \cup {TaskAttributeLimit(options, "soft_time_limit"), ConfigLimits["soft_time_limit"]}

\* An attribute of a task is a limit.
LEMMA AttributeType ==
    ASSUME NEW options, OptionsOK(options), NEW name \in LimitNames
    PROVE  TaskAttributeLimit(options, name) \in Limit /\ ConfigLimits[name] \in Limit
  BY LimitsAssumption DEF OptionsOK, TaskAttributeLimit

\* The default hard limit is above every soft limit by the margin, and not below the timeout.
LEMMA DefaultAbove ==
    ASSUME NEW options, OptionsOK(options), NEW queues, QueuesOK(queues)
    PROVE  /\ DefaultTimeLimit(options, queues) \in Limit
           /\ HasDefaultHardLimit(options) =>
                  /\ DefaultTimeLimit(options, queues) \in Nat \ {0}
                  /\ DefaultTimeLimit(options, queues) >= StaleTimeout
                  /\ \A limit \in SoftLimits(options, queues) \ {None} :
                        DefaultTimeLimit(options, queues) >= limit + Margin
  <1> DEFINE soft == SoftLimits(options, queues)
             without == {x \in queues : x.time_limit = None}
             own == {q.soft_time_limit : q \in without}
             sums == {limit + Margin : limit \in soft \ {None}}
             all == {StaleTimeout} \cup sums
             attribute == TaskAttributeLimit(options, "soft_time_limit")
             config == ConfigLimits["soft_time_limit"]
  <1>0. attribute \in Limit /\ config \in Limit BY AttributeType DEF LimitNames
  <1>1. CASE ~HasDefaultHardLimit(options) BY <1>1 DEF DefaultTimeLimit, Limit, Optional
  <1>2. CASE HasDefaultHardLimit(options)
    <2>1. DefaultTimeLimit(options, queues) = Max(all) BY <1>2 DEF DefaultTimeLimit, SoftLimits
    <2>2. soft = own \cup {attribute, config} BY DEF SoftLimits
    <2>3. soft \subseteq Limit BY <1>0 DEF SoftLimits, QueuesOK
    <2>4. IsFiniteSet(own)
      <3>1. IsFiniteSet(without) BY FS_Subset DEF QueuesOK
      <3> DEFINE f == [q \in without |-> q.soft_time_limit]
      <3>2. f \in Surjection(without, own) BY DEF Surjection
      <3> HIDE DEF f
      <3>3. QED BY <3>1, <3>2, FS_Surjection
    <2> HIDE DEF soft, own, attribute, config
    <2>5. IsFiniteSet(soft)
      <3>1. IsFiniteSet(own \cup {attribute}) BY <2>4, FS_AddElement
      <3>2. IsFiniteSet((own \cup {attribute}) \cup {config}) BY <3>1, FS_AddElement
      <3>3. (own \cup {attribute}) \cup {config} = soft BY <2>2
      <3>4. QED BY <3>2, <3>3
    <2>6. IsFiniteSet(sums)
      <3>1. IsFiniteSet(soft \ {None}) BY <2>5, FS_Subset
      <3> DEFINE f == [limit \in soft \ {None} |-> limit + Margin]
      <3>2. f \in Surjection(soft \ {None}, sums) BY DEF Surjection
      <3> HIDE DEF f, sums
      <3>3. QED BY <3>1, <3>2, FS_Surjection
    <2>7. IsFiniteSet(all)
      <3>1. IsFiniteSet(sums \cup {StaleTimeout}) BY <2>6, FS_AddElement
      <3>2. sums \cup {StaleTimeout} = all OBVIOUS
      <3>3. QED BY <3>1, <3>2
    <2>8. StaleTimeout \in Nat \ {0} BY <1>2, LimitType, DeploymentAssumption DEF HasDefaultHardLimit
    <2>9. all \subseteq Nat \ {0} /\ all # {}
      <3>1. \A limit \in soft \ {None} : limit \in Nat \ {0} BY <2>3, LimitType
      <3>2. QED BY <2>8, <3>1, DeploymentAssumption
    <2> HIDE DEF all
    <2>10. PICK x \in all : \A y \in all : y <= x
      <3>1. all \subseteq Int BY <2>9
      <3>2. QED BY <2>7, <2>9, <3>1, GreatestInt
    <2>11. \A y \in all : x >= y BY <2>9, <2>10
    <2>12. Max(all) \in all /\ \A y \in all : Max(all) >= y BY <2>11 DEF Max
    <2>13. StaleTimeout \in all /\ \A limit \in soft \ {None} : limit + Margin \in all BY DEF all
    <2>14. Max(all) \in Nat \ {0} BY <2>9, <2>12
    <2>15. Max(all) \in Limit BY <2>14, LimitType
    <2>16. QED BY <2>1, <2>12, <2>13, <2>14, <2>15 DEF soft
  <1>3. QED BY <1>1, <1>2

\* The limits of a task are limits.
LEMMA TaskLimitTypes ==
    ASSUME NEW options, OptionsOK(options), NEW queues, QueuesOK(queues)
    PROVE  /\ TaskSoftAttribute(options) \in Limit /\ TaskHardAttribute(options, queues) \in Limit
           /\ TaskSoftLimit(options) \in Limit /\ TaskHardLimit(options, queues) \in Limit
  <1>1. /\ TaskAttributeLimit(options, "soft_time_limit") \in Limit /\ ConfigLimits["soft_time_limit"] \in Limit
        /\ TaskAttributeLimit(options, "time_limit") \in Limit /\ ConfigLimits["time_limit"] \in Limit
    BY AttributeType DEF LimitNames
  <1>2. DefaultTimeLimit(options, queues) \in Limit BY DefaultAbove
  <1>3. QED BY <1>1, <1>2 DEF TaskSoftLimit, TaskHardLimit, TaskSoftAttribute, TaskHardAttribute, FirstSet

\* time_limits.py, default_time_limit_options(): "stays above every soft limit".  A declaration
\* that leaves the hard limit to the default, as its queues do, is never refused, whatever its
\* soft limits are, provided the recovery margin is not 0.
THEOREM DefaultIsAccepted ==
    ASSUME NEW options, OptionsOK(options), NEW queues, QueuesOK(queues), Margin > 0,
           HasDefaultHardLimit(options), \A q \in queues : q.time_limit = None
    PROVE  CheckTimeLimits(options, queues)
  <1> DEFINE default == DefaultTimeLimit(options, queues)
  <1>1. /\ default \in Nat \ {0}
        /\ \A limit \in SoftLimits(options, queues) \ {None} : default >= limit + Margin
    BY DefaultAbove
  <1>2. TaskAttributeLimit(options, "time_limit") = None BY DEF HasDefaultHardLimit
  <1>3. TaskHardLimit(options, queues) = default
    BY <1>1, <1>2, LimitType DEF TaskHardLimit, TaskHardAttribute, FirstSet
  <1>4. TaskSoftLimit(options) \in SoftLimits(options, queues)
    BY DEF TaskSoftLimit, TaskSoftAttribute, FirstSet, SoftLimits
  <1>5. SoftLimits(options, queues) \subseteq Limit
    BY AttributeType DEF SoftLimits, QueuesOK, LimitNames
  <1> HIDE DEF default
  <1>6. ASSUME NEW soft \in SoftLimits(options, queues) PROVE SoftBelowHard(soft, default)
    <2>1. CASE soft = None BY <2>1 DEF SoftBelowHard
    <2>2. CASE soft # None
      <3>1. soft \in Nat /\ Margin \in Nat BY <1>5, <2>2, LimitType, DeploymentAssumption
      <3>2. default >= soft + Margin BY <1>1, <2>2
      <3>3. soft < default BY <1>1, <3>1, <3>2
      <3>4. QED BY <3>3 DEF SoftBelowHard
    <2>3. QED BY <2>1, <2>2
  <1>7. ASSUME NEW q \in queues
        PROVE  SoftBelowHard(FirstSet(q.soft_time_limit, TaskSoftLimit(options)),
                             FirstSet(q.time_limit, TaskHardLimit(options, queues)))
    <2>1. FirstSet(q.time_limit, TaskHardLimit(options, queues)) = default BY <1>3 DEF FirstSet
    <2>2. q.soft_time_limit \in SoftLimits(options, queues) BY DEF SoftLimits
    <2>3. FirstSet(q.soft_time_limit, TaskSoftLimit(options)) \in SoftLimits(options, queues)
      BY <1>4, <2>2 DEF FirstSet
    <2>4. QED BY <1>6, <2>1, <2>3
  <1>8. QED BY <1>3, <1>4, <1>6, <1>7 DEF CheckTimeLimits

\* The pool kills at the hard limit at the earliest, and at it if the soft limit is below.
LEMMA KilledType ==
    ASSUME NEW soft \in Limit, NEW hard \in Limit
    PROVE  /\ KilledAfter(soft, hard) \in Limit
           /\ KilledAfter(soft, hard) = None <=> hard = None
           /\ SoftBelowHard(soft, hard) => KilledAfter(soft, hard) = hard
  <1>1. CASE hard = None BY <1>1 DEF KilledAfter
  <1>2. CASE hard # None /\ soft = None BY <1>2 DEF KilledAfter
  <1>3. CASE hard # None /\ soft # None
    <2>1. soft \in Nat \ {0} /\ hard \in Nat \ {0} BY <1>3, LimitType
    <2>2. \E x \in {soft, hard} : \A y \in {soft, hard} : x >= y BY <2>1
    <2>3. Max({soft, hard}) \in {soft, hard} /\ \A y \in {soft, hard} : Max({soft, hard}) >= y
      BY <2>2 DEF Max
    <2> DEFINE max == Max({soft, hard})
    <2>4. KilledAfter(soft, hard) = max BY <1>3 DEF KilledAfter
    <2> HIDE DEF max
    <2>5. max \in {soft, hard} /\ max >= hard BY <2>3 DEF max
    <2>6. max \in Limit /\ max # None BY <1>3, <2>5
    <2>7. soft < hard => max = hard BY <2>1, <2>5
    <2>8. QED BY <1>3, <2>4, <2>6, <2>7 DEF SoftBelowHard
  <1>4. QED BY <1>1, <1>2, <1>3

\* The names of a version
LEMMA VersionFacts ==
    ASSUME NEW v \in Versions
    PROVE  /\ Defined(v) \subseteq Names /\ \A q \in Defined(v) : Policy(v, q) \in Queue
           /\ TaskQueueNames(v) \subseteq Defined(v) /\ CurrentQueue(v) \in Defined(v)
           /\ OptionsOK(Code[v].options) /\ QueuesOK(TaskQueues(v))
           /\ Code[v].matches \subseteq Attempts
  <1>1. /\ \A q \in DOMAIN Code[v].queues : q \in Names /\ Code[v].queues[q] \in Queue
        /\ Code[v].live \in DOMAIN Code[v].queues
        /\ Code[v].backfill \in DOMAIN Code[v].queues \cup {None}
        /\ \A n \in DOMAIN Code[v].options : Code[v].options[n] \in Limit
        /\ Code[v].matches \subseteq Attempts
    BY DeploymentAssumption DEF Optional
  <1>2. Defined(v) \subseteq Names /\ \A q \in Defined(v) : Policy(v, q) \in Queue
    BY <1>1 DEF Defined, Policy
  <1>3. TaskQueueNames(v) \subseteq Defined(v) /\ CurrentQueue(v) \in Defined(v)
    BY <1>1 DEF Defined, TaskQueueNames, CurrentQueue, FirstSet
  <1>4. OptionsOK(Code[v].options) BY <1>1 DEF OptionsOK
  <1>5. IsFiniteSet(TaskQueues(v))
    <2>1. IsFiniteSet({Code[v].live}) BY FS_Singleton
    <2>2. IsFiniteSet({Code[v].live} \cup {Code[v].backfill}) BY <2>1, FS_AddElement
    <2>3. TaskQueueNames(v) \subseteq {Code[v].live} \cup {Code[v].backfill} BY DEF TaskQueueNames
    <2>4. IsFiniteSet(TaskQueueNames(v)) BY <2>2, <2>3, FS_Subset
    <2> DEFINE f == [q \in TaskQueueNames(v) |-> Policy(v, q)]
    <2>5. f \in Surjection(TaskQueueNames(v), TaskQueues(v)) BY DEF Surjection, TaskQueues
    <2> HIDE DEF f
    <2>6. QED BY <2>4, <2>5, FS_Surjection
  <1>6. \A q \in TaskQueues(v) : q.soft_time_limit \in Limit /\ q.time_limit \in Limit
    BY <1>2, <1>3 DEF TaskQueues, Queue
  <1>7. QED BY <1>1, <1>2, <1>3, <1>4, <1>5, <1>6 DEF QueuesOK

\* The limits a version gives its messages and the messages of others are limits.
LEMMA VersionLimits ==
    ASSUME NEW v \in Versions
    PROVE  /\ SoftAttributeOf[v] \in Limit /\ HardAttributeOf[v] \in Limit
           /\ SoftLimitOf[v] \in Limit /\ HardLimitOf[v] \in Limit
  <1>1. OptionsOK(Code[v].options) /\ QueuesOK(TaskQueues(v)) BY VersionFacts
  <1>2. QED BY <1>1, TaskLimitTypes DEF SoftAttributeOf, HardAttributeOf, SoftLimitOf, HardLimitOf

\* Of two limits that some version declares together the soft one is below the hard one.
LEMMA AcceptedBelow ==
    ASSUME NEW soft, NEW hard, <<soft, hard>> \in AcceptedLimits
    PROVE  SoftBelowHard(soft, hard)
  <1>1. PICK v \in Declarable : \E q \in TaskQueues(v) :
            <<soft, hard>> = <<FirstSet(q.soft_time_limit, SoftLimitOf[v]),
                               CurrentTimeLimit(q.time_limit, HardLimitOf[v])>>
    BY DEF AcceptedLimits
  <1>2. v \in Versions /\ CheckTimeLimits(Code[v].options, TaskQueues(v)) BY DEF Declarable
  <1>3. /\ SoftLimitOf[v] = TaskSoftLimit(Code[v].options)
        /\ HardLimitOf[v] = TaskHardLimit(Code[v].options, TaskQueues(v))
    BY <1>2 DEF SoftLimitOf, HardLimitOf
  <1>4. \A q \in TaskQueues(v) : SoftBelowHard(FirstSet(q.soft_time_limit, SoftLimitOf[v]),
                                                FirstSet(q.time_limit, HardLimitOf[v]))
    BY <1>2, <1>3 DEF CheckTimeLimits
  <1>5. QED BY <1>1, <1>4 DEF CurrentTimeLimit

\* queue_executor.py, utils.py: which executions ClaimsAreKept is about.  A message to a queue of
\* the sender's task runs under limits that are declared together if the worker has the
\* sender's version, and under any worker if the sender gave the message both limits.
THEOREM SentLimitsAreDeclared ==
    ASSUME NEW v \in Declarable, NEW q \in TaskQueueNames(v), NEW w \in Versions,
           NEW soft, soft = FirstSet(Policy(v, q).soft_time_limit, SoftAttributeOf[v]),
           NEW hard, hard = FirstSet(Policy(v, q).time_limit, HardAttributeOf[v]),
           w = v \/ (soft # None /\ hard # None)
    PROVE  <<FirstSet(soft, SoftLimitOf[w]), CurrentTimeLimit(hard, HardLimitOf[w])>> \in AcceptedLimits
  <1>1. v \in Versions /\ Policy(v, q) \in TaskQueues(v) BY DEF Declarable, TaskQueues
  <1>2. /\ SoftLimitOf[v] = FirstSet(SoftAttributeOf[v], ConfigLimits["soft_time_limit"])
        /\ HardLimitOf[v] = FirstSet(HardAttributeOf[v], ConfigLimits["time_limit"])
    BY <1>1 DEF SoftLimitOf, HardLimitOf, SoftAttributeOf, HardAttributeOf, TaskSoftLimit, TaskHardLimit
  <1>3. /\ FirstSet(soft, SoftLimitOf[w]) = FirstSet(Policy(v, q).soft_time_limit, SoftLimitOf[v])
        /\ CurrentTimeLimit(hard, HardLimitOf[w]) = CurrentTimeLimit(Policy(v, q).time_limit, HardLimitOf[v])
    BY <1>2 DEF FirstSet, CurrentTimeLimit
  <1>4. QED BY <1>1, <1>3 DEF AcceptedLimits

-----------------------------------------------------------------------------
(* Retry delays *)

IsPower(f, base, n) == f = [k \in 0..n |-> IF k = 0 THEN 1 ELSE base * f[k - 1]]

\* The recursive definition of a power defines a function.
LEMMA PowerExists ==
    ASSUME NEW base \in Nat, NEW N \in Nat
    PROVE  \E f : IsPower(f, base, N)
  <1> DEFINE S == {n \in 0..N : \E f : IsPower(f, base, n)}
  <1>1. 0 \in S
    <2> DEFINE f == [k \in 0..0 |-> 1]
    <2>1. \A k \in 0..0 : k = 0 OBVIOUS
    <2>2. IsPower(f, base, 0) BY <2>1 DEF IsPower
    <2>3. QED BY <2>2
  <1>2. ASSUME NEW n \in 1..N, n - 1 \in S PROVE n \in S
    <2>1. PICK g : IsPower(g, base, n - 1) BY <1>2
    <2> DEFINE f == [k \in 0..n |-> IF k = n THEN base * g[n - 1] ELSE g[k]]
    <2>2. n \in Nat /\ n # 0 /\ n - 1 \in 0..(n - 1) OBVIOUS
    <2>3. \A k \in 0..(n - 1) : g[k] = IF k = 0 THEN 1 ELSE base * g[k - 1] BY <2>1 DEF IsPower
    <2>4. \A k \in 0..(n - 1) : k \in 0..n /\ k # n /\ f[k] = g[k] BY <2>2
    <2>5. f[n] = base * g[n - 1] BY <2>2
    <2> HIDE DEF f
    <2>6. ASSUME NEW k \in 0..n PROVE f[k] = IF k = 0 THEN 1 ELSE base * f[k - 1]
      <3>1. CASE k = n
        <4>1. f[k - 1] = g[n - 1] BY <3>1, <2>2, <2>4
        <4>2. QED BY <4>1, <3>1, <2>2, <2>5
      <3>2. CASE k # n /\ k # 0
        <4>1. k \in 0..(n - 1) /\ k - 1 \in 0..(n - 1) BY <3>2, <2>2
        <4>2. QED BY <4>1, <3>2, <2>3, <2>4
      <3>3. CASE k # n /\ k = 0
        <4>1. k \in 0..(n - 1) BY <3>3, <2>2
        <4>2. QED BY <4>1, <3>3, <2>3, <2>4
      <3>4. QED BY <3>1, <3>2, <3>3
    <2>7. f = [k \in 0..n |-> f[k]] BY DEF f
    <2>8. IsPower(f, base, n) BY <2>6, <2>7 DEF IsPower
    <2>9. QED BY <2>8
  <1> HIDE DEF S
  <1>3. N \in S BY <1>1, <1>2, Count
  <1>4. QED BY <1>3 DEF S

\* Two such functions agree where both are defined, and are positive.
LEMMA PowersAgree ==
    ASSUME NEW base \in Nat \ {0}, NEW N \in Nat, NEW M \in Nat, N <= M, NEW f, NEW g,
           IsPower(f, base, N), IsPower(g, base, M)
    PROVE  f[N] = g[N] /\ f[N] \in Nat \ {0}
  <1> DEFINE S == {n \in 0..N : f[n] = g[n] /\ f[n] \in Nat \ {0}}
  <1>1. /\ \A k \in 0..N : f[k] = IF k = 0 THEN 1 ELSE base * f[k - 1]
        /\ \A k \in 0..M : g[k] = IF k = 0 THEN 1 ELSE base * g[k - 1]
    BY DEF IsPower
  <1>2. 0 \in S
    <2>1. f[0] = 1 /\ g[0] = 1 BY <1>1
    <2>2. QED BY <2>1
  <1>3. ASSUME NEW n \in 1..N, n - 1 \in S PROVE n \in S
    <2>1. f[n] = base * f[n - 1] /\ g[n] = base * g[n - 1] BY <1>1
    <2>2. f[n - 1] = g[n - 1] /\ f[n - 1] \in Nat \ {0} BY <1>3
    <2>3. \A x \in Nat \ {0} : base * x \in Nat \ {0} OBVIOUS
    <2>4. base * f[n - 1] \in Nat \ {0} BY <2>2, <2>3
    <2>5. QED BY <2>1, <2>2, <2>4
  <1> HIDE DEF S
  <1>4. N \in S BY <1>2, <1>3, Count
  <1>5. QED BY <1>4 DEF S

\* base ** n
LEMMA PowerFacts ==
    ASSUME NEW base \in Nat \ {0}, NEW n \in Nat
    PROVE  /\ Power(base, n) \in Nat \ {0}
           /\ Power(base, 0) = 1
           /\ Power(base, n + 1) = base * Power(base, n)
  <1> DEFINE f(k) == CHOOSE g : IsPower(g, base, k)
  <1>1. \A k \in Nat : Power(base, k) = f(k)[k] BY Zenon DEF Power, IsPower
  <1>2. \A k \in Nat : IsPower(f(k), base, k) BY PowerExists
  <1> HIDE DEF f
  <1>3. n + 1 \in Nat /\ 0 \in Nat /\ n <= n + 1 OBVIOUS
  <1>4. f(n)[n] = f(n + 1)[n] /\ f(n)[n] \in Nat \ {0} BY <1>2, <1>3, PowersAgree
  <1>5. f(n + 1)[n + 1] = base * f(n + 1)[n]
    <2>1. \A k \in 0..(n + 1) : f(n + 1)[k] = IF k = 0 THEN 1 ELSE base * f(n + 1)[k - 1]
      BY <1>2, <1>3 DEF IsPower
    <2>2. n + 1 \in 0..(n + 1) /\ n + 1 # 0 /\ (n + 1) - 1 = n OBVIOUS
    <2>3. QED BY <2>1, <2>2
  <1>6. f(0)[0] = 1
    <2>1. \A k \in 0..0 : f(0)[k] = IF k = 0 THEN 1 ELSE base * f(0)[k - 1] BY <1>2, <1>3 DEF IsPower
    <2>2. QED BY <2>1
  <1>7. QED BY <1>1, <1>3, <1>4, <1>5, <1>6

\* Products grow with their factors.
LEMMA ProductGrows ==
    /\ \A m \in Nat \ {0}, x \in Nat : m * x \in Nat /\ x <= m * x
    /\ \A m \in Nat, x \in Nat, y \in Nat : x <= y => m * x <= m * y
  <1>1. ASSUME NEW m \in Nat \ {0}, NEW x \in Nat PROVE m * x \in Nat /\ x <= m * x
    <2>1. m * x = x + (m - 1) * x OBVIOUS
    <2>2. (m - 1) * x \in Nat OBVIOUS
    <2>3. QED BY <2>1, <2>2
  <1>2. ASSUME NEW m \in Nat, NEW x \in Nat, NEW y \in Nat, x <= y PROVE m * x <= m * y
    <2>1. m * y = m * x + m * (y - x) OBVIOUS
    <2>2. m * (y - x) \in Nat /\ m * x \in Nat
      <3>1. y - x \in Nat BY <1>2
      <3>2. QED BY <3>1
    <2>3. QED BY <2>1, <2>2
  <1>3. QED BY <1>1, <1>2

\* The exponential phase without its overflow never decreases.
LEMMA FactorGrows ==
    ASSUME NEW p \in RetryPolicy, NEW n \in Nat, p.fast_retry_attempts < n
    PROVE  LET x == Power(p.backoff_multiplier, n - p.fast_retry_attempts - 1)
               y == Power(p.backoff_multiplier, (n + 1) - p.fast_retry_attempts - 1)
           IN  /\ x \in Nat \ {0} /\ y \in Nat \ {0} /\ x <= y
               /\ p.backoff_start * x \in Nat /\ p.backoff_start * y \in Nat
               /\ p.backoff_start * x <= p.backoff_start * y
  <1> DEFINE k == n - p.fast_retry_attempts - 1
             start == p.backoff_start
             base == p.backoff_multiplier
             x == Power(base, k)
             y == Power(base, k + 1)
  <1>1. start \in Nat /\ base \in Nat \ {0} /\ p.fast_retry_attempts \in Nat BY DEF RetryPolicy
  <1>2. k \in Nat /\ (n + 1) - p.fast_retry_attempts - 1 = k + 1 BY <1>1
  <1> HIDE DEF k, start, base
  <1>3. x \in Nat \ {0} /\ y \in Nat \ {0} /\ y = base * x
    <2>1. base \in Nat \ {0} /\ k \in Nat /\ k + 1 \in Nat BY <1>1, <1>2
    <2>2. Power(base, k) \in Nat \ {0} /\ Power(base, k + 1) = base * Power(base, k)
      BY <2>1, PowerFacts
    <2>3. Power(base, k + 1) \in Nat \ {0} BY <2>1, PowerFacts
    <2>4. QED BY <2>2, <2>3
  <1> HIDE DEF x, y
  <1>4. x <= y BY <1>1, <1>3, ProductGrows
  <1>5. start * x \in Nat /\ start * y \in Nat /\ start * x <= start * y BY <1>1, <1>3, <1>4, ProductGrows
  <1>6. QED BY <1>2, <1>3, <1>4, <1>5 DEF k, start, base, x, y

\* The delay of the exponential phase is a number; the next one is not below it, or is the cap.
LEMMA ExponentialGrows ==
    ASSUME NEW p \in RetryPolicy, NEW n \in Nat, p.fast_retry_attempts < n
    PROVE  /\ ExponentialDelay(p, n) \in Nat /\ ExponentialDelay(p, n + 1) \in Nat
           /\ \/ ExponentialDelay(p, n) <= ExponentialDelay(p, n + 1)
              \/ ExponentialDelay(p, n + 1) = p.max_delay
  <1> DEFINE start == p.backoff_start
             x == Power(p.backoff_multiplier, n - p.fast_retry_attempts - 1)
             y == Power(p.backoff_multiplier, (n + 1) - p.fast_retry_attempts - 1)
             cap == p.max_delay
  <1>1. start \in Nat /\ cap \in Nat /\ FloatMax \in Nat BY DelaysAssumption DEF RetryPolicy
  <1>2. /\ ExponentialDelay(p, n) = IF x <= FloatMax THEN start * x ELSE IF start # 0 THEN cap ELSE 0
        /\ ExponentialDelay(p, n + 1) = IF y <= FloatMax THEN start * y ELSE IF start # 0 THEN cap ELSE 0
    BY DEF ExponentialDelay
  <1>3. /\ x \in Nat \ {0} /\ y \in Nat \ {0} /\ x <= y
        /\ start * x \in Nat /\ start * y \in Nat /\ start * x <= start * y
    BY FactorGrows
  <1> HIDE DEF start, x, y, cap
  <1>4. start = 0 => start * x = 0 /\ start * y = 0 BY <1>1, <1>3
  <1>5. CASE y <= FloatMax
    <2>1. x <= FloatMax BY <1>1, <1>3, <1>5
    <2>2. QED BY <1>2, <1>3, <1>5, <2>1
  <1>6. CASE ~(y <= FloatMax) /\ start # 0
    <2>1. ExponentialDelay(p, n + 1) = cap BY <1>2, <1>6
    <2>2. ExponentialDelay(p, n) \in Nat BY <1>1, <1>2, <1>3
    <2>3. QED BY <1>1, <2>1, <2>2 DEF cap
  <1>7. CASE ~(y <= FloatMax) /\ start = 0
    <2>1. ExponentialDelay(p, n + 1) = 0 /\ ExponentialDelay(p, n) = 0 BY <1>2, <1>4, <1>7
    <2>2. QED BY <2>1
  <1>8. QED BY <1>5, <1>6, <1>7

\* Delays whose exponential part never decreases, or jumps to the cap, never decrease.
LEMMA StagedGrows ==
    ASSUME NEW p \in RetryPolicy, NEW n \in Nat, NEW e, NEW e2,
           p.fast_retry_attempts < n => e \in Nat /\ (e <= e2 \/ e2 = p.max_delay),
           p.fast_retry_attempts < n + 1 => e2 \in Nat
    PROVE  /\ StagedDelay(p, n, e) \in Nat
           /\ StagedDelay(p, n, e) <= StagedDelay(p, n + 1, e2)
           /\ StagedDelay(p, n, e) <= p.max_delay
  <1> DEFINE fast == p.fast_retry_delay
             last == p.fast_retry_attempts
             cap == p.max_delay
  <1>1. fast \in Nat /\ last \in Nat /\ cap \in Nat BY DEF RetryPolicy
  <1>2. /\ StagedDelay(p, n, e) = Smaller(cap, IF n <= last THEN fast ELSE Larger(fast, e))
        /\ StagedDelay(p, n + 1, e2) = Smaller(cap, IF n + 1 <= last THEN fast ELSE Larger(fast, e2))
    BY DEF StagedDelay
  <1>3. last < n => e \in Nat /\ (e <= e2 \/ e2 = cap) OBVIOUS
  <1>4. last < n + 1 => e2 \in Nat OBVIOUS
  <1> HIDE DEF fast, last
  <1>5. CASE n + 1 <= last BY <1>1, <1>2, <1>5 DEF Smaller, cap
  <1>6. CASE n <= last /\ last < n + 1 BY <1>1, <1>2, <1>4, <1>6 DEF Smaller, Larger, cap
  <1>7. CASE last < n BY <1>1, <1>2, <1>3, <1>4, <1>7 DEF Smaller, Larger, cap
  <1>8. QED BY <1>1, <1>5, <1>6, <1>7

\* README "Staged retry settings": delays never decrease from one try to the next, where the
\* fast retries end and where ** overflows included, and none exceeds max_delay; for every
\* policy of a queue and every try.
THEOREM DelaysGrow ==
    ASSUME NEW p \in RetryPolicy, NEW n \in Nat
    PROVE  /\ DelaySeconds(p, n) \in Nat
           /\ DelaySeconds(p, n) <= DelaySeconds(p, n + 1)
           /\ DelaySeconds(p, n) <= p.max_delay
  <1> DEFINE e == ExponentialDelay(p, n)
             e2 == ExponentialDelay(p, n + 1)
  <1>1. p.fast_retry_attempts < n => e \in Nat /\ (e <= e2 \/ e2 = p.max_delay) BY ExponentialGrows
  <1>2. p.fast_retry_attempts < n + 1 => e2 \in Nat
    <2>1. n + 1 \in Nat OBVIOUS
    <2>2. QED BY <2>1, ExponentialGrows
  <1> HIDE DEF e, e2
  <1>3. /\ StagedDelay(p, n, e) \in Nat
        /\ StagedDelay(p, n, e) <= StagedDelay(p, n + 1, e2)
        /\ StagedDelay(p, n, e) <= p.max_delay
    BY <1>1, <1>2, StagedGrows
  <1>4. QED BY <1>3 DEF DelaySeconds, e, e2

\* The same of the delays of the settings, for every try whose delay they can compute.
THEOREM SettingsDelaysGrow ==
    ASSUME NEW p \in RetryPolicy, NEW n \in Nat
    PROVE  /\ SettingsDelaySeconds(p, n) \in Nat
           /\ SettingsDelaySeconds(p, n) <= SettingsDelaySeconds(p, n + 1)
           /\ SettingsDelaySeconds(p, n) <= p.max_delay
  <1> DEFINE e == p.backoff_start * SettingsFactor(p, n)
             e2 == p.backoff_start * SettingsFactor(p, n + 1)
  <1>1. p.fast_retry_attempts < n => e \in Nat /\ e <= e2 BY FactorGrows DEF SettingsFactor
  <1>2. p.fast_retry_attempts < n + 1 => e2 \in Nat
    <2>1. n + 1 \in Nat OBVIOUS
    <2>2. QED BY <2>1, FactorGrows DEF SettingsFactor
  <1> HIDE DEF e, e2
  <1>3. /\ StagedDelay(p, n, e) \in Nat
        /\ StagedDelay(p, n, e) <= StagedDelay(p, n + 1, e2)
        /\ StagedDelay(p, n, e) <= p.max_delay
    BY <1>1, <1>2, StagedGrows
  <1>4. QED BY <1>3 DEF SettingsDelaySeconds, e, e2
-----------------------------------------------------------------------------
(* Rows and messages *)

\* The statuses and reasons of a row
Status == {"absent", "pending", "running", "success", "failed"}
Reasons == {"attempts", "block_age", "manual"}

\* The rows of every version: what a row may hold does not depend on the declarations.
Rows == [status: Status, celery_task_id: Optional(Slots), attempt_count: Nat,
         next_retry_at: Instant, lease_expires_at: Instant,
         dispatch_queue: Optional(Names), dispatched_at: Instant,
         give_up_at: Instant, give_up_reason: Optional(Reasons), updated_at: Int]

\* NULL and the instants of a row, NULL and the names of queues, exclude each other.
LEMMA Nullable ==
    /\ None \notin Int /\ None \notin Names
    /\ 0 \in Instant /\ None \in Instant /\ Instant = Int \cup {None}
    /\ None \in Optional(Slots) /\ Slots \subseteq Optional(Slots)
    /\ None \in Optional(Names) /\ Names \subseteq Optional(Names)
    /\ Optional(Names) \ {None} = Names
    /\ None \in Optional(Reasons) /\ Reasons \subseteq Optional(Reasons)
  BY DeploymentAssumption DEF Instant, Optional

\* The messages of one attempt
Boxes == [Slots -> Optional(Message)]

\* Every version has these rows.
LEMMA RowsOf == ASSUME NEW v PROVE P(v)!Row = Rows
  BY DEF P!Row, P!Statuses, P!GiveUpReasons, P!Instant, P!Optional, Rows, Status, Reasons, Instant, Optional

\* A retry is after a number of seconds, if there is one.
LEMMA DelayType ==
    ASSUME NEW v \in Versions, NEW q \in Names, NEW n \in Nat
    PROVE  P(v)!RetryDelayOf(q, n) \in Nat \cup {None}
  <1> DEFINE policy == IF q \in Defined(v) THEN Policy(v, q).retry ELSE Settings
             k == IF n < DelaySteps THEN n ELSE DelaySteps
  <1>1. q # None BY DeploymentAssumption
  <1>2. k \in 0..DelaySteps /\ k \in Nat BY DeploymentAssumption
  <1>3. policy \in RetryPolicy
    <2>1. q \in Defined(v) => Policy(v, q) \in Queue BY VersionFacts
    <2>2. QED BY <2>1, DeploymentAssumption DEF Queue
  <1>4. DelaysOf[v][q] = [j \in 0..DelaySteps |->
                             IF q \in Defined(v) THEN DelaySeconds(Policy(v, q).retry, j)
                             ELSE SettingsDelaySeconds(Settings, j)]
    BY DEF DelaysOf
  <1> HIDE DEF k
  <1>5. \/ policy = Policy(v, q).retry /\ DelaysOf[v][q][k] = DelaySeconds(policy, k)
        \/ policy = Settings /\ DelaysOf[v][q][k] = SettingsDelaySeconds(policy, k)
    BY <1>2, <1>4 DEF policy
  <1> HIDE DEF policy
  <1>6. DelaySeconds(policy, k) \in Nat /\ SettingsDelaySeconds(policy, k) \in Nat
    BY <1>2, <1>3, DelaysGrow, SettingsDelaysGrow
  <1>7. P(v)!RetryDelay(q, n) = DelaysOf[v][q][k] BY DEF P!RetryDelay, k
  <1>8. QED BY <1>1, <1>5, <1>6, <1>7 DEF P!RetryDelayOf

\* The fields of a row
LEMMA RowFields ==
    ASSUME NEW r \in Rows
    PROVE  /\ r.celery_task_id \in Optional(Slots) /\ r.attempt_count \in Nat
           /\ r.next_retry_at \in Instant /\ r.lease_expires_at \in Instant
           /\ r.dispatch_queue \in Optional(Names) /\ r.dispatched_at \in Instant
           /\ r.give_up_at \in Instant /\ r.updated_at \in Int
  BY DEF Rows

\* What a dispatch writes is a row on that queue.
LEMMA DispatchTypes ==
    ASSUME NEW v, NEW now \in Int, NEW r \in Rows, NEW q \in Names
    PROVE  /\ P(v)!RecordDispatchSet(r, q, now) \in Rows
           /\ P(v)!RecordDispatchSet(r, q, now).dispatch_queue = q
           /\ P(v)!RecordDispatchSet(r, q, now).status = r.status
           /\ P(v)!RequeueSet(r, q, now) \in Rows
           /\ P(v)!RequeueSet(r, q, now).dispatch_queue = q
           /\ P(v)!RequeueSet(r, q, now).status = "pending"
  BY Nullable DEF P!RecordDispatchSet, P!RequeueSet, Rows, Status

\* A row is created, reopened, reset or recovered as a pending row of the same queue.
LEMMA PendingTypes ==
    ASSUME NEW v, NEW now \in Int
    PROVE  /\ P(v)!CreatedRow(now) \in Rows /\ P(v)!CreatedRow(now).status = "pending"
           /\ P(v)!CreatedRow(now).dispatch_queue = None
           /\ \A r \in Rows :
                 /\ P(v)!ReopenSet(r, now) \in Rows /\ P(v)!ReopenSet(r, now).status = "pending"
                 /\ P(v)!ReopenSet(r, now).dispatch_queue = r.dispatch_queue
                 /\ P(v)!ResetToPendingSet(r, now) \in Rows /\ P(v)!ResetToPendingSet(r, now).status = "pending"
                 /\ P(v)!ResetToPendingSet(r, now).dispatch_queue = r.dispatch_queue
                 /\ P(v)!ClaimExpiredMessageSet(r, now) \in Rows
                 /\ P(v)!ClaimExpiredMessageSet(r, now).status = r.status
                 /\ P(v)!ClaimExpiredMessageSet(r, now).dispatch_queue = r.dispatch_queue
  <1>1. /\ P(v)!CreatedRow(now) \in Rows /\ P(v)!CreatedRow(now).status = "pending"
        /\ P(v)!CreatedRow(now).dispatch_queue = None
    BY Nullable DEF P!CreatedRow, P!AbsentRow, Rows, Status
  <1>2. ASSUME NEW r \in Rows
        PROVE  /\ P(v)!ReopenSet(r, now) \in Rows /\ P(v)!ReopenSet(r, now).status = "pending"
               /\ P(v)!ReopenSet(r, now).dispatch_queue = r.dispatch_queue
    BY Nullable DEF P!ReopenSet, Rows, Status
  <1>3. ASSUME NEW r \in Rows
        PROVE  /\ P(v)!ResetToPendingSet(r, now) \in Rows /\ P(v)!ResetToPendingSet(r, now).status = "pending"
               /\ P(v)!ResetToPendingSet(r, now).dispatch_queue = r.dispatch_queue
    BY Nullable DEF P!ResetToPendingSet, Rows, Status
  <1>4. ASSUME NEW r \in Rows
        PROVE  /\ P(v)!ClaimExpiredMessageSet(r, now) \in Rows
               /\ P(v)!ClaimExpiredMessageSet(r, now).status = r.status
               /\ P(v)!ClaimExpiredMessageSet(r, now).dispatch_queue = r.dispatch_queue
    BY Nullable DEF P!ClaimExpiredMessageSet, Rows, Status
  <1>5. QED BY <1>1, <1>2, <1>3, <1>4

\* A success is a row of the same queue.
LEMMA SuccessTypes ==
    ASSUME NEW v, NEW now \in Int, NEW r \in Rows
    PROVE  /\ P(v)!FinishSuccessSet(r, now) \in Rows
           /\ P(v)!FinishSuccessSet(r, now).status = "success"
           /\ P(v)!FinishSuccessSet(r, now).dispatch_queue = r.dispatch_queue
  BY Nullable DEF P!FinishSuccessSet, Rows, Status

\* So is a failure, with or without a retry.
LEMMA FailureTypes ==
    ASSUME NEW v, NEW now \in Int, NEW r \in Rows, NEW delay \in Nat \cup {None}
    PROVE  /\ P(v)!FailureSet(r, delay, now) \in Rows
           /\ P(v)!FailureSet(r, delay, now).status = "failed"
           /\ P(v)!FailureSet(r, delay, now).dispatch_queue = r.dispatch_queue
  <1> DEFINE too_late == delay # None /\ P(v)!Before(r.give_up_at, delay)
             retry == IF delay = None \/ too_late THEN None ELSE now + delay
             reason == IF delay = None THEN "attempts" ELSE IF too_late THEN "block_age" ELSE None
  <1>1. retry \in Instant BY Nullable
  <1>2. reason \in Optional(Reasons) BY Nullable DEF Reasons
  <1>3. P(v)!FailureSet(r, delay, now) =
          [r EXCEPT !.status = "failed", !.lease_expires_at = None, !.updated_at = now,
                    !.next_retry_at = retry, !.give_up_reason = reason]
    BY DEF P!FailureSet
  <1> HIDE DEF retry, reason
  <1>4. /\ P(v)!FailureSet(r, delay, now).status = "failed"
        /\ P(v)!FailureSet(r, delay, now).dispatch_queue = r.dispatch_queue
    BY <1>3 DEF Rows
  <1>5. None \in Instant /\ now \in Instant BY Nullable
  <1>6. P(v)!FailureSet(r, delay, now) \in Rows BY <1>1, <1>2, <1>3, <1>5 DEF Rows, Status
  <1>7. QED BY <1>4, <1>6

\* A claim writes the token and the lease.
LEMMA ClaimTypes ==
    ASSUME NEW v, NEW now \in Int, NEW r \in Rows, NEW m \in Slots, NEW hard \in Limit
    PROVE  LET claimed == P(v)!ClaimSet(r, m, hard, now)
           IN  /\ claimed \in Rows /\ claimed.status = "running" /\ claimed.celery_task_id = m
               /\ claimed.dispatch_queue = r.dispatch_queue
               /\ hard # None => claimed.lease_expires_at = hard + Margin
  <1> DEFINE lease == P(v)!LeaseSeconds(hard)
  <1>1. lease \in Instant /\ (hard # None => lease = hard + Margin)
    <2>1. hard # None => hard \in Nat \ {0} /\ hard + Margin \in Int /\ Margin \in Nat
      BY LimitType, DeploymentAssumption
    <2>2. StaleTimeout \in Instant BY LimitType, Nullable, DeploymentAssumption
    <2>3. QED BY <2>1, <2>2, Nullable DEF P!LeaseSeconds
  <1>2. P(v)!ClaimSet(r, m, hard, now) =
          [r EXCEPT !.status = "running", !.attempt_count = r.attempt_count + 1, !.celery_task_id = m,
                    !.lease_expires_at = lease, !.updated_at = now]
    BY DEF P!ClaimSet
  <1>3. r.attempt_count + 1 \in Nat BY RowFields
  <1> HIDE DEF lease
  <1>4. m \in Optional(Slots) /\ now \in Instant BY Nullable
  <1> DEFINE claimed == P(v)!ClaimSet(r, m, hard, now)
  <1>5. /\ claimed.status = "running" /\ claimed.celery_task_id = m
        /\ claimed.dispatch_queue = r.dispatch_queue /\ claimed.lease_expires_at = lease
    BY <1>2 DEF Rows
  <1>6. claimed \in Rows BY <1>1, <1>2, <1>3, <1>4 DEF Rows, Status
  <1>7. QED BY <1>1, <1>5, <1>6

\* A row is one second older.
LEMMA AgeTypes ==
    ASSUME NEW v, NEW r \in Rows
    PROVE  /\ P(v)!AgeRow(r) \in Rows /\ P(v)!AgeRow(r).status = r.status
           /\ P(v)!AgeRow(r).celery_task_id = r.celery_task_id
           /\ P(v)!AgeRow(r).dispatch_queue = r.dispatch_queue
           /\ r.lease_expires_at # None =>
                 /\ P(v)!AgeRow(r).lease_expires_at # None
                 /\ P(v)!AgeRow(r).lease_expires_at >= r.lease_expires_at - 1
  <1>1. /\ \A t \in Instant : P(v)!Age(t) \in Instant
        /\ \A t \in Int : P(v)!Age(t) \in Int /\ P(v)!Age(t) >= t - 1
    BY Nullable, DeploymentAssumption DEF P!Age
  <1>2. P(v)!AgeRow(r) =
          [r EXCEPT !.next_retry_at = P(v)!Age(r.next_retry_at),
                    !.lease_expires_at = P(v)!Age(r.lease_expires_at),
                    !.dispatched_at = P(v)!Age(r.dispatched_at),
                    !.give_up_at = P(v)!Age(r.give_up_at), !.updated_at = P(v)!Age(r.updated_at)]
    BY DEF P!AgeRow
  <1>3. /\ P(v)!Age(r.next_retry_at) \in Instant /\ P(v)!Age(r.lease_expires_at) \in Instant
        /\ P(v)!Age(r.dispatched_at) \in Instant /\ P(v)!Age(r.give_up_at) \in Instant
        /\ P(v)!Age(r.updated_at) \in Int
    BY <1>1, RowFields
  <1>4. r.lease_expires_at # None => /\ P(v)!Age(r.lease_expires_at) # None
                                     /\ P(v)!Age(r.lease_expires_at) >= r.lease_expires_at - 1
    <2>1. r.lease_expires_at # None => r.lease_expires_at \in Int BY RowFields, Nullable
    <2>2. \A t \in Int : t # None BY Nullable
    <2>3. QED BY <1>1, <2>1, <2>2
  <1>5. P(v)!AgeRow(r) \in Rows BY <1>2, <1>3 DEF Rows
  <1>6. P(v)!AgeRow(r).lease_expires_at = P(v)!Age(r.lease_expires_at) BY <1>2 DEF Rows
  <1>7. QED BY <1>2, <1>4, <1>5, <1>6 DEF Rows
-----------------------------------------------------------------------------
(* An attempt: its row and its messages *)

\* The executions that must keep their claim: declared, and with an end
Claims(x) == x # None /\ x.running /\ x.declared /\ x.left # None

\* Such an execution holds the row, under a lease that the margin separates from its end, and
\* the pool is not further behind than it may be.
Holds(r, m, x) ==
    /\ r.status = "running" /\ r.celery_task_id = m
    /\ r.lease_expires_at # None /\ r.lease_expires_at >= x.left + Margin
    /\ x.left >= -KillDelay

\* A row without a claim to keep is a row that exists on a queue, or none at all.
RowOK(r) ==
    /\ r \in Rows
    /\ r.status = "absent" => r.dispatch_queue = None
    /\ r.status # "absent" => r.dispatch_queue \in Names

\* The inductive invariant, for one attempt
AttemptOK(r, ms) ==
    /\ RowOK(r) /\ ms \in Boxes
    /\ \A m \in Slots : Claims(ms[m]) => Holds(r, m, ms[m])

\* A step of version v leaves the attempt on its queue, or that queue is not v's.
Kept(v, r, r2) ==
    r2.dispatch_queue # r.dispatch_queue /\ r.dispatch_queue # None => r.dispatch_queue \notin Defined(v)

\* Messages that a step adds or ends leave the claims there are.
NoNewClaims(ms, ms2) == ms2 \in Boxes /\ \A m \in Slots : Claims(ms2[m]) => ms2[m] = ms[m]

\* If the row has not changed, or no claim was left, nothing else has to be shown of a step.
LEMMA StillOK ==
    ASSUME NEW r, NEW ms, AttemptOK(r, ms), NEW r2, RowOK(r2), NEW ms2, NoNewClaims(ms, ms2),
           r2 = r \/ \A m \in Slots : ~Claims(ms2[m])
    PROVE  AttemptOK(r2, ms2)
  <1>1. ASSUME NEW m \in Slots, Claims(ms2[m]) PROVE Holds(r2, m, ms2[m])
    <2>1. r2 = r /\ ms2[m] = ms[m] BY <1>1 DEF NoNewClaims
    <2>2. Claims(ms[m]) BY <1>1, <2>1
    <2>3. QED BY <2>1, <2>2 DEF AttemptOK
  <1>2. QED BY <1>1 DEF AttemptOK, NoNewClaims

\* A row that is not running has no claims.
LEMMA NoClaims ==
    ASSUME NEW r, NEW ms, AttemptOK(r, ms), r.status # "running"
    PROVE  \A m \in Slots : ~Claims(ms[m])
  BY DEF AttemptOK, Holds

\* Taking messages out adds no claims.
LEMMA TakeOut ==
    ASSUME NEW ms \in Boxes, NEW m \in Slots
    PROVE  NoNewClaims(ms, ms) /\ NoNewClaims(ms, [ms EXCEPT ![m] = None])
  <1>1. None \in Optional(Message) BY DEF Optional
  <1>2. [ms EXCEPT ![m] = None] \in Boxes BY <1>1 DEF Boxes
  <1>3. \A n \in Slots : [ms EXCEPT ![m] = None][n] = IF n = m THEN None ELSE ms[n] BY DEF Boxes
  <1>4. ~Claims(None) BY DEF Claims
  <1>5. QED BY <1>2, <1>3, <1>4 DEF NoNewClaims

\* apply_async() adds a message that has not started.
LEMMA EnqueuedFacts ==
    ASSUME NEW v \in Versions, NEW r \in Rows, NEW ms \in Boxes, NEW q \in Defined(v)
    PROVE  NoNewClaims(ms, Enqueued(v, r, ms, q))
  <1> DEFINE free == {m \in Slots : ms[m] = None /\ r.celery_task_id # m}
             eta == r.next_retry_at
             wait == IF eta = None THEN 0 ELSE Larger(0, eta)
             expires == P(v)!MessageExpiry(q, eta, 0)
             soft == FirstSet(Policy(v, q).soft_time_limit, SoftAttributeOf[v])
             hard == FirstSet(Policy(v, q).time_limit, HardAttributeOf[v])
             sent == [running |-> FALSE, queue |-> q, left |-> None, declared |-> FALSE,
                      soft |-> soft, hard |-> hard, wait |-> wait, expires |-> expires]
  <1>1. Enqueued(v, r, ms, q) = IF free = {} THEN ms ELSE [ms EXCEPT ![Min(free)] = sent]
    BY DEF Enqueued
  <1>2. q \in Names /\ Policy(v, q) \in Queue BY VersionFacts
  <1>3. /\ Policy(v, q).soft_time_limit \in Limit /\ Policy(v, q).time_limit \in Limit
        /\ Policy(v, q).message_ttl \in Limit /\ soft \in Limit /\ hard \in Limit
    BY <1>2, VersionLimits DEF Queue, FirstSet
  <1>4. eta \in Instant /\ (eta # None => eta \in Int) BY RowFields, Nullable
  <1>5. wait \in Nat BY <1>4 DEF Larger
  <1>6. expires \in Instant
    <2>1. TtlsOf[v][q] = Policy(v, q).message_ttl BY <1>2 DEF TtlsOf
    <2>2. TtlsOf[v][q] # None => TtlsOf[v][q] \in Int BY <1>3, <2>1, LimitType
    <2> DEFINE from == IF eta # None /\ eta > 0 THEN eta ELSE 0
    <2>3. from \in Int BY <1>4
    <2>4. expires = IF TtlsOf[v][q] = None THEN None ELSE from + TtlsOf[v][q] BY DEF P!MessageExpiry
    <2> HIDE DEF from, expires
    <2>5. \A x \in Int, y \in Int : x + y \in Int OBVIOUS
    <2>6. QED BY <2>2, <2>3, <2>4, <2>5, Nullable
  <1> HIDE DEF wait, expires, soft, hard
  <1>7. sent \in Message /\ ~Claims(sent)
    <2>1. None \in Instant BY Nullable
    <2>2. sent \in Message BY <1>2, <1>3, <1>5, <1>6, <2>1 DEF Message
    <2>3. QED BY <2>2 DEF Claims
  <1> HIDE DEF sent, free
  <1>8. ASSUME NEW m \in Slots PROVE NoNewClaims(ms, [ms EXCEPT ![m] = sent])
    <2>1. [ms EXCEPT ![m] = sent] \in Boxes BY <1>7 DEF Boxes, Optional
    <2>2. \A n \in Slots : [ms EXCEPT ![m] = sent][n] = IF n = m THEN sent ELSE ms[n] BY DEF Boxes
    <2>3. QED BY <1>7, <2>1, <2>2 DEF NoNewClaims
  <1>9. free # {} => Min(free) \in Slots
    <2>1. SUFFICES ASSUME free # {} PROVE Min(free) \in Slots OBVIOUS
    <2>2. free \subseteq Slots BY DEF free
    <2>3. free \subseteq Nat BY <2>2, DeploymentAssumption
    <2>4. \E x \in free : \A y \in free : x <= y BY <2>1, <2>3, LeastNat
    <2>5. Min(free) \in free BY <2>4 DEF Min
    <2>6. QED BY <2>2, <2>5
  <1>10. NoNewClaims(ms, ms) BY DEF NoNewClaims
  <1>11. QED BY <1>1, <1>8, <1>9, <1>10

\* What a dispatch of version v must yield from row r and messages without claims
Dispatched(v, r, ms, result) ==
    /\ RowOK(result.row) /\ Kept(v, r, result.row)
    /\ NoNewClaims(ms, result.msg)

\* execute() keeps the recorded queue if it is v's own.
LEMMA ExecutedFacts ==
    ASSUME NEW v \in Versions, NEW r \in Rows, r.status \in {"pending", "failed"},
           NEW ms \in Boxes, NEW named \in Defined(v)
    PROVE  Dispatched(v, r, ms, Executed(v, r, ms, named))
  <1> DEFINE q == IF r.dispatch_queue \in Defined(v) THEN r.dispatch_queue ELSE named
             opened == IF r.status = "failed" THEN P(v)!ReopenSet(r, 0) ELSE r
             recorded == P(v)!RecordDispatchSet(opened, q, 0)
  <1>1. q \in Defined(v) /\ q \in Names BY VersionFacts
  <1>2. opened \in Rows /\ opened.status = "pending"
    <2>1. 0 \in Int OBVIOUS
    <2>2. P(v)!ReopenSet(r, 0) \in Rows /\ P(v)!ReopenSet(r, 0).status = "pending"
      BY <2>1, PendingTypes, Zenon
    <2>3. QED BY <2>2
  <1>3. Executed(v, r, ms, named) = Result(recorded, Enqueued(v, recorded, ms, q)) BY DEF Executed
  <1>4. Kept(v, r, [dispatch_queue |-> q]) BY DEF Kept
  <1> HIDE DEF q, opened
  <1>5. recorded \in Rows /\ recorded.dispatch_queue = q /\ recorded.status = "pending"
    BY <1>1, <1>2, DispatchTypes
  <1> HIDE DEF recorded
  <1>6. NoNewClaims(ms, Enqueued(v, recorded, ms, q)) BY <1>1, <1>5, EnqueuedFacts
  <1>7. RowOK(recorded) BY <1>1, <1>5 DEF RowOK
  <1>8. Kept(v, r, recorded) BY <1>4, <1>5 DEF Kept
  <1>9. QED BY <1>3, <1>6, <1>7, <1>8 DEF Dispatched, Result

\* A failure leaves the attempt on its queue, and dispatch_retry() too if that queue is v's own.
LEMMA RetriedFacts ==
    ASSUME NEW v \in Versions, NEW r \in Rows, r.dispatch_queue \in Names, NEW ms \in Boxes
    PROVE  Dispatched(v, r, ms, Retried(v, r, ms))
  <1> DEFINE delay == P(v)!RetryDelayOf(r.dispatch_queue, r.attempt_count)
             failed == P(v)!FailureSet(r, delay, 0)
             q == RedispatchQueue(v, r.dispatch_queue)
             requeued == P(v)!RequeueSet(failed, q, 0)
  <1>1. delay \in Nat \cup {None}
    <2>1. r.attempt_count \in Nat BY RowFields
    <2>2. QED BY <2>1, DelayType
  <1>2. Retried(v, r, ms) = IF failed.next_retry_at = None THEN Result(failed, ms)
                            ELSE Result(requeued, Enqueued(v, requeued, ms, q))
    BY DEF Retried
  <1>3. q \in Defined(v) /\ (r.dispatch_queue \in Defined(v) => q = r.dispatch_queue)
    BY VersionFacts DEF RedispatchQueue
  <1> HIDE DEF delay, q
  <1>4. failed \in Rows /\ failed.status = "failed" /\ failed.dispatch_queue = r.dispatch_queue
    <2>1. 0 \in Int OBVIOUS
    <2>2. QED BY <1>1, <2>1, FailureTypes, Zenon
  <1> HIDE DEF failed
  <1>5. q \in Names BY <1>3, VersionFacts
  <1>6. requeued \in Rows /\ requeued.status = "pending" /\ requeued.dispatch_queue = q
    BY <1>4, <1>5, DispatchTypes
  <1> HIDE DEF requeued
  <1>7. NoNewClaims(ms, ms) /\ NoNewClaims(ms, Enqueued(v, requeued, ms, q))
    BY <1>3, <1>6, EnqueuedFacts DEF NoNewClaims
  <1>8. RowOK(failed) /\ RowOK(requeued) BY <1>4, <1>5, <1>6 DEF RowOK
  <1>9. Kept(v, r, failed) /\ Kept(v, r, requeued) BY <1>3, <1>4, <1>6 DEF Kept
  <1>10. QED BY <1>2, <1>7, <1>8, <1>9 DEF Dispatched, Result
-----------------------------------------------------------------------------
(* Steps *)

\* The inductive invariant
IInv ==
    /\ code \in [Roles -> Declarable] /\ stable \in BOOLEAN
    /\ row \in [Attempts -> Rows] /\ msg \in [Attempts -> Boxes]
    /\ \A a \in Attempts : AttemptOK(row[a], msg[a])

\* The action of QueueIsKept
QueueStep ==
    \A a \in Attempts :
        row'[a].dispatch_queue # row[a].dispatch_queue /\ row[a].dispatch_queue # None
            => \E role \in Roles : row[a].dispatch_queue \notin Defined(code[role])

\* The versions that run were declared, and each attempt satisfies the invariant.
LEMMA StateFacts ==
    ASSUME IInv
    PROVE  /\ \A role \in Roles : code[role] \in Declarable /\ code[role] \in Versions
           /\ "scheduler" \in Roles /\ "worker" \in Roles
           /\ \A a \in Attempts : /\ AttemptOK(row[a], msg[a]) /\ RowOK(row[a])
                                  /\ row[a] \in Rows /\ msg[a] \in Boxes
  BY DEF IInv, Declarable, Roles, AttemptOK, RowOK

\* A dispatch of an attempt without claims
LEMMA DispatchedOK ==
    ASSUME NEW v, NEW r0, NEW r, NEW ms, AttemptOK(r0, ms), \A m \in Slots : ~Claims(ms[m]),
           NEW result, Dispatched(v, r, ms, result)
    PROVE  AttemptOK(result.row, result.msg)
  <1>1. RowOK(result.row) /\ NoNewClaims(ms, result.msg) BY DEF Dispatched
  <1>2. \A m \in Slots : ~Claims(result.msg[m]) BY <1>1 DEF NoNewClaims
  <1>3. QED BY <1>1, <1>2, StillOK

\* Steps on one attempt
LEMMA SetKeeps ==
    ASSUME IInv, NEW a \in Attempts, NEW r, NEW ms, AttemptOK(r, ms), Set(a, r, ms),
           NEW role \in Roles, Kept(code[role], row[a], r), UNCHANGED <<code, stable>>
    PROVE  IInv' /\ QueueStep
  <1>1. r \in Rows /\ ms \in Boxes BY DEF AttemptOK, RowOK
  <1>2. row' = [row EXCEPT ![a] = r] /\ msg' = [msg EXCEPT ![a] = ms] BY DEF Set
  <1>3. row \in [Attempts -> Rows] /\ msg \in [Attempts -> Boxes] BY DEF IInv
  <1>4. row' \in [Attempts -> Rows] /\ msg' \in [Attempts -> Boxes] BY <1>1, <1>2, <1>3
  <1>5. \A b \in Attempts : /\ row'[b] = IF b = a THEN r ELSE row[b]
                            /\ msg'[b] = IF b = a THEN ms ELSE msg[b]
    BY <1>2, <1>3
  <1>6. \A b \in Attempts : AttemptOK(row'[b], msg'[b]) BY <1>5 DEF IInv
  <1>7. QueueStep BY <1>5 DEF QueueStep, Kept
  <1>8. IInv' BY <1>4, <1>6 DEF IInv
  <1>9. QED BY <1>7, <1>8

\* Submitting creates a row on a queue of the version, or keeps the row's queue.
LEMMA SubmitKeeps == ASSUME IInv, NEW a \in Attempts, Submit(a) PROVE IInv' /\ QueueStep
  <1> DEFINE v == code.scheduler
             r == IF row[a].status = "absent" THEN P(v)!CreatedRow(0) ELSE row[a]
  <1>1. v \in Versions /\ "scheduler" \in Roles /\ AttemptOK(row[a], msg[a]) /\ RowOK(row[a])
        /\ row[a] \in Rows /\ msg[a] \in Boxes
    BY StateFacts
  <1>2. PICK q \in TaskQueueNames(v) : Become(a, Executed(v, r, msg[a], q)) BY DEF Submit
  <1>3. r.status = "pending" \/ P(v)!DueAgain(r, 0) BY DEF Submit
  <1>4. q \in Defined(v) BY <1>1, VersionFacts
  <1>5. r \in Rows /\ (row[a].status = "absent" => r.status = "pending")
    <2>1. 0 \in Int OBVIOUS
    <2>2. P(v)!CreatedRow(0) \in Rows /\ P(v)!CreatedRow(0).status = "pending"
      BY <2>1, PendingTypes, Zenon
    <2>3. QED BY <1>1, <2>2
  <1>6. r.status \in {"pending", "failed"} BY <1>3 DEF P!DueAgain
  <1>7. row[a].status # "running" /\ (row[a].status # "absent" => r = row[a])
    <2>1. row[a].status # "absent" => r = row[a] OBVIOUS
    <2> HIDE DEF r
    <2>2. QED BY <1>6, <2>1
  <1> HIDE DEF r
  <1> DEFINE result == Executed(v, r, msg[a], q)
  <1>8. Dispatched(v, r, msg[a], result) BY <1>1, <1>4, <1>5, <1>6, ExecutedFacts
  <1> HIDE DEF result
  <1>9. AttemptOK(result.row, result.msg)
    <2>1. \A m \in Slots : ~Claims(msg[a][m]) BY <1>1, <1>7, NoClaims
    <2>2. QED BY <1>1, <1>8, <2>1, DispatchedOK
  <1>10. Kept(v, row[a], result.row) BY <1>1, <1>7, <1>8 DEF Dispatched, Kept, RowOK
  <1>11. Set(a, result.row, result.msg) /\ UNCHANGED <<code, stable>>
    BY <1>2 DEF Become, result, Submit
  <1>12. QED BY <1>1, <1>9, <1>10, <1>11, SetKeeps

\* A step that ends a message or an execution and leaves the row
LEMMA EndKeeps ==
    ASSUME IInv, NEW a \in Attempts, NEW m \in Slots,
           Set(a, row[a], [msg[a] EXCEPT ![m] = None]), UNCHANGED <<code, stable>>
    PROVE  IInv' /\ QueueStep
  <1>1. AttemptOK(row[a], msg[a]) /\ RowOK(row[a]) /\ msg[a] \in Boxes /\ "worker" \in Roles BY StateFacts
  <1>2. NoNewClaims(msg[a], [msg[a] EXCEPT ![m] = None]) BY <1>1, TakeOut
  <1>3. AttemptOK(row[a], [msg[a] EXCEPT ![m] = None]) BY <1>1, <1>2, StillOK
  <1>4. Kept(code["worker"], row[a], row[a]) BY DEF Kept
  <1>5. QED BY <1>1, <1>3, <1>4, SetKeeps
\* A claim: the lease is the hard limit and the margin, and what runs under declared limits
\* ends at the hard limit.
LEMMA ClaimKeeps ==
    ASSUME NEW v \in Declarable, NEW r, NEW ms, AttemptOK(r, ms), r.status = "pending",
           NEW m \in Slots, ms[m] # None, NEW soft, NEW hard, NEW execution,
           soft = FirstSet(ms[m].soft, SoftLimitOf[v]),
           hard = CurrentTimeLimit(ms[m].hard, HardLimitOf[v]),
           execution = [ms[m] EXCEPT !.running = TRUE, !.left = KilledAfter(soft, hard),
                            !.soft = None, !.hard = None, !.expires = None,
                            !.declared = <<soft, hard>> \in AcceptedLimits]
    PROVE  AttemptOK(P(v)!ClaimSet(r, m, hard, 0), [ms EXCEPT ![m] = execution])
  <1> DEFINE x == ms[m]
             declared == <<soft, hard>> \in AcceptedLimits
             left == KilledAfter(soft, hard)
             claimed == P(v)!ClaimSet(r, m, hard, 0)
  <1>1. v \in Versions BY DEF Declarable
  <1>2. RowOK(r) /\ r \in Rows /\ ms \in Boxes BY DEF AttemptOK, RowOK
  <1>3. x \in Message BY <1>2 DEF Boxes, Optional
  <1>4. soft \in Limit /\ hard \in Limit
    <2>1. x.soft \in Limit /\ x.hard \in Limit BY <1>3 DEF Message
    <2>2. SoftLimitOf[v] \in Limit /\ HardLimitOf[v] \in Limit BY <1>1, VersionLimits
    <2>3. QED BY <2>1, <2>2 DEF FirstSet, CurrentTimeLimit
  <1>5. left \in Limit /\ (left = None <=> hard = None) /\ (declared => left = hard)
    <2>1. declared => SoftBelowHard(soft, hard) BY AcceptedBelow
    <2>2. QED BY <1>4, <2>1, KilledType
  <1>6. /\ claimed \in Rows /\ claimed.status = "running" /\ claimed.celery_task_id = m
        /\ claimed.dispatch_queue = r.dispatch_queue
        /\ hard # None => claimed.lease_expires_at = hard + Margin
    <2>1. 0 \in Int OBVIOUS
    <2>2. QED BY <1>2, <1>4, <2>1, ClaimTypes
  <1>7. RowOK(claimed) BY <1>2, <1>6 DEF RowOK
  <1>8. execution = [x EXCEPT !.running = TRUE, !.left = left, !.soft = None, !.hard = None,
                              !.expires = None, !.declared = declared]
    OBVIOUS
  <1>9. declared \in BOOLEAN OBVIOUS
  <1> HIDE DEF x, declared, left, claimed
  <1>10. execution \in Message
    <2>1. left \in Instant BY <1>5, LimitType, Nullable
    <2>2. None \in Instant /\ None \in Limit BY LimitType, Nullable
    <2>3. QED BY <1>3, <1>8, <1>9, <2>1, <2>2 DEF Message
  <1>11. execution.declared = declared /\ execution.left = left BY <1>3, <1>8 DEF Message
  <1>12. Claims(execution) => Holds(claimed, m, execution)
    <2>1. SUFFICES ASSUME Claims(execution) PROVE Holds(claimed, m, execution) OBVIOUS
    <2>2. declared /\ left = hard /\ left # None BY <1>5, <1>11, <2>1 DEF Claims
    <2>3. left \in Nat \ {0} /\ Margin \in Nat /\ KillDelay \in Nat
      BY <1>5, <2>2, LimitType, DeploymentAssumption
    <2>4. claimed.lease_expires_at = left + Margin BY <1>6, <2>2
    <2>5. left + Margin \in Int /\ left + Margin >= left + Margin /\ left >= -KillDelay BY <2>3
    <2>6. claimed.lease_expires_at # None BY <2>4, <2>5, Nullable
    <2>7. QED BY <1>6, <1>11, <2>4, <2>5, <2>6 DEF Holds
  <1>13. [ms EXCEPT ![m] = execution] \in Boxes BY <1>2, <1>10 DEF Boxes, Optional
  <1>14. \A n \in Slots : [ms EXCEPT ![m] = execution][n] = IF n = m THEN execution ELSE ms[n]
    BY <1>2 DEF Boxes
  <1>15. \A n \in Slots : ~Claims(ms[n]) BY NoClaims
  <1>16. AttemptOK(claimed, [ms EXCEPT ![m] = execution])
    BY <1>7, <1>12, <1>13, <1>14, <1>15 DEF AttemptOK
  <1>17. QED BY <1>16 DEF claimed

\* A delivery claims the row or ends the message.
LEMMA DeliverKeeps ==
    ASSUME IInv, NEW a \in Attempts, NEW m \in Slots, Deliver(a, m) PROVE IInv' /\ QueueStep
  <1> DEFINE v == code.worker
             x == msg[a][m]
             soft == FirstSet(x.soft, SoftLimitOf[v])
             hard == CurrentTimeLimit(x.hard, HardLimitOf[v])
             execution == [x EXCEPT !.running = TRUE, !.left = KilledAfter(soft, hard),
                              !.soft = None, !.hard = None, !.expires = None,
                              !.declared = <<soft, hard>> \in AcceptedLimits]
             claimed == P(v)!ClaimSet(row[a], m, hard, 0)
  <1>1. /\ v \in Declarable /\ v \in Versions /\ "worker" \in Roles
        /\ AttemptOK(row[a], msg[a]) /\ row[a] \in Rows
    BY StateFacts
  <1>2. x # None BY DEF Deliver, Sent
  <1>3. UNCHANGED <<code, stable>> BY DEF Deliver
  <1>4. CASE ~P(v)!ClaimWhere(row[a])
    <2>1. Set(a, row[a], [msg[a] EXCEPT ![m] = None]) BY <1>4 DEF Deliver
    <2>2. QED BY <1>3, <2>1, EndKeeps
  <1>5. CASE P(v)!ClaimWhere(row[a])
    <2>1. Set(a, claimed, [msg[a] EXCEPT ![m] = execution]) BY <1>5 DEF Deliver
    <2>2. row[a].status = "pending" BY <1>5 DEF P!ClaimWhere
    <2>3. AttemptOK(claimed, [msg[a] EXCEPT ![m] = execution]) BY <1>1, <1>2, <2>2, ClaimKeeps
    <2>4. claimed.dispatch_queue = row[a].dispatch_queue BY <1>1 DEF P!ClaimSet, Rows
    <2> HIDE DEF claimed, execution
    <2>5. Kept(code["worker"], row[a], claimed) BY <2>4 DEF Kept
    <2>6. QED BY <1>1, <1>3, <2>1, <2>3, <2>5, SetKeeps
  <1>6. QED BY <1>4, <1>5

\* The holder of the row is the only execution with a claim: once it ends, none is left.
LEMMA HolderEnds ==
    ASSUME NEW r, NEW ms, AttemptOK(r, ms), NEW m \in Slots, r.celery_task_id = m
    PROVE  /\ [ms EXCEPT ![m] = None] \in Boxes
           /\ \A n \in Slots : ~Claims([ms EXCEPT ![m] = None][n])
  <1>1. ms \in Boxes BY DEF AttemptOK
  <1>2. NoNewClaims(ms, [ms EXCEPT ![m] = None]) BY <1>1, TakeOut
  <1>3. ASSUME NEW n \in Slots, Claims([ms EXCEPT ![m] = None][n]) PROVE FALSE
    <2>1. [ms EXCEPT ![m] = None][n] = IF n = m THEN None ELSE ms[n] BY <1>1 DEF Boxes
    <2>2. n # m /\ Claims(ms[n]) BY <1>3, <2>1 DEF Claims
    <2>3. r.celery_task_id = n BY <2>2 DEF AttemptOK, Holds
    <2>4. QED BY <2>2, <2>3
  <1>4. QED BY <1>2, <1>3 DEF NoNewClaims

\* A success is recorded on the row's queue.
LEMMA SucceedKeeps ==
    ASSUME IInv, NEW a \in Attempts, NEW m \in Slots, Succeed(a, m) PROVE IInv' /\ QueueStep
  <1> DEFINE v == code.worker
             done == P(v)!FinishSuccessSet(row[a], 0)
             ms == [msg[a] EXCEPT ![m] = None]
  <1>1. "worker" \in Roles /\ AttemptOK(row[a], msg[a]) /\ RowOK(row[a]) /\ row[a] \in Rows BY StateFacts
  <1>2. UNCHANGED <<code, stable>> BY DEF Succeed
  <1>3. CASE ~P(v)!FinishWhere(row[a], m)
    <2>1. Set(a, row[a], ms) BY <1>3 DEF Succeed
    <2>2. QED BY <1>2, <2>1, EndKeeps
  <1>4. CASE P(v)!FinishWhere(row[a], m)
    <2>1. Set(a, done, ms) BY <1>4 DEF Succeed
    <2>2. row[a].status = "running" /\ row[a].celery_task_id = m BY <1>4 DEF P!FinishWhere
    <2>3. done \in Rows /\ done.status = "success" /\ done.dispatch_queue = row[a].dispatch_queue
      <3>1. 0 \in Int OBVIOUS
      <3>2. QED BY <1>1, <3>1, SuccessTypes, Zenon
    <2>4. ms \in Boxes /\ \A n \in Slots : ~Claims(ms[n]) BY <1>1, <2>2, HolderEnds
    <2> HIDE DEF done, ms
    <2>5. RowOK(done) BY <1>1, <2>2, <2>3 DEF RowOK
    <2>6. AttemptOK(done, ms) BY <2>4, <2>5 DEF AttemptOK
    <2>7. Kept(code["worker"], row[a], done) BY <2>3 DEF Kept
    <2>8. QED BY <1>1, <1>2, <2>1, <2>6, <2>7, SetKeeps
  <1>5. QED BY <1>3, <1>4

\* A failure is recorded on the row's queue, which a retry keeps if the worker's version has it.
LEMMA FailKeeps ==
    ASSUME IInv, NEW a \in Attempts, NEW m \in Slots, Fail(a, m) PROVE IInv' /\ QueueStep
  <1> DEFINE v == code.worker
             ms == [msg[a] EXCEPT ![m] = None]
             result == Retried(v, row[a], ms)
  <1>1. /\ v \in Versions /\ "worker" \in Roles /\ AttemptOK(row[a], msg[a]) /\ RowOK(row[a])
        /\ row[a] \in Rows
    BY StateFacts
  <1>2. UNCHANGED <<code, stable>> BY DEF Fail
  <1>3. CASE ~P(v)!FinishWhere(row[a], m)
    <2>1. Set(a, row[a], ms) BY <1>3 DEF Fail, Become, Result
    <2>2. QED BY <1>2, <2>1, EndKeeps
  <1>4. CASE P(v)!FinishWhere(row[a], m)
    <2>1. Set(a, result.row, result.msg) BY <1>4 DEF Fail, Become
    <2>2. row[a].status = "running" /\ row[a].celery_task_id = m BY <1>4 DEF P!FinishWhere
    <2>3. ms \in Boxes /\ \A n \in Slots : ~Claims(ms[n]) BY <1>1, <2>2, HolderEnds
    <2>4. row[a].dispatch_queue \in Names BY <1>1, <2>2 DEF RowOK
    <2> HIDE DEF ms
    <2>5. Dispatched(v, row[a], ms, result) BY <1>1, <2>3, <2>4, RetriedFacts
    <2> HIDE DEF result
    <2>6. AttemptOK(row[a], ms) BY <1>1, <2>3 DEF AttemptOK
    <2>7. AttemptOK(result.row, result.msg) BY <2>3, <2>5, <2>6, DispatchedOK
    <2>8. Kept(v, row[a], result.row) BY <2>5 DEF Dispatched
    <2>9. QED BY <1>1, <1>2, <2>1, <2>7, <2>8, SetKeeps
  <1>5. QED BY <1>3, <1>4
\* A lease that has expired, and a running row without one, are no declared execution's.
LEMMA NotHeld ==
    ASSUME NEW v, NEW r, NEW ms, AttemptOK(r, ms),
           P(v)!FailExpiredLeaseWhere(r) \/ P(v)!ExpiredMessage(r, 0) \/ P(v)!IsStuck(r, 0)
    PROVE  \A m \in Slots : ~Claims(ms[m])
  <1>1. ASSUME NEW m \in Slots, Claims(ms[m]) PROVE FALSE
    <2>1. Holds(r, m, ms[m]) BY <1>1 DEF AttemptOK
    <2>2. r.status = "running" /\ r.lease_expires_at # None BY <2>1 DEF Holds
    <2>3. P(v)!FailExpiredLeaseWhere(r) BY <2>2 DEF P!ExpiredMessage, P!IsStuck
    <2>4. r.lease_expires_at < 0 BY <2>3 DEF P!FailExpiredLeaseWhere, P!Before
    <2>5. ms[m] \in Message /\ r \in Rows BY <1>1 DEF AttemptOK, RowOK, Boxes, Optional, Claims
    <2>6. ms[m].left \in Int /\ r.lease_expires_at \in Int
      <3>1. ms[m].left \in Instant /\ ms[m].left # None BY <1>1, <2>5 DEF Message, Claims
      <3>2. r.lease_expires_at \in Instant BY <2>5, RowFields
      <3>3. QED BY <2>2, <3>1, <3>2, Nullable
    <2> DEFINE lease == r.lease_expires_at
               left == ms[m].left
    <2>7. lease >= left + Margin /\ left >= -KillDelay BY <2>1 DEF Holds
    <2>8. Margin \in Nat /\ KillDelay \in Nat /\ KillDelay <= Margin BY DeploymentAssumption
    <2>9. lease \in Int /\ left \in Int /\ lease < 0 BY <2>4, <2>6
    <2> HIDE DEF lease, left
    <2>10. QED BY <2>7, <2>8, <2>9
  <1>2. QED BY <1>1

\* execute() from a sweep, on a row that was recovered without a change of its queue
LEMMA RecoveredOK ==
    ASSUME NEW v \in Versions, NEW r0, NEW ms, AttemptOK(r0, ms), \A m \in Slots : ~Claims(ms[m]),
           NEW r \in Rows, r.status \in {"pending", "failed"}, r.dispatch_queue = r0.dispatch_queue,
           NEW result, result = Executed(v, r, ms, RedispatchQueue(v, r.dispatch_queue))
    PROVE  AttemptOK(result.row, result.msg) /\ Kept(v, r0, result.row)
  <1>1. ms \in Boxes BY DEF AttemptOK
  <1>2. RedispatchQueue(v, r.dispatch_queue) \in Defined(v) BY VersionFacts DEF RedispatchQueue
  <1>3. Dispatched(v, r, ms, result) BY <1>1, <1>2, ExecutedFacts
  <1>4. AttemptOK(result.row, result.msg) BY <1>3, DispatchedOK
  <1>5. Kept(v, r0, result.row) BY <1>3 DEF Dispatched, Kept
  <1>6. QED BY <1>4, <1>5

\* The three ways a sweep recovers an attempt
LEMMA RecoveriesOK ==
    ASSUME NEW v \in Versions, NEW r, NEW ms, AttemptOK(r, ms), NEW result,
           \/ /\ P(v)!FailExpiredLeaseWhere(r)
              /\ result = Retried(v, r, ms)
           \/ /\ P(v)!ExpiredMessage(r, 0)
              /\ result = Executed(v, P(v)!ClaimExpiredMessageSet(r, 0), ms,
                                   RedispatchQueue(v, P(v)!ClaimExpiredMessageSet(r, 0).dispatch_queue))
           \/ /\ P(v)!IsStuck(r, 0)
              /\ result = Executed(v, P(v)!ResetToPendingSet(r, 0), ms,
                                   RedispatchQueue(v, P(v)!ResetToPendingSet(r, 0).dispatch_queue))
    PROVE  AttemptOK(result.row, result.msg) /\ Kept(v, r, result.row)
  <1>1. \A m \in Slots : ~Claims(ms[m]) BY NotHeld
  <1>2. RowOK(r) /\ r \in Rows /\ ms \in Boxes /\ 0 \in Int BY DEF AttemptOK, RowOK
  <1>3. CASE P(v)!FailExpiredLeaseWhere(r) /\ result = Retried(v, r, ms)
    <2>1. r.status = "running" BY <1>3 DEF P!FailExpiredLeaseWhere
    <2>2. r.dispatch_queue \in Names BY <1>2, <2>1 DEF RowOK
    <2>3. Dispatched(v, r, ms, result) BY <1>2, <1>3, <2>2, RetriedFacts
    <2>4. AttemptOK(result.row, result.msg) BY <1>1, <2>3, DispatchedOK
    <2>5. QED BY <2>3, <2>4 DEF Dispatched
  <1>4. CASE /\ P(v)!ExpiredMessage(r, 0)
             /\ result = Executed(v, P(v)!ClaimExpiredMessageSet(r, 0), ms,
                                  RedispatchQueue(v, P(v)!ClaimExpiredMessageSet(r, 0).dispatch_queue))
    <2> DEFINE r1 == P(v)!ClaimExpiredMessageSet(r, 0)
    <2>1. r.status = "pending" BY <1>4 DEF P!ExpiredMessage
    <2>2. r1 \in Rows /\ r1.status = r.status /\ r1.dispatch_queue = r.dispatch_queue
      BY <1>2, PendingTypes, Zenon
    <2>3. result = Executed(v, r1, ms, RedispatchQueue(v, r1.dispatch_queue)) BY <1>4
    <2> HIDE DEF r1
    <2>4. r1.status \in {"pending", "failed"} BY <2>1, <2>2
    <2>5. QED BY <1>1, <2>2, <2>3, <2>4, RecoveredOK
  <1>5. CASE /\ P(v)!IsStuck(r, 0)
             /\ result = Executed(v, P(v)!ResetToPendingSet(r, 0), ms,
                                  RedispatchQueue(v, P(v)!ResetToPendingSet(r, 0).dispatch_queue))
    <2> DEFINE r1 == P(v)!ResetToPendingSet(r, 0)
    <2>1. r1 \in Rows /\ r1.status = "pending" /\ r1.dispatch_queue = r.dispatch_queue
      BY <1>2, PendingTypes, Zenon
    <2>2. result = Executed(v, r1, ms, RedispatchQueue(v, r1.dispatch_queue)) BY <1>5
    <2> HIDE DEF r1
    <2>3. r1.status \in {"pending", "failed"} BY <2>1
    <2>4. QED BY <1>1, <2>1, <2>2, <2>3, RecoveredOK
  <1>6. QED BY <1>3, <1>4, <1>5

\* Steps on all attempts
LEMMA AllKeep ==
    ASSUME IInv, NEW rows, NEW boxes, NEW role \in Roles,
           row' = [a \in Attempts |-> rows[a]], msg' = [a \in Attempts |-> boxes[a]],
           \A a \in Attempts : AttemptOK(rows[a], boxes[a]) /\ Kept(code[role], row[a], rows[a]),
           code' \in [Roles -> Declarable], stable' \in BOOLEAN
    PROVE  IInv' /\ QueueStep
  <1>1. \A a \in Attempts : row'[a] = rows[a] /\ msg'[a] = boxes[a] OBVIOUS
  <1>2. \A a \in Attempts : rows[a] \in Rows /\ boxes[a] \in Boxes BY DEF AttemptOK, RowOK
  <1>3. row' \in [Attempts -> Rows] /\ msg' \in [Attempts -> Boxes] BY <1>2
  <1>4. IInv' BY <1>1, <1>3 DEF IInv
  <1>5. QueueStep BY <1>1 DEF QueueStep, Kept
  <1>6. QED BY <1>4, <1>5

\* A sweep recovers some attempts and leaves the others.
LEMMA SweepKeeps == ASSUME IInv, Sweep PROVE IInv' /\ QueueStep
  <1> DEFINE v == code.scheduler
             leases == Oldest({a \in Attempts : P(v)!FailExpiredLeaseWhere(row[a])},
                              BatchSize, "lease_expires_at")
             expired == Oldest({a \in Attempts : P(v)!ExpiredMessage(row[a], 0)},
                               BatchSize - Cardinality(leases), "dispatched_at")
             stuck == Oldest({a \in Attempts : P(v)!IsStuck(row[a], 0)},
                             BatchSize - Cardinality(leases) - Cardinality(expired), "updated_at")
             Redispatched(r, ms) == Executed(v, r, ms, RedispatchQueue(v, r.dispatch_queue))
             result == [a \in Attempts |->
                 CASE a \in leases  -> Retried(v, row[a], msg[a])
                   [] a \in expired -> Redispatched(P(v)!ClaimExpiredMessageSet(row[a], 0), msg[a])
                   [] a \in stuck   -> Redispatched(P(v)!ResetToPendingSet(row[a], 0), msg[a])
                   [] OTHER         -> Result(row[a], msg[a])]
  <1>1. /\ row' = [a \in Attempts |-> result[a].row]
        /\ msg' = [a \in Attempts |-> result[a].msg]
        /\ UNCHANGED <<code, stable>>
    BY DEF Sweep
  <1>2. /\ v \in Versions /\ "scheduler" \in Roles
        /\ code \in [Roles -> Declarable] /\ stable \in BOOLEAN
        /\ \A a \in Attempts : AttemptOK(row[a], msg[a])
    BY StateFacts DEF IInv
  <1>3. /\ \A a \in leases : P(v)!FailExpiredLeaseWhere(row[a])
        /\ \A a \in expired : P(v)!ExpiredMessage(row[a], 0)
        /\ \A a \in stuck : P(v)!IsStuck(row[a], 0)
    BY DEF Oldest
  <1>4. ASSUME NEW a \in Attempts
        PROVE  \/ a \in leases /\ result[a] = Retried(v, row[a], msg[a])
               \/ a \in expired /\ result[a] = Redispatched(P(v)!ClaimExpiredMessageSet(row[a], 0), msg[a])
               \/ a \in stuck /\ result[a] = Redispatched(P(v)!ResetToPendingSet(row[a], 0), msg[a])
               \/ result[a] = Result(row[a], msg[a])
    <2> HIDE DEF leases, expired, stuck, Redispatched
    <2>1. QED OBVIOUS
  <1> HIDE DEF leases, expired, stuck, result
  <1>5. ASSUME NEW a \in Attempts
        PROVE  AttemptOK(result[a].row, result[a].msg) /\ Kept(v, row[a], result[a].row)
    <2>1. CASE result[a] = Result(row[a], msg[a])
      <3>1. result[a].row = row[a] /\ result[a].msg = msg[a] BY <2>1 DEF Result
      <3>2. QED BY <1>2, <3>1 DEF Kept
    <2>2. CASE result[a] # Result(row[a], msg[a]) BY <1>2, <1>3, <1>4, <2>2, RecoveriesOK
    <2>3. QED BY <2>1, <2>2
  <1> DEFINE rows == [a \in Attempts |-> result[a].row]
             boxes == [a \in Attempts |-> result[a].msg]
  <1>6. /\ row' = [a \in Attempts |-> rows[a]] /\ msg' = [a \in Attempts |-> boxes[a]]
        /\ \A a \in Attempts : rows[a] = result[a].row /\ boxes[a] = result[a].msg
    BY <1>1
  <1> HIDE DEF rows, boxes
  <1>7. \A a \in Attempts : AttemptOK(rows[a], boxes[a]) /\ Kept(code["scheduler"], row[a], rows[a])
    BY <1>5, <1>6
  <1>8. code' \in [Roles -> Declarable] /\ stable' \in BOOLEAN BY <1>1, <1>2
  <1>9. QED BY <1>2, <1>6, <1>7, <1>8, AllKeep
\* A message one second later
OlderMessage(x) ==
    IF x = None \/ Expired(x) THEN None
    ELSE [x EXCEPT !.wait = Larger(0, @ - 1), !.expires = Age(@),
                   !.left = IF @ = None THEN None ELSE @ - 1]

\* It is a message, and an execution with a claim was one a second ago, with a second more left.
LEMMA OlderMessageFacts ==
    ASSUME NEW x \in Optional(Message)
    PROVE  /\ OlderMessage(x) \in Optional(Message)
           /\ Claims(OlderMessage(x)) =>
                 /\ Claims(x) /\ x.left \in Int /\ OlderMessage(x).left = x.left - 1
  <1>1. CASE x = None \/ Expired(x)
    <2>1. OlderMessage(x) = None BY <1>1 DEF OlderMessage
    <2>2. QED BY <2>1 DEF Optional, Claims
  <1>2. CASE ~(x = None \/ Expired(x))
    <2> DEFINE wait == Larger(0, x.wait - 1)
               expires == Age(x.expires)
               left == IF x.left = None THEN None ELSE x.left - 1
    <2>1. x # None /\ x \in Message BY <1>2 DEF Optional
    <2>2. x.wait \in Nat /\ x.expires \in Instant /\ x.left \in Instant BY <2>1 DEF Message
    <2>3. OlderMessage(x) = [x EXCEPT !.wait = wait, !.expires = expires, !.left = left]
      BY <1>2 DEF OlderMessage
    <2>4. wait \in Nat BY <2>2 DEF Larger
    <2>5. expires \in Instant
      <3>1. x.expires # None => x.expires \in Int BY <2>2, Nullable
      <3>2. x.expires \in Int => x.expires - 1 \in Int OBVIOUS
      <3>3. QED BY <3>1, <3>2, Nullable DEF Age
    <2>6. /\ left \in Instant /\ (left # None => x.left # None)
          /\ x.left # None => x.left \in Int /\ left = x.left - 1
      <3>1. x.left # None => x.left \in Int BY <2>2, Nullable
      <3>2. x.left \in Int => x.left - 1 \in Int OBVIOUS
      <3>3. QED BY <3>1, <3>2, Nullable
    <2> HIDE DEF wait, expires, left
    <2>7. OlderMessage(x) \in Message BY <2>1, <2>3, <2>4, <2>5, <2>6 DEF Message
    <2>8. /\ OlderMessage(x).left = left /\ OlderMessage(x).running = x.running
          /\ OlderMessage(x).declared = x.declared
      BY <2>1, <2>3 DEF Message
    <2>9. QED BY <2>1, <2>6, <2>7, <2>8 DEF Optional, Claims
  <1>3. QED BY <1>1, <1>2

\* Time passes no faster for a lease than for the execution it covers, and no execution is
\* later than the delay of the pool.
LEMMA TickKeeps == ASSUME IInv, Tick PROVE IInv' /\ QueueStep
  <1> DEFINE rows == [a \in Attempts |-> IF row[a].status = "absent" \/ Settled(a) THEN row[a]
                                         ELSE P(code.worker)!AgeRow(row[a])]
             boxes == [a \in Attempts |-> [m \in Slots |-> OlderMessage(msg[a][m])]]
  <1>1. row' = rows BY DEF Tick
  <1>2. msg' = boxes BY DEF Tick, OlderMessage
  <1>3. /\ "worker" \in Roles /\ code \in [Roles -> Declarable] /\ stable \in BOOLEAN
        /\ UNCHANGED <<code, stable>>
    BY StateFacts DEF IInv, Tick
  <1>4. ASSUME NEW a \in Attempts
        PROVE  AttemptOK(rows[a], boxes[a]) /\ Kept(code["worker"], row[a], rows[a])
    <2> DEFINE r == row[a]
               r2 == rows[a]
               ms == msg[a]
               ms2 == boxes[a]
    <2>1. AttemptOK(r, ms) /\ RowOK(r) /\ r \in Rows /\ ms \in Boxes BY StateFacts
    <2>2. r2 = r \/ r2 = P(code.worker)!AgeRow(r) OBVIOUS
    <2>3. /\ r2 \in Rows /\ r2.status = r.status /\ r2.celery_task_id = r.celery_task_id
          /\ r2.dispatch_queue = r.dispatch_queue
          /\ r.lease_expires_at # None => /\ r2.lease_expires_at # None
                                          /\ r2.lease_expires_at >= r.lease_expires_at - 1
      <3>1. r.lease_expires_at # None => r.lease_expires_at \in Int BY <2>1, RowFields, Nullable
      <3>2. CASE r2 = r
        <4> DEFINE lease == r.lease_expires_at
        <4>1. \A t \in Int : t >= t - 1 OBVIOUS
        <4>2. lease # None => lease >= lease - 1 BY <3>1, <4>1
        <4> HIDE DEF r2, r
        <4>3. QED BY <2>1, <3>2, <4>2
      <3>3. CASE r2 = P(code.worker)!AgeRow(r)
        <4> HIDE DEF r2, r
        <4>1. QED BY <2>1, <3>3, AgeTypes
      <3>4. QED BY <2>2, <3>2, <3>3
    <2>4. \A m \in Slots : ms2[m] = OlderMessage(ms[m]) OBVIOUS
    <2>5. ms2 = [m \in Slots |-> ms2[m]] OBVIOUS
    <2>6. \A m \in Slots : Claims(ms[m]) /\ ms[m].left \in Int => ms[m].left > -KillDelay
      BY DEF Tick, Running, Claims
    <2> HIDE DEF r, r2, ms, ms2
    <2>7. RowOK(r2) BY <2>1, <2>3 DEF RowOK
    <2>8. \A m \in Slots : ms[m] \in Optional(Message) BY <2>1 DEF Boxes
    <2>9. ms2 \in Boxes
      <3>1. \A m \in Slots : ms2[m] \in Optional(Message) BY <2>4, <2>8, OlderMessageFacts
      <3>2. QED BY <2>5, <3>1 DEF Boxes
    <2>10. ASSUME NEW m \in Slots, Claims(ms2[m]) PROVE Holds(r2, m, ms2[m])
      <3>1. Claims(ms[m]) /\ ms[m].left \in Int /\ ms2[m].left = ms[m].left - 1
        BY <2>4, <2>8, <2>10, OlderMessageFacts
      <3>2. Holds(r, m, ms[m]) BY <2>1, <3>1 DEF AttemptOK
      <3> DEFINE left == ms[m].left
                 lease == r.lease_expires_at
                 lease2 == r2.lease_expires_at
      <3>3. r.status = "running" /\ r.celery_task_id = m /\ lease # None /\ lease >= left + Margin
        BY <3>2 DEF Holds
      <3>4. lease2 # None /\ lease2 >= lease - 1 BY <2>3, <3>3
      <3>5. lease \in Int /\ lease2 \in Int BY <2>1, <2>3, <3>3, <3>4, RowFields, Nullable
      <3>6. left \in Int /\ left > -KillDelay BY <2>6, <3>1
      <3>7. Margin \in Nat /\ KillDelay \in Nat BY DeploymentAssumption
      <3>8. ms2[m].left = left - 1 BY <3>1
      <3> HIDE DEF left, lease, lease2
      <3>9. lease2 >= (left - 1) + Margin /\ left - 1 >= -KillDelay BY <3>3, <3>4, <3>5, <3>6, <3>7
      <3>10. QED BY <2>3, <3>3, <3>4, <3>8, <3>9 DEF Holds, lease2
    <2>11. AttemptOK(r2, ms2) BY <2>7, <2>9, <2>10 DEF AttemptOK
    <2>12. Kept(code["worker"], r, r2) BY <2>3 DEF Kept
    <2>13. QED BY <2>11, <2>12 DEF r, r2, ms, ms2
  <1>5. row' = [a \in Attempts |-> rows[a]] /\ msg' = [a \in Attempts |-> boxes[a]] BY <1>1, <1>2
  <1> HIDE DEF rows, boxes
  <1>6. code' \in [Roles -> Declarable] /\ stable' \in BOOLEAN BY <1>3
  <1>7. QED BY <1>3, <1>4, <1>5, <1>6, AllKeep

\* What Stabilise drops are messages that have not started.
LEMMA StabiliseKeeps == ASSUME IInv, Stabilise PROVE IInv' /\ QueueStep
  <1> DEFINE boxes == [a \in Attempts |-> [m \in Slots |->
                 IF Sent(a, m) /\ msg[a][m].queue \notin Defined(code.worker) THEN None
                 ELSE msg[a][m]]]
  <1>1. msg' = boxes /\ row' = row /\ code' = code /\ stable' = TRUE BY DEF Stabilise
  <1>2. /\ "worker" \in Roles /\ code \in [Roles -> Declarable]
        /\ row \in [Attempts -> Rows]
    BY StateFacts DEF IInv
  <1>3. ASSUME NEW a \in Attempts
        PROVE  AttemptOK(row[a], boxes[a]) /\ Kept(code["worker"], row[a], row[a])
    <2>1. AttemptOK(row[a], msg[a]) /\ RowOK(row[a]) /\ msg[a] \in Boxes BY StateFacts
    <2>2. \A m \in Slots : boxes[a][m] = None \/ boxes[a][m] = msg[a][m] OBVIOUS
    <2>3. boxes[a] = [m \in Slots |-> boxes[a][m]] OBVIOUS
    <2> HIDE DEF boxes
    <2>4. \A m \in Slots : boxes[a][m] \in Optional(Message) BY <2>1, <2>2 DEF Boxes, Optional
    <2>5. boxes[a] \in Boxes BY <2>3, <2>4 DEF Boxes
    <2>6. NoNewClaims(msg[a], boxes[a]) BY <2>2, <2>5 DEF NoNewClaims, Claims
    <2>7. AttemptOK(row[a], boxes[a]) BY <2>1, <2>6, StillOK
    <2>8. QED BY <2>7 DEF Kept
  <1>4. row' = [a \in Attempts |-> row[a]] /\ msg' = [a \in Attempts |-> boxes[a]] BY <1>1, <1>2
  <1> HIDE DEF boxes
  <1>5. code' \in [Roles -> Declarable] /\ stable' \in BOOLEAN BY <1>1, <1>2
  <1>6. QED BY <1>2, <1>3, <1>4, <1>5, AllKeep

\* A deployment replaces a version by one that was declared, and touches no attempt.
LEMMA DeployKeeps ==
    ASSUME IInv, NEW role \in Roles, NEW v \in Declarable, Deploy(role, v)
    PROVE  IInv' /\ QueueStep
  <1>1. code' = [code EXCEPT ![role] = v] /\ UNCHANGED <<row, msg, stable>> BY DEF Deploy
  <1>2. code' \in [Roles -> Declarable] BY <1>1 DEF IInv
  <1>3. IInv' BY <1>1, <1>2 DEF IInv
  <1>4. QueueStep BY <1>1 DEF QueueStep
  <1>5. QED BY <1>3, <1>4

-----------------------------------------------------------------------------
(* Theorems *)

\* Every step keeps the invariant, and an attempt on its queue.
LEMMA StepKeeps == ASSUME IInv, [Next]_vars PROVE IInv' /\ (QueueStep \/ UNCHANGED vars)
  <1>1. ASSUME NEW a \in Attempts, Submit(a) PROVE IInv' /\ QueueStep BY <1>1, SubmitKeeps
  <1>2. ASSUME NEW a \in Attempts, NEW m \in Slots, Deliver(a, m) PROVE IInv' /\ QueueStep
    BY <1>2, DeliverKeeps
  <1>3. ASSUME NEW a \in Attempts, NEW m \in Slots, Succeed(a, m) PROVE IInv' /\ QueueStep
    BY <1>3, SucceedKeeps
  <1>4. ASSUME NEW a \in Attempts, NEW m \in Slots, Fail(a, m) PROVE IInv' /\ QueueStep
    BY <1>4, FailKeeps
  <1>5. ASSUME NEW a \in Attempts, NEW m \in Slots, Kill(a, m) PROVE IInv' /\ QueueStep
    <2>1. Set(a, row[a], [msg[a] EXCEPT ![m] = None]) /\ UNCHANGED <<code, stable>> BY <1>5 DEF Kill
    <2>2. QED BY <2>1, EndKeeps
  <1>6. ASSUME NEW a \in Attempts, NEW m \in Slots, Lose(a, m) PROVE IInv' /\ QueueStep
    <2>1. Set(a, row[a], [msg[a] EXCEPT ![m] = None]) /\ UNCHANGED <<code, stable>> BY <1>6 DEF Lose
    <2>2. QED BY <2>1, EndKeeps
  <1>7. ASSUME Sweep PROVE IInv' /\ QueueStep BY <1>7, SweepKeeps
  <1>8. ASSUME NEW role \in Roles, NEW v \in Declarable, Deploy(role, v) PROVE IInv' /\ QueueStep
    BY <1>8, DeployKeeps
  <1>9. ASSUME Tick PROVE IInv' /\ QueueStep BY <1>9, TickKeeps
  <1>10. ASSUME Stabilise PROVE IInv' /\ QueueStep BY <1>10, StabiliseKeeps
  <1>11. ASSUME UNCHANGED vars PROVE IInv' BY <1>11 DEF IInv, vars
  <1>12. QED
    BY <1>1, <1>2, <1>3, <1>4, <1>5, <1>6, <1>7, <1>8, <1>9, <1>10, <1>11 DEF Next

\* The invariant holds before anything is submitted.
LEMMA InitHolds == ASSUME Init PROVE IInv
  <1>1. PICK v \in Declarable : code = [r \in Roles |-> v] BY DEF Init
  <1>2. code \in [Roles -> Declarable] BY <1>1
  <1> DEFINE absent == P(code.worker)!AbsentRow
  <1>3. absent \in Rows /\ absent.status = "absent" /\ absent.dispatch_queue = None
    BY Nullable DEF P!AbsentRow, Rows, Status
  <1>4. row = [a \in Attempts |-> absent] /\ msg = [a \in Attempts |-> [m \in Slots |-> None]]
    BY DEF Init
  <1> HIDE DEF absent
  <1>5. [m \in Slots |-> None] \in Boxes /\ \A m \in Slots : ~Claims([n \in Slots |-> None][m])
    BY DEF Boxes, Optional, Claims
  <1>6. AttemptOK(absent, [m \in Slots |-> None]) BY <1>3, <1>5 DEF AttemptOK, RowOK
  <1>7. row \in [Attempts -> Rows] /\ msg \in [Attempts -> Boxes] BY <1>3, <1>4, <1>5
  <1>8. stable \in BOOLEAN BY DEF Init
  <1>9. QED BY <1>2, <1>4, <1>6, <1>7, <1>8 DEF IInv

\* The inductive invariant holds, whatever is deployed when.
THEOREM Invariant == Spec => []IInv
  <1>1. Init => IInv BY InitHolds
  <1>2. IInv /\ [Next]_vars => IInv' BY StepKeeps
  <1>3. QED BY <1>1, <1>2, PTL DEF Spec

\* Every version writes rows of the fields and choices models.TaskAttempt has.
THEOREM Types == Spec => []TypeOK
  <1>1. IInv => TypeOK
    <2>1. SUFFICES ASSUME IInv PROVE TypeOK OBVIOUS
    <2>2. Declarable \subseteq Versions BY DEF Declarable
    <2>3. code \in [Roles -> Versions] BY <2>1, <2>2 DEF IInv
    <2>4. P(code.worker)!Row = Rows BY RowsOf
    <2>5. QED BY <2>1, <2>3, <2>4 DEF IInv, TypeOK, Boxes
  <1>2. QED BY <1>1, Invariant, PTL

\* time_limits.py: whatever versions are deployed while it runs or waits, and whichever of them
\* sent its message, an execution that two limits declared together will end holds its row
\* until it ends: no sweep takes it over.
THEOREM ClaimsAreKept == Spec => []DeclaredRunKeepsClaim
  <1>1. IInv => DeclaredRunKeepsClaim
    <2>1. SUFFICES ASSUME IInv, NEW a \in Attempts, NEW m \in Slots,
                          Running(a, m), msg[a][m].declared, msg[a][m].left # None
                   PROVE  P(code.worker)!FinishWhere(row[a], m)
      BY DEF DeclaredRunKeepsClaim
    <2>2. AttemptOK(row[a], msg[a]) BY <2>1 DEF IInv
    <2>3. Claims(msg[a][m]) BY <2>1 DEF Running, Claims
    <2>4. QED BY <2>2, <2>3 DEF AttemptOK, Holds, P!FinishWhere
  <1>2. QED BY <1>1, Invariant, PTL

\* queue_executor.py, redispatch_queue() and execute(): an attempt moves to another queue only
\* when a version that runs no longer defines the one it was sent to.
THEOREM QueuesAreKept == Spec => QueueIsKept
  <1>1. IInv /\ [Next]_vars => [QueueStep]_vars BY StepKeeps
  <1>2. Spec => [][QueueStep]_vars BY <1>1, Invariant, PTL DEF Spec
  <1>3. QED BY <1>2 DEF QueueIsKept, QueueStep
=============================================================================
