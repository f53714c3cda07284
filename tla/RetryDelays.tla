----------------------------- MODULE RetryDelays ----------------------------
(***************************************************************************)
(* The delay before a retry: RetryPolicy of a queue                        *)
(* (_internal/services/retry_policy.py) and the BLOCK_TASK_* settings      *)
(* (_internal/dal/django_dal.py).  Seconds are whole numbers.              *)
(***************************************************************************)
EXTENDS Integers

CONSTANTS
    FloatMax,       \* ** raises OverflowError for results above it
    Policies,       \* retry policies whose delays are compared
    DeepestTry      \* tries up to which they are compared

\* The fields of RetryPolicy that its delays depend on
RetryPolicy == [fast_retry_attempts: Nat, fast_retry_delay: Nat, backoff_start: Nat,
                backoff_multiplier: Nat \ {0}, max_delay: Nat]

ASSUME DelaysAssumption ==
    /\ FloatMax \in Nat /\ DeepestTry \in Nat
    /\ Policies \subseteq RetryPolicy
    /\ \A p \in Policies : p.max_delay <= FloatMax

Larger(x, y) == IF x > y THEN x ELSE y
Smaller(x, y) == IF x < y THEN x ELSE y

\* base ** n
Power(base, n) ==
    LET power[k \in 0..n] == IF k = 0 THEN 1 ELSE base * power[k - 1]
    IN  power[n]

\* RetryPolicy._exponential_delay()
ExponentialDelay(p, tries) ==
    LET factor == Power(p.backoff_multiplier, tries - p.fast_retry_attempts - 1)
    IN  IF factor <= FloatMax THEN p.backoff_start * factor
        ELSE IF p.backoff_start # 0 THEN p.max_delay ELSE 0

\* Fast retries, then exponential ones that are no shorter, all under the cap
StagedDelay(p, tries, exponential) ==
    Smaller(p.max_delay, IF tries <= p.fast_retry_attempts THEN p.fast_retry_delay
                         ELSE Larger(p.fast_retry_delay, exponential))

\* RetryPolicy.delay_seconds()
DelaySeconds(p, tries) == StagedDelay(p, tries, ExponentialDelay(p, tries))

\* _get_retry_delay_seconds() of the settings.  They catch no overflow: past FloatMax ** raises.
SettingsFactor(p, tries) == Power(p.backoff_multiplier, tries - p.fast_retry_attempts - 1)
SettingsDelaySeconds(p, tries) == StagedDelay(p, tries, p.backoff_start * SettingsFactor(p, tries))
SettingsRaise(p, tries) == tries > p.fast_retry_attempts /\ SettingsFactor(p, tries) > FloatMax

\* _legacy_retry_policy()
LegacyPolicy(minutes, cap) ==
    [fast_retry_attempts |-> 0, fast_retry_delay |-> 0, backoff_start |-> minutes * 60,
     backoff_multiplier |-> minutes, max_delay |-> cap]

-----------------------------------------------------------------------------

\* README "Staged retry settings": delays never decrease from one try to the next, where the
\* fast retries end and, for the policy of a queue, where ** overflows included, and none
\* exceeds max_delay.  Evaluated by TLC over Policies.
ASSUME DelaysNeverDecrease ==
    \A p \in Policies, n \in 1..DeepestTry :
        /\ DelaySeconds(p, n) <= DelaySeconds(p, n + 1)
        /\ DelaySeconds(p, n) <= p.max_delay
        /\ ~SettingsRaise(p, n + 1) => /\ SettingsDelaySeconds(p, n) <= SettingsDelaySeconds(p, n + 1)
                                       /\ SettingsDelaySeconds(p, n) <= p.max_delay

\* README "BLOCK_TASK_RETRY_BACKOFF": the legacy delays are B, B^2, B^3, ... minutes.
ASSUME LegacyDelays ==
    \A minutes \in 1..3, n \in 1..DeepestTry :
        LET p == LegacyPolicy(minutes, FloatMax)
        IN  Power(minutes, n) * 60 <= FloatMax /\ ~SettingsRaise(p, n)
                => SettingsDelaySeconds(p, n) = Power(minutes, n) * 60
=============================================================================
