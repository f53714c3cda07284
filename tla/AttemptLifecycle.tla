-------------------------- MODULE AttemptLifecycle --------------------------
(***************************************************************************)
(* What the table promises of an attempt to whoever submits it (README     *)
(* "Execution guarantees"): it is recorded once, one worker at a time      *)
(* executes it, every start is a counted try, only an attempt nobody       *)
(* executes is recovered, and an attempt that succeeded or was given up    *)
(* stays so.  There are no messages, leases, retries or clocks here.       *)
(***************************************************************************)
EXTENDS Naturals

CONSTANTS Attempts, Workers

VARIABLES
    phase,      \* of each attempt; "open": it waits for a worker
    tries,      \* starts so far
    runners     \* the workers that execute it

vars == <<phase, tries, runners>>

Init ==
    /\ phase = [a \in Attempts |-> "absent"]
    /\ tries = [a \in Attempts |-> 0]
    /\ runners = [a \in Attempts |-> {}]

Move(a, from, to) == phase[a] = from /\ phase' = [phase EXCEPT ![a] = to]

\* A submission records the attempt.
Record(a) == Move(a, "absent", "open") /\ UNCHANGED <<tries, runners>>

\* A worker starts a try; nobody else is executing the attempt.
Start(a, w) ==
    /\ Move(a, "open", "running")
    /\ runners[a] = {}
    /\ runners' = [runners EXCEPT ![a] = {w}]
    /\ tries' = [tries EXCEPT ![a] = @ + 1]

\* The worker records the outcome: success, a failure to be retried, or the last failure.
Finish(a, w) ==
    /\ \E to \in {"success", "open", "given_up"} : Move(a, "running", to)
    /\ runners[a] = {w}
    /\ runners' = [runners EXCEPT ![a] = {}]
    /\ UNCHANGED tries

\* The worker dies or is killed.
Stop(a, w) ==
    /\ runners[a] = {w}
    /\ runners' = [runners EXCEPT ![a] = {}]
    /\ UNCHANGED <<phase, tries>>

\* The sweep takes the attempt over from a worker that is gone.
Recover(a) ==
    /\ runners[a] = {}
    /\ \E to \in {"open", "given_up"} : Move(a, "running", to)
    /\ UNCHANGED <<tries, runners>>

GiveUp(a) == Move(a, "open", "given_up") /\ UNCHANGED <<tries, runners>>

Next ==
    \E a \in Attempts :
        \/ Record(a) \/ Recover(a) \/ GiveUp(a)
        \/ \E w \in Workers : Start(a, w) \/ Finish(a, w) \/ Stop(a, w)

Spec == Init /\ [][Next]_vars
=============================================================================
