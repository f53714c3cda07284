------------------------------- MODULE Clock --------------------------------
(***************************************************************************)
(* Time in the models.  Instants are integers relative to the present: 0   *)
(* is now() on the database clock, so a stored instant decreases by one as *)
(* a second passes.  timezone.now() of a process is its skew against the   *)
(* database clock.                                                         *)
(***************************************************************************)
EXTENDS Integers

CONSTANTS
    None,       \* SQL NULL and Python None
    Horizon     \* instants further back than this are not told apart

\* An optional value of a set.
Optional(S) == S \cup {None}

Instant == Optional(Int)

\* Comparisons of SQL: not true of NULL.
Before(t, x) == t # None /\ t < x
NullOrBefore(t, x) == t # None => t < x

\* The instant t after one second has passed.
Age(t) == IF t = None THEN None ELSE IF t <= -Horizon THEN t ELSE t - 1
=============================================================================
