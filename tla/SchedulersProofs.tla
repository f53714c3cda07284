-------------------------- MODULE SchedulersProofs --------------------------
(***************************************************************************)
(* Proofs about the live scheduler and the backfill command, for every     *)
(* chain, registry, lookback and range: what find_gaps() returns, types,   *)
(* where a chain head starts, what a poll fills, what a backfill covers    *)
(* and the throttle of a queue.                                            *)
(***************************************************************************)
EXTENDS Schedulers, Numbers

-----------------------------------------------------------------------------
(* The loop of find_gaps() *)

NoGaps == [gaps |-> <<>>, start |-> None]
IsScan(f, from, N, processed) ==
    f = [n \in 0..N |-> IF n = 0 THEN NoGaps ELSE ScanBlock(f[n - 1], from + n - 1, processed)]

\* The recursive definition of the loop defines a function.
LEMMA ScanExists ==
    ASSUME NEW from \in Int, NEW N \in Nat, NEW processed
    PROVE  \E f : IsScan(f, from, N, processed)
  <1> DEFINE S == {n \in 0..N : \E f : IsScan(f, from, n, processed)}
  <1>1. 0 \in S
    <2> DEFINE f == [n \in 0..0 |-> NoGaps]
    <2>1. IsScan(f, from, 0, processed)
      <3>1. \A n \in 0..0 : n = 0 OBVIOUS
      <3>2. QED BY <3>1 DEF IsScan
    <2>2. QED BY <2>1
  <1>2. ASSUME NEW n \in 1..N, n - 1 \in S PROVE n \in S
    <2>1. PICK g : IsScan(g, from, n - 1, processed) BY <1>2
    <2> DEFINE v == ScanBlock(g[n - 1], from + n - 1, processed)
               f == [k \in 0..n |-> IF k = n THEN v ELSE g[k]]
    <2>2. n \in Nat /\ n # 0 /\ n - 1 \in 0..(n - 1) OBVIOUS
    <2>3. \A k \in 0..(n - 1) :
              g[k] = IF k = 0 THEN NoGaps ELSE ScanBlock(g[k - 1], from + k - 1, processed)
      BY <2>1 DEF IsScan
    <2>4. \A k \in 0..(n - 1) : k \in 0..n /\ k # n /\ f[k] = g[k] BY <2>2
    <2>5. f[n] = v BY <2>2
    <2> HIDE DEF f, v
    <2>6. ASSUME NEW k \in 0..n
          PROVE  f[k] = IF k = 0 THEN NoGaps ELSE ScanBlock(f[k - 1], from + k - 1, processed)
      <3>1. CASE k = n
        <4>1. f[k - 1] = g[n - 1] BY <3>1, <2>2, <2>4
        <4>2. f[k] = ScanBlock(g[n - 1], from + n - 1, processed) BY <3>1, <2>5 DEF v
        <4>3. QED BY <4>1, <4>2, <3>1, <2>2
      <3>2. CASE k # n /\ k # 0
        <4>1. k \in 0..(n - 1) /\ k - 1 \in 0..(n - 1) BY <3>2, <2>2
        <4>2. QED BY <4>1, <3>2, <2>3, <2>4
      <3>3. CASE k # n /\ k = 0
        <4>1. k \in 0..(n - 1) BY <3>3, <2>2
        <4>2. QED BY <4>1, <3>3, <2>3, <2>4
      <3>4. QED BY <3>1, <3>2, <3>3
    <2>7. f = [k \in 0..n |-> f[k]] BY DEF f
    <2>8. IsScan(f, from, n, processed) BY <2>6, <2>7 DEF IsScan
    <2>9. n \in 0..N OBVIOUS
    <2>10. QED BY <2>8, <2>9
  <1> HIDE DEF S
  <1>3. N \in S BY <1>1, <1>2, Count
  <1>4. QED BY <1>3 DEF S

\* What the loop has found after its first n blocks: gaps that end before the block it is at,
\* and an open gap; together they hold exactly the blocks that are not processed.
GapsOf(from, last) == {g \in [start: Int, end: Int] : from <= g.start /\ g.start <= g.end /\ g.end <= last}
Within(g, b) == g.start <= b /\ b <= g.end
Holds(gaps, b) == \E i \in 1..Len(gaps) : Within(gaps[i], b)

Found(acc, from, n, processed) ==
    /\ acc \in [gaps: Seq(GapsOf(from, from + n - 1)), start: Int \cup {None}]
    /\ acc.start # None => from <= acc.start /\ acc.start <= from + n - 1
    /\ \A b \in from..(from + n - 1) :
           b \notin processed <=> (Holds(acc.gaps, b) \/ (acc.start # None /\ acc.start <= b))

\* A gap that is appended adds its blocks to the ones the gaps hold.
LEMMA AppendHolds ==
    ASSUME NEW G, NEW gaps \in Seq(G), NEW g \in G, NEW b
    PROVE  Holds(Append(gaps, g), b) <=> Holds(gaps, b) \/ Within(g, b)
  <1> DEFINE s == Append(gaps, g)
  <1>1. /\ Len(s) = Len(gaps) + 1 /\ Len(gaps) \in Nat
        /\ \A i \in 1..Len(gaps) : s[i] = gaps[i]
        /\ s[Len(gaps) + 1] = g
    OBVIOUS
  <1> HIDE DEF s
  <1>2. \A i \in 1..Len(s) : i \in 1..Len(gaps) \/ i = Len(gaps) + 1 BY <1>1
  <1>3. \A i \in 1..Len(gaps) : i \in 1..Len(s) BY <1>1
  <1>4. Len(gaps) + 1 \in 1..Len(s) BY <1>1
  <1>5. Holds(s, b) <=> Holds(gaps, b) \/ Within(g, b) BY <1>1, <1>2, <1>3, <1>4 DEF Holds
  <1>6. QED BY <1>5 DEF s

\* Gaps of a range are gaps of a longer one.
LEMMA GapsGrow ==
    ASSUME NEW from \in Int, NEW n \in Nat, NEW gaps \in Seq(GapsOf(from, from + n - 1))
    PROVE  gaps \in Seq(GapsOf(from, from + n))
  <1> DEFINE S == GapsOf(from, from + n - 1)
             T == GapsOf(from, from + n)
  <1>1. S \subseteq T BY DEF GapsOf
  <1> HIDE DEF S, T
  <1>2. gaps \in Seq(T) BY <1>1, gaps \in Seq(S) DEF S
  <1>3. QED BY <1>2 DEF T

\* One block of the loop
LEMMA ScanStep ==
    ASSUME NEW from \in Int, NEW n \in Nat, NEW processed, NEW acc, Found(acc, from, n, processed)
    PROVE  Found(ScanBlock(acc, from + n, processed), from, n + 1, processed)
  <1> DEFINE b == from + n
             G == GapsOf(from, b)
             old == acc.gaps
             new == ScanBlock(acc, b, processed)
  <1>0. None \notin Int BY SubmissionsAssumption
  <1>1. /\ acc = [gaps |-> old, start |-> acc.start] /\ acc.start \in Int \cup {None}
        /\ old \in Seq(GapsOf(from, from + n - 1))
        /\ acc.start # None => from <= acc.start /\ acc.start <= from + n - 1
    BY DEF Found
  <1>2. old \in Seq(G) BY <1>1, GapsGrow
  <1>3. \A k \in from..(from + n - 1) :
            k \notin processed <=> (Holds(old, k) \/ (acc.start # None /\ acc.start <= k))
    BY DEF Found
  <1>4. b \in Int /\ b = from + (n + 1) - 1 OBVIOUS
  <1>5. \A k \in from..b : k = b \/ k \in from..(from + n - 1) OBVIOUS
  <1>6. ~Holds(old, b)
    <2>1. \A g \in GapsOf(from, from + n - 1) : ~Within(g, b) BY DEF GapsOf, Within
    <2>2. \A i \in 1..Len(old) : old[i] \in GapsOf(from, from + n - 1) BY <1>1
    <2>3. QED BY <2>1, <2>2 DEF Holds
  <1>7. \A k \in from..b : k \in Int BY <1>4
  <1> HIDE DEF b, G, old
  <1>8. SUFFICES /\ new \in [gaps: Seq(G), start: Int \cup {None}]
                 /\ new.start # None => from <= new.start /\ new.start <= b
                 /\ \A k \in from..b :
                        k \notin processed <=> (Holds(new.gaps, k) \/ (new.start # None /\ new.start <= k))
    BY <1>4 DEF Found, b, G
  <1>9. CASE b \notin processed
    <2> DEFINE first == IF acc.start = None THEN b ELSE acc.start
    <2>1. new = [gaps |-> old, start |-> first] BY <1>1, <1>9 DEF ScanBlock
    <2>2. new.gaps = old /\ new.start = first BY <2>1
    <2>3. first \in Int /\ from <= first /\ first <= b BY <1>1, <1>4 DEF b
    <2>4. new \in [gaps: Seq(G), start: Int \cup {None}] BY <1>2, <2>1, <2>3
    <2> HIDE DEF new
    <2>5. ASSUME NEW k \in from..b
          PROVE  k \notin processed <=> (Holds(old, k) \/ (first # None /\ first <= k))
      <3>1. CASE k = b BY <3>1, <1>0, <1>9, <2>3
      <3>2. CASE k \in from..(from + n - 1)
        <4>1. CASE acc.start = None
          <5>1. first = b /\ ~(b <= k) BY <4>1, <3>2, <1>4 DEF b
          <5>2. QED BY <5>1, <4>1, <3>2, <1>3
        <4>2. CASE acc.start # None
          <5>1. first = acc.start BY <4>2
          <5>2. QED BY <5>1, <4>2, <3>2, <1>3
        <4>3. QED BY <4>1, <4>2
      <3>3. QED BY <3>1, <3>2, <1>5
    <2> HIDE DEF first
    <2>6. QED BY <2>2, <2>3, <2>4, <2>5
  <1>10. CASE b \in processed /\ acc.start # None
    <2> DEFINE g == [start |-> acc.start, end |-> b - 1]
    <2>1. new = [gaps |-> Append(old, g), start |-> None] BY <1>10 DEF ScanBlock, old
    <2>2. g \in G /\ acc.start \in Int BY <1>1, <1>4, <1>10 DEF G, GapsOf, b
    <2>3. \A k : Within(g, k) <=> (acc.start <= k /\ k <= b - 1) BY DEF Within
    <2> HIDE DEF g
    <2>4. new.gaps = Append(old, g) /\ new.start = None BY <2>1
    <2>5. Append(old, g) \in Seq(G) BY <1>2, <2>2
    <2>6. new \in [gaps: Seq(G), start: Int \cup {None}] BY <2>1, <2>5
    <2> HIDE DEF new
    <2>7. ASSUME NEW k \in from..b PROVE k \notin processed <=> Holds(Append(old, g), k)
      <3>1. Holds(Append(old, g), k) <=> Holds(old, k) \/ (acc.start <= k /\ k <= b - 1)
        BY <1>2, <2>2, <2>3, AppendHolds
      <3>2. CASE k = b
        <4>1. ~(k <= b - 1) BY <3>2, <1>4
        <4>2. QED BY <4>1, <3>1, <3>2, <1>6, <1>10
      <3>3. CASE k \in from..(from + n - 1)
        <4>1. k <= b - 1 BY <3>3 DEF b
        <4>2. QED BY <4>1, <3>1, <3>3, <1>3, <1>10
      <3>4. QED BY <3>2, <3>3, <1>5
    <2>8. QED BY <2>4, <2>6, <2>7
  <1>11. CASE b \in processed /\ acc.start = None
    <2>1. new = acc BY <1>11 DEF ScanBlock
    <2>2. new \in [gaps: Seq(G), start: Int \cup {None}] BY <1>1, <1>2, <2>1
    <2> HIDE DEF new
    <2>3. ASSUME NEW k \in from..b PROVE k \notin processed <=> Holds(old, k)
      BY <1>3, <1>5, <1>6, <1>11
    <2>4. QED BY <2>1, <2>2, <2>3, <1>11 DEF old
  <1>12. QED BY <1>9, <1>10, <1>11

\* What the loop has found at its end
LEMMA ScanResult ==
    ASSUME NEW from \in Int, NEW to \in Int, from <= to, NEW processed
    PROVE  Found(ScanBlocks(from, to, processed), from, to - from + 1, processed)
  <1> DEFINE N == to - from + 1
             f == CHOOSE g : IsScan(g, from, N, processed)
             S == {n \in 0..N : Found(f[n], from, n, processed)}
  <1>1. N \in Nat OBVIOUS
  <1>2. ScanBlocks(from, to, processed) = f[N] BY Zenon DEF ScanBlocks, IsScan, NoGaps
  <1> HIDE DEF N
  <1>3. IsScan(f, from, N, processed) BY <1>1, ScanExists
  <1> HIDE DEF f
  <1>4. \A n \in 0..N : f[n] = IF n = 0 THEN NoGaps ELSE ScanBlock(f[n - 1], from + n - 1, processed)
    BY <1>3 DEF IsScan
  <1>5. 0 \in S
    <2>1. f[0] = NoGaps /\ 0 \in 0..N BY <1>1, <1>4
    <2>2. Found(NoGaps, from, 0, processed)
      <3>1. /\ NoGaps.gaps = <<>> /\ NoGaps.start = None
            /\ NoGaps \in [gaps: Seq(GapsOf(from, from + 0 - 1)), start: Int \cup {None}]
        BY DEF NoGaps
      <3>2. \A b \in from..(from + 0 - 1) : FALSE OBVIOUS
      <3>3. QED BY <3>1, <3>2 DEF Found
    <2>3. QED BY <2>1, <2>2
  <1>6. ASSUME NEW n \in 1..N, n - 1 \in S PROVE n \in S
    <2>1. n - 1 \in Nat /\ n \in 0..N /\ n # 0 /\ from + (n - 1) = from + n - 1 /\ (n - 1) + 1 = n BY <1>1
    <2>2. Found(f[n - 1], from, n - 1, processed) BY <1>6
    <2>3. Found(ScanBlock(f[n - 1], from + (n - 1), processed), from, (n - 1) + 1, processed)
      BY <2>1, <2>2, ScanStep
    <2>4. f[n] = ScanBlock(f[n - 1], from + (n - 1), processed) BY <2>1, <1>4
    <2>5. QED BY <2>1, <2>3, <2>4
  <1> HIDE DEF S
  <1>7. N \in S BY <1>1, <1>5, <1>6, Count
  <1>8. QED BY <1>2, <1>7 DEF S, N

\* find_gaps(): gaps of the range, in Blocks if the range is, that hold exactly the blocks of
\* it that are not processed.  The command submits the gaps and nothing else, so what is
\* missing here is never submitted.
THEOREM GapsAreExact ==
    ASSUME NEW from \in Blocks, NEW to \in Blocks, from <= to, NEW processed
    PROVE  /\ FindGaps(from, to, processed) \in Seq(Gap)
           /\ FindGaps(from, to, processed) \in Seq(GapsOf(from, to))
           /\ \A b \in from..to : b \notin processed <=> Holds(FindGaps(from, to, processed), b)
  <1> DEFINE acc == ScanBlocks(from, to, processed)
             gaps == FindGaps(from, to, processed)
             last == [start |-> acc.start, end |-> to]
  <1>0. from \in Int /\ to \in Int /\ from + (to - from + 1) - 1 = to
    BY SubmissionsAssumption DEF Blocks
  <1>1. Found(acc, from, to - from + 1, processed) BY <1>0, ScanResult
  <1>2. gaps = IF acc.start = None THEN acc.gaps ELSE Append(acc.gaps, last) BY DEF FindGaps
  <1> HIDE DEF acc, gaps
  <1>3. /\ acc.gaps \in Seq(GapsOf(from, to)) /\ acc.start \in Int \cup {None}
        /\ acc.start # None => from <= acc.start /\ acc.start <= to
        /\ \A b \in from..to :
              b \notin processed <=> (Holds(acc.gaps, b) \/ (acc.start # None /\ acc.start <= b))
    BY <1>0, <1>1 DEF Found
  <1>4. acc.start # None => last \in GapsOf(from, to) BY <1>0, <1>3 DEF GapsOf
  <1>5. \A b : Within(last, b) <=> (acc.start <= b /\ b <= to) BY DEF Within
  <1> HIDE DEF last
  <1>6. gaps \in Seq(GapsOf(from, to))
    <2> DEFINE G == GapsOf(from, to)
    <2>1. acc.gaps \in Seq(G) /\ (acc.start # None => last \in G) BY <1>3, <1>4
    <2> HIDE DEF G
    <2>2. gaps \in Seq(G) BY <1>2, <2>1
    <2>3. QED BY <2>2 DEF G
  <1>7. \A b \in from..to : b \notin processed <=> Holds(gaps, b)
    <2>1. SUFFICES ASSUME NEW b \in from..to PROVE b \notin processed <=> Holds(gaps, b) OBVIOUS
    <2>2. CASE acc.start = None BY <2>2, <1>2, <1>3
    <2>3. CASE acc.start # None
      <3>1. Holds(gaps, b) <=> Holds(acc.gaps, b) \/ Within(last, b)
        BY <2>3, <1>2, <1>3, <1>4, AppendHolds
      <3>2. QED BY <2>3, <3>1, <1>3, <1>5
    <2>4. QED BY <2>2, <2>3
  <1>8. gaps \in Seq(Gap)
    <2> DEFINE G == GapsOf(from, to)
    <2>1. G \subseteq Gap BY SubmissionsAssumption DEF GapsOf, Gap, Blocks
    <2> HIDE DEF G
    <2>2. QED BY <1>6, <2>1 DEF G
  <1>9. QED BY <1>6, <1>7, <1>8 DEF gaps

-----------------------------------------------------------------------------
(* Numbers and sets *)

\* A block number is a natural number.
LEMMA BlocksAreNat == Blocks \subseteq Nat /\ 0 \in Blocks
  BY SubmissionsAssumption DEF Blocks

\* The least block of a set is one of the set.
LEMMA LeastBlock ==
    ASSUME NEW T, T \subseteq Blocks, T # {}
    PROVE  Min(T) \in T
  <1>1. PICK x \in T : \A y \in T : x <= y BY LeastNat, BlocksAreNat
  <1>2. QED BY <1>1 DEF Min

\* The greatest one is one of the set too, as there is a last block.
LEMMA GreatestBlock ==
    ASSUME NEW T, T \subseteq Blocks, T # {}
    PROVE  Max(T) \in T
  <1>1. IsFiniteSet(Blocks) BY FS_Interval, SubmissionsAssumption DEF Blocks
  <1>2. IsFiniteSet(T) BY <1>1, FS_Subset
  <1>3. T \subseteq Int BY BlocksAreNat
  <1>4. PICK x \in T : \A y \in T : y <= x BY <1>2, <1>3, GreatestInt
  <1>5. \A y \in T : x >= y BY <1>3, <1>4
  <1>6. QED BY <1>5 DEF Max

\* A registry is finite, so every set of units has a size.
LEMMA UnitsAreFinite ==
    ASSUME NEW S, S \subseteq Units
    PROVE  IsFiniteSet(S) /\ Cardinality(S) \in Nat
  <1>1. IsFiniteSet(Blocks) BY FS_Interval, SubmissionsAssumption DEF Blocks
  <1>2. IsFiniteSet(Units) BY <1>1, FS_Product, SubmissionsAssumption DEF Units
  <1>3. QED BY <1>2, FS_Subset, FS_CardinalityType

-----------------------------------------------------------------------------
(* QueueExecutor.execute() and the table *)

\* The ways execute() leaves a row: the row exists afterwards, on the queue it had; what
\* has ended stays as it is; only a message that was sent opens a row.
LEMMA ExecutedFacts ==
    ASSUME NEW r \in Attempt, NEW queue \in {"live", "backfill"}, NEW x \in Executed(r, queue)
    PROVE  /\ x.row \in Attempt /\ x.sent \in BOOLEAN
           /\ x.row.status # "absent"
           /\ x.row.status \in {r.status, "inflight", "given_up"}
           /\ r.status \in {"success", "given_up"} => x.row = r
           /\ x.row.dispatch_queue = IF r.status = "absent" THEN queue ELSE r.dispatch_queue
           /\ x.row.status = "inflight" /\ r.status # "inflight" => x.sent
  <1> DEFINE opened == [r EXCEPT !.status = "inflight"]
             placed == [opened EXCEPT !.dispatch_queue = queue]
  <1>1. /\ opened \in Attempt /\ opened.status = "inflight" /\ opened.dispatch_queue = r.dispatch_queue
        /\ placed \in Attempt /\ placed.status = "inflight" /\ placed.dispatch_queue = queue
    BY DEF Attempt, Statuses
  <1>2. ASSUME NEW a \in Attempt
        PROVE  /\ Sent(a).row = a /\ Sent(a).sent = TRUE
               /\ Dropped(a).row = a /\ Dropped(a).sent = FALSE
               /\ GivenUp(a).row \in Attempt /\ GivenUp(a).row.status = "given_up"
               /\ GivenUp(a).row.dispatch_queue = a.dispatch_queue /\ GivenUp(a).sent = FALSE
    BY DEF Sent, Dropped, GivenUp, Attempt, Statuses
  <1> DEFINE Leaves(a, y) ==
                 \/ y.row = a /\ y.sent = TRUE
                 \/ y.row = a /\ y.sent = FALSE /\ (a = r \/ a.status # "inflight")
                 \/ /\ y.row \in Attempt /\ y.row.status = "given_up" /\ y.sent = FALSE
                    /\ y.row.dispatch_queue = a.dispatch_queue
  <1>3. CASE r.status = "absent"
    <2>1. x \in {Sent(placed), GivenUp(placed)} BY <1>3 DEF Executed
    <2> HIDE DEF opened, placed
    <2>2. Leaves(placed, x)
      <3>1. CASE x = Sent(placed) BY <1>1, <1>2, <3>1
      <3>2. CASE x = GivenUp(placed) BY <1>1, <1>2, <3>2
      <3>3. QED BY <2>1, <3>1, <3>2
    <2>3. QED BY <1>1, <1>3, <2>2
  <1>4. CASE r.status = "inflight"
    <2>1. x \in {Sent(r), Dropped(r), GivenUp(r)} BY <1>4 DEF Executed
    <2>2. Leaves(r, x) BY <1>2, <2>1
    <2>3. QED BY <1>1, <1>4, <2>2
  <1>5. CASE r.status = "waiting"
    <2>1. x \in {Sent(r), Sent(opened), GivenUp(r)} BY <1>5 DEF Executed
    <2> HIDE DEF opened
    <2>2. Leaves(r, x) \/ Leaves(opened, x)
      <3>1. CASE x = Sent(r) BY <1>1, <1>2, <3>1
      <3>2. CASE x = Sent(opened) BY <1>1, <1>2, <3>2
      <3>3. CASE x = GivenUp(r) BY <1>1, <1>2, <3>3
      <3>4. QED BY <2>1, <3>1, <3>2, <3>3
    <2>3. QED BY <1>1, <1>5, <2>2
  <1>6. CASE r.status = "failed"
    <2>1. x \in {Dropped(r), Sent(opened), GivenUp(r)} BY <1>6 DEF Executed
    <2> HIDE DEF opened
    <2>2. Leaves(r, x) \/ Leaves(opened, x)
      <3>1. CASE x = Dropped(r) BY <1>1, <1>2, <3>1
      <3>2. CASE x = Sent(opened) BY <1>1, <1>2, <3>2
      <3>3. CASE x = GivenUp(r) BY <1>1, <1>2, <3>3
      <3>4. QED BY <2>1, <3>1, <3>2, <3>3
    <2>3. QED BY <1>1, <1>6, <2>2
  <1>7. CASE r.status \in {"success", "given_up"}
    <2>1. x \in {Dropped(r)} BY <1>7 DEF Executed
    <2>2. x.row = r /\ x.sent = FALSE BY <1>2, <2>1
    <2>3. QED BY <1>7, <2>2
  <1>8. QED BY <1>3, <1>4, <1>5, <1>6, <1>7 DEF Attempt, Statuses

\* What every step keeps of a row
RowKept(r, r2) ==
    /\ r.status # "absent" => r2.status # "absent"
    /\ r.status = "success" => r2.status = "success"

TableKept == attempt' \in [Units -> Attempt] /\ \A u \in Units : RowKept(attempt[u], attempt'[u])
OthersKept(u) == \A v \in Units : v # u => attempt'[v] = attempt[v]

\* execute() of a unit keeps the table.
LEMMA StoreFacts ==
    ASSUME SubmissionsTypeOK, NEW u \in Units, NEW queue \in {"live", "backfill"},
           NEW x \in Executed(attempt[u], queue), Store(u, x)
    PROVE  TableKept /\ OthersKept(u) /\ attempt'[u] = x.row /\ x.row.status # "absent"
  <1>1. attempt \in [Units -> Attempt] BY DEF SubmissionsTypeOK
  <1>2. attempt[u] \in Attempt BY <1>1
  <1>3. x.row \in Attempt /\ x.row.status # "absent" /\ (attempt[u].status = "success" => x.row = attempt[u])
    BY <1>2, ExecutedFacts
  <1>4. attempt'[u] = x.row /\ OthersKept(u) /\ attempt' \in [Units -> Attempt]
    BY <1>1, <1>3 DEF Store, OthersKept
  <1>5. QED BY <1>3, <1>4 DEF TableKept, RowKept, OthersKept

\* A table that no step touches is kept.
LEMMA SameTable == ASSUME SubmissionsTypeOK, UNCHANGED attempt PROVE TableKept
  BY DEF SubmissionsTypeOK, TableKept, RowKept

\* execute() that raises keeps the table.
LEMMA RaisesFacts ==
    ASSUME SubmissionsTypeOK, NEW u \in Units, NEW queue \in {"live", "backfill"}, ExecuteRaises(u, queue)
    PROVE  u \in Raising /\ TableKept /\ OthersKept(u)
  BY StoreFacts, SameTable DEF ExecuteRaises, OthersKept

\* Workers, retries and the sweep keep the table.
LEMMA BecomesFacts ==
    ASSUME SubmissionsTypeOK, NEW u \in Units, NEW status \in Statuses \ {"absent"},
           attempt[u].status # "success", Becomes(u, status)
    PROVE  /\ TableKept /\ OthersKept(u) /\ UNCHANGED head
           /\ attempt'[u].status = status /\ attempt'[u].dispatch_queue = attempt[u].dispatch_queue
  <1> DEFINE r2 == [attempt[u] EXCEPT !.status = status]
  <1>1. attempt \in [Units -> Attempt] BY DEF SubmissionsTypeOK
  <1>2. attempt[u] \in Attempt BY <1>1
  <1>3. r2 \in Attempt /\ r2.status = status /\ r2.dispatch_queue = attempt[u].dispatch_queue
    BY <1>2 DEF Attempt
  <1>4. attempt' = [attempt EXCEPT ![u] = r2] /\ UNCHANGED head BY <1>1 DEF Becomes
  <1> HIDE DEF r2
  <1>5. attempt'[u] = r2 /\ OthersKept(u) /\ attempt' \in [Units -> Attempt]
    BY <1>1, <1>3, <1>4 DEF OthersKept
  <1>6. QED BY <1>3, <1>4, <1>5 DEF TableKept, RowKept, OthersKept

-----------------------------------------------------------------------------
(* Types *)

\* TypeOK, and what it rests on: the item of a lookback that is being filled is a task, and
\* a gate without a throttle reads no room.
LiveState == [pc: LivePCs, polls: SUBSET Sources, source: Sources, block: Blocks,
              items: SUBSET Tasks, item: Tasks \cup {None}, todo: SUBSET Blocks,
              free: Nat \cup {None}, last: [Sources -> Nat \cup {None}]]
LiveInv ==
    /\ LiveTypeOK
    /\ live.pc = "fill" => live.item \in Tasks
    /\ Throttle = None => live.free = None
BackfillInv == BackfillTypeOK /\ (Throttle = None => backfill.free = None)
TypeInv == SubmissionsTypeOK /\ LiveInv /\ BackfillInv

\* The room a gate reads
LEMMA RoomType == ASSUME Throttle # None PROVE ReadFree \in Nat
  <1> DEFINE n == CountInflight(BackfillQueue)
  <1>1. n \in Nat BY UnitsAreFinite DEF CountInflight, InflightOn
  <1> HIDE DEF n
  <1>2. Throttle \in Nat BY SubmissionsAssumption
  <1>3. ReadFree = IF n < Throttle THEN Throttle - n ELSE 0 BY DEF ReadFree, n
  <1>4. QED BY <1>1, <1>2, <1>3

\* The room that is left after a submission
LEMMA SpentType ==
    ASSUME NEW free \in Nat \cup {None}, Throttle = None => free = None, HasRoom(free), NEW sent
    PROVE  Spent(free, sent) \in Nat \cup {None} /\ (Throttle = None => Spent(free, sent) = None)
  <1>1. None \notin Int BY SubmissionsAssumption
  <1>2. QED BY <1>1 DEF HasRoom, Spent

\* The starting block of a source
LEMMA StartType ==
    ASSUME SubmissionsTypeOK, NEW s \in Sources
    PROVE  /\ LatestExecuted(s) \in {0} \cup UNION {Recorded(t) : t \in TasksOf(s)}
           /\ GetStartingBlock(s) \in Nat
           /\ StartingBlocks(s) \subseteq Nat \cup {None}
  <1> DEFINE T == {0} \cup UNION {Recorded(t) : t \in TasksOf(s)}
  <1>1. T \subseteq Blocks /\ T # {} BY BlocksAreNat DEF Recorded
  <1>2. LatestExecuted(s) = Max(T) BY DEF LatestExecuted
  <1> HIDE DEF T
  <1>3. LatestExecuted(s) \in T BY <1>1, <1>2, GreatestBlock
  <1>4. LatestExecuted(s) \in Nat /\ head[s] \in Nat BY <1>1, <1>3, BlocksAreNat DEF SubmissionsTypeOK
  <1>5. GetStartingBlock(s) \in Nat BY <1>4, LiveSchedulerAssumption DEF GetStartingBlock
  <1>6. QED BY <1>3, <1>5 DEF T, StartingBlocks

\* The steps of the live scheduler that leave the table alone
QuietLive ==
    \/ Start \/ StartLookback \/ FillReadRoom \/ EndFill \/ EndPoll \/ NextRound \/ StopScheduler
    \/ \E s \in Sources : Poll(s)
    \/ \E t \in Tasks : Scan(t)

\* They keep the types of the scheduler's memory.
LEMMA QuietLiveOK ==
    ASSUME SubmissionsTypeOK, LiveInv, QuietLive
    PROVE  LiveInv' /\ UNCHANGED <<head, attempt>>
  <1> USE DEF LiveInv, LivePCs, LiveState
  <1>0. None \notin Int BY SubmissionsAssumption
  <1>1. Stopped \in LiveState /\ Stopped.pc = "down" /\ Stopped.free = None
    BY SubmissionsAssumption, BlocksAreNat DEF Stopped
  <1>2. CASE Start
    <2>1. PICK last : /\ \A s \in Polled : last[s] \in StartingBlocks(s)
                      /\ live' = [Stopped EXCEPT !.pc = "poll", !.polls = Polled,
                                      !.last = [s \in Sources |-> IF s \in Polled THEN last[s] ELSE None]]
      BY <1>2 DEF Start
    <2> DEFINE all == [s \in Sources |-> IF s \in Polled THEN last[s] ELSE None]
    <2>2. all \in [Sources -> Nat \cup {None}] BY <2>1, StartType DEF Polled
    <2>3. live' = [Stopped EXCEPT !.pc = "poll", !.polls = Polled, !.last = all] BY <2>1
    <2> HIDE DEF all
    <2>4. LiveTypeOK' /\ live'.pc = "poll" /\ live'.free = None BY <1>1, <2>2, <2>3 DEF LiveTypeOK, Polled
    <2>5. QED BY <1>2, <2>4 DEF Start
  <1>3. CASE StartLookback
    <2> DEFINE items == {t \in TasksOf(live.source) : LookbackEnabled /\ Lookback[t] # None}
    <2>1. items \subseteq Tasks BY DEF TasksOf
    <2>2. live' = [live EXCEPT !.pc = "lookback", !.items = items] BY <1>3 DEF StartLookback
    <2> HIDE DEF items
    <2>3. QED BY <1>3, <2>1, <2>2 DEF StartLookback, LiveTypeOK
  <1>4. CASE FillReadRoom BY <1>4, RoomType DEF FillReadRoom, LiveTypeOK
  <1>5. CASE EndFill BY <1>5 DEF EndFill, LiveTypeOK
  <1>6. CASE EndPoll BY <1>6, BlocksAreNat DEF EndPoll, LiveTypeOK
  <1>7. CASE NextRound BY <1>7 DEF NextRound, LiveTypeOK, Polled
  <1>8. ASSUME NEW s \in Sources, Poll(s) PROVE LiveInv' /\ UNCHANGED <<head, attempt>>
    <2>1. PICK start \in IF live.last[s] = None THEN StartingBlocks(s) ELSE {live.last[s]} :
              LET turn == [live EXCEPT !.last[s] = start, !.polls = @ \ {s}]
              IN  \/ live' = [turn EXCEPT !.pc = "process", !.source = s, !.block = head[s],
                                          !.items = TasksOf(s)]
                  \/ live' = turn
      BY <1>8 DEF Poll, TurnLost
    <2>2. start \in Nat \cup {None} BY <2>1, StartType DEF LiveTypeOK
    <2> DEFINE turn == [live EXCEPT !.last[s] = start, !.polls = @ \ {s}]
    <2>3. turn \in LiveState /\ turn.pc = live.pc /\ turn.free = live.free
      BY <2>2 DEF LiveTypeOK
    <2>4. live.pc = "poll" BY <1>8 DEF Poll
    <2>5. head[s] \in Blocks /\ TasksOf(s) \subseteq Tasks BY DEF SubmissionsTypeOK, TasksOf
    <2>6. live' = turn \/ live' = [turn EXCEPT !.pc = "process", !.source = s, !.block = head[s],
                                               !.items = TasksOf(s)]
      BY <2>1
    <2> HIDE DEF turn
    <2>7. LiveTypeOK' /\ live'.pc # "fill" /\ live'.free = live.free
      <3>1. CASE live' = turn BY <2>3, <2>4, <3>1 DEF LiveTypeOK
      <3>2. CASE live' = [turn EXCEPT !.pc = "process", !.source = s, !.block = head[s],
                                      !.items = TasksOf(s)]
        BY <2>3, <2>5, <3>2 DEF LiveTypeOK
      <3>3. QED BY <2>6, <3>1, <3>2
    <2>8. QED BY <1>8, <2>7 DEF Poll
  <1>9. ASSUME NEW t \in Tasks, Scan(t) PROVE LiveInv' /\ UNCHANGED <<head, attempt>>
    <2> DEFINE todo == {b \in Window(live.block, Lookback[t]) \
                            WithStatus(t, {"success", "inflight", "waiting"}) : <<t, b>> \in Matches}
    <2>1. todo \subseteq Blocks BY DEF Window
    <2>2. live' = [live EXCEPT !.pc = "fill", !.item = t, !.items = @ \ {t}, !.free = None, !.todo = todo]
      BY <1>9 DEF Scan
    <2> HIDE DEF todo
    <2>3. LiveTypeOK' /\ live'.item = t /\ live'.free = None BY <2>1, <2>2 DEF LiveTypeOK
    <2>4. QED BY <1>9, <2>3 DEF Scan
  <1>10. CASE StopScheduler BY <1>1, <1>10 DEF StopScheduler, LiveTypeOK
  <1>11. QED BY <1>2, <1>3, <1>4, <1>5, <1>6, <1>7, <1>8, <1>9, <1>10 DEF QuietLive

\* process_block() of one task
LEMMA ProcessFacts ==
    ASSUME SubmissionsTypeOK, LiveInv, NEW t \in Tasks, Process(t)
    PROVE  /\ LiveInv' /\ UNCHANGED head /\ TableKept
           /\ live' = [live EXCEPT !.items = @ \ {t}]
           /\ <<t, live.block>> \in Units /\ OthersKept(<<t, live.block>>)
           /\ \/ UNCHANGED attempt /\ <<t, live.block>> \notin Matches \ Raising
              \/ \E x \in Executed(attempt[<<t, live.block>>], "live") : Store(<<t, live.block>>, x)
  <1> DEFINE u == <<t, live.block>>
  <1>1. u \in Units BY DEF LiveInv, LiveTypeOK, Units
  <1>2. /\ live' = [live EXCEPT !.items = @ \ {t}] /\ UNCHANGED head
        /\ \/ UNCHANGED attempt /\ u \notin Matches \ Raising
           \/ \E x \in Executed(attempt[u], "live") : Store(u, x)
    BY DEF Process, ExecuteRaises
  <1> HIDE DEF u
  <1>3. TableKept /\ OthersKept(u) BY <1>1, <1>2, StoreFacts, SameTable DEF OthersKept
  <1>4. LiveInv' BY <1>2 DEF LiveInv, LiveTypeOK
  <1>5. QED BY <1>1, <1>2, <1>3, <1>4 DEF u

\* submit_block() of one block of a lookback: it is submitted, there is no room, or it raises.
FillSubmits(u, b) ==
    /\ HasRoom(live.free)
    /\ \E x \in Executed(attempt[u], BackfillQueue) :
           Store(u, x) /\ live' = [live EXCEPT !.todo = @ \ {b}, !.free = Spent(@, x.sent)]
FillSkips(b) ==
    /\ Throttle # None /\ live.free = 0
    /\ live' = [live EXCEPT !.todo = @ \ {b}] /\ UNCHANGED attempt
FillRaises(u) ==
    /\ u \in Raising /\ HasRoom(live.free)
    /\ ExecuteRaises(u, BackfillQueue) /\ live' = [live EXCEPT !.todo = {}]

\* The cases of a step of Fill
LEMMA FillFacts ==
    ASSUME SubmissionsTypeOK, LiveInv, Fill
    PROVE  \E b \in live.todo :
               /\ LiveInv' /\ UNCHANGED head /\ TableKept /\ b \in Blocks
               /\ <<live.item, b>> \in Units /\ OthersKept(<<live.item, b>>)
               /\ FillSubmits(<<live.item, b>>, b) \/ FillSkips(b) \/ FillRaises(<<live.item, b>>)
  <1> DEFINE b == Min(live.todo)
             u == <<live.item, b>>
  <1>1. live.todo \subseteq Blocks /\ live.todo # {} /\ live.item \in Tasks
    BY DEF Fill, LiveInv, LiveTypeOK
  <1>2. b \in live.todo BY <1>1, LeastBlock
  <1>3. u \in Units BY <1>1, <1>2 DEF Units
  <1>4. UNCHANGED head /\ (FillSubmits(u, b) \/ FillSkips(b) \/ FillRaises(u))
    BY DEF Fill, FillSubmits, FillSkips, FillRaises, ExecuteRaises
  <1> HIDE DEF b, u
  <1>5. BackfillQueue \in {"live", "backfill"} BY SubmissionsAssumption
  <1>6. TableKept /\ OthersKept(u)
    BY <1>3, <1>4, <1>5, StoreFacts, SameTable, RaisesFacts DEF FillSubmits, FillSkips, FillRaises, OthersKept
  <1>7. LiveInv'
    <2>1. CASE FillSubmits(u, b)
      <3>1. PICK x \in Executed(attempt[u], BackfillQueue) :
                live' = [live EXCEPT !.todo = @ \ {b}, !.free = Spent(@, x.sent)]
        BY <2>1 DEF FillSubmits
      <3>2. Spent(live.free, x.sent) \in Nat \cup {None} /\ (Throttle = None => Spent(live.free, x.sent) = None)
        BY <2>1, SpentType DEF FillSubmits, LiveInv, LiveTypeOK
      <3>3. QED BY <3>1, <3>2 DEF LiveInv, LiveTypeOK
    <2>2. CASE FillSkips(b) \/ FillRaises(u) BY <2>2 DEF FillSkips, FillRaises, LiveInv, LiveTypeOK
    <2>3. QED BY <1>4, <2>1, <2>2
  <1>8. QED BY <1>1, <1>2, <1>3, <1>4, <1>6, <1>7 DEF u

\* The steps of the backfill command that leave the table alone
QuietBackfill ==
    \/ StartGap \/ BackfillReadRoom \/ EndGap \/ EndBackfill \/ Interrupt \/ BackfillDies
    \/ \E r \in Ranges : StartBackfill(r[1], r[2])

\* They keep the types of the command's memory.
LEMMA QuietBackfillOK ==
    ASSUME SubmissionsTypeOK, BackfillInv, QuietBackfill
    PROVE  BackfillInv' /\ UNCHANGED <<head, attempt>>
  <1> DEFINE State == [pc: {"idle", "gap", "run", "done"}, range: SUBSET Blocks, gaps: Seq(Gap),
                       todo: SUBSET Units, free: Nat \cup {None}, interrupted: BOOLEAN]
  <1>1. NoBackfill \in State /\ NoBackfill.free = None BY DEF NoBackfill
  <1>2. CASE StartGap
    <2> DEFINE gap == Head(backfill.gaps)
               todo == {u \in Matches : u[2] \in gap.start..gap.end /\ attempt[u].status # "success"}
    <2>1. todo \subseteq Units BY SubmissionsAssumption
    <2>2. backfill.gaps \in Seq(Gap) /\ backfill.gaps # <<>> BY <1>2 DEF StartGap, BackfillInv, BackfillTypeOK
    <2>3. Tail(backfill.gaps) \in Seq(Gap) BY <2>2
    <2>4. backfill' = [backfill EXCEPT !.pc = "run", !.gaps = Tail(@), !.free = None, !.todo = todo]
      BY <1>2 DEF StartGap
    <2> HIDE DEF todo
    <2>5. QED BY <1>2, <2>1, <2>3, <2>4 DEF StartGap, BackfillInv, BackfillTypeOK
  <1>3. CASE BackfillReadRoom
    <2>1. Throttle # None /\ ReadFree \in Nat BY <1>3, RoomType DEF BackfillReadRoom, HasRoom
    <2>2. QED BY <1>3, <2>1 DEF BackfillReadRoom, BackfillInv, BackfillTypeOK
  <1>4. CASE EndGap BY <1>4 DEF EndGap, BackfillInv, BackfillTypeOK
  <1>5. CASE EndBackfill BY <1>5 DEF EndBackfill, BackfillInv, BackfillTypeOK
  <1>6. CASE Interrupt BY <1>1, <1>6 DEF Interrupt, BackfillInv, BackfillTypeOK
  <1>7. CASE BackfillDies BY <1>1, <1>7 DEF BackfillDies, BackfillInv, BackfillTypeOK
  <1>8. ASSUME NEW r \in Ranges, StartBackfill(r[1], r[2]) PROVE BackfillInv' /\ UNCHANGED <<head, attempt>>
    <2> DEFINE gaps == IF GapDetection THEN FindGaps(r[1], r[2], Successful)
                       ELSE <<[start |-> r[1], end |-> r[2]]>>
    <2>1. r[1] \in Blocks /\ r[2] \in Blocks /\ r[1] <= r[2] BY BackfillAssumption
    <2>2. FindGaps(r[1], r[2], Successful) \in Seq(Gap) BY <2>1, GapsAreExact
    <2>3. [start |-> r[1], end |-> r[2]] \in Gap BY <2>1 DEF Gap
    <2>4. gaps \in Seq(Gap) BY <2>2, <2>3
    <2>5. r[1]..r[2] \subseteq Blocks BY <2>1, SubmissionsAssumption DEF Blocks
    <2>6. backfill' = [NoBackfill EXCEPT !.pc = "gap", !.range = r[1]..r[2], !.gaps = gaps]
      BY <1>8 DEF StartBackfill
    <2> HIDE DEF gaps
    <2>7. BackfillInv' BY <1>1, <2>4, <2>5, <2>6 DEF BackfillInv, BackfillTypeOK
    <2>8. QED BY <1>8, <2>7 DEF StartBackfill
  <1>9. QED BY <1>2, <1>3, <1>4, <1>5, <1>6, <1>7, <1>8 DEF QuietBackfill

\* submit_block() of the backfill command
BackfillStores(u) ==
    \E x \in Executed(attempt[u], BackfillQueue) :
        Store(u, x) /\ backfill' = [backfill EXCEPT !.todo = @ \ {u}, !.free = Spent(@, x.sent)]
BackfillRaises(u) ==
    u \in Raising /\ ExecuteRaises(u, BackfillQueue) /\ backfill' = [backfill EXCEPT !.todo = @ \ {u}]

\* The cases of a submission
LEMMA SubmitFacts ==
    ASSUME SubmissionsTypeOK, BackfillInv, NEW u \in Units, BackfillSubmit(u)
    PROVE  /\ BackfillInv' /\ UNCHANGED head /\ TableKept /\ OthersKept(u)
           /\ BackfillStores(u) \/ BackfillRaises(u)
  <1>1. BackfillStores(u) \/ BackfillRaises(u)
    BY DEF BackfillSubmit, BackfillStores, BackfillRaises, ExecuteRaises
  <1>2. BackfillQueue \in {"live", "backfill"} BY SubmissionsAssumption
  <1>3. TableKept /\ OthersKept(u)
    BY <1>1, <1>2, StoreFacts, RaisesFacts DEF BackfillStores, BackfillRaises
  <1>4. CASE BackfillStores(u)
    <2>1. PICK x \in Executed(attempt[u], BackfillQueue) :
              backfill' = [backfill EXCEPT !.todo = @ \ {u}, !.free = Spent(@, x.sent)]
      BY <1>4 DEF BackfillStores
    <2>2. /\ Spent(backfill.free, x.sent) \in Nat \cup {None}
          /\ Throttle = None => Spent(backfill.free, x.sent) = None
      BY SpentType DEF BackfillSubmit, BackfillInv, BackfillTypeOK
    <2>3. BackfillInv' BY <2>1, <2>2 DEF BackfillInv, BackfillTypeOK
    <2>4. QED BY <1>1, <1>3, <2>3 DEF BackfillSubmit
  <1>5. CASE BackfillRaises(u)
    <2>1. BackfillInv' BY <1>5 DEF BackfillRaises, BackfillInv, BackfillTypeOK
    <2>2. QED BY <1>1, <1>3, <2>1 DEF BackfillSubmit
  <1>6. QED BY <1>1, <1>4, <1>5

\* The chain
LEMMA AdvanceFacts ==
    ASSUME SubmissionsTypeOK, NEW s \in Sources, Advance(s)
    PROVE  head' \in [Sources -> Blocks] /\ (\A z \in Sources : head[z] <= head'[z]) /\ UNCHANGED attempt
  <1>1. head \in [Sources -> Blocks] /\ \A z \in Sources : head[z] \in Nat /\ head[z] <= MaxBlock
    BY SubmissionsAssumption DEF SubmissionsTypeOK, Blocks
  <1>2. head[s] < MaxBlock BY <1>1, SubmissionsAssumption DEF Advance
  <1>3. head[s] + 1 \in Blocks BY <1>1, <1>2, SubmissionsAssumption DEF Blocks
  <1>4. QED BY <1>1, <1>3 DEF Advance

\* The workers
LEMMA WorkersFacts ==
    ASSUME SubmissionsTypeOK, NEW u \in Units, Finish(u) \/ Delay(u) \/ ComeBack(u)
    PROVE  /\ TableKept /\ OthersKept(u) /\ UNCHANGED head
           /\ attempt[u].status # "absent" /\ attempt'[u].dispatch_queue = attempt[u].dispatch_queue
  BY BecomesFacts DEF Finish, Delay, ComeBack, Statuses

\* The kinds of steps
LEMMA StepCases ==
    ASSUME [Next]_vars
    PROVE  \/ QuietLive /\ UNCHANGED backfill
           \/ (\E t \in Tasks : Process(t)) /\ UNCHANGED backfill
           \/ Fill /\ UNCHANGED backfill
           \/ QuietBackfill /\ UNCHANGED live
           \/ (\E u \in Units : BackfillSubmit(u)) /\ UNCHANGED live
           \/ (\E z \in Sources : Advance(z)) /\ UNCHANGED <<live, backfill>>
           \/ (\E u \in Units : Finish(u) \/ Delay(u) \/ ComeBack(u)) /\ UNCHANGED <<live, backfill>>
           \/ UNCHANGED <<head, attempt, live, backfill>>
  BY DEF Next, vars, LiveStep, BackfillStep, Environment, QuietLive, QuietBackfill

\* Every step keeps the types and the table, and heads only grow.
HeadsGrow == \A z \in Sources : head[z] <= head'[z]
LEMMA EveryStepOK == ASSUME TypeInv, [Next]_vars PROVE TypeInv' /\ TableKept /\ HeadsGrow
  <1>0. SubmissionsTypeOK /\ LiveInv /\ BackfillInv BY DEF TypeInv
  <1>1. \A z \in Sources : head[z] \in Nat BY <1>0, BlocksAreNat DEF SubmissionsTypeOK
  <1>2. ASSUME UNCHANGED head, TableKept PROVE SubmissionsTypeOK' /\ HeadsGrow
    BY <1>0, <1>1, <1>2 DEF SubmissionsTypeOK, TableKept, HeadsGrow
  <1>3. ASSUME UNCHANGED live PROVE LiveInv' BY <1>0, <1>3 DEF LiveInv, LiveTypeOK
  <1>4. ASSUME UNCHANGED backfill PROVE BackfillInv' BY <1>0, <1>4 DEF BackfillInv, BackfillTypeOK
  <1>5. CASE QuietLive /\ UNCHANGED backfill
    BY <1>0, <1>2, <1>4, <1>5, QuietLiveOK, SameTable DEF TypeInv
  <1>6. CASE (\E t \in Tasks : Process(t)) /\ UNCHANGED backfill
    <2>1. LiveInv' /\ UNCHANGED head /\ TableKept BY <1>0, <1>6, ProcessFacts
    <2>2. QED BY <1>2, <1>4, <1>6, <2>1 DEF TypeInv
  <1>7. CASE Fill /\ UNCHANGED backfill
    <2>1. LiveInv' /\ UNCHANGED head /\ TableKept BY <1>0, <1>7, FillFacts
    <2>2. QED BY <1>2, <1>4, <1>7, <2>1 DEF TypeInv
  <1>8. CASE QuietBackfill /\ UNCHANGED live
    BY <1>0, <1>2, <1>3, <1>8, QuietBackfillOK, SameTable DEF TypeInv
  <1>9. CASE (\E u \in Units : BackfillSubmit(u)) /\ UNCHANGED live
    <2>1. BackfillInv' /\ UNCHANGED head /\ TableKept BY <1>0, <1>9, SubmitFacts
    <2>2. QED BY <1>2, <1>3, <1>9, <2>1 DEF TypeInv
  <1>10. CASE (\E z \in Sources : Advance(z)) /\ UNCHANGED <<live, backfill>>
    <2>1. head' \in [Sources -> Blocks] /\ HeadsGrow /\ UNCHANGED attempt
      BY <1>0, <1>10, AdvanceFacts DEF HeadsGrow
    <2>2. TableKept BY <1>0, <2>1, SameTable
    <2>3. SubmissionsTypeOK' BY <2>1, <2>2 DEF SubmissionsTypeOK, TableKept
    <2>4. QED BY <1>3, <1>4, <1>10, <2>1, <2>2, <2>3 DEF TypeInv
  <1>11. CASE (\E u \in Units : Finish(u) \/ Delay(u) \/ ComeBack(u)) /\ UNCHANGED <<live, backfill>>
    <2>1. TableKept /\ UNCHANGED head BY <1>0, <1>11, WorkersFacts
    <2>2. QED BY <1>2, <1>3, <1>4, <1>11, <2>1 DEF TypeInv
  <1>12. CASE UNCHANGED <<head, attempt, live, backfill>>
    BY <1>0, <1>2, <1>3, <1>4, <1>12, SameTable DEF TypeInv
  <1>13. QED BY <1>5, <1>6, <1>7, <1>8, <1>9, <1>10, <1>11, <1>12, StepCases

\* Init establishes the types.
LEMMA TypesInit == ASSUME Init PROVE TypeInv
  <1>1. SubmissionsTypeOK
    BY BlocksAreNat DEF Init, SubmissionsInit, SubmissionsTypeOK, Attempt, Statuses
  <1>2. LiveInv
    BY SubmissionsAssumption, BlocksAreNat DEF Init, LiveInit, Stopped, LiveInv, LiveTypeOK, LivePCs
  <1>3. BackfillInv BY DEF Init, BackfillInit, NoBackfill, BackfillInv, BackfillTypeOK
  <1>4. QED BY <1>1, <1>2, <1>3 DEF TypeInv

\* TypeOK of the two processes and what they share.  It says that a gate's room is never
\* negative and that a start is found for every head.
THEOREM Types == Spec => []TypeOK
  <1>1. TypeInv => TypeOK BY DEF TypeInv, TypeOK, LiveInv, BackfillInv
  <1>2. TypeInv /\ [Next]_vars => TypeInv' BY EveryStepOK
  <1>3. QED BY <1>1, <1>2, TypesInit, PTL DEF Spec

-----------------------------------------------------------------------------
(* What a backfill covers *)

\* A unit of the range the command has not lost: its block has a success, it has an attempt,
\* or it is still to be submitted, by a gap that waits or by the scheduler that runs.
NotLost(t, b) ==
    \/ b \in Successful
    \/ <<t, b>> \notin Matches \ Raising
    \/ attempt[<<t, b>>].status # "absent"
    \/ Holds(backfill.gaps, b)
    \/ backfill.pc = "run" /\ <<t, b>> \in backfill.todo

CoverInv ==
    backfill.pc \in {"gap", "run", "done"} /\ ~backfill.interrupted =>
        /\ backfill.pc = "done" => backfill.gaps = <<>>
        /\ \A b \in backfill.range, t \in Tasks : NotLost(t, b)

\* A block that has a success keeps it.
LEMMA SuccessKept == ASSUME TableKept PROVE Successful \subseteq Successful'
  <1>1. SUFFICES ASSUME NEW b \in Successful PROVE b \in Successful' OBVIOUS
  <1>2. PICK t \in Tasks : b \in Blocks /\ attempt[<<t, b>>].status = "success" BY DEF Successful, WithStatus
  <1>3. attempt'[<<t, b>>].status = "success" BY <1>2 DEF TableKept, RowKept, Units
  <1>4. b \in WithStatus(t, {"success"})' BY <1>2, <1>3 DEF WithStatus
  <1>5. QED BY <1>4 DEF Successful

\* A block that the gaps hold is held by the first or by the others.
LEMMA HeadOrTail ==
    ASSUME NEW G, NEW gaps \in Seq(G), gaps # <<>>, NEW b, Holds(gaps, b)
    PROVE  Within(Head(gaps), b) \/ Holds(Tail(gaps), b)
  <1>1. PICK i \in 1..Len(gaps) : Within(gaps[i], b) BY DEF Holds
  <1>2. CASE i = 1 BY <1>1, <1>2
  <1>3. CASE i # 1
    <2>1. i - 1 \in 1..Len(Tail(gaps)) /\ Tail(gaps)[i - 1] = gaps[i] BY <1>3
    <2>2. QED BY <1>1, <2>1 DEF Holds
  <1>4. QED BY <1>2, <1>3

\* Steps of the others
LEMMA CoverOthers == ASSUME TypeInv, CoverInv, TableKept, UNCHANGED backfill PROVE CoverInv'
  <1>1. Successful \subseteq Successful' BY SuccessKept
  <1>2. ASSUME NEW b \in backfill.range, NEW t \in Tasks, NotLost(t, b) PROVE NotLost(t, b)'
    <2>1. <<t, b>> \in Units BY DEF TypeInv, BackfillInv, BackfillTypeOK, Units
    <2>2. attempt[<<t, b>>].status # "absent" => attempt'[<<t, b>>].status # "absent"
      BY <2>1 DEF TableKept, RowKept
    <2>3. QED BY <1>1, <1>2, <2>2 DEF NotLost
  <1>3. QED BY <1>2 DEF CoverInv

\* The command starts with the gaps of its range.
LEMMA CoverStart ==
    ASSUME TypeInv, NEW r \in Ranges, StartBackfill(r[1], r[2])
    PROVE  CoverInv'
  <1> DEFINE gaps == IF GapDetection THEN FindGaps(r[1], r[2], Successful)
                     ELSE <<[start |-> r[1], end |-> r[2]]>>
  <1>1. r[1] \in Blocks /\ r[2] \in Blocks /\ r[1] <= r[2] BY BackfillAssumption
  <1>2. backfill' = [NoBackfill EXCEPT !.pc = "gap", !.range = r[1]..r[2], !.gaps = gaps]
    BY DEF StartBackfill
  <1>3. ASSUME NEW b \in r[1]..r[2] PROVE b \in Successful \/ Holds(gaps, b)
    <2>1. CASE GapDetection BY <1>1, <2>1, GapsAreExact
    <2>2. CASE ~GapDetection
      <3> DEFINE g == [start |-> r[1], end |-> r[2]]
      <3>1. gaps = <<g>> /\ Within(g, b) BY <1>1, <2>2, BlocksAreNat DEF Within
      <3> HIDE DEF gaps, g
      <3>2. 1 \in 1..Len(gaps) /\ gaps[1] = g BY <3>1
      <3>3. QED BY <3>1, <3>2 DEF Holds
    <2>3. QED BY <2>1, <2>2
  <1> HIDE DEF gaps
  <1>4. backfill'.gaps = gaps /\ backfill'.range = r[1]..r[2] /\ backfill'.pc = "gap" BY <1>2 DEF NoBackfill
  <1>5. UNCHANGED attempt BY DEF StartBackfill
  <1>6. Successful' = Successful BY <1>5 DEF Successful, WithStatus
  <1>7. QED BY <1>3, <1>4, <1>6 DEF CoverInv, NotLost

\* The gap at the head becomes what the scheduler has to do.
LEMMA CoverGap == ASSUME TypeInv, CoverInv, StartGap PROVE CoverInv'
  <1> DEFINE gap == Head(backfill.gaps)
             todo == {u \in Matches : u[2] \in gap.start..gap.end /\ attempt[u].status # "success"}
  <1>1. backfill.gaps \in Seq(Gap) /\ backfill.gaps # <<>> /\ backfill.pc = "gap"
    BY DEF StartGap, TypeInv, BackfillInv, BackfillTypeOK
  <1>2. backfill' = [backfill EXCEPT !.pc = "run", !.gaps = Tail(@), !.free = None, !.todo = todo]
    BY DEF StartGap
  <1> HIDE DEF todo
  <1>3. /\ backfill'.pc = "run" /\ backfill'.gaps = Tail(backfill.gaps) /\ backfill'.todo = todo
        /\ backfill'.range = backfill.range /\ backfill'.interrupted = backfill.interrupted
    BY <1>2 DEF TypeInv, BackfillInv, BackfillTypeOK
  <1>4. UNCHANGED attempt BY DEF StartGap
  <1>5. Successful' = Successful BY <1>4 DEF Successful, WithStatus
  <1>6. ASSUME NEW b \in backfill.range, NEW t \in Tasks, NotLost(t, b) PROVE NotLost(t, b)'
    <2>1. CASE Holds(backfill.gaps, b)
      <3>1. CASE Holds(Tail(backfill.gaps), b) BY <3>1, <1>3 DEF NotLost
      <3>2. CASE Within(gap, b)
        <4>1. b \in Blocks /\ b \in Int BY BlocksAreNat DEF TypeInv, BackfillInv, BackfillTypeOK
        <4>2. gap \in Gap BY <1>1
        <4>3. b \in gap.start..gap.end BY <3>2, <4>1, <4>2, BlocksAreNat DEF Within, Gap
        <4>4. CASE attempt[<<t, b>>].status = "success"
          <5>1. b \in Successful BY <4>1, <4>4 DEF Successful, WithStatus
          <5>2. QED BY <5>1, <1>5 DEF NotLost
        <4>5. CASE attempt[<<t, b>>].status # "success"
          <5>1. <<t, b>> \in Matches => <<t, b>> \in todo BY <4>3, <4>5 DEF todo
          <5>2. QED BY <5>1, <1>3 DEF NotLost
        <4>6. QED BY <4>4, <4>5
      <3>3. QED BY <1>1, <2>1, <3>1, <3>2, HeadOrTail
    <2>2. CASE ~Holds(backfill.gaps, b) BY <1>1, <1>4, <1>5, <1>6, <2>2 DEF NotLost
    <2>3. QED BY <2>1, <2>2
  <1>7. QED BY <1>1, <1>3, <1>6 DEF CoverInv

\* What is submitted has an attempt, unless it raises: then that unit alone is left out.
LEMMA CoverSubmit ==
    ASSUME TypeInv, CoverInv, NEW u \in Units, BackfillSubmit(u)
    PROVE  CoverInv'
  <1>0. SubmissionsTypeOK /\ BackfillInv /\ BackfillQueue \in {"live", "backfill"}
    BY SubmissionsAssumption DEF TypeInv
  <1>1. TableKept /\ (BackfillStores(u) \/ BackfillRaises(u)) BY <1>0, SubmitFacts
  <1>2. attempt'[u].status # "absent" \/ u \in Raising
    BY <1>0, <1>1, StoreFacts DEF BackfillStores, BackfillRaises
  <1>3. backfill \in [pc: {"idle", "gap", "run", "done"}, range: SUBSET Blocks, gaps: Seq(Gap),
                      todo: SUBSET Units, free: Nat \cup {None}, interrupted: BOOLEAN]
    BY <1>0 DEF BackfillInv, BackfillTypeOK
  <1>4. /\ backfill'.pc = backfill.pc /\ backfill'.gaps = backfill.gaps /\ backfill'.todo = backfill.todo \ {u}
        /\ backfill'.range = backfill.range /\ backfill'.interrupted = backfill.interrupted
    <2>1. CASE BackfillStores(u) BY <1>3, <2>1 DEF BackfillStores
    <2>2. CASE BackfillRaises(u) BY <1>3, <2>2 DEF BackfillRaises
    <2>3. QED BY <1>1, <2>1, <2>2
  <1>5. Successful \subseteq Successful' BY <1>1, SuccessKept
  <1>6. ASSUME NEW b \in backfill.range, NEW t \in Tasks, NotLost(t, b) PROVE NotLost(t, b)'
    <2>1. <<t, b>> \in Units BY <1>0 DEF BackfillInv, BackfillTypeOK, Units
    <2>2. attempt[<<t, b>>].status # "absent" => attempt'[<<t, b>>].status # "absent"
      BY <1>1, <2>1 DEF TableKept, RowKept
    <2>3. QED BY <1>2, <1>4, <1>5, <1>6, <2>2 DEF NotLost
  <1>7. QED BY <1>4, <1>6 DEF CoverInv

\* Every step
LEMMA CoverStep == ASSUME TypeInv, CoverInv, [Next]_vars PROVE CoverInv'
  <1>1. TableKept BY EveryStepOK
  <1>2. CASE UNCHANGED backfill BY <1>1, <1>2, CoverOthers
  <1>3. CASE \E u \in Units : BackfillSubmit(u) BY <1>3, CoverSubmit
  <1>4. CASE QuietBackfill
    <2>0. backfill \in [pc: {"idle", "gap", "run", "done"}, range: SUBSET Blocks, gaps: Seq(Gap),
                       todo: SUBSET Units, free: Nat \cup {None}, interrupted: BOOLEAN]
      BY DEF TypeInv, BackfillInv, BackfillTypeOK
    <2>1. CASE \E r \in Ranges : StartBackfill(r[1], r[2]) BY <2>1, CoverStart
    <2>2. CASE StartGap BY <2>2, CoverGap
    <2>3. ASSUME backfill' = NoBackfill PROVE CoverInv' BY <2>3 DEF CoverInv, NoBackfill
    <2>4. ASSUME backfill'.interrupted = TRUE PROVE CoverInv' BY <2>4 DEF CoverInv
    <2>5. CASE Interrupt \/ BackfillDies BY <2>0, <2>3, <2>4, <2>5 DEF Interrupt, BackfillDies
    <2>6. CASE BackfillReadRoom \/ EndGap \/ EndBackfill
      <3>1. UNCHANGED attempt BY <2>6 DEF BackfillReadRoom, EndGap, EndBackfill
      <3>2. Successful' = Successful BY <3>1 DEF Successful, WithStatus
      <3>3. /\ backfill'.gaps = backfill.gaps /\ backfill'.range = backfill.range
            /\ backfill'.todo = backfill.todo /\ backfill'.interrupted = backfill.interrupted
            /\ backfill'.pc = "run" => backfill.pc = "run"
            /\ backfill.pc = "run" => backfill'.pc = "run" \/ backfill.todo = {}
            /\ backfill'.pc = "done" => backfill.gaps = <<>>
            /\ backfill.pc \in {"gap", "run", "done"}
        BY <2>0, <2>6 DEF BackfillReadRoom, EndGap, EndBackfill
      <3>4. ASSUME NEW b \in backfill.range, NEW t \in Tasks, NotLost(t, b) PROVE NotLost(t, b)'
        BY <3>1, <3>2, <3>3, <3>4 DEF NotLost
      <3>5. QED BY <3>3, <3>4 DEF CoverInv
    <2>7. QED BY <1>4, <2>1, <2>2, <2>5, <2>6 DEF QuietBackfill
  <1>5. QED BY <1>2, <1>3, <1>4, StepCases

\* backfill_blocks_v1: whatever runs beside it, and wherever workers fail, messages are lost or
\* the queue has no room, a command that was not interrupted ends with an attempt of every unit
\* of its range that is wanted, unless the block has a success.  A submission that raises can
\* leave out the unit it was for, and no other.
THEOREM BackfillsCover == Spec => []BackfillCovers
  <1>1. Init => TypeInv /\ CoverInv
    <2>1. Init => CoverInv BY DEF Init, BackfillInit, NoBackfill, CoverInv
    <2>2. QED BY <2>1, TypesInit
  <1>2. (TypeInv /\ CoverInv) /\ [Next]_vars => (TypeInv /\ CoverInv)' BY EveryStepOK, CoverStep
  <1>3. ASSUME TypeInv, CoverInv PROVE BackfillCovers
    <2>1. SUFFICES ASSUME backfill.pc = "done", ~backfill.interrupted, NEW b \in backfill.range, b \notin Successful
                   PROVE  \A t \in Tasks : <<t, b>> \in Matches \ Raising => attempt[<<t, b>>].status # "absent"
      BY DEF BackfillCovers
    <2>2. backfill.gaps = <<>> /\ \A t \in Tasks : NotLost(t, b) BY <1>3, <2>1 DEF CoverInv
    <2>3. ~Holds(backfill.gaps, b) BY <2>2 DEF Holds
    <2>4. QED BY <2>1, <2>2, <2>3 DEF NotLost
  <1>4. QED BY <1>1, <1>2, <1>3, PTL DEF Spec

-----------------------------------------------------------------------------
(* What a poll fills *)

\* The head block of a task that has had its turn has an attempt, and so has every block of
\* the window of a task whose lookback is done; what is missing of the window that is being
\* filled is still to be submitted.
HeadFilled(t) == <<t, live.block>> \in Matches => attempt[<<t, live.block>>].status # "absent"
WindowFilled(t) ==
    \A b \in Window(live.block, Lookback[t]) :
        <<t, b>> \in Matches =>
            \/ attempt[<<t, b>>].status # "absent"
            \/ live.pc = "fill" /\ t = live.item /\ b \in live.todo

FillInv ==
    \A t \in TasksOf(live.source) :
        /\ live.pc = "process" /\ t \notin live.items => HeadFilled(t)
        /\ live.pc \in {"lookback", "fill"} => HeadFilled(t)
        /\ live.pc \in {"lookback", "fill"} /\ t \notin live.items /\ Lookback[t] # None => WindowFilled(t)

\* Steps that leave the scheduler alone, and steps that only shrink what is missing
LEMMA FillKept ==
    ASSUME TypeInv, FillInv, TableKept, NEW S,
           live'.pc = live.pc, live'.source = live.source, live'.block = live.block,
           live'.item = live.item, live'.items = live.items, live'.todo = live.todo \ S,
           \A b \in S : attempt'[<<live.item, b>>].status # "absent"
    PROVE  FillInv'
  <1>1. \A t \in TasksOf(live.source), b \in Blocks :
            attempt[<<t, b>>].status # "absent" => attempt'[<<t, b>>].status # "absent"
    BY DEF TableKept, RowKept, Units, TasksOf
  <1>2. live.block \in Blocks BY DEF TypeInv, LiveInv, LiveTypeOK
  <1>3. \A t \in TasksOf(live.source) : HeadFilled(t) => HeadFilled(t)' BY <1>1, <1>2 DEF HeadFilled
  <1>4. ASSUME NEW t \in TasksOf(live.source), WindowFilled(t) PROVE WindowFilled(t)'
    <2>1. SUFFICES ASSUME NEW b \in Window(live.block, Lookback[t]), <<t, b>> \in Matches
                   PROVE  \/ attempt'[<<t, b>>].status # "absent"
                          \/ live.pc = "fill" /\ t = live.item /\ b \in live.todo \ S
      BY DEF WindowFilled, Window
    <2>2. b \in Blocks BY DEF Window
    <2>3. \/ attempt[<<t, b>>].status # "absent"
          \/ live.pc = "fill" /\ t = live.item /\ b \in live.todo
      BY <1>4, <2>1 DEF WindowFilled
    <2>4. QED BY <1>1, <2>2, <2>3
  <1>5. TasksOf(live'.source) = TasksOf(live.source) BY DEF TasksOf
  <1>6. QED BY <1>3, <1>4, <1>5 DEF FillInv, TasksOf

\* Steps that leave what is missing as it is
LEMMA FillSame ==
    ASSUME TypeInv, FillInv, TableKept,
           live'.pc = live.pc, live'.source = live.source, live'.block = live.block,
           live'.item = live.item, live'.items = live.items, live'.todo = live.todo
    PROVE  FillInv'
  <1> DEFINE S == {}
  <1>1. live'.todo = live.todo \ S /\ \A b \in S : attempt'[<<live.item, b>>].status # "absent" OBVIOUS
  <1> HIDE DEF S
  <1>2. QED BY <1>1, FillKept

\* The steps of the scheduler that leave the table alone
LEMMA FillQuiet == ASSUME TypeInv, FillInv, LookbackEnabled, QuietLive PROVE FillInv'
  <1>0. live \in LiveState /\ SubmissionsTypeOK /\ LiveInv BY DEF TypeInv, LiveInv, LiveTypeOK, LiveState
  <1>1. UNCHANGED attempt /\ TableKept BY <1>0, QuietLiveOK, SameTable
  <1>2. ASSUME live'.pc \in {"down", "poll"} PROVE FillInv' BY <1>2 DEF FillInv
  <1>3. CASE Start \/ EndPoll \/ NextRound \/ StopScheduler
    <2>1. CASE Start
      <3>1. live'.pc = "poll" BY <2>1 DEF Start, Stopped
      <3>2. QED BY <1>2, <3>1
    <2>2. CASE EndPoll \/ NextRound
      <3>1. live'.pc = "poll" BY <1>0, <2>2 DEF EndPoll, NextRound, LiveState
      <3>2. QED BY <1>2, <3>1
    <2>3. CASE StopScheduler
      <3>1. live'.pc = "down" BY <2>3 DEF StopScheduler, Stopped
      <3>2. QED BY <1>2, <3>1
    <2>4. QED BY <1>3, <2>1, <2>2, <2>3
  <1>4. CASE \E z \in Sources : Poll(z)
    <2>1. PICK z \in Sources : Poll(z) BY <1>4
    <2>2. PICK start : LET turn == [live EXCEPT !.last[z] = start, !.polls = @ \ {z}]
                       IN  \/ live' = [turn EXCEPT !.pc = "process", !.source = z, !.block = head[z],
                                                   !.items = TasksOf(z)]
                           \/ live' = turn
      BY <2>1 DEF Poll, TurnLost
    <2>3. live.pc = "poll" BY <2>1 DEF Poll
    <2>4. \/ live'.pc = "poll"
          \/ live'.pc = "process" /\ live'.source = z /\ live'.items = TasksOf(z)
      BY <1>0, <2>2, <2>3 DEF LiveState
    <2>5. QED BY <1>2, <2>4 DEF FillInv
  <1>5. CASE StartLookback
    <2> DEFINE items == {t \in TasksOf(live.source) : LookbackEnabled /\ Lookback[t] # None}
    <2>1. live' = [live EXCEPT !.pc = "lookback", !.items = items] /\ live.pc = "process" /\ live.items = {}
      BY <1>5 DEF StartLookback
    <2>2. /\ live'.pc = "lookback" /\ live'.items = items /\ live'.source = live.source
          /\ live'.block = live.block
      BY <1>0, <2>1 DEF LiveState
    <2>3. \A t \in TasksOf(live.source) : HeadFilled(t)' BY <1>1, <2>1, <2>2 DEF FillInv, HeadFilled
    <2>4. TasksOf(live'.source) = TasksOf(live.source) BY <2>2
    <2>5. QED BY <2>2, <2>3, <2>4 DEF FillInv, TasksOf
  <1>6. CASE FillReadRoom
    <2>1. /\ live'.pc = live.pc /\ live'.source = live.source /\ live'.block = live.block
          /\ live'.item = live.item /\ live'.items = live.items /\ live'.todo = live.todo
      BY <1>0, <1>6 DEF FillReadRoom, LiveState
    <2>2. QED BY <1>1, <2>1, FillSame
  <1>7. CASE EndFill
    <2>1. /\ live.pc = "fill" /\ live'.pc = "lookback" /\ live'.source = live.source
          /\ live'.block = live.block /\ live'.items = live.items /\ live.todo = {}
      BY <1>0, <1>7 DEF EndFill, LiveState
    <2>2. TasksOf(live'.source) = TasksOf(live.source) BY <2>1
    <2>3. \A t \in TasksOf(live.source) : HeadFilled(t) => HeadFilled(t)' BY <1>1, <2>1 DEF HeadFilled
    <2>4. \A t \in TasksOf(live.source) : WindowFilled(t) => WindowFilled(t)'
      BY <1>1, <2>1 DEF WindowFilled, Window
    <2>5. QED BY <2>1, <2>2, <2>3, <2>4 DEF FillInv, TasksOf
  <1>8. CASE \E t \in Tasks : Scan(t)
    <2>1. PICK t \in Tasks : Scan(t) BY <1>8
    <2> DEFINE skip == WithStatus(t, {"success", "inflight", "waiting"})
               todo == {b \in Window(live.block, Lookback[t]) \ skip : <<t, b>> \in Matches}
    <2>2. /\ live' = [live EXCEPT !.pc = "fill", !.item = t, !.items = @ \ {t}, !.free = None, !.todo = todo]
          /\ live.pc = "lookback"
      BY <2>1 DEF Scan
    <2> HIDE DEF todo
    <2>3. /\ live'.pc = "fill" /\ live'.item = t /\ live'.items = live.items \ {t} /\ live'.todo = todo
          /\ live'.source = live.source /\ live'.block = live.block
      BY <1>0, <2>2 DEF LiveState
    <2>4. TasksOf(live'.source) = TasksOf(live.source) BY <2>3
    <2>5. \A z \in TasksOf(live.source) : HeadFilled(z) => HeadFilled(z)' BY <1>1, <2>3 DEF HeadFilled
    <2>6. \A z \in TasksOf(live.source) : WindowFilled(z) => WindowFilled(z)'
      BY <1>1, <2>2, <2>3 DEF WindowFilled, Window
    <2>7. WindowFilled(t)'
      <3>1. SUFFICES ASSUME NEW b \in Window(live.block, Lookback[t]), <<t, b>> \in Matches, b \notin todo
                     PROVE  attempt[<<t, b>>].status # "absent"
        BY <1>1, <2>3 DEF WindowFilled, Window
      <3>2. b \in skip BY <3>1 DEF todo
      <3>3. QED BY <3>2 DEF WithStatus
    <2>8. QED BY <2>2, <2>3, <2>4, <2>5, <2>6, <2>7 DEF FillInv, TasksOf
  <1>9. QED BY <1>3, <1>4, <1>5, <1>6, <1>7, <1>8 DEF QuietLive

\* One task at the head block
LEMMA FillProcess == ASSUME TypeInv, FillInv, Raising = {}, NEW t \in Tasks, Process(t) PROVE FillInv'
  <1>0. live \in LiveState /\ SubmissionsTypeOK /\ LiveInv BY DEF TypeInv, LiveInv, LiveTypeOK, LiveState
  <1>1. /\ TableKept /\ live' = [live EXCEPT !.items = @ \ {t}] /\ <<t, live.block>> \in Units
        /\ \/ <<t, live.block>> \notin Matches
           \/ \E x \in Executed(attempt[<<t, live.block>>], "live") : Store(<<t, live.block>>, x)
    BY <1>0, ProcessFacts
  <1>2. <<t, live.block>> \in Matches => attempt'[<<t, live.block>>].status # "absent"
    BY <1>0, <1>1, StoreFacts
  <1>3. live.pc = "process" BY DEF Process
  <1>4. /\ live'.pc = "process" /\ live'.source = live.source /\ live'.block = live.block
        /\ live'.items = live.items \ {t}
    BY <1>0, <1>1, <1>3 DEF LiveState
  <1>5. live.block \in Blocks BY <1>0 DEF LiveState
  <1>6. \A z \in TasksOf(live.source) : HeadFilled(z) => HeadFilled(z)'
    BY <1>1, <1>4, <1>5 DEF HeadFilled, TableKept, RowKept, Units, TasksOf
  <1>7. HeadFilled(t)' BY <1>2, <1>4 DEF HeadFilled
  <1>8. TasksOf(live'.source) = TasksOf(live.source) BY <1>4
  <1>9. QED BY <1>3, <1>4, <1>6, <1>7, <1>8 DEF FillInv, TasksOf

\* One block of the window: without a throttle there is always room.
LEMMA FillFill == ASSUME TypeInv, FillInv, Raising = {}, Throttle = None, Fill PROVE FillInv'
  <1>0. /\ live \in LiveState /\ SubmissionsTypeOK /\ LiveInv /\ BackfillQueue \in {"live", "backfill"}
    BY SubmissionsAssumption DEF TypeInv, LiveInv, LiveTypeOK, LiveState
  <1>1. PICK b \in live.todo : /\ TableKept /\ <<live.item, b>> \in Units
                               /\ FillSubmits(<<live.item, b>>, b)
    BY <1>0, FillFacts DEF FillSkips, FillRaises
  <1>2. PICK x \in Executed(attempt[<<live.item, b>>], BackfillQueue) :
            /\ Store(<<live.item, b>>, x)
            /\ live' = [live EXCEPT !.todo = @ \ {b}, !.free = Spent(@, x.sent)]
    BY <1>1 DEF FillSubmits
  <1>3. attempt'[<<live.item, b>>].status # "absent" BY <1>0, <1>1, <1>2, StoreFacts
  <1>4. /\ live'.pc = live.pc /\ live'.source = live.source /\ live'.block = live.block
        /\ live'.item = live.item /\ live'.items = live.items /\ live'.todo = live.todo \ {b}
    BY <1>0, <1>2 DEF LiveState
  <1>5. QED BY <1>1, <1>3, <1>4, FillKept

\* Every step
LEMMA FillStep ==
    ASSUME Raising = {}, Throttle = None, LookbackEnabled, TypeInv, FillInv, [Next]_vars
    PROVE  FillInv'
  <1>1. TableKept BY EveryStepOK
  <1>2. CASE UNCHANGED live BY <1>1, <1>2, FillSame
  <1>3. QED BY <1>2, FillQuiet, FillProcess, FillFill, StepCases

\* README "Per-task lookback": with lookback on, no throttle and no submission that raises, a
\* poll leaves no wanted block of the window without an attempt, wherever the head was before
\* and however often the process was stopped.
THEOREM PollsFill == ASSUME Raising = {}, Throttle = None, LookbackEnabled PROVE Spec => WindowIsFilled
  <1> DEFINE Missing(t) == \E b \in Blocks :
                 /\ <<t, b>> \in Matches /\ b <= live.block
                 /\ b >= live.block - (IF Lookback[t] = None THEN 0 ELSE Lookback[t])
                 /\ attempt[<<t, b>>].status = "absent"
             Good == \A t \in Tasks :
                 live.pc = "lookback" /\ live'.pc = "poll" /\ live.source = SourceOf[t] => ~Missing(t)
  <1>1. Init => TypeInv /\ FillInv
    <2>1. Init => FillInv BY DEF Init, LiveInit, Stopped, FillInv
    <2>2. QED BY <2>1, TypesInit
  <1>2. ASSUME TypeInv /\ FillInv, [Next]_vars PROVE (TypeInv /\ FillInv)' BY <1>2, EveryStepOK, FillStep
  <1>3. ASSUME TypeInv, FillInv, [Next]_vars PROVE [Good]_vars
    <2>1. SUFFICES ASSUME NEW t \in Tasks, live.pc = "lookback", live'.pc = "poll", live.source = SourceOf[t],
                          NEW b \in Blocks, <<t, b>> \in Matches, b <= live.block,
                          b >= live.block - (IF Lookback[t] = None THEN 0 ELSE Lookback[t])
                   PROVE  attempt[<<t, b>>].status # "absent"
      OBVIOUS
    <2>2. live \in LiveState BY <1>3 DEF TypeInv, LiveInv, LiveTypeOK, LiveState
    <2>3. live.items = {}
      <3>1. live' # live BY <2>1
      <3>2. QuietLive BY <2>1, <3>1, <1>3, StepCases DEF Process, Fill
      <3>3. StartLookback \/ EndPoll \/ StopScheduler \/ \E z \in Tasks : Scan(z)
        BY <2>1, <3>2 DEF QuietLive, Start, FillReadRoom, EndFill, NextRound, Poll
      <3>4. ~StartLookback BY <2>1 DEF StartLookback
      <3>5. ~StopScheduler BY <2>1 DEF StopScheduler, Stopped
      <3>6. \A z \in Tasks : ~Scan(z) BY <2>1, <2>2 DEF Scan, LiveState
      <3>7. QED BY <3>3, <3>4, <3>5, <3>6 DEF EndPoll
    <2>4. t \in TasksOf(live.source) BY <2>1 DEF TasksOf
    <2>5. HeadFilled(t) /\ (Lookback[t] # None => WindowFilled(t)) BY <1>3, <2>1, <2>3, <2>4 DEF FillInv
    <2>6. b \in Int /\ live.block \in Int
      <3>1. b \in Blocks /\ live.block \in Blocks BY <2>2 DEF LiveState
      <3>2. QED BY <3>1, SubmissionsAssumption DEF Blocks
    <2>7. CASE b = live.block BY <2>1, <2>5, <2>7 DEF HeadFilled
    <2>8. CASE b # live.block
      <3>1. b < live.block BY <2>1, <2>6, <2>8
      <3>2. Lookback[t] # None BY <2>1, <2>6, <3>1
      <3>3. b \in Window(live.block, Lookback[t]) BY <2>1, <3>1, <3>2 DEF Window
      <3>4. QED BY <2>1, <2>5, <3>2, <3>3 DEF WindowFilled
    <2>9. QED BY <2>7, <2>8
  <1>4. Good => \A t \in Tasks :
          LET s == SourceOf[t]
          IN  live.pc = "lookback" /\ live'.pc = "poll" /\ live.source = s =>
              \A b \in Blocks :
                  (<<t, b>> \in Matches /\ b <= live.block
                      /\ b >= live.block - (IF Lookback[t] = None THEN 0 ELSE Lookback[t]))
                  => attempt[<<t, b>>].status # "absent"
    OBVIOUS
  <1> HIDE DEF Good
  <1>5. QED BY <1>1, <1>2, <1>3, <1>4, PTL DEF Spec, WindowIsFilled

-----------------------------------------------------------------------------
(* Where a chain head starts *)

\* The hypotheses: no starting block is set, and no backfill submits for another head.
NoStartSet == StartFrom \in {None, Current}
AllLatest == \A t \in Tasks : SourceOf[t] = Latest
BackfillsOwnHead == Ranges = {} \/ AllLatest

\* Whatever the table, the scheduler and the command hold for a task lies within the head of
\* the task's own source.
RecordedBelow == \A t \in Tasks, b \in Blocks :
    attempt[<<t, b>>].status # "absent" => b <= head[SourceOf[t]]
BusyBelow ==
    live.pc \in {"process", "lookback", "fill"} =>
        /\ live.block <= head[live.source]
        /\ live.items \subseteq TasksOf(live.source)
        /\ live.pc = "fill" => SourceOf[live.item] = live.source /\ \A b \in live.todo : b <= live.block
BackfillBelow ==
    /\ ~AllLatest => backfill.todo = {} /\ backfill.gaps = <<>>
    /\ \A u \in backfill.todo : u[2] <= head[Latest]
    /\ \A i \in 1..Len(backfill.gaps) : backfill.gaps[i].end <= head[Latest]
HeadInv == RecordedBelow /\ StartsAtItsHead /\ BusyBelow /\ BackfillBelow

\* Heads, and blocks, are numbers.
LEMMA HeadNumbers ==
    ASSUME TypeInv
    PROVE  /\ \A z \in Sources : head[z] \in Int /\ 0 <= head[z]
           /\ \A b \in Blocks : b \in Int
  BY SubmissionsAssumption DEF TypeInv, SubmissionsTypeOK, Blocks

\* Growing heads keep the invariant.
LEMMA HeadsKeep ==
    ASSUME TypeInv, TypeInv', HeadsGrow, HeadInv
    PROVE  /\ UNCHANGED attempt => RecordedBelow'
           /\ UNCHANGED live => StartsAtItsHead' /\ BusyBelow'
           /\ UNCHANGED backfill => BackfillBelow'
  <1>1. /\ \A z \in Sources : head[z] \in Int /\ head'[z] \in Int /\ head[z] <= head'[z]
        /\ \A b \in Blocks : b \in Int /\ Latest \in Sources /\ \A t \in Tasks : SourceOf[t] \in Sources
    <2>1. \A z \in Sources : head'[z] \in Int
      BY SubmissionsAssumption DEF TypeInv, SubmissionsTypeOK, Blocks
    <2>2. QED BY <2>1, HeadNumbers, SubmissionsAssumption DEF HeadsGrow
  <1>2. ASSUME NEW z \in Sources, NEW n \in Int, n <= head[z] PROVE n <= head'[z] BY <1>1, <1>2
  <1>3. UNCHANGED attempt => RecordedBelow'
    BY <1>1, <1>2 DEF HeadInv, RecordedBelow
  <1>4. UNCHANGED live => StartsAtItsHead'
    BY <1>2 DEF HeadInv, StartsAtItsHead, TypeInv, LiveInv, LiveTypeOK
  <1>5. UNCHANGED live => BusyBelow'
    <2>1. live.block \in Blocks /\ live.source \in Sources BY DEF TypeInv, LiveInv, LiveTypeOK
    <2>2. live.block <= head[live.source] => live.block <= head'[live.source] BY <1>1, <1>2, <2>1
    <2>3. QED BY <2>2 DEF HeadInv, BusyBelow, TasksOf
  <1>6. UNCHANGED backfill => BackfillBelow'
    <2>1. \A u \in backfill.todo : u[2] \in Int
      BY <1>1 DEF TypeInv, BackfillInv, BackfillTypeOK, Units
    <2>2. \A i \in 1..Len(backfill.gaps) : backfill.gaps[i].end \in Int
      <3>1. backfill.gaps \in Seq(Gap) BY DEF TypeInv, BackfillInv, BackfillTypeOK
      <3>2. \A i \in 1..Len(backfill.gaps) : backfill.gaps[i] \in Gap BY <3>1
      <3>3. \A g \in Gap : g.end \in Blocks BY DEF Gap
      <3>4. QED BY <1>1, <3>2, <3>3
    <2>3. Latest \in Sources BY SubmissionsAssumption
    <2>4. \A u \in backfill.todo : u[2] <= head[Latest] => u[2] <= head'[Latest] BY <1>2, <2>1, <2>3
    <2>5. \A i \in 1..Len(backfill.gaps) :
              backfill.gaps[i].end <= head[Latest] => backfill.gaps[i].end <= head'[Latest]
      BY <1>2, <2>2, <2>3
    <2>6. QED BY <2>4, <2>5 DEF HeadInv, BackfillBelow
  <1>7. QED BY <1>3, <1>4, <1>5, <1>6

\* One row that is written for a block its source has reached
LEMMA RecordBelow ==
    ASSUME TypeInv, HeadInv, UNCHANGED head, NEW t \in Tasks, NEW b \in Blocks, OthersKept(<<t, b>>),
           b <= head[SourceOf[t]]
    PROVE  RecordedBelow'
  <1>1. \A t2 \in Tasks, b2 \in Blocks : <<t2, b2>> # <<t, b>> => attempt'[<<t2, b2>>] = attempt[<<t2, b2>>]
    BY DEF OthersKept, Units
  <1>2. QED BY <1>1 DEF HeadInv, RecordedBelow

\* A start is found within the head.
LEMMA StartsBelow ==
    ASSUME TypeInv, HeadInv, NoStartSet, NEW z \in Sources, NEW b \in StartingBlocks(z), b # None
    PROVE  b <= head[z]
  <1>1. head[z] \in Int /\ 0 <= head[z] BY HeadNumbers
  <1>2. b = GetStartingBlock(z) BY DEF StartingBlocks
  <1>3. b = LatestExecuted(z) \/ b = head[z] BY <1>2 DEF GetStartingBlock, NoStartSet
  <1>4. LatestExecuted(z) \in {0} \cup UNION {Recorded(t) : t \in TasksOf(z)} BY StartType DEF TypeInv
  <1>5. \A t \in TasksOf(z) : \A k \in Recorded(t) : k <= head[z]
    BY DEF TasksOf, Recorded, HeadInv, RecordedBelow
  <1>6. QED BY <1>1, <1>3, <1>4, <1>5

\* The steps of the scheduler that leave the table alone
LEMMA HeadQuiet ==
    ASSUME TypeInv, HeadInv, NoStartSet, QuietLive
    PROVE  StartsAtItsHead' /\ BusyBelow'
  <1>0. live \in LiveState /\ SubmissionsTypeOK /\ LiveInv BY DEF TypeInv, LiveInv, LiveTypeOK, LiveState
  <1>1. UNCHANGED head BY <1>0, QuietLiveOK
  <1>2. ASSUME live'.last = live.last PROVE StartsAtItsHead' BY <1>1, <1>2 DEF HeadInv, StartsAtItsHead
  <1>3. ASSUME live'.pc \in {"down", "poll"} PROVE BusyBelow' BY <1>3 DEF BusyBelow
  <1>4. CASE Start
    <2>1. PICK last : /\ \A z \in Polled : last[z] \in StartingBlocks(z)
                      /\ live' = [Stopped EXCEPT !.pc = "poll", !.polls = Polled,
                                      !.last = [z \in Sources |-> IF z \in Polled THEN last[z] ELSE None]]
      BY <1>4 DEF Start
    <2>2. live'.pc = "poll" /\ \A z \in Sources : live'.last[z] = IF z \in Polled THEN last[z] ELSE None
      BY <2>1 DEF Stopped
    <2>3. \A z \in Sources : live'.last[z] # None => live'.last[z] <= head[z] BY <2>1, <2>2, StartsBelow
    <2>4. QED BY <1>1, <1>3, <2>2, <2>3 DEF StartsAtItsHead
  <1>5. CASE StopScheduler
    <2>1. live'.pc = "down" /\ \A z \in Sources : live'.last[z] = None BY <1>5 DEF StopScheduler, Stopped
    <2>2. QED BY <1>3, <2>1 DEF StartsAtItsHead
  <1>6. CASE NextRound
    <2>1. live'.pc = "poll" /\ live'.last = live.last BY <1>0, <1>6 DEF NextRound, LiveState
    <2>2. QED BY <1>2, <1>3, <2>1
  <1>7. CASE EndPoll
    <2>1. live.pc = "lookback" /\ live' = [live EXCEPT !.pc = "poll", !.last[live.source] = live.block]
      BY <1>7 DEF EndPoll
    <2>2. live.block <= head[live.source] BY <2>1 DEF HeadInv, BusyBelow
    <2>3. live'.pc = "poll" /\ live'.last = [live.last EXCEPT ![live.source] = live.block]
      BY <1>0, <2>1 DEF LiveState
    <2>4. live.last \in [Sources -> Nat \cup {None}] BY <1>0 DEF LiveState
    <2>5. \A z \in Sources : live'.last[z] = live.last[z] \/ (z = live.source /\ live'.last[z] = live.block)
      BY <2>3, <2>4
    <2>6. QED BY <1>1, <1>3, <2>2, <2>3, <2>5 DEF HeadInv, StartsAtItsHead
  <1>8. CASE \E z \in Sources : Poll(z)
    <2>1. PICK z \in Sources : Poll(z) BY <1>8
    <2>2. PICK start \in IF live.last[z] = None THEN StartingBlocks(z) ELSE {live.last[z]} :
              LET turn == [live EXCEPT !.last[z] = start, !.polls = @ \ {z}]
              IN  \/ live' = [turn EXCEPT !.pc = "process", !.source = z, !.block = head[z],
                                          !.items = TasksOf(z)]
                  \/ live' = turn
      BY <2>1 DEF Poll, TurnLost
    <2>3. start # None => start <= head[z] BY <2>2, StartsBelow DEF HeadInv, StartsAtItsHead
    <2>4. live.pc = "poll" BY <2>1 DEF Poll
    <2>5. live'.last = [live.last EXCEPT ![z] = start] BY <1>0, <2>2 DEF LiveState
    <2>6. \/ live'.pc = "poll"
          \/ /\ live'.pc = "process" /\ live'.source = z /\ live'.block = head[z]
             /\ live'.items = TasksOf(z)
      BY <1>0, <2>2, <2>4 DEF LiveState
    <2>7. live.last \in [Sources -> Nat \cup {None}] BY <1>0 DEF LiveState
    <2>8. \A y \in Sources : live'.last[y] = live.last[y] \/ (y = z /\ live'.last[y] = start)
      BY <2>5, <2>7
    <2>9. StartsAtItsHead' BY <1>1, <2>3, <2>8 DEF HeadInv, StartsAtItsHead
    <2>10. head[z] <= head[z] BY HeadNumbers
    <2>11. BusyBelow' BY <1>1, <2>6, <2>10 DEF BusyBelow
    <2>12. QED BY <2>9, <2>11
  <1>9. CASE StartLookback
    <2> DEFINE items == {t \in TasksOf(live.source) : LookbackEnabled /\ Lookback[t] # None}
    <2>1. live' = [live EXCEPT !.pc = "lookback", !.items = items] /\ live.pc = "process"
      BY <1>9 DEF StartLookback
    <2>2. items \subseteq TasksOf(live.source) OBVIOUS
    <2> HIDE DEF items
    <2>3. /\ live'.pc = "lookback" /\ live'.items = items /\ live'.last = live.last
          /\ live'.source = live.source /\ live'.block = live.block
      BY <1>0, <2>1 DEF LiveState
    <2>4. BusyBelow' BY <1>1, <2>1, <2>2, <2>3 DEF HeadInv, BusyBelow, TasksOf
    <2>5. QED BY <1>2, <2>3, <2>4
  <1>10. CASE FillReadRoom \/ EndFill
    <2>1. /\ live.pc = "fill" /\ live'.pc \in {"fill", "lookback"} /\ live'.last = live.last
          /\ live'.source = live.source /\ live'.block = live.block
          /\ live'.items = live.items /\ live'.item = live.item /\ live'.todo = live.todo
      BY <1>0, <1>10 DEF FillReadRoom, EndFill, LiveState
    <2>2. BusyBelow' BY <1>1, <2>1 DEF HeadInv, BusyBelow, TasksOf
    <2>3. QED BY <1>2, <2>1, <2>2
  <1>11. CASE \E t \in Tasks : Scan(t)
    <2>1. PICK t \in Tasks : Scan(t) BY <1>11
    <2> DEFINE skip == WithStatus(t, {"success", "inflight", "waiting"})
               todo == {b \in Window(live.block, Lookback[t]) \ skip : <<t, b>> \in Matches}
    <2>2. /\ live' = [live EXCEPT !.pc = "fill", !.item = t, !.items = @ \ {t}, !.free = None, !.todo = todo]
          /\ live.pc = "lookback" /\ t \in live.items
      BY <2>1 DEF Scan
    <2>3. \A b \in todo : b <= live.block
      <3>1. live.block \in Blocks BY <1>0 DEF LiveState
      <3>2. live.block \in Int BY <3>1, HeadNumbers
      <3>3. \A b \in todo : b \in Int /\ b < live.block BY HeadNumbers DEF Window
      <3>4. QED BY <3>2, <3>3
    <2> HIDE DEF todo
    <2>4. /\ live'.pc = "fill" /\ live'.item = t /\ live'.items = live.items \ {t} /\ live'.todo = todo
          /\ live'.source = live.source /\ live'.block = live.block /\ live'.last = live.last
      BY <1>0, <2>2 DEF LiveState
    <2>5. SourceOf[t] = live.source BY <2>2 DEF HeadInv, BusyBelow, TasksOf
    <2>6. BusyBelow' BY <1>1, <2>2, <2>3, <2>4, <2>5 DEF HeadInv, BusyBelow, TasksOf
    <2>7. QED BY <1>2, <2>4, <2>6
  <1>12. QED BY <1>4, <1>5, <1>6, <1>7, <1>8, <1>9, <1>10, <1>11 DEF QuietLive

\* One task at the head block
LEMMA HeadProcess ==
    ASSUME TypeInv, HeadInv, NEW t \in Tasks, Process(t)
    PROVE  RecordedBelow' /\ StartsAtItsHead' /\ BusyBelow'
  <1>0. live \in LiveState /\ SubmissionsTypeOK /\ LiveInv BY DEF TypeInv, LiveInv, LiveTypeOK, LiveState
  <1>1. /\ UNCHANGED head /\ live' = [live EXCEPT !.items = @ \ {t}] /\ OthersKept(<<t, live.block>>)
    BY <1>0, ProcessFacts
  <1>2. live.pc = "process" /\ t \in live.items BY DEF Process
  <1>3. live.block \in Blocks BY <1>0 DEF LiveState
  <1>4. SourceOf[t] = live.source /\ live.block <= head[live.source]
    BY <1>2 DEF HeadInv, BusyBelow, TasksOf
  <1>5. RecordedBelow' BY <1>1, <1>3, <1>4, RecordBelow
  <1>6. /\ live'.pc = "process" /\ live'.source = live.source /\ live'.block = live.block
        /\ live'.items = live.items \ {t} /\ live'.last = live.last
    BY <1>0, <1>1, <1>2 DEF LiveState
  <1>7. BusyBelow' BY <1>1, <1>2, <1>6 DEF HeadInv, BusyBelow, TasksOf
  <1>8. QED BY <1>1, <1>5, <1>6, <1>7 DEF HeadInv, StartsAtItsHead

\* One block of the window
LEMMA HeadFill ==
    ASSUME TypeInv, HeadInv, Fill
    PROVE  RecordedBelow' /\ StartsAtItsHead' /\ BusyBelow'
  <1>0. live \in LiveState /\ SubmissionsTypeOK /\ LiveInv BY DEF TypeInv, LiveInv, LiveTypeOK, LiveState
  <1>1. PICK b \in live.todo :
            /\ UNCHANGED head /\ b \in Blocks /\ OthersKept(<<live.item, b>>)
            /\ FillSubmits(<<live.item, b>>, b) \/ FillSkips(b) \/ FillRaises(<<live.item, b>>)
    BY <1>0, FillFacts
  <1>2. live.pc = "fill" /\ live.item \in Tasks BY <1>0 DEF Fill, LiveInv
  <1>3. /\ live'.pc = "fill" /\ live'.source = live.source /\ live'.block = live.block /\ live'.last = live.last
        /\ live'.items = live.items /\ live'.item = live.item /\ live'.todo \subseteq live.todo
    <2>1. CASE FillSubmits(<<live.item, b>>, b) BY <1>0, <1>2, <2>1 DEF FillSubmits, LiveState
    <2>2. CASE FillSkips(b) BY <1>0, <1>2, <2>2 DEF FillSkips, LiveState
    <2>3. CASE FillRaises(<<live.item, b>>) BY <1>0, <1>2, <2>3 DEF FillRaises, LiveState
    <2>4. QED BY <1>1, <2>1, <2>2, <2>3
  <1>4. b <= head[SourceOf[live.item]]
    <2>1. b <= live.block /\ live.block <= head[live.source] /\ SourceOf[live.item] = live.source
      BY <1>1, <1>2 DEF HeadInv, BusyBelow
    <2>2. live.block \in Blocks /\ live.source \in Sources BY <1>0 DEF LiveState
    <2>3. b \in Int /\ live.block \in Int /\ head[live.source] \in Int BY <1>1, <2>2, HeadNumbers
    <2>4. QED BY <2>1, <2>3
  <1>5. RecordedBelow' BY <1>1, <1>2, <1>4, RecordBelow
  <1>6. BusyBelow' BY <1>1, <1>2, <1>3 DEF HeadInv, BusyBelow, TasksOf
  <1>7. QED BY <1>1, <1>3, <1>5, <1>6 DEF HeadInv, StartsAtItsHead

\* The backfill command
LEMMA HeadBackfill ==
    ASSUME TypeInv, HeadInv, BackfillsOwnHead, QuietBackfill
    PROVE  BackfillBelow'
  <1>0. /\ backfill \in [pc: {"idle", "gap", "run", "done"}, range: SUBSET Blocks, gaps: Seq(Gap),
                       todo: SUBSET Units, free: Nat \cup {None}, interrupted: BOOLEAN]
        /\ SubmissionsTypeOK /\ BackfillInv
    BY DEF TypeInv, BackfillInv, BackfillTypeOK
  <1>1. UNCHANGED head BY <1>0, QuietBackfillOK
  <1>2. ASSUME backfill' = NoBackfill PROVE BackfillBelow' BY <1>2 DEF NoBackfill, BackfillBelow
  <1>3. ASSUME backfill'.gaps = backfill.gaps, backfill'.todo \subseteq backfill.todo PROVE BackfillBelow'
    BY <1>1, <1>3 DEF HeadInv, BackfillBelow
  <1>4. CASE Interrupt \/ BackfillDies BY <1>0, <1>2, <1>3, <1>4 DEF Interrupt, BackfillDies
  <1>5. CASE BackfillReadRoom \/ EndGap \/ EndBackfill
    BY <1>0, <1>3, <1>5 DEF BackfillReadRoom, EndGap, EndBackfill
  <1>6. CASE StartGap
    <2> DEFINE gap == Head(backfill.gaps)
               todo == {u \in Matches : u[2] \in gap.start..gap.end /\ attempt[u].status # "success"}
    <2>1. backfill.gaps \in Seq(Gap) /\ backfill.gaps # <<>> BY <1>0, <1>6 DEF StartGap
    <2>2. backfill' = [backfill EXCEPT !.pc = "run", !.gaps = Tail(@), !.free = None, !.todo = todo]
      BY <1>6 DEF StartGap
    <2>3. AllLatest BY <2>1 DEF HeadInv, BackfillBelow
    <2>4. gap = backfill.gaps[1] /\ 1 \in 1..Len(backfill.gaps) /\ gap \in Gap BY <2>1
    <2>5. gap.end <= head[Latest] /\ gap.end \in Int /\ gap.start \in Int /\ head[Latest] \in Int
      BY <2>4, HeadNumbers, SubmissionsAssumption DEF HeadInv, BackfillBelow, Gap
    <2> HIDE DEF gap
    <2>6. \A u \in todo : u[2] <= head[Latest] BY <2>5
    <2> HIDE DEF todo
    <2>7. backfill'.gaps = Tail(backfill.gaps) /\ backfill'.todo = todo BY <1>0, <2>2
    <2>8. \A i \in 1..Len(Tail(backfill.gaps)) :
              i + 1 \in 1..Len(backfill.gaps) /\ Tail(backfill.gaps)[i] = backfill.gaps[i + 1]
      BY <2>1
    <2>9. QED BY <1>1, <2>3, <2>6, <2>7, <2>8 DEF HeadInv, BackfillBelow
  <1>7. ASSUME NEW r \in Ranges, StartBackfill(r[1], r[2]) PROVE BackfillBelow'
    <2> DEFINE gaps == IF GapDetection THEN FindGaps(r[1], r[2], Successful)
                       ELSE <<[start |-> r[1], end |-> r[2]]>>
               G == GapsOf(r[1], r[2])
    <2>1. r[1] \in Blocks /\ r[2] \in Blocks /\ r[1] <= r[2] BY BackfillAssumption
    <2>2. r[1] \in Int /\ r[2] \in Int /\ head[Latest] \in Int BY <2>1, HeadNumbers, SubmissionsAssumption
    <2>3. FindGaps(r[1], r[2], Successful) \in Seq(G) BY <2>1, GapsAreExact
    <2>4. [start |-> r[1], end |-> r[2]] \in G BY <2>1, <2>2 DEF GapsOf
    <2>5. \A g \in G : g.end \in Int /\ g.end <= r[2] BY DEF GapsOf
    <2>6. backfill' = [NoBackfill EXCEPT !.pc = "gap", !.range = r[1]..r[2], !.gaps = gaps]
      BY <1>7 DEF StartBackfill
    <2> HIDE DEF G
    <2>7. gaps \in Seq(G) BY <2>3, <2>4
    <2> HIDE DEF gaps
    <2>8. \A i \in 1..Len(gaps) : gaps[i] \in G BY <2>7
    <2>9. r[2] <= head[Latest] BY <1>7 DEF StartBackfill
    <2>10. \A i \in 1..Len(gaps) : gaps[i].end <= head[Latest] BY <2>2, <2>5, <2>8, <2>9
    <2>11. backfill'.gaps = gaps /\ backfill'.todo = {} BY <2>6 DEF NoBackfill
    <2>12. AllLatest BY DEF BackfillsOwnHead
    <2>13. QED BY <1>1, <2>10, <2>11, <2>12 DEF BackfillBelow
  <1>8. QED BY <1>4, <1>5, <1>6, <1>7 DEF QuietBackfill

\* A submission of the backfill command
LEMMA HeadSubmit ==
    ASSUME TypeInv, HeadInv, NEW u \in Units, BackfillSubmit(u)
    PROVE  RecordedBelow' /\ BackfillBelow'
  <1>0. /\ backfill \in [pc: {"idle", "gap", "run", "done"}, range: SUBSET Blocks, gaps: Seq(Gap),
                       todo: SUBSET Units, free: Nat \cup {None}, interrupted: BOOLEAN]
        /\ SubmissionsTypeOK /\ BackfillInv
    BY DEF TypeInv, BackfillInv, BackfillTypeOK
  <1>1. UNCHANGED head /\ OthersKept(u) /\ (BackfillStores(u) \/ BackfillRaises(u)) BY <1>0, SubmitFacts
  <1>2. u \in backfill.todo BY DEF BackfillSubmit
  <1>3. AllLatest /\ u[2] <= head[Latest] BY <1>2 DEF HeadInv, BackfillBelow
  <1>4. PICK t \in Tasks, b \in Blocks : u = <<t, b>> BY DEF Units
  <1>5. RecordedBelow' BY <1>1, <1>3, <1>4, RecordBelow DEF AllLatest
  <1>6. backfill'.gaps = backfill.gaps /\ backfill'.todo \subseteq backfill.todo
    <2>1. CASE BackfillStores(u) BY <1>0, <2>1 DEF BackfillStores
    <2>2. CASE BackfillRaises(u) BY <1>0, <2>2 DEF BackfillRaises
    <2>3. QED BY <1>1, <2>1, <2>2
  <1>7. QED BY <1>1, <1>5, <1>6 DEF HeadInv, BackfillBelow

\* Every step
LEMMA HeadStep ==
    ASSUME NoStartSet, BackfillsOwnHead, TypeInv, HeadInv, [Next]_vars
    PROVE  HeadInv'
  <1>0. TypeInv' /\ HeadsGrow /\ SubmissionsTypeOK /\ LiveInv /\ BackfillInv BY EveryStepOK DEF TypeInv
  <1>1. CASE QuietLive /\ UNCHANGED backfill
    BY <1>0, <1>1, HeadQuiet, HeadsKeep, QuietLiveOK DEF HeadInv
  <1>2. CASE (\E t \in Tasks : Process(t)) /\ UNCHANGED backfill
    BY <1>0, <1>2, HeadProcess, HeadsKeep DEF HeadInv
  <1>3. CASE Fill /\ UNCHANGED backfill BY <1>0, <1>3, HeadFill, HeadsKeep DEF HeadInv
  <1>4. CASE QuietBackfill /\ UNCHANGED live
    BY <1>0, <1>4, HeadBackfill, HeadsKeep, QuietBackfillOK DEF HeadInv
  <1>5. CASE (\E u \in Units : BackfillSubmit(u)) /\ UNCHANGED live
    BY <1>0, <1>5, HeadSubmit, HeadsKeep DEF HeadInv
  <1>6. CASE (\E z \in Sources : Advance(z)) /\ UNCHANGED <<live, backfill>>
    BY <1>0, <1>6, HeadsKeep DEF HeadInv, Advance
  <1>7. CASE (\E u \in Units : Finish(u) \/ Delay(u) \/ ComeBack(u)) /\ UNCHANGED <<live, backfill>>
    <2>1. PICK t \in Tasks, b \in Blocks : Finish(<<t, b>>) \/ Delay(<<t, b>>) \/ ComeBack(<<t, b>>)
      BY <1>7 DEF Units
    <2>2. <<t, b>> \in Units BY DEF Units
    <2>3. OthersKept(<<t, b>>) /\ attempt[<<t, b>>].status # "absent" /\ UNCHANGED head
      BY <1>0, <2>1, <2>2, WorkersFacts
    <2>4. b <= head[SourceOf[t]] BY <2>3 DEF HeadInv, RecordedBelow
    <2>5. RecordedBelow' BY <2>3, <2>4, RecordBelow
    <2>6. QED BY <1>0, <1>7, <2>5, HeadsKeep DEF HeadInv
  <1>8. CASE UNCHANGED <<head, attempt, live, backfill>> BY <1>0, <1>8, HeadsKeep DEF HeadInv
  <1>9. QED BY <1>1, <1>2, <1>3, <1>4, <1>5, <1>6, <1>7, <1>8, StepCases

\* README, BLOCK_DUMPER_START_FROM_BLOCK: a head that starts by itself starts within the blocks
\* it has, and stays there, unless a backfill submitted blocks that its source has not reached:
\* that is the finding of the run finalized_start.
THEOREM StartsWithinHead == ASSUME NoStartSet, BackfillsOwnHead PROVE Spec => []StartsAtItsHead
  <1>1. Init => TypeInv /\ HeadInv
    <2>1. ASSUME Init PROVE HeadInv
      <3>1. RecordedBelow BY <2>1 DEF Init, SubmissionsInit, RecordedBelow, Units
      <3>2. StartsAtItsHead /\ BusyBelow BY <2>1 DEF Init, LiveInit, Stopped, StartsAtItsHead, BusyBelow
      <3>3. BackfillBelow BY <2>1 DEF Init, BackfillInit, NoBackfill, BackfillBelow
      <3>4. QED BY <3>1, <3>2, <3>3 DEF HeadInv
    <2>2. QED BY <2>1, TypesInit
  <1>2. (TypeInv /\ HeadInv) /\ [Next]_vars => (TypeInv /\ HeadInv)' BY EveryStepOK, HeadStep
  <1>3. HeadInv => StartsAtItsHead BY DEF HeadInv
  <1>4. QED BY <1>1, <1>2, <1>3, PTL DEF Spec

-----------------------------------------------------------------------------
(* The throttle *)

\* The hypothesis: one gate submits to the queue.  Its submissions may raise; the backfill
\* command then goes on with the room it has.
OneGate == ~Runs \/ (Ranges = {} /\ BackfillQueue = "backfill")

\* The attempts that hold the queue's budget and do not come back
Counted == {u \in Units \ Fragile : /\ attempt[u].status = "inflight"
                                    /\ attempt[u].dispatch_queue = BackfillQueue}
Size == Cardinality(Counted)
NoneWaits == \A u \in Units \ Fragile : attempt[u].status \notin {"waiting", "failed"}

\* What a gate may still submit fits, however long ago the room was read.
Fits(free) == free # None => Size + free <= Throttle

LiveGate == live.pc = "fill" /\ live.todo # {} => Fits(live.free)
OtherRests == (~Runs => live.pc = "down") /\ (Ranges = {} => backfill = NoBackfill)
GateInv == NoneWaits /\ Size <= Throttle /\ LiveGate /\ Fits(backfill.free) /\ OtherRests

\* The size of the set is a number.
LEMMA SizeType == Size \in Nat /\ IsFiniteSet(Counted)
  <1>1. Counted \subseteq Units BY DEF Counted
  <1>2. QED BY <1>1, UnitsAreFinite DEF Size

\* The same in the next state
LEMMA NextSizeType == Size' \in Nat /\ IsFiniteSet(Counted')
  <1>1. Counted' \subseteq Units BY DEF Counted
  <1>2. QED BY <1>1, UnitsAreFinite DEF Size

\* A step that changes one unit adds at most one to it, and nothing unless the unit is new.
LEMMA SizeStep ==
    ASSUME NEW u \in Units, OthersKept(u)
    PROVE  /\ Size' <= Size + 1
           /\ (u \in Counted' => u \in Counted) => Size' <= Size
  <1>1. Counted' \subseteq Counted \cup {u} BY DEF Counted, OthersKept
  <1>2. IsFiniteSet(Counted \cup {u}) /\ Cardinality(Counted \cup {u}) <= Size + 1
    <2> DEFINE more == Cardinality(Counted \cup {u})
    <2>1. IsFiniteSet(Counted \cup {u}) /\ (more = Size \/ more = Size + 1) BY SizeType, FS_AddElement DEF Size
    <2> HIDE DEF more
    <2>2. more <= Size + 1 BY <2>1, SizeType
    <2>3. QED BY <2>1, <2>2 DEF more
  <1>3. Cardinality(Counted \cup {u}) \in Nat BY <1>2, FS_CardinalityType
  <1>4. Size' <= Cardinality(Counted \cup {u}) BY <1>1, <1>2, FS_Subset DEF Size
  <1>5. Size' <= Size + 1 BY <1>2, <1>3, <1>4, SizeType, NextSizeType
  <1>6. ASSUME u \in Counted' => u \in Counted PROVE Size' <= Size
    <2>1. Counted' \subseteq Counted BY <1>1, <1>6
    <2>2. QED BY <2>1, SizeType, FS_Subset DEF Size
  <1>7. QED BY <1>5, <1>6

\* The room a gate reads fits: it counts all that is in flight.
LEMMA ReadFits == ASSUME Throttle # None, Size <= Throttle PROVE Size + ReadFree <= Throttle
  <1> DEFINE all == {u \in Units : attempt[u].status \in {"inflight"} /\ attempt[u].dispatch_queue = BackfillQueue}
             n == Cardinality(all)
  <1>1. all \subseteq Units /\ Counted \subseteq all BY DEF Counted
  <1>2. IsFiniteSet(all) /\ n \in Nat BY <1>1, UnitsAreFinite
  <1>3. CountInflight(BackfillQueue) = n BY DEF CountInflight, InflightOn
  <1> HIDE DEF all
  <1>4. Size <= n BY <1>1, <1>2, FS_Subset DEF Size
  <1> HIDE DEF n
  <1>5. ReadFree = IF n < Throttle THEN Throttle - n ELSE 0 BY <1>3 DEF ReadFree
  <1>6. Throttle \in Nat BY SubmissionsAssumption
  <1>7. QED BY <1>2, <1>4, <1>5, <1>6, SizeType

\* execute() makes no unit wait, and a unit that it adds to the count was sent a message.
LEMMA StoreCounts ==
    ASSUME SubmissionsTypeOK, NoneWaits, NEW u \in Units, NEW queue \in {"live", "backfill"},
           NEW x \in Executed(attempt[u], queue), Store(u, x)
    PROVE  /\ NoneWaits'
           /\ u \in Counted' /\ u \notin Counted => x.sent /\ queue = BackfillQueue
  <1>1. attempt[u] \in Attempt BY DEF SubmissionsTypeOK
  <1>2. attempt'[u] = x.row /\ OthersKept(u) BY StoreFacts
  <1> DEFINE r == attempt[u]
             r2 == x.row
  <1>3. /\ r2.status \in {r.status, "inflight", "given_up"}
        /\ r.status \in {"success", "given_up"} => r2 = r
        /\ r2.dispatch_queue = IF r.status = "absent" THEN queue ELSE r.dispatch_queue
        /\ r2.status = "inflight" /\ r.status # "inflight" => x.sent
    BY <1>1, ExecutedFacts
  <1>4. r.status \in Statuses BY <1>1 DEF Attempt
  <1> HIDE DEF r, r2
  <1>5. u \notin Fragile => r.status \notin {"waiting", "failed"} BY DEF NoneWaits, r
  <1>6. NoneWaits'
    <2>1. u \notin Fragile => r2.status \notin {"waiting", "failed"} BY <1>3, <1>5
    <2>2. QED BY <1>2, <2>1 DEF NoneWaits, OthersKept, r2
  <1>7. ASSUME u \in Counted', u \notin Counted PROVE x.sent /\ queue = BackfillQueue
    <2>1. u \notin Fragile /\ r2.status = "inflight" /\ r2.dispatch_queue = BackfillQueue
      BY <1>2, <1>7 DEF Counted, r2
    <2>2. r.status # "inflight" \/ r.dispatch_queue # BackfillQueue BY <1>7, <2>1 DEF Counted, r
    <2>3. r.status = "absent" BY <1>3, <1>4, <1>5, <2>1, <2>2 DEF Statuses
    <2>4. QED BY <1>3, <2>1, <2>3
  <1>8. QED BY <1>6, <1>7

\* The arithmetic of a gate
LEMMA RoomLeft ==
    ASSUME NEW n \in Nat, NEW m \in Nat, NEW free \in Nat, NEW limit \in Nat, n + free <= limit
    PROVE  /\ m <= n => m <= limit /\ m + free <= limit
           /\ m <= n + 1 /\ free > 0 => m <= limit /\ m + (free - 1) <= limit
  OBVIOUS

\* A submission through a gate with room fits.
LEMMA SubmitFits ==
    ASSUME SubmissionsTypeOK, NoneWaits, NEW u \in Units, NEW x \in Executed(attempt[u], BackfillQueue), Store(u, x),
           Throttle # None, NEW free \in Nat \cup {None}, HasRoom(free), Fits(free)
    PROVE  /\ NoneWaits' /\ Size' <= Throttle
           /\ Size' + Spent(free, x.sent) <= Throttle
  <1>0. BackfillQueue \in {"live", "backfill"} /\ Throttle \in Nat /\ None \notin Int BY SubmissionsAssumption
  <1>1. NoneWaits' /\ (u \in Counted' /\ u \notin Counted => x.sent) BY <1>0, StoreCounts
  <1>2. OthersKept(u) BY <1>0, StoreFacts
  <1>3. free \in Nat /\ free > 0 /\ free # None /\ Size + free <= Throttle BY <1>0 DEF HasRoom, Fits
  <1>4. Size \in Nat /\ Size' \in Nat BY SizeType, NextSizeType
  <1>5. CASE x.sent
    <2>1. Spent(free, x.sent) = free - 1 BY <1>3, <1>5 DEF Spent
    <2>2. Size' <= Size + 1 BY <1>2, SizeStep
    <2>3. Size' <= Throttle /\ Size' + (free - 1) <= Throttle BY <1>0, <1>3, <1>4, <2>2, RoomLeft
    <2>4. QED BY <1>1, <2>1, <2>3
  <1>6. CASE ~x.sent
    <2>1. Spent(free, x.sent) = free BY <1>6 DEF Spent
    <2>2. Size' <= Size BY <1>1, <1>2, <1>6, SizeStep
    <2>3. Size' <= Throttle /\ Size' + free <= Throttle BY <1>0, <1>3, <1>4, <2>2, RoomLeft
    <2>4. QED BY <1>1, <2>1, <2>3
  <1>7. QED BY <1>5, <1>6

\* What does not add to the count keeps the promises of the gates.
LEMMA FitsKept ==
    ASSUME Throttle # None, Size <= Throttle, Size' <= Size, NEW free \in Nat \cup {None}, Fits(free)
    PROVE  Size' <= Throttle /\ (free # None => Size' + free <= Throttle)
  <1>1. Size \in Nat /\ Size' \in Nat /\ Throttle \in Nat BY SizeType, NextSizeType, SubmissionsAssumption
  <1>2. Size' <= Throttle BY <1>1
  <1>3. ASSUME free # None PROVE Size' + free <= Throttle
    <2>1. free \in Nat /\ Size + free <= Throttle BY <1>3 DEF Fits
    <2>2. QED BY <1>1, <2>1, RoomLeft
  <1>4. QED BY <1>2, <1>3

\* The workers do not add to the count.
LEMMA WorkersCount ==
    ASSUME SubmissionsTypeOK, NoneWaits, NEW u \in Units, Finish(u) \/ Delay(u) \/ ComeBack(u)
    PROVE  NoneWaits' /\ Size' <= Size
  <1>1. OthersKept(u) /\ attempt'[u].dispatch_queue = attempt[u].dispatch_queue BY WorkersFacts
  <1>2. CASE u \in Fragile
    <2>1. NoneWaits' BY <1>1, <1>2 DEF NoneWaits, OthersKept
    <2>2. u \notin Counted' BY <1>2 DEF Counted
    <2>3. QED BY <1>1, <2>1, <2>2, SizeStep
  <1>3. CASE u \notin Fragile
    <2>1. Finish(u) /\ attempt[u].status = "inflight" BY <1>3 DEF Delay, ComeBack, NoneWaits, Finish
    <2>2. attempt'[u].status = "success"
      BY <1>3, <2>1, BecomesFacts DEF Finish, Statuses
    <2>3. NoneWaits' BY <1>1, <2>2 DEF NoneWaits, OthersKept
    <2>4. u \notin Counted' BY <2>2 DEF Counted
    <2>5. QED BY <1>1, <2>3, <2>4, SizeStep
  <1>4. QED BY <1>2, <1>3

\* A step that adds nothing to the count keeps what the gates promise: a gate that reads no
\* room keeps its own.
LEMMA GatesKept ==
    ASSUME Throttle # None, TypeInv, GateInv, NoneWaits', Size' <= Size
    PROVE  /\ NoneWaits' /\ Size' <= Throttle
           /\ live' = live \/ (live'.free = live.free /\ (live'.pc = "fill" /\ live'.todo # {} => live.pc = "fill" /\ live.todo # {}))
                  => LiveGate'
           /\ backfill'.free \in {backfill.free, None} => Fits(backfill.free)'
  <1>1. live.free \in Nat \cup {None} /\ backfill.free \in Nat \cup {None}
    BY DEF TypeInv, LiveInv, BackfillInv, LiveTypeOK, BackfillTypeOK
  <1>2. Size <= Throttle /\ Fits(backfill.free) BY DEF GateInv
  <1>3. Size' <= Throttle /\ (backfill.free # None => Size' + backfill.free <= Throttle)
    BY <1>1, <1>2, FitsKept
  <1>4. ASSUME live.pc = "fill", live.todo # {}
        PROVE  live.free # None => Size' + live.free <= Throttle
    <2>1. Fits(live.free) BY <1>4 DEF GateInv, LiveGate
    <2>2. QED BY <1>1, <1>2, <2>1, FitsKept
  <1>5. ASSUME live' = live \/ (live'.free = live.free /\ (live'.pc = "fill" /\ live'.todo # {} => live.pc = "fill" /\ live.todo # {}))
        PROVE  LiveGate'
    BY <1>4, <1>5 DEF LiveGate, Fits
  <1>6. ASSUME backfill'.free \in {backfill.free, None} PROVE Fits(backfill.free)'
    BY <1>3, <1>6 DEF Fits
  <1>7. QED BY <1>3, <1>5, <1>6

\* What the live scheduler reads and forgets
LEMMA GateQuietLive ==
    ASSUME Throttle # None, TypeInv, GateInv, QuietLive, UNCHANGED backfill
    PROVE  GateInv'
  <1>0. UNCHANGED attempt BY QuietLiveOK DEF TypeInv
  <1>1. NoneWaits' /\ Size' = Size BY <1>0 DEF GateInv, NoneWaits, Size, Counted
  <1>2. Size' <= Size BY <1>1, SizeType
  <1>3. Size' <= Throttle /\ Fits(backfill.free)' BY <1>1, <1>2, GatesKept
  <1>4. live \in LiveState BY DEF TypeInv, LiveInv, LiveTypeOK, LiveState
  <1>5. OtherRests'
    <2>1. ASSUME ~Runs PROVE live'.pc = "down"
      <3>1. live.pc = "down" BY <2>1 DEF GateInv, OtherRests
      <3>2. QED
        BY <2>1, <3>1 DEF QuietLive, Start, StartLookback, FillReadRoom, EndFill, EndPoll, NextRound,
                          StopScheduler, Poll, Scan
    <2>2. QED BY <2>1 DEF GateInv, OtherRests
  <1>6. LiveGate'
    <2>1. CASE FillReadRoom
      <3>1. live'.free = ReadFree BY <1>4, <2>1 DEF FillReadRoom, LiveState
      <3>2. Size + ReadFree <= Throttle BY ReadFits DEF GateInv
      <3>3. Size' + live'.free <= Throttle BY <1>1, <3>1, <3>2
      <3>4. QED BY <3>3 DEF LiveGate, Fits
    <2>2. CASE \E t \in Tasks : Scan(t)
      <3>1. live'.free = None BY <1>4, <2>2 DEF Scan, LiveState
      <3>2. QED BY <3>1 DEF LiveGate, Fits
    <2>3. CASE Start \/ StopScheduler
      <3>1. Stopped.pc = "down" /\ "pc" \in DOMAIN Stopped BY DEF Stopped
      <3>2. CASE Start
        <4>1. PICK last : live' = [Stopped EXCEPT !.pc = "poll", !.polls = Polled, !.last = last]
          BY <3>2 DEF Start
        <4>2. live'.pc = "poll" BY <3>1, <4>1
        <4>3. QED BY <4>2 DEF LiveGate
      <3>3. CASE StopScheduler BY <3>1, <3>3 DEF StopScheduler, LiveGate
      <3>4. QED BY <2>3, <3>2, <3>3
    <2>4. CASE StartLookback \/ EndFill \/ EndPoll \/ NextRound
      <3>1. live'.pc # "fill" BY <1>4, <2>4 DEF StartLookback, EndFill, EndPoll, NextRound, LiveState
      <3>2. QED BY <3>1 DEF LiveGate
    <2>5. ASSUME NEW z \in Sources, Poll(z) PROVE LiveGate'
      <3>1. PICK start : LET turn == [live EXCEPT !.last[z] = start, !.polls = @ \ {z}]
                         IN  \/ live' = [turn EXCEPT !.pc = "process", !.source = z, !.block = head[z],
                                                     !.items = TasksOf(z)]
                             \/ live' = turn
        BY <2>5 DEF Poll, TurnLost
      <3> DEFINE turn == [live EXCEPT !.last[z] = start, !.polls = @ \ {z}]
      <3>2. DOMAIN turn = DOMAIN live /\ turn.pc = live.pc /\ "pc" \in DOMAIN live BY <1>4 DEF LiveState
      <3>3. live' = turn \/ live' = [turn EXCEPT !.pc = "process", !.source = z, !.block = head[z], !.items = TasksOf(z)]
        BY <3>1
      <3> HIDE DEF turn
      <3>4. live'.pc \in {live.pc, "process"} BY <3>2, <3>3
      <3>5. live.pc = "poll" BY <2>5 DEF Poll
      <3>6. QED BY <3>4, <3>5 DEF LiveGate
    <2>6. QED BY <2>1, <2>2, <2>3, <2>4, <2>5 DEF QuietLive
  <1>7. QED BY <1>1, <1>3, <1>5, <1>6 DEF GateInv

\* A block that is processed goes to the live queue.
LEMMA GateProcess ==
    ASSUME OneGate, Throttle # None, TypeInv, GateInv, NEW t \in Tasks, Process(t), UNCHANGED backfill
    PROVE  GateInv'
  <1> DEFINE u == <<t, live.block>>
  <1>0. SubmissionsTypeOK /\ NoneWaits /\ live \in LiveState
    BY DEF TypeInv, LiveInv, LiveTypeOK, LiveState, GateInv
  <1>1. /\ live' = [live EXCEPT !.items = @ \ {t}] /\ u \in Units /\ OthersKept(u)
        /\ \/ UNCHANGED attempt
           \/ \E x \in Executed(attempt[u], "live") : Store(u, x)
    BY ProcessFacts DEF TypeInv
  <1> HIDE DEF u
  <1>2. live.pc = "process" /\ live'.pc = "process" BY <1>0, <1>1 DEF Process, LiveState
  <1>3. BackfillQueue = "backfill" BY <1>2 DEF OneGate, GateInv, OtherRests
  <1>4. NoneWaits' /\ Size' <= Size
    <2>1. CASE UNCHANGED attempt
      <3>1. NoneWaits' /\ Size' = Size BY <1>0, <2>1 DEF NoneWaits, Size, Counted
      <3>2. QED BY <3>1, SizeType
    <2>2. CASE \E x \in Executed(attempt[u], "live") : Store(u, x)
      <3>1. NoneWaits' /\ (u \in Counted' => u \in Counted) BY <1>0, <1>1, <1>3, <2>2, StoreCounts
      <3>2. QED BY <1>1, <3>1, SizeStep
    <2>3. QED BY <1>1, <2>1, <2>2
  <1>5. Size' <= Throttle /\ Fits(backfill.free)' BY <1>4, GatesKept
  <1>6. LiveGate' BY <1>2 DEF LiveGate
  <1>7. OtherRests' BY <1>2 DEF GateInv, OtherRests
  <1>8. QED BY <1>4, <1>5, <1>6, <1>7 DEF GateInv

\* A lookback submits through the room it has read.
LEMMA GateFill ==
    ASSUME OneGate, Throttle # None, TypeInv, GateInv, Fill, UNCHANGED backfill
    PROVE  GateInv'
  <1>0. /\ SubmissionsTypeOK /\ NoneWaits /\ Size <= Throttle /\ live \in LiveState
        /\ live.free \in Nat \cup {None} /\ None \notin Int
    BY SubmissionsAssumption DEF TypeInv, LiveInv, LiveTypeOK, LiveState, GateInv
  <1>1. PICK b \in live.todo :
            /\ <<live.item, b>> \in Units /\ OthersKept(<<live.item, b>>)
            /\ FillSubmits(<<live.item, b>>, b) \/ FillSkips(b) \/ FillRaises(<<live.item, b>>)
    BY FillFacts DEF TypeInv
  <1> DEFINE u == <<live.item, b>>
  <1>2. u \in Units /\ OthersKept(u) /\ (FillSubmits(u, b) \/ FillSkips(b) \/ FillRaises(u)) BY <1>1
  <1> HIDE DEF u
  <1>3. live.pc = "fill" /\ live.todo # {} BY DEF Fill
  <1>4. Fits(live.free) BY <1>3 DEF GateInv, LiveGate
  <1>5. Runs /\ Ranges = {} /\ BackfillQueue = "backfill" /\ backfill = NoBackfill
    BY <1>3 DEF GateInv, OtherRests, OneGate
  <1>6. Fits(backfill.free)' BY <1>5 DEF NoBackfill, Fits
  <1>7. OtherRests' BY <1>5 DEF OtherRests
  <1>8. NoneWaits' /\ Size' <= Throttle /\ LiveGate'
    <2>1. CASE FillSubmits(u, b)
      <3>1. PICK x \in Executed(attempt[u], BackfillQueue) :
                Store(u, x) /\ live' = [live EXCEPT !.todo = @ \ {b}, !.free = Spent(@, x.sent)]
        BY <2>1 DEF FillSubmits
      <3>2. HasRoom(live.free) BY <2>1 DEF FillSubmits
      <3>3. NoneWaits' /\ Size' <= Throttle /\ Size' + Spent(live.free, x.sent) <= Throttle
        BY <1>0, <1>2, <1>4, <3>1, <3>2, SubmitFits
      <3>4. live'.free = Spent(live.free, x.sent) BY <1>0, <3>1 DEF LiveState
      <3>5. QED BY <3>3, <3>4 DEF LiveGate, Fits
    <2>2. CASE FillSkips(b)
      <3>1. NoneWaits' /\ Size' = Size BY <1>0, <2>2 DEF FillSkips, NoneWaits, Size, Counted
      <3>2. Size' <= Size BY <3>1, SizeType
      <3>3. live'.free = live.free BY <1>0, <2>2 DEF FillSkips, LiveState
      <3>4. QED BY <1>3, <3>1, <3>2, <3>3, GatesKept
    <2>3. CASE FillRaises(u)
      <3>1. live'.todo = {} BY <1>0, <2>3 DEF FillRaises, LiveState
      <3>2. HasRoom(live.free) BY <2>3 DEF FillRaises
      <3>3. CASE UNCHANGED attempt
        <4>1. NoneWaits' /\ Size' = Size BY <1>0, <3>3 DEF NoneWaits, Size, Counted
        <4>2. QED BY <1>0, <3>1, <4>1 DEF LiveGate
      <3>4. CASE \E x \in Executed(attempt[u], BackfillQueue) : Store(u, x)
        <4>1. NoneWaits' /\ Size' <= Throttle BY <1>0, <1>2, <1>4, <3>2, <3>4, SubmitFits
        <4>2. QED BY <3>1, <4>1 DEF LiveGate
      <3>5. QED BY <2>3, <3>3, <3>4 DEF FillRaises, ExecuteRaises
    <2>4. QED BY <1>2, <2>1, <2>2, <2>3
  <1>9. QED BY <1>6, <1>7, <1>8 DEF GateInv

\* The backfill command reads the room, and forgets it with every gap.
LEMMA GateBackfill ==
    ASSUME Throttle # None, TypeInv, GateInv, QuietBackfill, UNCHANGED live
    PROVE  GateInv'
  <1>0. UNCHANGED attempt /\ backfill \in [pc: {"idle", "gap", "run", "done"}, range: SUBSET Blocks,
            gaps: Seq(Gap), todo: SUBSET Units, free: Nat \cup {None}, interrupted: BOOLEAN]
    BY QuietBackfillOK DEF TypeInv, BackfillInv, BackfillTypeOK
  <1>1. NoneWaits' /\ Size' = Size BY <1>0 DEF GateInv, NoneWaits, Size, Counted
  <1>2. Size' <= Size BY <1>1, SizeType
  <1>3. OtherRests'
    <2>1. ASSUME Ranges = {} PROVE backfill' = NoBackfill
      <3>1. backfill = NoBackfill BY <2>1 DEF GateInv, OtherRests
      <3>2. backfill.pc = "idle" BY <3>1 DEF NoBackfill
      <3>3. QED BY <2>1, <3>2 DEF QuietBackfill, StartGap, BackfillReadRoom, EndGap, EndBackfill, Interrupt,
                                  BackfillDies
    <2>2. QED BY <2>1 DEF GateInv, OtherRests
  <1>4. Fits(backfill.free)'
    <2>1. CASE BackfillReadRoom
      <3>1. backfill'.free = ReadFree BY <1>0, <2>1 DEF BackfillReadRoom
      <3>2. Size + ReadFree <= Throttle BY ReadFits DEF GateInv
      <3>3. Size' + backfill'.free <= Throttle BY <1>1, <3>1, <3>2
      <3>4. QED BY <3>3 DEF Fits
    <2>2. ASSUME backfill'.free \in {backfill.free, None} PROVE Fits(backfill.free)'
      BY <1>1, <1>2, <2>2, GatesKept
    <2>3. CASE StartGap
      <3>1. backfill'.free = None BY <1>0, <2>3 DEF StartGap
      <3>2. QED BY <2>2, <3>1
    <2>4. CASE EndGap \/ EndBackfill
      <3>1. backfill'.free = backfill.free BY <1>0, <2>4 DEF EndGap, EndBackfill
      <3>2. QED BY <2>2, <3>1
    <2>5. CASE Interrupt \/ BackfillDies
      <3>1. NoBackfill.free = None BY DEF NoBackfill
      <3>2. \/ backfill' = NoBackfill
            \/ backfill' = [backfill EXCEPT !.pc = "gap", !.todo = {}, !.interrupted = TRUE]
        BY <2>5 DEF Interrupt, BackfillDies
      <3>3. backfill'.free \in {backfill.free, None} BY <1>0, <3>1, <3>2
      <3>4. QED BY <2>2, <3>3
    <2>6. CASE \E r \in Ranges : StartBackfill(r[1], r[2])
      <3>1. PICK r, gaps : backfill' = [NoBackfill EXCEPT !.pc = "gap", !.range = r[1]..r[2], !.gaps = gaps]
        BY <2>6 DEF StartBackfill
      <3>2. backfill'.free = None BY <3>1 DEF NoBackfill
      <3>3. QED BY <2>2, <3>2
    <2>7. QED BY <2>1, <2>3, <2>4, <2>5, <2>6 DEF QuietBackfill
  <1>5. LiveGate' /\ Size' <= Throttle BY <1>1, <1>2, GatesKept
  <1>6. QED BY <1>1, <1>3, <1>4, <1>5 DEF GateInv

\* A backfill submits through the room it has read.
LEMMA GateSubmit ==
    ASSUME OneGate, Throttle # None, TypeInv, GateInv, NEW u \in Units, BackfillSubmit(u), UNCHANGED live
    PROVE  GateInv'
  <1>0. /\ SubmissionsTypeOK /\ NoneWaits /\ Fits(backfill.free)
        /\ backfill \in [pc: {"idle", "gap", "run", "done"}, range: SUBSET Blocks, gaps: Seq(Gap),
                          todo: SUBSET Units, free: Nat \cup {None}, interrupted: BOOLEAN]
    BY DEF TypeInv, BackfillInv, BackfillTypeOK, GateInv
  <1>1. backfill.pc = "run" /\ HasRoom(backfill.free) BY DEF BackfillSubmit
  <1>2. Ranges # {} BY <1>1 DEF GateInv, OtherRests, NoBackfill
  <1>3. ~Runs BY <1>2 DEF OneGate
  <1>4. live.pc = "down" /\ live'.pc = "down" BY <1>3 DEF GateInv, OtherRests
  <1>5. BackfillStores(u) \/ BackfillRaises(u) BY SubmitFacts DEF TypeInv
  <1>6. backfill.free \in Nat \cup {None} BY <1>0
  <1>7. LiveGate' /\ OtherRests' BY <1>2, <1>4 DEF LiveGate, OtherRests
  <1>8. CASE BackfillStores(u)
    <2>1. PICK x \in Executed(attempt[u], BackfillQueue) :
              Store(u, x) /\ backfill' = [backfill EXCEPT !.todo = @ \ {u}, !.free = Spent(@, x.sent)]
      BY <1>8 DEF BackfillStores
    <2>2. NoneWaits' /\ Size' <= Throttle /\ Size' + Spent(backfill.free, x.sent) <= Throttle
      BY <1>0, <1>1, <1>6, <2>1, SubmitFits
    <2>3. backfill'.free = Spent(backfill.free, x.sent) BY <1>0, <2>1
    <2>4. Fits(backfill.free)' BY <2>2, <2>3 DEF Fits
    <2>5. QED BY <1>7, <2>2, <2>4 DEF GateInv
  <1>9. CASE BackfillRaises(u)
    <2>1. u \in Fragile BY <1>9, SubmissionsAssumption DEF BackfillRaises
    <2>2. OthersKept(u) BY SubmitFacts DEF TypeInv
    <2>3. NoneWaits' BY <1>0, <2>1, <2>2 DEF NoneWaits, OthersKept
    <2>4. Size' <= Size BY <2>1, <2>2, SizeStep DEF Counted
    <2>5. backfill'.free = backfill.free BY <1>0, <1>9 DEF BackfillRaises
    <2>6. Size' <= Throttle /\ Fits(backfill.free)' BY <2>3, <2>4, <2>5, GatesKept
    <2>7. QED BY <1>7, <2>3, <2>6 DEF GateInv
  <1>10. QED BY <1>5, <1>8, <1>9

\* Every step keeps the promises of the gates.
LEMMA GateStep == ASSUME OneGate, Throttle # None, TypeInv, GateInv, [Next]_vars PROVE GateInv'
  <1>0. SubmissionsTypeOK /\ NoneWaits BY DEF TypeInv, GateInv
  <1>1. ASSUME UNCHANGED <<live, backfill>>, NoneWaits', Size' <= Size PROVE GateInv'
    <2>1. Size' <= Throttle /\ LiveGate' /\ Fits(backfill.free)' BY <1>1, GatesKept
    <2>2. OtherRests' BY <1>1 DEF GateInv, OtherRests
    <2>3. QED BY <1>1, <2>1, <2>2 DEF GateInv
  <1>2. ASSUME UNCHANGED <<attempt, live, backfill>> PROVE GateInv'
    <2>1. NoneWaits' /\ Size' = Size BY <1>0, <1>2 DEF NoneWaits, Size, Counted
    <2>2. Size' <= Size BY <2>1, SizeType
    <2>3. QED BY <1>1, <1>2, <2>1, <2>2
  <1>3. CASE QuietLive /\ UNCHANGED backfill BY <1>3, GateQuietLive
  <1>4. CASE (\E t \in Tasks : Process(t)) /\ UNCHANGED backfill BY <1>4, GateProcess
  <1>5. CASE Fill /\ UNCHANGED backfill BY <1>5, GateFill
  <1>6. CASE QuietBackfill /\ UNCHANGED live BY <1>6, GateBackfill
  <1>7. CASE (\E u \in Units : BackfillSubmit(u)) /\ UNCHANGED live BY <1>7, GateSubmit
  <1>8. CASE (\E z \in Sources : Advance(z)) /\ UNCHANGED <<live, backfill>> BY <1>2, <1>8 DEF Advance
  <1>9. CASE (\E u \in Units : Finish(u) \/ Delay(u) \/ ComeBack(u)) /\ UNCHANGED <<live, backfill>>
    BY <1>0, <1>1, <1>9, WorkersCount
  <1>10. CASE UNCHANGED <<head, attempt, live, backfill>> BY <1>2, <1>10
  <1>11. QED BY <1>3, <1>4, <1>5, <1>6, <1>7, <1>8, <1>9, <1>10, StepCases

\* Queue.throttle: behind one gate the attempts in flight on its queue never exceed the
\* throttle, those that can fail or whose submission can raise aside, although workers end attempts and the table
\* changes between the read of the room and the last submission that uses it.
THEOREM ThrottleHolds == ASSUME OneGate PROVE Spec => []WithinThrottle
  <1>1. CASE Throttle = None
    <2>1. WithinThrottle BY <1>1 DEF WithinThrottle
    <2>2. QED BY <2>1, PTL
  <1>2. CASE Throttle # None
    <2>1. Init => TypeInv /\ GateInv
      <3>1. ASSUME Init PROVE GateInv
        <4>1. Counted = {} /\ NoneWaits BY <3>1 DEF Init, SubmissionsInit, Counted, NoneWaits
        <4>2. Size = 0 BY <4>1, FS_EmptySet DEF Size
        <4>3. Size <= Throttle BY <1>2, <4>2, SubmissionsAssumption
        <4>4. LiveGate /\ OtherRests BY <3>1 DEF Init, LiveInit, BackfillInit, Stopped, LiveGate, OtherRests
        <4>5. Fits(backfill.free) BY <3>1 DEF Init, BackfillInit, NoBackfill, Fits
        <4>6. QED BY <4>1, <4>3, <4>4, <4>5 DEF GateInv
      <3>2. QED BY <3>1, TypesInit
    <2>2. (TypeInv /\ GateInv) /\ [Next]_vars => (TypeInv /\ GateInv)' BY <1>2, EveryStepOK, GateStep
    <2>3. GateInv => WithinThrottle BY DEF GateInv, WithinThrottle, Size, Counted
    <2>4. QED BY <2>1, <2>2, <2>3, PTL DEF Spec
  <1>3. QED BY <1>1, <1>2
=============================================================================
