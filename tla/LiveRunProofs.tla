---- MODULE LiveRunProofs ----
(***************************************************************************)
(* Proofs about the live run.                                              *)
(*                                                                         *)
(* The inductive invariant is LiveInv.  While the stream runs, a function  *)
(* f lays the run out: line f[k] of the log is the tick of snapshot k, its *)
(* agents' lines follow it, and every decision has its line (Laid, Lined). *)
(* A sink that raises leaves a number that is given out again (Spoilt),    *)
(* which the hash refuses, so that such a run is never sealed.  A run that *)
(* is sealed under the pre-match rule ends with the provider's close of    *)
(* every market that was decided on (Closed).                              *)
(*                                                                         *)
(* TrueClvIsTheClose follows from Closed and the law's rows.               *)
(* ProofCardHolds follows from the layout: the verifier, which sorts the   *)
(* sealed events by tick and by number, reads back the snapshots, the      *)
(* decisions and the configuration the runner scored from.                 *)
(***************************************************************************)
EXTENDS LiveRun, TLAPS, SequenceTheorems, FiniteSetTheorems

\* A sequence, of whatever its elements are.
IsSeq(s) == s \in Seq(Range(s))

\* The size of an interval that may be empty.
LEMMA IntervalSize ==
    ASSUME NEW a \in Int, NEW b \in Int, b >= a - 1
    PROVE  IsFiniteSet(a..b) /\ Cardinality(a..b) = b - a + 1
<1>1. IsFiniteSet(a..b) /\ Cardinality(a..b) = IF a > b THEN 0 ELSE b - a + 1
  BY FS_Interval, Zenon
<1>2. (IF a > b THEN 0 ELSE b - a + 1) = b - a + 1
  OBVIOUS
<1> QED BY <1>1, <1>2, Zenon

\* A sequence is one of its own elements.
LEMMA SeqFacts ==
    ASSUME NEW s, IsSeq(s)
    PROVE  Len(s) \in Nat /\ DOMAIN s = 1..Len(s)
  BY DEF IsSeq

\* A sequence over any set is one of its own elements.
LEMMA SeqOfSeq ==
    ASSUME NEW S, NEW s \in Seq(S)
    PROVE  IsSeq(s)
<1>1. Len(s) \in Nat /\ DOMAIN s = 1..Len(s) /\ s = [i \in 1..Len(s) |-> s[i]]
  OBVIOUS
<1>2. \A i \in 1..Len(s) : s[i] \in Range(s)
  BY <1>1 DEF Range
<1> QED BY <1>1, <1>2 DEF IsSeq

\* What Append gives.
LEMMA AppendFacts ==
    ASSUME NEW s, IsSeq(s), NEW e
    PROVE  /\ IsSeq(Append(s, e))
           /\ Len(Append(s, e)) = Len(s) + 1
           /\ \A i \in 1..Len(s) : Append(s, e)[i] = s[i]
           /\ Append(s, e)[Len(s) + 1] = e
<1> DEFINE S == Range(s) \cup {e}
<1>1. s \in Seq(S) /\ e \in S
  BY DEF IsSeq
<1>2. Append(s, e) \in Seq(S)
  BY <1>1
<1>3. IsSeq(Append(s, e))
  BY <1>2, SeqOfSeq
<1> QED BY <1>1, <1>3

\* What \o gives.
LEMMA ConcatFacts ==
    ASSUME NEW s, IsSeq(s), NEW t, IsSeq(t)
    PROVE  /\ IsSeq(s \o t)
           /\ Len(s \o t) = Len(s) + Len(t)
           /\ \A i \in 1..Len(s) : (s \o t)[i] = s[i]
           /\ \A i \in 1..Len(t) : (s \o t)[Len(s) + i] = t[i]
<1> DEFINE S == Range(s) \cup Range(t)
<1>1. s \in Seq(S) /\ t \in Seq(S)
  BY DEF IsSeq
<1>2. s \o t \in Seq(S)
  BY <1>1
<1>3. IsSeq(s \o t)
  BY <1>2, SeqOfSeq
<1> QED BY <1>1, <1>3

------------------------------------------------------------------------------
(* Lines in order *)

\* Among lines of different rank or place one comes sooner.
LEMMA SoonerIsOrder ==
    ASSUME NEW S \in SUBSET Nat, NEW rank \in [S -> Int]
    PROVE  /\ \A i, j \in S : i # j => Sooner(rank, i, j) \/ Sooner(rank, j, i)
           /\ \A i, j \in S : ~(Sooner(rank, i, j) /\ Sooner(rank, j, i))
           /\ \A i \in S : ~Sooner(rank, i, i)
           /\ \A i, j, k \in S : Sooner(rank, i, j) /\ Sooner(rank, j, k) => Sooner(rank, i, k)
<1>1. \A i \in S : rank[i] \in Int /\ i \in Nat
  OBVIOUS
<1> QED BY <1>1 DEF Sooner

\* There is a line for every place, one.
LEMMA PlacesTaken ==
    ASSUME NEW S \in SUBSET Nat, IsFiniteSet(S), NEW rank \in [S -> Int]
    PROVE  /\ Cardinality(S) \in Nat
           /\ \A i \in S : Cardinality({ j \in S : Sooner(rank, j, i) }) \in 0..(Cardinality(S) - 1)
           /\ \A i, j \in S : Sooner(rank, i, j) =>
                Cardinality({ k \in S : Sooner(rank, k, i) }) < Cardinality({ k \in S : Sooner(rank, k, j) })
           /\ \A k \in 1..Cardinality(S) : \E i \in S : Cardinality({ j \in S : Sooner(rank, j, i) }) = k - 1
<1> DEFINE before(n) == { m \in S : Sooner(rank, m, n) }
           place     == [n \in S |-> Cardinality(before(n))]
           T         == 0..(Cardinality(S) - 1)
<1>1. Cardinality(S) \in Nat
  BY FS_CardinalityType
<1>2. ASSUME NEW n \in S
      PROVE  IsFiniteSet(before(n)) /\ Cardinality(before(n)) \in T
  <2>1. before(n) \in SUBSET S /\ n \notin before(n)
    BY SoonerIsOrder
  <2>2. /\ IsFiniteSet(before(n)) /\ Cardinality(before(n)) <= Cardinality(S)
        /\ Cardinality(before(n)) # Cardinality(S)
    BY <2>1, FS_Subset, <1>2
  <2>3. Cardinality(before(n)) \in Nat
    BY <2>2, FS_CardinalityType
  <2> QED BY <2>2, <2>3, <1>1
<1>3. ASSUME NEW m \in S, NEW n \in S, Sooner(rank, m, n)
      PROVE  Cardinality(before(m)) < Cardinality(before(n))
  <2>1. before(m) \in SUBSET before(n) /\ m \in before(n) /\ m \notin before(m)
    <3>1. \A q \in before(m) : q \in before(n)
      BY <1>3, SoonerIsOrder
    <3>2. m \in before(n) /\ m \notin before(m)
      BY <1>3, SoonerIsOrder
    <3> HIDE DEF before
    <3> QED BY <3>1, <3>2
  <2>2. before(m) # before(n)
    BY <2>1
  <2>3. Cardinality(before(m)) <= Cardinality(before(n)) /\ Cardinality(before(m)) # Cardinality(before(n))
    BY <2>1, <2>2, <1>2, FS_Subset
  <2> QED BY <2>3, <1>2, <1>1
<1>4. \A m, n \in S : place[m] = place[n] => m = n
  <2> SUFFICES ASSUME NEW m \in S, NEW n \in S, m # n PROVE place[m] # place[n]
    OBVIOUS
  <2>1. Sooner(rank, m, n) \/ Sooner(rank, n, m)
    BY SoonerIsOrder
  <2>2. place[m] < place[n] \/ place[n] < place[m]
    BY <2>1, <1>3
  <2>3. place[m] \in Int /\ place[n] \in Int
    BY <1>2
  <2> QED BY <2>2, <2>3
<1>5. place \in Injection(S, T)
  <2>1. place \in [S -> T]
    BY <1>2
  <2> HIDE DEF place, T
  <2> QED BY <2>1, <1>4 DEF Injection, IsInjective
<1>6. IsFiniteSet(T) /\ Cardinality(T) = Cardinality(S)
  <2> DEFINE c == Cardinality(S) - 1
  <2>1. c \in Int /\ c >= 0 - 1 /\ c - 0 + 1 = Cardinality(S) /\ 0 \in Int
    BY <1>1
  <2> HIDE DEF c
  <2>2. IsFiniteSet(0..c) /\ Cardinality(0..c) = c - 0 + 1
    BY <2>1, IntervalSize, Zenon
  <2> QED BY <2>1, <2>2, Zenon DEF c
<1>7. place \in Surjection(S, T)
  <2> HIDE DEF place, T
  <2> QED BY <1>5, <1>6, FS_Injection
<1>8. ASSUME NEW k \in 1..Cardinality(S)
      PROVE  \E n \in S : Cardinality(before(n)) = k - 1
  <2>1. k - 1 \in T
    BY <1>1
  <2>2. PICK n \in S : place[n] = k - 1
    BY <2>1, <1>7 DEF Surjection
  <2> QED BY <2>2
<1> QED BY <1>1, <1>2, <1>3, <1>8

\* What Arranged and Listed give.
LEMMA ArrangedFacts ==
    ASSUME NEW S \in SUBSET Nat, IsFiniteSet(S), NEW rank \in [S -> Int]
    PROVE  /\ Cardinality(S) \in Nat
           /\ Arranged(S, rank) \in [1..Cardinality(S) -> S]
           /\ \A j, k \in 1..Cardinality(S) : j < k => Sooner(rank, Arranged(S, rank)[j], Arranged(S, rank)[k])
           /\ \A i \in S : \E k \in 1..Cardinality(S) : Arranged(S, rank)[k] = i
<1> DEFINE place(i) == Cardinality({ j \in S : Sooner(rank, j, i) })
           A == Arranged(S, rank)
           n == Cardinality(S)
<1>1. /\ n \in Nat
      /\ \A i \in S : place(i) \in 0..(n - 1)
      /\ \A i, j \in S : Sooner(rank, i, j) => place(i) < place(j)
      /\ \A k \in 1..n : \E i \in S : place(i) = k - 1
  BY PlacesTaken
<1>2. \A i, j \in S : place(i) < place(j) => Sooner(rank, i, j)
  <2> HIDE DEF place, n
  <2> SUFFICES ASSUME NEW i \in S, NEW j \in S, place(i) < place(j) PROVE Sooner(rank, i, j)
    OBVIOUS
  <2>1. place(i) \in Int /\ place(j) \in Int
    BY <1>1
  <2>2. i # j /\ ~Sooner(rank, j, i)
    BY <2>1, <1>1
  <2> QED BY <2>2, SoonerIsOrder
<1> DEFINE Holder(k) == CHOOSE i \in S : place(i) = k - 1
<1>3. A = [k \in 1..n |-> Holder(k)]
  BY DEF Arranged
<1> HIDE DEF place, A, n, Holder
<1>4. ASSUME NEW k \in 1..n PROVE A[k] \in S /\ place(A[k]) = k - 1
  <2>1. \E i \in S : place(i) = k - 1
    BY <1>1
  <2>2. Holder(k) \in S /\ place(Holder(k)) = k - 1
    BY <2>1 DEF Holder
  <2> QED BY <2>2, <1>3
<1>5. A \in [1..n -> S]
  BY <1>3, <1>4
<1>6. ASSUME NEW j \in 1..n, NEW k \in 1..n, j < k PROVE Sooner(rank, A[j], A[k])
  <2>1. place(A[j]) = j - 1 /\ place(A[k]) = k - 1 /\ A[j] \in S /\ A[k] \in S
    BY <1>4
  <2>2. place(A[j]) < place(A[k])
    BY <2>1, <1>6, <1>1
  <2> QED BY <2>1, <2>2, <1>2
<1>7. \A i \in S : \E k \in 1..n : A[k] = i
  <2> SUFFICES ASSUME NEW i \in S PROVE \E k \in 1..n : A[k] = i
    OBVIOUS
  <2>1. place(i) + 1 \in 1..n
    BY <1>1
  <2>2. place(A[place(i) + 1]) = (place(i) + 1) - 1 /\ A[place(i) + 1] \in S
    BY <2>1, <1>4
  <2> DEFINE j == A[place(i) + 1]
  <2>3. place(j) = place(i) /\ j \in S /\ place(i) \in Int
    BY <2>2, <1>1
  <2> HIDE DEF j
  <2>4. ~Sooner(rank, i, j) /\ ~Sooner(rank, j, i)
    BY <2>3, <1>1
  <2>5. i = j
    BY <2>3, <2>4, SoonerIsOrder
  <2> QED BY <2>1, <2>5 DEF j
<1> QED BY <1>1, <1>5, <1>6, <1>7 DEF A, n

\* A listing that is in order is the one.
LEMMA ArrangedIs ==
    ASSUME NEW S \in SUBSET Nat, NEW rank \in [S -> Int], NEW n \in Nat, NEW f \in [1..n -> S],
           \A j, k \in 1..n : j < k => Sooner(rank, f[j], f[k]),
           \A i \in S : \E k \in 1..n : f[k] = i
    PROVE  Arranged(S, rank) = f
<1>1. \A j, k \in 1..n : j # k => f[j] # f[k]
  <2> SUFFICES ASSUME NEW j \in 1..n, NEW k \in 1..n, j < k PROVE f[j] # f[k]
    OBVIOUS
  <2> QED BY SoonerIsOrder
<1>2. IsFiniteSet(1..n) /\ Cardinality(1..n) = n
  <2>1. 1 \in Int /\ n \in Int /\ n >= 1 - 1 /\ n - 1 + 1 = n
    OBVIOUS
  <2> QED BY <2>1, IntervalSize, Zenon
<1>3. f \in Bijection(1..n, S)
  BY <1>1 DEF Bijection, Injection, Surjection, IsInjective
<1>4. IsFiniteSet(S) /\ Cardinality(S) = n
  <2>1. ExistsBijection(1..n, S)
    BY <1>3 DEF ExistsBijection
  <2> QED BY <1>2, <2>1, FS_Bijection
<1> DEFINE before(i) == { j \in S : Sooner(rank, j, i) }
<1>5. ASSUME NEW k \in 1..n PROVE Cardinality(before(f[k])) = k - 1
  <2> DEFINE g == [j \in 1..(k - 1) |-> f[j]]
  <2>1. \A j \in 1..n : Sooner(rank, f[j], f[k]) <=> j < k
    <3> SUFFICES ASSUME NEW j \in 1..n, Sooner(rank, f[j], f[k]) PROVE j < k
      OBVIOUS
    <3>1. ~(k < j) /\ j # k
      BY SoonerIsOrder
    <3> QED BY <3>1
  <2>2. g \in Bijection(1..(k - 1), before(f[k]))
    <3>1. \A j \in 1..(k - 1) : j \in 1..n /\ f[j] \in before(f[k])
      BY <2>1
    <3>2. \A i \in before(f[k]) : \E j \in 1..(k - 1) : g[j] = i
      <4> SUFFICES ASSUME NEW i \in before(f[k]) PROVE \E j \in 1..(k - 1) : g[j] = i
        OBVIOUS
      <4>1. PICK j \in 1..n : f[j] = i
        OBVIOUS
      <4> QED BY <4>1, <2>1
    <3> HIDE DEF before
    <3> QED BY <3>1, <3>2, <1>1 DEF Bijection, Injection, Surjection, IsInjective
  <2>3. IsFiniteSet(1..(k - 1)) /\ Cardinality(1..(k - 1)) = k - 1
    <3>1. 1 \in Int /\ k - 1 \in Int /\ k - 1 >= 1 - 1 /\ (k - 1) - 1 + 1 = k - 1
      OBVIOUS
    <3> QED BY <3>1, IntervalSize, Zenon
  <2>4. ExistsBijection(1..(k - 1), before(f[k]))
    BY <2>2 DEF ExistsBijection
  <2> QED BY <2>3, <2>4, FS_Bijection
<1> DEFINE Holder(k) == CHOOSE i \in S : Cardinality(before(i)) = k - 1
<1>6. Arranged(S, rank) = [k \in 1..n |-> Holder(k)]
  BY <1>4 DEF Arranged
<1>7. ASSUME NEW k \in 1..n PROVE Holder(k) = f[k]
  <2> HIDE DEF before
  <2>1. \A i \in S : Cardinality(before(i)) = k - 1 => i = f[k]
    <3> SUFFICES ASSUME NEW i \in S, Cardinality(before(i)) = k - 1 PROVE i = f[k]
      OBVIOUS
    <3>1. PICK j \in 1..n : f[j] = i
      OBVIOUS
    <3>2. j - 1 = k - 1
      BY <1>5, <3>1
    <3> QED BY <3>1, <3>2
  <2>2. f[k] \in S /\ Cardinality(before(f[k])) = k - 1
    BY <1>5
  <2> QED BY <2>1, <2>2
<1> HIDE DEF Holder
<1> QED BY <1>6, <1>7

\* What Listed gives: the numbers, ascending.
LEMMA ListedFacts ==
    ASSUME NEW S \in SUBSET Nat, IsFiniteSet(S)
    PROVE  /\ Cardinality(S) \in Nat
           /\ Listed(S) \in [1..Cardinality(S) -> S]
           /\ \A j, k \in 1..Cardinality(S) : j < k => Listed(S)[j] < Listed(S)[k]
           /\ \A i \in S : \E k \in 1..Cardinality(S) : Listed(S)[k] = i
<1> DEFINE own == [i \in S |-> i]
<1>1. own \in [S -> Int]
  OBVIOUS
<1>2. \A i, j \in S : Sooner(own, i, j) <=> i < j
  <2>1. \A i \in S : i \in Int
    OBVIOUS
  <2> QED BY <2>1 DEF Sooner
<1>3. Listed(S) = Arranged(S, own)
  BY DEF Listed
<1> HIDE DEF own
<1>4. /\ Cardinality(S) \in Nat
      /\ Arranged(S, own) \in [1..Cardinality(S) -> S]
      /\ \A j, k \in 1..Cardinality(S) : j < k => Sooner(own, Arranged(S, own)[j], Arranged(S, own)[k])
      /\ \A i \in S : \E k \in 1..Cardinality(S) : Arranged(S, own)[k] = i
  BY <1>1, ArrangedFacts
<1> QED BY <1>2, <1>3, <1>4

\* Lines of a sequence have a last one.
LEMMA HasLast ==
    ASSUME NEW n \in Nat, NEW S \in SUBSET (1..n), S # {}
    PROVE  \E i \in S : \A j \in S : j <= i
<1>1. S \in SUBSET Nat /\ IsFiniteSet(S)
  <2>1. IsFiniteSet(1..n)
    <3>1. 1 \in Int /\ n \in Int /\ n >= 1 - 1
      OBVIOUS
    <3> QED BY <3>1, IntervalSize, Zenon
  <2>2. IsFiniteSet(S)
    BY <2>1, FS_Subset
  <2> QED BY <2>2
<1> DEFINE c == Cardinality(S)
           L == Listed(S)
<1>2. /\ c \in Nat /\ L \in [1..c -> S]
      /\ \A j, k \in 1..c : j < k => L[j] < L[k]
      /\ \A i \in S : \E k \in 1..c : L[k] = i
  BY <1>1, ListedFacts
<1> HIDE DEF c, L
<1>3. PICK i \in S : TRUE
  OBVIOUS
<1>4. c \in 1..c
  <2>1. PICK k \in 1..c : L[k] = i
    BY <1>2
  <2> QED BY <2>1, <1>2
<1>5. ASSUME NEW j \in S PROVE j <= L[c]
  <2>1. PICK k \in 1..c : L[k] = j
    BY <1>2
  <2>2. k = c \/ k < c
    BY <1>2
  <2>3. L[k] \in Nat /\ L[c] \in Nat
    BY <1>1, <1>2, <1>4
  <2> QED BY <2>1, <2>2, <2>3, <1>2, <1>4
<1> QED BY <1>2, <1>4, <1>5

\* Picking lines of a sequence.
LEMMA PickedFacts ==
    ASSUME NEW s, IsSeq(s), NEW S \in SUBSET DOMAIN s
    PROVE  LET n == Len(Picked(s, Listed(S)))
               at == Listed(S)
           IN  /\ IsSeq(Picked(s, at)) /\ n \in Nat
               /\ at \in [1..n -> S]
               /\ \A j, k \in 1..n : j < k => at[j] < at[k]
               /\ \A i \in S : \E k \in 1..n : at[k] = i
               /\ \A k \in 1..n : Picked(s, at)[k] = s[at[k]]
<1>1. Len(s) \in Nat /\ DOMAIN s = 1..Len(s)
  BY SeqFacts
<1>2. S \in SUBSET Nat /\ IsFiniteSet(S)
  <2>1. IsFiniteSet(1..Len(s))
    <3>1. 1 \in Int /\ Len(s) \in Int /\ Len(s) >= 1 - 1
      BY <1>1
    <3> QED BY <3>1, IntervalSize, Zenon
  <2>2. S \in SUBSET (1..Len(s))
    BY <1>1
  <2> QED BY <2>1, <2>2, FS_Subset
<1> DEFINE c == Cardinality(S)
           at == Listed(S)
<1>3. /\ c \in Nat /\ at \in [1..c -> S]
      /\ \A j, k \in 1..c : j < k => at[j] < at[k]
      /\ \A i \in S : \E k \in 1..c : at[k] = i
  BY <1>2, ListedFacts
<1> HIDE DEF c
<1>4. Picked(s, at) = [k \in 1..c |-> s[at[k]]]
  BY <1>3 DEF Picked
<1> HIDE DEF at
<1>5. IsSeq(Picked(s, at)) /\ Len(Picked(s, at)) = c
  <2>1. \A k \in 1..c : s[at[k]] \in Range(s)
    BY <1>3 DEF Range
  <2>2. Picked(s, at) \in Seq(Range(s)) /\ Len(Picked(s, at)) = c
    BY <1>3, <1>4, <2>1
  <2> QED BY <2>2, SeqOfSeq
<1> QED BY <1>3, <1>4, <1>5 DEF at

------------------------------------------------------------------------------
(* The inductive invariant *)

\* The numbers of a run whose sink has taken every event, and its ticks in the order of theirs.
Numbered(r) ==
  /\ IsSeq(r.events) /\ IsSeq(r.snapshots) /\ IsSeq(r.decisions)
  /\ r.sequence_no = Len(r.events)
  /\ \A i \in DOMAIN r.events : r.events[i].sequence_no = i - 1
  /\ \A k \in DOMAIN r.snapshots : r.snapshots[k].tick_seq \in Int
  /\ \A j, k \in DOMAIN r.snapshots : j < k => r.snapshots[j].tick_seq < r.snapshots[k].tick_seq

\* f gives the line of each snapshot's tick; the lines of its agents follow it.
Laid(f, r) ==
  /\ f \in [DOMAIN r.snapshots -> DOMAIN r.events]
  /\ \A j, k \in DOMAIN f : j < k => f[j] + Len(Agents) < f[k]
  /\ \A i \in DOMAIN r.events :
       (r.events[i].event_type = "tick") <=> (\E k \in DOMAIN f : f[k] = i)
  /\ \A k \in DOMAIN f : r.events[f[k]].snapshot = r.snapshots[k]
  /\ \A i \in DOMAIN r.events : r.events[i].event_type = "decision" =>
       \E k \in DOMAIN f, a \in DOMAIN Agents : i = f[k] + a /\ r.events[i].result = Agents[a]
  /\ \A i \in DOMAIN r.events : r.events[i].event_type # "window_config"

\* A decision has its line.
Lined(f, r) ==
  \A n \in DOMAIN r.decisions : \E k \in DOMAIN f, a \in DOMAIN Agents :
    /\ f[k] + a \in DOMAIN r.events
    /\ r.events[f[k] + a].event_type = "decision"
    /\ r.events[f[k] + a].result = Agents[a]
    /\ r.events[f[k] + a].action = r.decisions[n].action
    /\ r.decisions[n].agent = Agents[a]
    /\ r.decisions[n].state = r.snapshots[k]

\* Every tick has all its lines.
Complete(f, r) == \A k \in DOMAIN f : f[k] + Len(Agents) <= Len(r.events)

\* A run that the sink failed: the number of its last event is given out again.
Spoilt(r) ==
  /\ IsSeq(r.events) /\ r.events # <<>> /\ r.snapshots # <<>>
  /\ r.events[Len(r.events)].sequence_no = r.sequence_no

\* While the stream is read: the run is laid out, and the locals of the loop bound what it has.
Feeding ==
  /\ Numbered(run)
  /\ \E f : Laid(f, run) /\ Lined(f, run) /\ Complete(f, run)
  /\ loop.end_rule = window.end_rule
  /\ \A k \in DOMAIN run.snapshots : run.snapshots[k].tick_seq <= loop.last_tick_seq
  /\ \A n \in DOMAIN run.decisions : DOMAIN run.decisions[n].state.markets \subseteq loop.seen_markets
  /\ ~loop.fed_any => run.decisions = <<>>

\* The last thing the provider said of a market before it went in running.
LastSaid(records, market, i) ==
  LET said == { j \in DOMAIN records : /\ records[j].fixture = OwnFixture
                                       /\ records[j].market = market
                                       /\ ~records[j].in_running }
  IN  i \in said /\ \A j \in said : j <= i

\* The last snapshot is the close, of every market that was decided on, as it was told.
Closed ==
  LET n == Len(run.snapshots)
      close == run.snapshots[n].markets
  IN  /\ n # 0
      /\ \A d \in DOMAIN run.decisions : DOMAIN run.decisions[d].state.markets \subseteq DOMAIN close
      /\ \A m \in DOMAIN close : \E i \in DOMAIN told :
           LastSaid(told, m, i) /\ close[m] = MarketOf(told[i])

\* What finalize may seal: a run laid out, closed if its CLV is to be ranked.
Sealable ==
  /\ Numbered(run)
  /\ \E f : Laid(f, run) /\ Lined(f, run)
  /\ TrueClv(loop.end_rule) => window.end_rule = "pre_match" /\ (run.decisions = <<>> \/ Closed)

\* The shapes of the run and of the loop's locals.
IsRun(r) ==
  r = [events |-> r.events, decisions |-> r.decisions, snapshots |-> r.snapshots, sequence_no |-> r.sequence_no]

IsLoop(l) ==
  /\ l = [started_ts |-> l.started_ts, last_tick_seq |-> l.last_tick_seq, fed_any |-> l.fed_any,
          seen_markets |-> l.seen_markets, interrupted |-> l.interrupted, end_rule |-> l.end_rule]
  /\ l.fed_any \in BOOLEAN /\ l.interrupted \in BOOLEAN
  /\ l.last_tick_seq \in Int /\ l.end_rule \in EndRules

\* The window, the locals and the stream's numbers, in every phase.
EnvInv ==
  /\ {"end_rule", "min_clv_horizon_s"} \subseteq DOMAIN window /\ window.end_rule \in EndRules
  /\ IsLoop(loop) /\ IsRun(run) /\ IsSeq(history) /\ IsSeq(told)
  /\ DOMAIN seqs = { r.fixture : r \in Records }
  /\ \A f \in DOMAIN seqs : seqs[f] \in Nat
  /\ OwnFixture \in DOMAIN seqs => loop.last_tick_seq < seqs[OwnFixture]

\* What is known in which phase.
PhaseInv ==
  /\ pc = "streaming" => Feeding /\ ~loop.interrupted
  /\ pc = "closing" => Feeding \/ (Spoilt(run) /\ loop.interrupted)
  /\ pc = "finalize" => Sealable \/ Spoilt(run)
  /\ pc \in {"streaming", "closing", "finalize"} => result = None
  /\ result # None => Sealable /\ result = FinalizeRun(run, "live", loop.end_rule, window.min_clv_horizon_s)
  /\ card # None => pc = "done"

\* The inductive invariant.
LiveInv == EnvInv /\ PhaseInv

------------------------------------------------------------------------------
(* The close *)

\* The messages of a fetched history that are not in running are the last of the own fixture's.
LEMMA MessagesOfClose ==
    ASSUME IsSeq(history), NEW updates \in FetchResults(OwnFixture), updates # None
    PROVE  LET messages == PreMatch(updates)
           IN  /\ IsSeq(messages)
               /\ \E at \in [DOMAIN messages -> DOMAIN history] :
                    /\ \A x, y \in DOMAIN messages : x < y => at[x] < at[y]
                    /\ \A x \in DOMAIN messages :
                         /\ messages[x] = history[at[x]]
                         /\ history[at[x]].fixture = OwnFixture /\ ~history[at[x]].in_running
                         /\ \A i \in DOMAIN history :
                              /\ history[i].fixture = OwnFixture /\ ~history[i].in_running /\ i >= at[x]
                              => \E y \in DOMAIN messages : at[y] = i
<1> DEFINE own == { i \in DOMAIN history : history[i].fixture = OwnFixture }
<1>1. PICK k \in own : updates = Picked(history, Listed({ i \in own : i >= k }))
  BY DEF FetchResults
<1> DEFINE recent == { i \in own : i >= k }
           L1 == Listed(recent)
           n1 == Len(updates)
<1>2. /\ IsSeq(updates) /\ n1 \in Nat
      /\ L1 \in [1..n1 -> recent]
      /\ \A x, y \in 1..n1 : x < y => L1[x] < L1[y]
      /\ \A i \in recent : \E x \in 1..n1 : L1[x] = i
      /\ \A x \in 1..n1 : updates[x] = history[L1[x]]
  <2>1. recent \in SUBSET DOMAIN history /\ updates = Picked(history, L1)
    BY <1>1
  <2> HIDE DEF recent
  <2> QED BY <2>1, PickedFacts
<1>3. DOMAIN updates = 1..n1
  BY <1>2, SeqFacts
<1> DEFINE open == { x \in DOMAIN updates : ~updates[x].in_running }
           L2 == Listed(open)
           messages == PreMatch(updates)
           n2 == Len(messages)
<1>4. /\ IsSeq(messages) /\ n2 \in Nat
      /\ L2 \in [1..n2 -> open]
      /\ \A x, y \in 1..n2 : x < y => L2[x] < L2[y]
      /\ \A i \in open : \E x \in 1..n2 : L2[x] = i
      /\ \A x \in 1..n2 : messages[x] = updates[L2[x]]
  <2>1. open \in SUBSET DOMAIN updates
    OBVIOUS
  <2>2. messages = Picked(updates, L2)
    BY DEF PreMatch
  <2> HIDE DEF open, messages
  <2> QED BY <1>2, <2>1, <2>2, PickedFacts
<1>5. DOMAIN messages = 1..n2
  BY <1>4, SeqFacts
<1> HIDE DEF L1, L2, n1, n2, messages
<1> DEFINE at == [x \in 1..n2 |-> L1[L2[x]]]
<1>6. DOMAIN history = 1..Len(history) /\ Len(history) \in Nat
  BY SeqFacts
<1>7. \A x \in 1..n2 : L2[x] \in 1..n1 /\ at[x] \in recent
  BY <1>2, <1>3, <1>4
<1>8. at \in [DOMAIN messages -> DOMAIN history]
  BY <1>5, <1>7
<1>9. \A x, y \in 1..n2 : x < y => at[x] < at[y]
  BY <1>2, <1>4, <1>7
<1>10. ASSUME NEW x \in 1..n2
       PROVE  /\ messages[x] = history[at[x]]
              /\ history[at[x]].fixture = OwnFixture /\ ~history[at[x]].in_running
              /\ \A i \in DOMAIN history :
                   /\ history[i].fixture = OwnFixture /\ ~history[i].in_running /\ i >= at[x]
                   => \E y \in 1..n2 : at[y] = i
  <2>1. messages[x] = history[at[x]]
    BY <1>2, <1>4, <1>7
  <2>2. L2[x] \in open
    BY <1>4
  <2>3. history[at[x]].fixture = OwnFixture /\ ~history[at[x]].in_running
    BY <2>2, <1>2, <1>3, <1>7
  <2>4. ASSUME NEW i \in DOMAIN history, history[i].fixture = OwnFixture, ~history[i].in_running, i >= at[x]
        PROVE  \E y \in 1..n2 : at[y] = i
    <3>1. i >= k
      <4>1. at[x] \in Nat /\ i \in Nat /\ k \in Nat
        BY <1>6, <1>7
      <4>2. at[x] >= k
        BY <1>7
      <4> QED BY <4>1, <4>2, <2>4
    <3>2. i \in recent
      BY <3>1, <2>4
    <3>3. PICK z \in 1..n1 : L1[z] = i
      BY <3>2, <1>2
    <3>4. z \in open
      BY <3>3, <2>4, <1>2, <1>3
    <3>5. PICK y \in 1..n2 : L2[y] = z
      BY <3>4, <1>4
    <3> QED BY <3>3, <3>5
  <2> QED BY <2>1, <2>3, <2>4
<1> HIDE DEF at
<1>11. \A x \in DOMAIN messages :
         /\ messages[x] = history[at[x]]
         /\ history[at[x]].fixture = OwnFixture /\ ~history[at[x]].in_running
         /\ \A i \in DOMAIN history :
              /\ history[i].fixture = OwnFixture /\ ~history[i].in_running /\ i >= at[x]
              => \E y \in DOMAIN messages : at[y] = i
  BY <1>5, <1>10
<1>12. \A x, y \in DOMAIN messages : x < y => at[x] < at[y]
  BY <1>5, <1>9
<1> QED BY <1>4, <1>8, <1>11, <1>12, Zenon DEF messages

\* Each market of a reconstructed close carries what the provider last said of it.
LEMMA CloseIsLast ==
    ASSUME IsSeq(history), NEW updates \in FetchResults(OwnFixture), updates # None, NEW q,
           NEW closing, closing = _reconstruct_closing_state(updates, Allowlist, q), closing # None
    PROVE  /\ closing.tick_seq = q
           /\ \A m \in DOMAIN closing.markets : \E i \in DOMAIN history :
                LastSaid(history, m, i) /\ closing.markets[m] = MarketOf(history[i])
<1> DEFINE messages == PreMatch(updates)
<1>1. PICK at \in [DOMAIN messages -> DOMAIN history] :
        /\ \A x, y \in DOMAIN messages : x < y => at[x] < at[y]
        /\ \A x \in DOMAIN messages :
             /\ messages[x] = history[at[x]]
             /\ history[at[x]].fixture = OwnFixture /\ ~history[at[x]].in_running
             /\ \A i \in DOMAIN history :
                  /\ history[i].fixture = OwnFixture /\ ~history[i].in_running /\ i >= at[x]
                  => \E y \in DOMAIN messages : at[y] = i
  BY MessagesOfClose
<1>2. IsSeq(messages) /\ Len(messages) \in Nat /\ DOMAIN messages = 1..Len(messages)
  BY MessagesOfClose, SeqFacts
<1> DEFINE state == marketstate_from_txline_odds(messages, q)
           Newest(m, i) == messages[i].market = m /\ \A j \in DOMAIN messages : messages[j].market = m => j <= i
           NewestOf(m) == CHOOSE i \in DOMAIN messages : Newest(m, i)
<1>3. closing = _filter_markets(state, Allowlist)
  BY DEF _reconstruct_closing_state
<1>4. /\ state.tick_seq = q
      /\ state.markets = [m \in { messages[i].market : i \in DOMAIN messages } |-> MarketOf(messages[NewestOf(m)])]
  BY DEF marketstate_from_txline_odds
<1>5. /\ closing.tick_seq = q
      /\ closing.markets = [m \in DOMAIN state.markets \cap Allowlist |-> state.markets[m]]
  <2>1. state = [fixture_id |-> state.fixture_id, tick_seq |-> state.tick_seq, ts |-> state.ts,
                 phase |-> state.phase, markets |-> state.markets]
    BY DEF marketstate_from_txline_odds
  <2> HIDE DEF state
  <2> QED BY <1>3, <1>4, <2>1 DEF _filter_markets
<1> HIDE DEF state, messages
<1>6. ASSUME NEW m \in DOMAIN closing.markets
      PROVE  \E i \in DOMAIN history : LastSaid(history, m, i) /\ closing.markets[m] = MarketOf(history[i])
  <2>1. PICK x \in DOMAIN messages : messages[x].market = m
    BY <1>4, <1>5
  <2> DEFINE mine == { i \in DOMAIN messages : messages[i].market = m }
  <2>2. \E i \in mine : \A j \in mine : j <= i
    <3>1. mine \in SUBSET (1..Len(messages)) /\ mine # {}
      BY <2>1, <1>2
    <3> HIDE DEF mine
    <3> QED BY <3>1, <1>2, HasLast
  <2>3. NewestOf(m) \in DOMAIN messages /\ Newest(m, NewestOf(m))
    BY <2>2
  <2> DEFINE y == NewestOf(m)
  <2>4. y \in DOMAIN messages /\ messages[y].market = m
        /\ \A j \in DOMAIN messages : messages[j].market = m => j <= y
    BY <2>3
  <2>5. closing.markets[m] = MarketOf(messages[y])
    BY <1>4, <1>5
  <2> HIDE DEF y
  <2>6. at[y] \in DOMAIN history /\ messages[y] = history[at[y]]
        /\ history[at[y]].fixture = OwnFixture /\ ~history[at[y]].in_running
    BY <1>1, <2>4
  <2>7. ASSUME NEW j \in DOMAIN history, history[j].fixture = OwnFixture, history[j].market = m,
               ~history[j].in_running
        PROVE  j <= at[y]
    <3>1. j \in Nat /\ at[y] \in Nat
      BY <2>6, SeqFacts
    <3>2. SUFFICES ASSUME j >= at[y] PROVE j <= at[y]
      BY <3>1
    <3>3. PICK z \in DOMAIN messages : at[z] = j
      BY <3>2, <2>7, <1>1, <2>4
    <3>4. z <= y
      BY <3>3, <2>7, <1>1, <2>4
    <3>5. z = y \/ z < y
      BY <3>4, <2>4, <1>2
    <3> QED BY <3>1, <3>3, <3>5, <1>1, <2>4
  <2>8. LastSaid(history, m, at[y])
    BY <2>4, <2>6, <2>7 DEF LastSaid
  <2> QED BY <2>5, <2>6, <2>8
<1> QED BY <1>5, <1>6

------------------------------------------------------------------------------
(* Feeding the run *)

\* What a prefix is.
LEMMA PrefixFacts ==
    ASSUME NEW s, IsSeq(s), NEW n \in 0..Len(s)
    PROVE  /\ IsSeq(SubSeq(s, 1, n)) /\ Len(SubSeq(s, 1, n)) = n
           /\ \A i \in 1..n : SubSeq(s, 1, n)[i] = s[i]
<1>1. s \in Seq(Range(s)) /\ Len(s) \in Nat
  BY DEF IsSeq
<1>2. SubSeq(s, 1, n) \in Seq(Range(s)) /\ Len(SubSeq(s, 1, n)) = n
      /\ \A i \in 1..n : SubSeq(s, 1, n)[i] = s[i]
  BY <1>1
<1> QED BY <1>2, SeqOfSeq

\* The events that the sink has seen of a tick, and those it has returned from.
Sent(cut) == IF cut = None THEN 1 + Len(Agents) ELSE cut
Counted(cut) == IF cut = None THEN 1 + Len(Agents) ELSE cut - 1

\* The lines of a tick of which the sink has taken the first ones, or all.
Fed(r, new, snapshot, answers, cut) ==
  /\ IsSeq(new.events) /\ Len(new.events) = Len(r.events) + Sent(cut)
  /\ \A i \in 1..Len(r.events) : new.events[i] = r.events[i]
  /\ \A i \in 1..Sent(cut) :
       new.events[Len(r.events) + i] =
         IF i = 1 THEN Event(r.sequence_no, "tick", snapshot, None, None)
         ELSE DecisionEvent(r.sequence_no + i - 1, Agents[i - 1], answers[i - 1])
  /\ new.snapshots = Append(r.snapshots, snapshot)
  /\ new.sequence_no = r.sequence_no + Counted(cut)
  /\ IsSeq(new.decisions) /\ Len(new.decisions) >= Len(r.decisions)
  /\ \A n \in 1..Len(r.decisions) : new.decisions[n] = r.decisions[n]
  /\ \A n \in (Len(r.decisions) + 1)..Len(new.decisions) : \E a \in 1..(Counted(cut) - 1) :
       /\ answers[a] # None
       /\ new.decisions[n] = [agent |-> Agents[a], action |-> answers[a], state |-> snapshot]

\* FeedRun adds the lines the sink has seen and the decisions it has returned from.
LEMMA FeedFacts ==
    ASSUME NEW r, IsSeq(r.events), IsSeq(r.snapshots), IsSeq(r.decisions), r.sequence_no \in Nat,
           NEW snapshot, NEW answers, NEW cut, cut = None \/ cut \in 1..(1 + Len(Agents)),
           NEW new, new = FeedRun(r, snapshot, answers, cut)
    PROVE  Fed(r, new, snapshot, answers, cut)
<1> DEFINE L == Len(r.events)
           D == Len(r.decisions)
           sent == Sent(cut)
           counted == Counted(cut)
           m == 1 + Len(Agents)
           Line(i) == IF i = 1 THEN Event(r.sequence_no, "tick", snapshot, None, None)
                      ELSE DecisionEvent(r.sequence_no + i - 1, Agents[i - 1], answers[i - 1])
           batch == [i \in 1..m |-> Line(i)]
           T == { i \in 1..(counted - 1) : answers[i] # None }
           answered == Listed(T)
           made == [i \in DOMAIN answered |-> [agent |-> Agents[answered[i]], action |-> answers[answered[i]],
                                                state |-> snapshot]]
           tail == SubSeq(batch, 1, sent)
<1>1. Len(Agents) \in Nat /\ m \in Nat /\ sent \in 0..m /\ counted \in Nat /\ L \in Nat /\ D \in Nat
  BY AgentsAssumption, AbsentAssumption, SeqFacts DEF Sent, Counted
<1>0. sent = (IF cut = None THEN m ELSE cut) /\ counted = (IF cut = None THEN m ELSE cut - 1)
  BY DEF Sent, Counted
<1>2. new = [events |-> r.events \o tail, decisions |-> r.decisions \o made,
             snapshots |-> Append(r.snapshots, snapshot), sequence_no |-> r.sequence_no + counted]
  BY <1>0 DEF FeedRun
<1> HIDE DEF made
<1>3. IsSeq(batch) /\ Len(batch) = m /\ \A i \in 1..m : batch[i] = Line(i)
  <2> HIDE DEF Line, m
  <2> DEFINE lines == { Line(i) : i \in 1..m }
  <2>3. \A i \in 1..m : Line(i) \in lines
    OBVIOUS
  <2> HIDE DEF lines
  <2>1. batch \in Seq(lines) /\ Len(batch) = m
    BY <1>1, <2>3
  <2>2. IsSeq(batch)
    BY <2>1, SeqOfSeq
  <2> QED BY <2>1, <2>2
<1> HIDE DEF batch, Line, m, sent, counted, L, D
<1>4. IsSeq(tail) /\ Len(tail) = sent /\ \A i \in 1..sent : tail[i] = Line(i)
  <2>1. sent \in 0..Len(batch)
    BY <1>1, <1>3
  <2>2. IsSeq(SubSeq(batch, 1, sent)) /\ Len(SubSeq(batch, 1, sent)) = sent
        /\ \A i \in 1..sent : SubSeq(batch, 1, sent)[i] = batch[i]
    BY <2>1, <1>3, PrefixFacts
  <2> QED BY <2>2, <1>1, <1>3
<1>5. IsSeq(new.events) /\ Len(new.events) = L + sent
      /\ (\A i \in 1..L : new.events[i] = r.events[i])
      /\ \A i \in 1..sent : new.events[L + i] = Line(i)
  <2> HIDE DEF tail
  <2>1. new.events = r.events \o tail
    BY <1>2
  <2>2. IsSeq(r.events)
    OBVIOUS
  <2> DEFINE old == r.events
  <2> HIDE DEF old
  <2>3. /\ IsSeq(old \o tail) /\ Len(old \o tail) = Len(old) + Len(tail)
        /\ \A i \in 1..Len(old) : (old \o tail)[i] = old[i]
        /\ \A i \in 1..Len(tail) : (old \o tail)[Len(old) + i] = tail[i]
    <3>1. IsSeq(old)
      BY <2>2 DEF old
    <3>2. IsSeq(tail)
      BY <1>4
    <3> QED BY <3>1, <3>2, ConcatFacts
  <2> QED BY <2>1, <2>3, <1>4 DEF old, L
<1>6. /\ T \in SUBSET Nat /\ IsFiniteSet(T)
  <2>1. IsFiniteSet(1..(counted - 1))
    <3>1. counted = 0 \/ (1 \in Int /\ counted - 1 \in Int /\ counted - 1 >= 1 - 1)
      BY <1>1
    <3>2. CASE counted = 0
      <4>1. 1..(counted - 1) = {}
        BY <3>2
      <4> QED BY <4>1, FS_EmptySet
    <3> QED BY <3>1, <3>2, IntervalSize
  <2>2. T \in SUBSET (1..(counted - 1))
    OBVIOUS
  <2>3. IsFiniteSet(T)
    BY <2>1, <2>2, FS_Subset
  <2> QED BY <2>3
<1>7. Cardinality(T) \in Nat /\ answered \in [1..Cardinality(T) -> T]
  BY <1>6, ListedFacts
<1> HIDE DEF answered
<1>8. IsSeq(made) /\ Len(made) = Cardinality(T)
      /\ \A n \in 1..Cardinality(T) : \E a \in T :
           made[n] = [agent |-> Agents[a], action |-> answers[a], state |-> snapshot]
  <2> DEFINE Made(a) == [agent |-> Agents[a], action |-> answers[a], state |-> snapshot]
             c == Cardinality(T)
  <2>1. made = [i \in 1..c |-> Made(answered[i])] /\ c \in Nat /\ answered \in [1..c -> T]
    BY <1>7 DEF made
  <2> HIDE DEF Made, T, c
  <2>2. made \in Seq({ Made(a) : a \in T }) /\ Len(made) = c
    BY <2>1
  <2>3. \A n \in 1..c : \E a \in T : made[n] = Made(a)
    BY <2>1
  <2>4. IsSeq(made)
    BY <2>2, SeqOfSeq
  <2> QED BY <2>2, <2>3, <2>4 DEF Made, c
<1> DEFINE c == Len(made)
<1>9. c \in Nat
      /\ \A n \in 1..c : \E a \in T : made[n] = [agent |-> Agents[a], action |-> answers[a], state |-> snapshot]
  BY <1>7, <1>8
<1>10. /\ IsSeq(new.decisions) /\ Len(new.decisions) = D + c
       /\ \A n \in 1..D : new.decisions[n] = r.decisions[n]
       /\ \A n \in 1..c : new.decisions[D + n] = made[n]
  <2> HIDE DEF tail
  <2>1. new.decisions = r.decisions \o made
    BY <1>2
  <2>2. IsSeq(r.decisions)
    OBVIOUS
  <2> DEFINE old == r.decisions
  <2> HIDE DEF old
  <2>3. /\ IsSeq(old \o made) /\ Len(old \o made) = Len(old) + Len(made)
        /\ \A i \in 1..Len(old) : (old \o made)[i] = old[i]
        /\ \A i \in 1..Len(made) : (old \o made)[Len(old) + i] = made[i]
    <3>1. IsSeq(old)
      BY <2>2 DEF old
    <3>2. IsSeq(made)
      BY <1>8
    <3> QED BY <3>1, <3>2, ConcatFacts
  <2> QED BY <2>1, <2>3 DEF old, D
<1>11. ASSUME NEW n \in (D + 1)..Len(new.decisions)
       PROVE  \E a \in 1..(counted - 1) :
                    /\ answers[a] # None
                    /\ new.decisions[n] = [agent |-> Agents[a], action |-> answers[a], state |-> snapshot]
  <2>1. n - D \in 1..c /\ D + (n - D) = n
    <3>1. n \in (D + 1)..(D + c)
      BY <1>10
    <3> HIDE DEF c
    <3> QED BY <3>1, <1>1, <1>9
  <2>2. new.decisions[n] = made[n - D]
    BY <2>1, <1>10
  <2>3. PICK a \in T : made[n - D] = [agent |-> Agents[a], action |-> answers[a], state |-> snapshot]
    BY <2>1, <1>9
  <2> QED BY <2>2, <2>3
<1>12. Len(new.decisions) >= D
  BY <1>1, <1>9, <1>10
<1>13. new.snapshots = Append(r.snapshots, snapshot) /\ new.sequence_no = r.sequence_no + counted
  BY <1>2
<1> QED BY <1>5, <1>10, <1>11, <1>12, <1>13 DEF Fed, Line, L, D, sent, counted

\* A tick goes to the end of the log, m of its agents' lines after it.
Ticked(r, new, snapshot, answers, m) ==
  LET L == Len(r.events)
  IN  /\ IsSeq(new.events) /\ Len(new.events) = L + 1 + m
      /\ \A i \in 1..L : new.events[i] = r.events[i]
      /\ new.events[L + 1] = Event(L, "tick", snapshot, None, None)
      /\ \A a \in 1..m : new.events[L + 1 + a] = DecisionEvent(L + a, Agents[a], answers[a])
      /\ new.snapshots = Append(r.snapshots, snapshot)
      /\ new.sequence_no = L + 1 + m
      /\ IsSeq(new.decisions)

\* The lines of the ticks when one more is fed.
ExtendedBy(f, r) ==
  [k \in 1..(Len(r.snapshots) + 1) |-> IF k <= Len(r.snapshots) THEN f[k] ELSE Len(r.events) + 1]

\* What is read of a tick and of an agent's line.
LEMMA TickEvent ==
    ASSUME NEW n, NEW snapshot
    PROVE  /\ Event(n, "tick", snapshot, None, None).sequence_no = n
           /\ Event(n, "tick", snapshot, None, None).event_type = "tick"
           /\ Event(n, "tick", snapshot, None, None).snapshot = snapshot
  BY DEF Event

\* An agent's line.
LEMMA AgentEvent ==
    ASSUME NEW n, NEW agent, NEW answer
    PROVE  /\ DecisionEvent(n, agent, answer).sequence_no = n
           /\ DecisionEvent(n, agent, answer).event_type \in {"decision", "error"}
           /\ DecisionEvent(n, agent, answer).result = agent
           /\ answer # None => /\ DecisionEvent(n, agent, answer).event_type = "decision"
                               /\ DecisionEvent(n, agent, answer).action = answer
  BY DEF Event, DecisionEvent

\* A line after the tick's is an agent's.
LEMMA AgentLine ==
    ASSUME NEW L \in Nat, NEW m \in Nat, NEW i \in (L + 2)..(L + 1 + m)
    PROVE  \E a \in 1..m : i = L + 1 + a
<1> DEFINE a == i - L - 1
<1>1. a \in 1..m /\ i = L + 1 + a
  OBVIOUS
<1> HIDE DEF a
<1> QED BY <1>1

\* A tick that is added goes on with the numbers and with the order of the ticks.
LEMMA TickedNumbers ==
    ASSUME NEW r, Numbered(r), NEW new, NEW snapshot, NEW answers, NEW m \in 0..Len(Agents),
           Ticked(r, new, snapshot, answers, m), snapshot.tick_seq \in Int,
           \A k \in DOMAIN r.snapshots : r.snapshots[k].tick_seq < snapshot.tick_seq
    PROVE  /\ Numbered(new)
           /\ Len(new.snapshots) = Len(r.snapshots) + 1
           /\ \A k \in DOMAIN r.snapshots : k \in DOMAIN new.snapshots /\ new.snapshots[k] = r.snapshots[k]
           /\ new.snapshots[Len(r.snapshots) + 1] = snapshot
<1> DEFINE L == Len(r.events)
           S == Len(r.snapshots)
<1>1. /\ L \in Nat /\ S \in Nat /\ DOMAIN r.events = 1..L /\ DOMAIN r.snapshots = 1..S
      /\ DOMAIN new.events = 1..Len(new.events) /\ m \in Nat /\ Len(new.events) = L + 1 + m
  BY SeqFacts, AgentsAssumption DEF Numbered, Ticked
<1>2. /\ IsSeq(new.snapshots) /\ Len(new.snapshots) = S + 1 /\ DOMAIN new.snapshots = 1..(S + 1)
      /\ \A k \in 1..S : new.snapshots[k] = r.snapshots[k]
      /\ new.snapshots[S + 1] = snapshot
  <2>1. IsSeq(r.snapshots) /\ new.snapshots = Append(r.snapshots, snapshot)
    BY DEF Numbered, Ticked
  <2> DEFINE old == r.snapshots
  <2> HIDE DEF old
  <2>2. /\ IsSeq(Append(old, snapshot)) /\ Len(Append(old, snapshot)) = Len(old) + 1
        /\ \A i \in 1..Len(old) : Append(old, snapshot)[i] = old[i]
        /\ Append(old, snapshot)[Len(old) + 1] = snapshot
    <3>1. IsSeq(old)
      BY <2>1 DEF old
    <3> QED BY <3>1, AppendFacts
  <2> QED BY <2>1, <2>2, SeqFacts DEF old
<1>3. ASSUME NEW i \in 1..(L + 1 + m) PROVE new.events[i].sequence_no = i - 1
  <2>1. CASE i \in 1..L
    BY <2>1, <1>1 DEF Numbered, Ticked
  <2>2. CASE i = L + 1
    <3>1. new.events[i] = Event(L, "tick", snapshot, None, None)
      BY <2>2 DEF Ticked
    <3>2. new.events[i].sequence_no = L
      <4>1. Event(L, "tick", snapshot, None, None).sequence_no = L
        BY TickEvent
      <4> QED BY <3>1, <4>1
    <3>3. L = (L + 1) - 1
      BY <1>1
    <3> QED BY <3>2, <3>3, <2>2
  <2>3. CASE i \in (L + 2)..(L + 1 + m)
    <3>1. PICK a \in 1..m : i = L + 1 + a
      <4>1. L \in Nat /\ m \in Nat
        BY <1>1
      <4> HIDE DEF L
      <4> QED BY <4>1, <2>3, AgentLine
    <3>2. new.events[i] = DecisionEvent(L + a, Agents[a], answers[a])
      BY <3>1 DEF Ticked
    <3>3. DecisionEvent(L + a, Agents[a], answers[a]).sequence_no = L + a
      BY AgentEvent
    <3>4. L + a = i - 1
      BY <3>1, <1>1
    <3> HIDE DEF L
    <3> QED BY <3>2, <3>3, <3>4
  <2>4. L \in Nat /\ m \in Nat
    BY <1>1
  <2> HIDE DEF L
  <2> QED BY <2>1, <2>2, <2>3, <2>4
<1>4. ASSUME NEW j \in 1..(S + 1), NEW k \in 1..(S + 1), j < k
      PROVE  new.snapshots[j].tick_seq < new.snapshots[k].tick_seq
  <2>1. CASE k = S + 1
    <3>1. j \in 1..S
      BY <2>1, <1>1, <1>4
    <3>2. j \in DOMAIN r.snapshots /\ new.snapshots[j] = r.snapshots[j] /\ new.snapshots[k] = snapshot
      BY <3>1, <2>1, <1>1, <1>2
    <3> QED BY <3>2
  <2>2. CASE k # S + 1
    <3>1. j \in 1..S /\ k \in 1..S
      BY <2>2, <1>1, <1>4
    <3> QED BY <3>1, <1>1, <1>2, <1>4 DEF Numbered
  <2> QED BY <2>1, <2>2
<1>5. \A k \in 1..(S + 1) : new.snapshots[k].tick_seq \in Int
  <2>1. \A k \in 1..S : new.snapshots[k].tick_seq \in Int
    BY <1>1, <1>2 DEF Numbered
  <2> QED BY <2>1, <1>1, <1>2
<1>6. Numbered(new)
  BY <1>1, <1>2, <1>3, <1>4, <1>5 DEF Numbered, Ticked
<1> QED BY <1>1, <1>2, <1>6

\* It goes on with the layout.
LEMMA TickedLaid ==
    ASSUME NEW r, Numbered(r), NEW new, NEW snapshot, NEW answers, NEW m \in 0..Len(Agents),
           Ticked(r, new, snapshot, answers, m), NEW f, Laid(f, r), Complete(f, r),
           Len(new.snapshots) = Len(r.snapshots) + 1, IsSeq(new.snapshots),
           \A k \in DOMAIN r.snapshots : new.snapshots[k] = r.snapshots[k],
           new.snapshots[Len(r.snapshots) + 1] = snapshot
    PROVE  Laid(ExtendedBy(f, r), new)
<1> DEFINE L == Len(r.events)
           S == Len(r.snapshots)
           g == ExtendedBy(f, r)
           N == Len(Agents)
<1>1. /\ L \in Nat /\ S \in Nat /\ N \in Nat /\ m \in Nat /\ m <= N
      /\ DOMAIN r.events = 1..L /\ DOMAIN r.snapshots = 1..S
      /\ DOMAIN new.events = 1..(L + 1 + m) /\ DOMAIN new.snapshots = 1..(S + 1) /\ DOMAIN Agents = 1..N
  BY SeqFacts, AgentsAssumption DEF Numbered, Ticked
<1>2. f \in [1..S -> 1..L] /\ DOMAIN f = 1..S
  BY <1>1 DEF Laid
<1>3. /\ DOMAIN g = 1..(S + 1)
      /\ \A k \in 1..S : g[k] = f[k]
      /\ g[S + 1] = L + 1
  BY <1>1 DEF ExtendedBy
<1> HIDE DEF g, L, S, N
<1>4. g \in [1..(S + 1) -> 1..(L + 1 + m)]
  <2>1. \A k \in 1..(S + 1) : g[k] \in 1..(L + 1 + m)
    <3>1. \A k \in 1..S : g[k] \in 1..L
      BY <1>2, <1>3
    <3> QED BY <3>1, <1>1, <1>3
  <2>2. g = [k \in 1..(S + 1) |-> g[k]]
    BY DEF g, S, ExtendedBy
  <2> QED BY <2>1, <2>2
<1>5. ASSUME NEW j \in 1..(S + 1), NEW k \in 1..(S + 1), j < k PROVE g[j] + N < g[k]
  <2>1. CASE k = S + 1
    <3>1. j \in 1..S /\ g[j] = f[j]
      BY <2>1, <1>1, <1>3, <1>5
    <3>2. f[j] + N <= L /\ f[j] \in Int
      BY <3>1, <1>2 DEF Complete, L, N
    <3> QED BY <3>1, <3>2, <2>1, <1>1, <1>3
  <2>2. CASE k # S + 1
    <3>1. j \in 1..S /\ k \in 1..S /\ g[j] = f[j] /\ g[k] = f[k]
      BY <2>2, <1>1, <1>3, <1>5
    <3> QED BY <3>1, <1>2, <1>5 DEF Laid, N
  <2> QED BY <2>1, <2>2
<1>6. ASSUME NEW i \in 1..L
      PROVE  /\ new.events[i] = r.events[i]
             /\ (new.events[i].event_type = "tick") <=> (\E k \in 1..(S + 1) : g[k] = i)
             /\ new.events[i].event_type = "decision" =>
                  \E k \in 1..(S + 1), a \in DOMAIN Agents : i = g[k] + a /\ new.events[i].result = Agents[a]
             /\ new.events[i].event_type # "window_config"
  <2>1. new.events[i] = r.events[i]
    BY DEF Ticked, L
  <2>2. (\E k \in 1..S : f[k] = i) <=> (\E k \in 1..(S + 1) : g[k] = i)
    <3>1. ASSUME NEW k \in 1..S, f[k] = i PROVE \E q \in 1..(S + 1) : g[q] = i
      BY <3>1, <1>1, <1>3
    <3>2. ASSUME NEW k \in 1..(S + 1), g[k] = i PROVE \E q \in 1..S : f[q] = i
      <4>1. k # S + 1
        BY <3>2, <1>1, <1>3
      <4> QED BY <4>1, <3>2, <1>1, <1>3
    <3> QED BY <3>1, <3>2
  <2>3. (r.events[i].event_type = "tick") <=> (\E k \in 1..S : f[k] = i)
    BY <1>1, <1>2 DEF Laid
  <2>4. ASSUME r.events[i].event_type = "decision"
        PROVE  \E k \in 1..(S + 1), a \in DOMAIN Agents : i = g[k] + a /\ r.events[i].result = Agents[a]
    <3>1. PICK k \in 1..S, a \in DOMAIN Agents : i = f[k] + a /\ r.events[i].result = Agents[a]
      <4>1. \A j \in DOMAIN r.events : r.events[j].event_type = "decision" =>
              \E k \in DOMAIN f, a \in DOMAIN Agents : j = f[k] + a /\ r.events[j].result = Agents[a]
        BY DEF Laid
      <4>2. i \in DOMAIN r.events
        BY <1>1
      <4> QED BY <4>1, <4>2, <2>4, <1>2, Zenon
    <3>2. k \in 1..(S + 1) /\ g[k] = f[k]
      BY <1>1, <1>3
    <3> QED BY <3>1, <3>2
  <2>5. r.events[i].event_type # "window_config"
    BY <1>1 DEF Laid
  <2> QED BY <2>1, <2>2, <2>3, <2>4, <2>5
<1>7. /\ new.events[L + 1].event_type = "tick" /\ new.events[L + 1].snapshot = snapshot
      /\ S + 1 \in 1..(S + 1) /\ g[S + 1] = L + 1
  <2>1. new.events[L + 1] = Event(L, "tick", snapshot, None, None)
    BY DEF Ticked, L
  <2> DEFINE e == Event(L, "tick", snapshot, None, None)
  <2>2. e.event_type = "tick" /\ e.snapshot = snapshot
    BY TickEvent
  <2> HIDE DEF e
  <2> QED BY <2>1, <2>2, <1>1, <1>3 DEF e
<1>8. ASSUME NEW a \in 1..m
      PROVE  /\ new.events[L + 1 + a].event_type \in {"decision", "error"}
             /\ new.events[L + 1 + a].result = Agents[a] /\ a \in DOMAIN Agents
             /\ ~ \E k \in 1..(S + 1) : g[k] = L + 1 + a
  <2>1. new.events[L + 1 + a] = DecisionEvent(L + a, Agents[a], answers[a])
    BY DEF Ticked, L
  <2>2. a \in DOMAIN Agents
    BY <1>1
  <2>3. ASSUME NEW k \in 1..(S + 1) PROVE g[k] # L + 1 + a
    <3>1. CASE k = S + 1
      BY <3>1, <1>1, <1>3
    <3>2. CASE k # S + 1
      <4>1. k \in 1..S
        BY <3>2, <1>1
      <4>2. g[k] \in 1..L
        BY <4>1, <1>2, <1>3
      <4> QED BY <4>2, <1>1
    <3> QED BY <3>1, <3>2
  <2> DEFINE e == DecisionEvent(L + a, Agents[a], answers[a])
  <2>4. e.event_type \in {"decision", "error"} /\ e.result = Agents[a]
    BY AgentEvent
  <2> HIDE DEF e
  <2>5. new.events[L + 1 + a] = e
    BY <2>1 DEF e
  <2> QED BY <2>2, <2>3, <2>4, <2>5
<1>9. ASSUME NEW i \in 1..(L + 1 + m)
      PROVE  /\ (new.events[i].event_type = "tick") <=> (\E k \in 1..(S + 1) : g[k] = i)
             /\ new.events[i].event_type = "decision" =>
                  \E k \in 1..(S + 1), a \in DOMAIN Agents : i = g[k] + a /\ new.events[i].result = Agents[a]
             /\ new.events[i].event_type # "window_config"
  <2>1. CASE i \in 1..L
    BY <2>1, <1>6
  <2>2. CASE i = L + 1
    BY <2>2, <1>7
  <2>3. CASE i \in (L + 2)..(L + 1 + m)
    <3>1. PICK a \in 1..m : i = L + 1 + a
      BY <2>3, <1>1, AgentLine
    <3>2. new.events[i].event_type # "tick" /\ ~ \E k \in 1..(S + 1) : g[k] = i
      BY <3>1, <1>8
    <3>3. \E k \in 1..(S + 1), b \in DOMAIN Agents : i = g[k] + b /\ new.events[i].result = Agents[b]
      BY <3>1, <1>7, <1>8
    <3>4. new.events[i].event_type # "window_config"
      BY <3>1, <1>8
    <3> QED BY <3>2, <3>3, <3>4
  <2>4. i \in 1..L \/ i = L + 1 \/ i \in (L + 2)..(L + 1 + m)
    BY <1>1
  <2> QED BY <2>1, <2>2, <2>3, <2>4, Zenon
<1>10. ASSUME NEW k \in 1..(S + 1) PROVE new.events[g[k]].snapshot = new.snapshots[k]
  <2>1. CASE k = S + 1
    BY <2>1, <1>7 DEF S
  <2>2. CASE k # S + 1
    <3>1. k \in 1..S /\ g[k] = f[k] /\ f[k] \in 1..L
      BY <2>2, <1>1, <1>2, <1>3
    <3>2. new.events[g[k]] = r.events[f[k]] /\ new.snapshots[k] = r.snapshots[k]
      BY <3>1, <1>1, <1>6
    <3>3. r.events[f[k]].snapshot = r.snapshots[k]
      BY <3>1, <1>2 DEF Laid
    <3> QED BY <3>2, <3>3
  <2> QED BY <2>1, <2>2
<1> HIDE DEF g
<1>11. Laid(g, new)
  <2>1. g \in [DOMAIN new.snapshots -> DOMAIN new.events]
    BY <1>1, <1>4
  <2>2. \A j, k \in DOMAIN g : j < k => g[j] + Len(Agents) < g[k]
    BY <1>3, <1>5 DEF N
  <2>3. \A k \in DOMAIN g : new.events[g[k]].snapshot = new.snapshots[k]
    BY <1>3, <1>10
  <2>4. \A i \in DOMAIN new.events :
          /\ (new.events[i].event_type = "tick") <=> (\E k \in DOMAIN g : g[k] = i)
          /\ new.events[i].event_type = "decision" =>
               \E k \in DOMAIN g, a \in DOMAIN Agents : i = g[k] + a /\ new.events[i].result = Agents[a]
          /\ new.events[i].event_type # "window_config"
    <3> SUFFICES ASSUME NEW i \in DOMAIN new.events
                 PROVE  /\ (new.events[i].event_type = "tick") <=> (\E k \in DOMAIN g : g[k] = i)
                        /\ new.events[i].event_type = "decision" =>
                             \E k \in DOMAIN g, a \in DOMAIN Agents : i = g[k] + a /\ new.events[i].result = Agents[a]
                        /\ new.events[i].event_type # "window_config"
      OBVIOUS
    <3>1. i \in 1..(L + 1 + m) /\ DOMAIN g = 1..(S + 1)
      BY <1>1, <1>3
    <3> QED BY <3>1, <1>9
  <2> QED BY <2>1, <2>2, <2>3, <2>4 DEF Laid
<1> QED BY <1>11 DEF g

\* Its decisions have their lines, and all of them when no agent is cut off.
LEMMA TickedLined ==
    ASSUME NEW r, Numbered(r), NEW new, NEW snapshot, NEW answers, NEW m \in 0..Len(Agents),
           Ticked(r, new, snapshot, answers, m), NEW f, Laid(f, r), Complete(f, r), Lined(f, r),
           Len(new.snapshots) = Len(r.snapshots) + 1, IsSeq(new.snapshots),
           \A k \in DOMAIN r.snapshots : new.snapshots[k] = r.snapshots[k],
           new.snapshots[Len(r.snapshots) + 1] = snapshot,
           \A n \in DOMAIN new.decisions :
             \/ n \in DOMAIN r.decisions /\ new.decisions[n] = r.decisions[n]
             \/ \E a \in 1..m : /\ answers[a] # None
                                /\ new.decisions[n] = [agent |-> Agents[a], action |-> answers[a], state |-> snapshot]
    PROVE  /\ Lined(ExtendedBy(f, r), new)
           /\ m = Len(Agents) => Complete(ExtendedBy(f, r), new)
<1> DEFINE L == Len(r.events)
           S == Len(r.snapshots)
           g == ExtendedBy(f, r)
           N == Len(Agents)
<1>1. /\ L \in Nat /\ S \in Nat /\ N \in Nat /\ m \in Nat /\ m <= N
      /\ DOMAIN r.events = 1..L /\ DOMAIN r.snapshots = 1..S
      /\ DOMAIN new.events = 1..(L + 1 + m) /\ DOMAIN new.snapshots = 1..(S + 1) /\ DOMAIN Agents = 1..N
  BY SeqFacts, AgentsAssumption DEF Numbered, Ticked
<1>2. f \in [1..S -> 1..L] /\ DOMAIN f = 1..S
  BY <1>1 DEF Laid
<1>3. /\ DOMAIN g = 1..(S + 1)
      /\ \A k \in 1..S : g[k] = f[k]
      /\ g[S + 1] = L + 1
  BY <1>1 DEF ExtendedBy
<1>4. Len(new.events) = L + 1 + m
  BY DEF Ticked
<1> HIDE DEF g, L, S, N
<1>5. ASSUME NEW n \in DOMAIN r.decisions, NEW d, d = r.decisions[n]
      PROVE  \E k \in 1..(S + 1), a \in 1..N :
               /\ g[k] + a \in 1..(L + 1 + m)
               /\ new.events[g[k] + a].event_type = "decision"
               /\ new.events[g[k] + a].result = Agents[a]
               /\ new.events[g[k] + a].action = d.action
               /\ d.agent = Agents[a]
               /\ d.state = new.snapshots[k]
  <2>1. PICK k \in 1..S, a \in 1..N :
          /\ f[k] + a \in 1..L
          /\ r.events[f[k] + a].event_type = "decision"
          /\ r.events[f[k] + a].result = Agents[a]
          /\ r.events[f[k] + a].action = d.action
          /\ d.agent = Agents[a]
          /\ d.state = r.snapshots[k]
    <3>1. \E k \in DOMAIN f, a \in DOMAIN Agents :
            /\ f[k] + a \in DOMAIN r.events
            /\ r.events[f[k] + a].event_type = "decision"
            /\ r.events[f[k] + a].result = Agents[a]
            /\ r.events[f[k] + a].action = d.action
            /\ d.agent = Agents[a]
            /\ d.state = r.snapshots[k]
      BY <1>5 DEF Lined
    <3> QED BY <3>1, <1>1, <1>2
  <2>2. g[k] = f[k] /\ k \in 1..(S + 1) /\ k \in DOMAIN r.snapshots
    BY <1>1, <1>3
  <2>3. new.events[g[k] + a] = r.events[f[k] + a]
    BY <2>1, <2>2 DEF Ticked, L
  <2>4. g[k] + a \in 1..(L + 1 + m) /\ new.snapshots[k] = r.snapshots[k]
    BY <2>1, <2>2, <1>1
  <2> QED BY <2>1, <2>2, <2>3, <2>4
<1>6. ASSUME NEW d, NEW a \in 1..m, answers[a] # None,
             d = [agent |-> Agents[a], action |-> answers[a], state |-> snapshot]
      PROVE  \E k \in 1..(S + 1), b \in 1..N :
               /\ g[k] + b \in 1..(L + 1 + m)
               /\ new.events[g[k] + b].event_type = "decision"
               /\ new.events[g[k] + b].result = Agents[b]
               /\ new.events[g[k] + b].action = d.action
               /\ d.agent = Agents[b]
               /\ d.state = new.snapshots[k]
  <2>1. new.events[L + 1 + a] = DecisionEvent(L + a, Agents[a], answers[a])
    BY DEF Ticked, L
  <2> DEFINE e == DecisionEvent(L + a, Agents[a], answers[a])
  <2>2. e.event_type = "decision" /\ e.result = Agents[a] /\ e.action = answers[a]
    BY <1>6, AgentEvent
  <2> HIDE DEF e
  <2>3. new.events[g[S + 1] + a] = e
    BY <2>1, <1>3 DEF e
  <2>4. a \in 1..N /\ S + 1 \in 1..(S + 1) /\ g[S + 1] + a \in 1..(L + 1 + m) /\ new.snapshots[S + 1] = snapshot
    BY <1>1, <1>3 DEF S
  <2>5. d.agent = Agents[a] /\ d.action = answers[a] /\ d.state = snapshot
    BY <1>6
  <2> QED BY <2>2, <2>3, <2>4, <2>5
<1>7. Lined(g, new)
  <2> SUFFICES ASSUME NEW n \in DOMAIN new.decisions
               PROVE  \E k \in DOMAIN g, a \in DOMAIN Agents :
                        /\ g[k] + a \in DOMAIN new.events
                        /\ new.events[g[k] + a].event_type = "decision"
                        /\ new.events[g[k] + a].result = Agents[a]
                        /\ new.events[g[k] + a].action = new.decisions[n].action
                        /\ new.decisions[n].agent = Agents[a]
                        /\ new.decisions[n].state = new.snapshots[k]
    BY DEF Lined
  <2>1. \E k \in 1..(S + 1), a \in 1..N :
          /\ g[k] + a \in 1..(L + 1 + m)
          /\ new.events[g[k] + a].event_type = "decision"
          /\ new.events[g[k] + a].result = Agents[a]
          /\ new.events[g[k] + a].action = new.decisions[n].action
          /\ new.decisions[n].agent = Agents[a]
          /\ new.decisions[n].state = new.snapshots[k]
    <3>1. CASE n \in DOMAIN r.decisions /\ new.decisions[n] = r.decisions[n]
      BY <3>1, <1>5
    <3>2. CASE \E a \in 1..m :
                 /\ answers[a] # None
                 /\ new.decisions[n] = [agent |-> Agents[a], action |-> answers[a], state |-> snapshot]
      BY <3>2, <1>6
    <3> QED BY <3>1, <3>2, Zenon
  <2> QED BY <2>1, <1>1, <1>3
<1>8. ASSUME m = N PROVE Complete(g, new)
  <2>1. ASSUME NEW k \in 1..(S + 1) PROVE g[k] + N <= Len(new.events)
    <3>1. CASE k = S + 1
      BY <3>1, <1>1, <1>3, <1>4, <1>8
    <3>2. CASE k # S + 1
      <4>1. k \in 1..S /\ g[k] = f[k] /\ f[k] \in 1..L
        BY <3>2, <1>1, <1>2, <1>3
      <4>2. f[k] + N <= L
        BY <4>1, <1>2 DEF Complete, L, N
      <4> QED BY <4>1, <4>2, <1>1, <1>4
    <3> QED BY <3>1, <3>2
  <2> QED BY <2>1, <1>3 DEF Complete, N
<1> QED BY <1>7, <1>8 DEF g, N

\* A tick that the sink has taken with all its lines.
LEMMA FedIsLaid ==
    ASSUME NEW r, Numbered(r), NEW f, Laid(f, r), Complete(f, r), Lined(f, r),
           NEW snapshot, snapshot.tick_seq \in Int, NEW answers,
           \A k \in DOMAIN r.snapshots : r.snapshots[k].tick_seq < snapshot.tick_seq,
           NEW new, new = FeedRun(r, snapshot, answers, None)
    PROVE  /\ Numbered(new)
           /\ \E g : Laid(g, new) /\ Lined(g, new) /\ Complete(g, new)
           /\ \A k \in DOMAIN new.snapshots :
                \/ k \in DOMAIN r.snapshots /\ new.snapshots[k] = r.snapshots[k]
                \/ new.snapshots[k] = snapshot
           /\ \A n \in DOMAIN new.decisions :
                \/ n \in DOMAIN r.decisions /\ new.decisions[n] = r.decisions[n]
                \/ new.decisions[n].state = snapshot
<1> DEFINE L == Len(r.events)
           D == Len(r.decisions)
           m == Len(Agents)
<1>1. /\ IsSeq(r.events) /\ IsSeq(r.snapshots) /\ IsSeq(r.decisions) /\ r.sequence_no = L
      /\ L \in Nat /\ D \in Nat /\ m \in Nat /\ DOMAIN r.decisions = 1..D
  BY SeqFacts, AgentsAssumption DEF Numbered
<1>2. /\ IsSeq(new.events) /\ Len(new.events) = L + (1 + m)
      /\ \A i \in 1..L : new.events[i] = r.events[i]
      /\ \A i \in 1..(1 + m) :
           new.events[L + i] = IF i = 1 THEN Event(L, "tick", snapshot, None, None)
                               ELSE DecisionEvent(L + i - 1, Agents[i - 1], answers[i - 1])
      /\ new.snapshots = Append(r.snapshots, snapshot)
      /\ new.sequence_no = L + (1 + m)
      /\ IsSeq(new.decisions) /\ Len(new.decisions) >= D
      /\ \A n \in 1..D : new.decisions[n] = r.decisions[n]
      /\ \A n \in (D + 1)..Len(new.decisions) : \E a \in 1..((1 + m) - 1) :
           /\ answers[a] # None
           /\ new.decisions[n] = [agent |-> Agents[a], action |-> answers[a], state |-> snapshot]
  <2>1. r.sequence_no \in Nat
    BY <1>1
  <2>2. Fed(r, new, snapshot, answers, None)
    BY <1>1, <2>1, FeedFacts
  <2>3. Sent(None) = 1 + m /\ Counted(None) = 1 + m /\ r.sequence_no = L
    BY <1>1 DEF Sent, Counted
  <2> QED BY <2>2, <2>3 DEF Fed
<1> HIDE DEF L, D, m
<1>3. Ticked(r, new, snapshot, answers, m)
  <2>1. new.events[L + 1] = Event(L, "tick", snapshot, None, None)
    BY <1>1, <1>2
  <2>2. ASSUME NEW a \in 1..m PROVE new.events[L + 1 + a] = DecisionEvent(L + a, Agents[a], answers[a])
    <3>1. 1 + a \in 1..(1 + m) /\ 1 + a # 1 /\ L + (1 + a) = L + 1 + a /\ L + (1 + a) - 1 = L + a /\ (1 + a) - 1 = a
      BY <1>1
    <3> QED BY <3>1, <1>2
  <2>3. Len(new.events) = L + 1 + m /\ new.sequence_no = L + 1 + m
    BY <1>1, <1>2
  <2> QED BY <1>2, <2>1, <2>2, <2>3 DEF Ticked, L
<1>4. m \in 0..Len(Agents) /\ m = Len(Agents)
  BY <1>1 DEF m
<1>5. /\ Numbered(new)
      /\ Len(new.snapshots) = Len(r.snapshots) + 1
      /\ \A k \in DOMAIN r.snapshots : k \in DOMAIN new.snapshots /\ new.snapshots[k] = r.snapshots[k]
      /\ new.snapshots[Len(r.snapshots) + 1] = snapshot
  BY <1>3, <1>4, TickedNumbers
<1>6. IsSeq(new.snapshots) /\ DOMAIN new.decisions = 1..Len(new.decisions) /\ Len(new.decisions) \in Nat
  BY <1>5, SeqFacts DEF Numbered
<1>7. ASSUME NEW n \in DOMAIN new.decisions
      PROVE  \/ n \in DOMAIN r.decisions /\ new.decisions[n] = r.decisions[n]
             \/ \E a \in 1..m : /\ answers[a] # None
                                /\ new.decisions[n] = [agent |-> Agents[a], action |-> answers[a], state |-> snapshot]
  <2>1. n \in 1..D \/ n \in (D + 1)..Len(new.decisions)
    BY <1>1, <1>6
  <2>2. (1 + m) - 1 = m
    BY <1>1
  <2> QED BY <2>1, <2>2, <1>1, <1>2
<1>8. Laid(ExtendedBy(f, r), new)
  BY <1>3, <1>4, <1>5, <1>6, TickedLaid
<1>9. Lined(ExtendedBy(f, r), new) /\ Complete(ExtendedBy(f, r), new)
  BY <1>3, <1>4, <1>5, <1>6, <1>7, TickedLined
<1>10. ASSUME NEW k \in DOMAIN new.snapshots
       PROVE  \/ k \in DOMAIN r.snapshots /\ new.snapshots[k] = r.snapshots[k]
              \/ new.snapshots[k] = snapshot
  <2>1. DOMAIN new.snapshots = 1..(Len(r.snapshots) + 1) /\ DOMAIN r.snapshots = 1..Len(r.snapshots)
        /\ Len(r.snapshots) \in Nat
    BY <1>1, <1>5, <1>6, SeqFacts
  <2>2. k \in DOMAIN r.snapshots \/ k = Len(r.snapshots) + 1
    BY <2>1
  <2> QED BY <2>2, <1>5
<1>11. \A n \in DOMAIN new.decisions :
         \/ n \in DOMAIN r.decisions /\ new.decisions[n] = r.decisions[n]
         \/ new.decisions[n].state = snapshot
  <2>1. ASSUME NEW d, NEW a, d = [agent |-> Agents[a], action |-> answers[a], state |-> snapshot]
        PROVE  d.state = snapshot
    BY <2>1
  <2> QED BY <1>7, <2>1
<1> QED BY <1>5, <1>8, <1>9, <1>10, <1>11

\* The close goes in after the last tick; no agent is asked.
LEMMA ClosingIsLaid ==
    ASSUME NEW r, IsRun(r), Numbered(r), NEW f, Laid(f, r), Complete(f, r), Lined(f, r),
           NEW snapshot, snapshot.tick_seq \in Int,
           \A k \in DOMAIN r.snapshots : r.snapshots[k].tick_seq < snapshot.tick_seq,
           NEW new, new = FeedClosingRun(r, snapshot)
    PROVE  /\ IsRun(new) /\ Numbered(new)
           /\ \E g : Laid(g, new) /\ Lined(g, new)
           /\ new.decisions = r.decisions
           /\ Len(new.snapshots) = Len(r.snapshots) + 1
           /\ new.snapshots[Len(r.snapshots) + 1] = snapshot
<1> DEFINE L == Len(r.events)
           e == Event(L, "tick", snapshot, None, None)
<1>1. /\ IsSeq(r.events) /\ IsSeq(r.snapshots) /\ IsSeq(r.decisions) /\ r.sequence_no = L /\ L \in Nat
      /\ Len(Agents) \in Nat
  BY SeqFacts, AgentsAssumption DEF Numbered
<1>2. new = [events |-> Append(r.events, e), decisions |-> r.decisions,
             snapshots |-> Append(r.snapshots, snapshot), sequence_no |-> L + 1]
  <2> DEFINE fields == [events |-> r.events, decisions |-> r.decisions, snapshots |-> r.snapshots,
                        sequence_no |-> r.sequence_no]
  <2>1. r = fields
    BY DEF IsRun
  <2>2. FeedClosingRun(r, snapshot) =
          [r EXCEPT !.events = Append(r.events, Event(r.sequence_no, "tick", snapshot, None, None)),
                    !.snapshots = Append(r.snapshots, snapshot), !.sequence_no = r.sequence_no + 1]
    BY DEF FeedClosingRun
  <2> QED BY <2>1, <2>2, <1>1
<1> HIDE DEF e
<1>3. /\ new.events = Append(r.events, e) /\ new.decisions = r.decisions
      /\ new.snapshots = Append(r.snapshots, snapshot) /\ new.sequence_no = L + 1 /\ IsRun(new)
  BY <1>2 DEF IsRun
<1>4. IsSeq(new.events) /\ Len(new.events) = L + 1 /\ (\A i \in 1..L : new.events[i] = r.events[i])
      /\ new.events[L + 1] = e
  <2> DEFINE old == r.events
  <2> HIDE DEF old
  <2>1. IsSeq(old)
    BY <1>1 DEF old
  <2>2. /\ IsSeq(Append(old, e)) /\ Len(Append(old, e)) = Len(old) + 1
        /\ \A i \in 1..Len(old) : Append(old, e)[i] = old[i]
        /\ Append(old, e)[Len(old) + 1] = e
    BY <2>1, AppendFacts
  <2> QED BY <2>2, <1>3 DEF old
<1> HIDE DEF L
<1>5. Ticked(r, new, snapshot, <<>>, 0)
  <2>1. L + 1 + 0 = L + 1 /\ 1..0 = {}
    BY <1>1
  <2> QED BY <2>1, <1>1, <1>3, <1>4 DEF Ticked, L, e
<1>6. 0 \in 0..Len(Agents)
  BY <1>1
<1>7. /\ Numbered(new)
      /\ Len(new.snapshots) = Len(r.snapshots) + 1
      /\ \A k \in DOMAIN r.snapshots : k \in DOMAIN new.snapshots /\ new.snapshots[k] = r.snapshots[k]
      /\ new.snapshots[Len(r.snapshots) + 1] = snapshot
  BY <1>5, <1>6, TickedNumbers
<1>8. IsSeq(new.snapshots)
  BY <1>7 DEF Numbered
<1>9. Laid(ExtendedBy(f, r), new)
  BY <1>5, <1>6, <1>7, <1>8, TickedLaid
<1>10. \A n \in DOMAIN new.decisions : n \in DOMAIN r.decisions /\ new.decisions[n] = r.decisions[n]
  BY <1>3
<1>11. Lined(ExtendedBy(f, r), new)
  BY <1>5, <1>6, <1>7, <1>8, <1>10, TickedLined
<1> QED BY <1>3, <1>7, <1>9, <1>11

\* The number of the event that the sink failed is given out again.
LEMMA SinkSpoils ==
    ASSUME NEW r, Numbered(r), NEW snapshot, NEW answers, NEW cut \in 1..(1 + Len(Agents)),
           NEW new, new = FeedRun(r, snapshot, answers, cut)
    PROVE  Spoilt(new)
<1> DEFINE L == Len(r.events)
<1>1. /\ IsSeq(r.events) /\ IsSeq(r.snapshots) /\ IsSeq(r.decisions)
      /\ r.sequence_no = L /\ L \in Nat /\ r.sequence_no \in Nat /\ cut \in Nat \ {0}
  BY SeqFacts, AgentsAssumption DEF Numbered
<1>2. Fed(r, new, snapshot, answers, cut)
  BY <1>1, FeedFacts
<1>3. Sent(cut) = cut /\ Counted(cut) = cut - 1
  BY <1>1, AbsentAssumption DEF Sent, Counted
<1>4. /\ IsSeq(new.events) /\ Len(new.events) = L + cut /\ new.sequence_no = L + (cut - 1)
      /\ new.snapshots = Append(r.snapshots, snapshot)
      /\ new.events[L + cut] = IF cut = 1 THEN Event(L, "tick", snapshot, None, None)
                               ELSE DecisionEvent(L + cut - 1, Agents[cut - 1], answers[cut - 1])
  BY <1>1, <1>2, <1>3 DEF Fed
<1>5. new.events[L + cut].sequence_no = L + cut - 1
  <2>1. CASE cut = 1
    <3>1. Event(L, "tick", snapshot, None, None).sequence_no = L
      BY TickEvent
    <3>2. L = L + cut - 1
      BY <2>1, <1>1
    <3> QED BY <3>1, <3>2, <2>1, <1>4
  <2>2. CASE cut # 1
    <3>1. DecisionEvent(L + cut - 1, Agents[cut - 1], answers[cut - 1]).sequence_no = L + cut - 1
      BY AgentEvent
    <3> QED BY <3>1, <2>2, <1>4
  <2> QED BY <2>1, <2>2
<1>6. new.events # <<>>
  <2>1. Len(new.events) # 0
    BY <1>1, <1>4
  <2>2. Len(<<>>) = 0
    OBVIOUS
  <2> QED BY <2>1, <2>2
<1>7. new.snapshots # <<>>
  <2> DEFINE old == r.snapshots
  <2> HIDE DEF old
  <2>1. IsSeq(old)
    BY <1>1 DEF old
  <2>2. Append(old, snapshot) # <<>>
    BY <2>1 DEF IsSeq
  <2> QED BY <2>2, <1>4 DEF old
<1>8. L + cut - 1 = L + (cut - 1)
  BY <1>1
<1> QED BY <1>4, <1>5, <1>6, <1>7, <1>8 DEF Spoilt

\* Nothing is sealed of a run with a repeated number.
LEMMA SpoiltIsRefused ==
    ASSUME NEW r, Spoilt(r), NEW mode, NEW rule \in EndRules, NEW horizon
    PROVE  FinalizeRun(r, mode, rule, horizon) = None
<1> DEFINE L == Len(r.events)
           config == [end_rule |-> rule, min_clv_horizon_s |-> horizon,
                      window_end_ts |-> IF r.snapshots = <<>> THEN None ELSE Last(r.snapshots).ts]
           e == Event(r.sequence_no, "window_config", None, None, config)
           events == Append(r.events, e)
<1>1. rule # None
  BY AbsentAssumption
<1>2. e.sequence_no = r.sequence_no
  BY DEF Event
<1> HIDE DEF config, e
<1>3. /\ L \in Nat \ {0} /\ DOMAIN events = 1..(L + 1)
      /\ events[L] = r.events[L] /\ events[L + 1] = e
  <2> DEFINE old == r.events
  <2> HIDE DEF old
  <2>1. IsSeq(old) /\ old # <<>>
    BY DEF Spoilt, old
  <2>2. /\ IsSeq(Append(old, e)) /\ Len(Append(old, e)) = Len(old) + 1
        /\ \A i \in 1..Len(old) : Append(old, e)[i] = old[i]
        /\ Append(old, e)[Len(old) + 1] = e
    BY <2>1, AppendFacts
  <2>3. Len(old) \in Nat \ {0}
    BY <2>1 DEF IsSeq
  <2>4. DOMAIN Append(old, e) = 1..(Len(old) + 1)
    BY <2>2, SeqFacts
  <2> QED BY <2>2, <2>3, <2>4 DEF old
<1> HIDE DEF events, L
<1>4. L \in DOMAIN events /\ L + 1 \in DOMAIN events /\ L # L + 1
      /\ events[L].sequence_no = events[L + 1].sequence_no
  BY <1>2, <1>3 DEF Spoilt, L
<1>5. compute_evidence_hash(events) = None
  BY <1>4 DEF compute_evidence_hash
<1>6. FinalizeRun(r, mode, rule, horizon) = None
  <2>1. r.snapshots # <<>>
    BY DEF Spoilt
  <2> QED BY <2>1, <1>1, <1>5 DEF FinalizeRun, events, e, config
<1> QED BY <1>6

------------------------------------------------------------------------------
(* The invariant holds throughout *)

\* What is left of the locals after an assignment to some.
LEMMA InterruptedAssigned ==
    ASSUME NEW l, IsLoop(l), NEW a
    PROVE  [l EXCEPT !.interrupted = a] =
                [started_ts |-> l.started_ts, last_tick_seq |-> l.last_tick_seq, fed_any |-> l.fed_any,
                 seen_markets |-> l.seen_markets, interrupted |-> a, end_rule |-> l.end_rule]
<1> DEFINE same == [started_ts |-> l.started_ts, last_tick_seq |-> l.last_tick_seq, fed_any |-> l.fed_any,
                 seen_markets |-> l.seen_markets, interrupted |-> l.interrupted, end_rule |-> l.end_rule]
<1>1. l = same
  BY DEF IsLoop
<1>2. [same EXCEPT !.interrupted = a] =
                [started_ts |-> l.started_ts, last_tick_seq |-> l.last_tick_seq, fed_any |-> l.fed_any,
                 seen_markets |-> l.seen_markets, interrupted |-> a, end_rule |-> l.end_rule]
  OBVIOUS
<1> HIDE DEF same
<1> QED BY <1>1, <1>2

\* The end rule apart.
LEMMA RuleAssigned ==
    ASSUME NEW l, IsLoop(l), NEW a
    PROVE  [l EXCEPT !.end_rule = a] =
                [started_ts |-> l.started_ts, last_tick_seq |-> l.last_tick_seq, fed_any |-> l.fed_any,
                 seen_markets |-> l.seen_markets, interrupted |-> l.interrupted, end_rule |-> a]
<1> DEFINE same == [started_ts |-> l.started_ts, last_tick_seq |-> l.last_tick_seq, fed_any |-> l.fed_any,
                 seen_markets |-> l.seen_markets, interrupted |-> l.interrupted, end_rule |-> l.end_rule]
<1>1. l = same
  BY DEF IsLoop
<1>2. [same EXCEPT !.end_rule = a] =
                [started_ts |-> l.started_ts, last_tick_seq |-> l.last_tick_seq, fed_any |-> l.fed_any,
                 seen_markets |-> l.seen_markets, interrupted |-> l.interrupted, end_rule |-> a]
  OBVIOUS
<1> HIDE DEF same
<1> QED BY <1>1, <1>2

\* The state of the loop after a tick: the four fields the feed branch writes.
Advanced(l, a, b, c, d) ==
    [l EXCEPT !.started_ts = a, !.fed_any = b, !.last_tick_seq = c, !.seen_markets = d]

\* What a fed tick assigns.
LEMMA FedAssigned ==
    ASSUME NEW l, IsLoop(l), NEW a, NEW b, NEW c, NEW d
    PROVE  Advanced(l, a, b, c, d) =
                [started_ts |-> a, last_tick_seq |-> c, fed_any |-> b,
                 seen_markets |-> d, interrupted |-> l.interrupted, end_rule |-> l.end_rule]
<1> DEFINE same == [started_ts |-> l.started_ts, last_tick_seq |-> l.last_tick_seq, fed_any |-> l.fed_any,
                 seen_markets |-> l.seen_markets, interrupted |-> l.interrupted, end_rule |-> l.end_rule]
           one == [same EXCEPT !.started_ts = a]
<1>1. l = same
  BY DEF IsLoop
<1>2. one = [started_ts |-> a, last_tick_seq |-> l.last_tick_seq, fed_any |-> l.fed_any,
                 seen_markets |-> l.seen_markets, interrupted |-> l.interrupted, end_rule |-> l.end_rule]
  OBVIOUS
<1> HIDE DEF one
<1> DEFINE two == [one EXCEPT !.fed_any = b]
<1>3. two = [started_ts |-> a, last_tick_seq |-> l.last_tick_seq, fed_any |-> b,
                 seen_markets |-> l.seen_markets, interrupted |-> l.interrupted, end_rule |-> l.end_rule]
  BY <1>2
<1> HIDE DEF two
<1> DEFINE three == [two EXCEPT !.last_tick_seq = c]
<1>4. three = [started_ts |-> a, last_tick_seq |-> c, fed_any |-> b,
                 seen_markets |-> l.seen_markets, interrupted |-> l.interrupted, end_rule |-> l.end_rule]
  BY <1>3
<1>5. Advanced(same, a, b, c, d) = [three EXCEPT !.seen_markets = d]
  BY DEF Advanced, three, two, one
<1> HIDE DEF three, same
<1> QED BY <1>1, <1>4, <1>5

\* The number of a tick is the one the stream gave it.
LEMMA TickNumber ==
    ASSUME NEW r
    PROVE  _filter_markets(TickOf(r), Allowlist).tick_seq = seqs[r.fixture]
<1> DEFINE t == TickOf(r)
<1>1. /\ t = [fixture_id |-> t.fixture_id, tick_seq |-> t.tick_seq, ts |-> t.ts, phase |-> t.phase,
              markets |-> t.markets]
      /\ t.tick_seq = seqs[r.fixture]
  BY DEF TickOf, marketstate_from_txline_odds
<1> HIDE DEF t
<1>2. _filter_markets(t, Allowlist).tick_seq = t.tick_seq
  BY <1>1 DEF _filter_markets
<1> QED BY <1>1, <1>2 DEF t

\* Nothing has been fed.
LEMMA InitInv == Init => LiveInv
<1> SUFFICES ASSUME Init PROVE LiveInv
  OBVIOUS
<1> USE DEF Init
<1>1. PICK w \in Windows : window = w
  OBVIOUS
<1>2. window.end_rule \in EndRules /\ {"end_rule", "min_clv_horizon_s"} \subseteq DOMAIN window
  BY <1>1, LiveRunAssumption
<1>3. IsSeq(<<>>) /\ DOMAIN <<>> = {} /\ Len(<<>>) = 0
  BY DEF IsSeq
<1>4. IsRun(run) /\ run.events = <<>> /\ run.decisions = <<>> /\ run.snapshots = <<>> /\ run.sequence_no = 0
  BY DEF EmptyRun, IsRun
<1>5. /\ IsLoop(loop) /\ loop.end_rule = window.end_rule /\ loop.last_tick_seq = -1 /\ loop.interrupted = FALSE
  BY <1>2 DEF IsLoop
<1>6. EnvInv
  <2>1. DOMAIN seqs = { r.fixture : r \in Records } /\ \A f \in DOMAIN seqs : seqs[f] = 0
    OBVIOUS
  <2>2. OwnFixture \in DOMAIN seqs => loop.last_tick_seq < seqs[OwnFixture]
    <3>1. -1 < 0
      OBVIOUS
    <3> QED BY <2>1, <3>1, <1>5
  <2>3. IsSeq(history) /\ IsSeq(told)
    BY <1>3
  <2> QED BY <2>1, <2>2, <2>3, <1>2, <1>4, <1>5 DEF EnvInv
<1>7. Numbered(run)
  BY <1>3, <1>4 DEF Numbered
<1>8. Laid(<<>>, run) /\ Lined(<<>>, run) /\ Complete(<<>>, run)
  BY <1>3, <1>4 DEF Laid, Lined, Complete
<1>9. Feeding
  BY <1>3, <1>4, <1>5, <1>7, <1>8 DEF Feeding
<1>10. PhaseInv
  BY <1>5, <1>9 DEF PhaseInv
<1> QED BY <1>6, <1>10 DEF LiveInv

\* Feeding is about the run, the window and four locals.
LEMMA FeedingKept ==
    ASSUME Feeding, run' = run, window' = window, loop'.end_rule = loop.end_rule,
           loop'.last_tick_seq = loop.last_tick_seq, loop'.seen_markets = loop.seen_markets,
           loop'.fed_any = loop.fed_any
    PROVE  Feeding'
  BY DEF Feeding

\* What may be sealed depends on the run, the locals, the end rule and what the provider told.
LEMMA SealableKept ==
    ASSUME Sealable, run' = run, window'.end_rule = window.end_rule, loop' = loop, told' = told
    PROVE  Sealable'
<1>1. Closed => Closed'
  BY DEF Closed, LastSaid
<1> QED BY <1>1 DEF Sealable

\* A step that takes a record of the stream or misses one.
LEMMA PublishedInv ==
    ASSUME EnvInv, NEW r
    PROVE  IsSeq(Append(history, Stamped(r)))
  BY AppendFacts DEF EnvInv

\* A delivered record counts on its fixture's number.
LEMMA DeliveredSeqs ==
    ASSUME EnvInv, NEW r \in Records, seqs' = [seqs EXCEPT ![r.fixture] = seqs[r.fixture] + 1]
    PROVE  /\ DOMAIN seqs' = { x.fixture : x \in Records }
           /\ \A f \in DOMAIN seqs' : seqs'[f] \in Nat
           /\ r.fixture \in DOMAIN seqs /\ seqs[r.fixture] \in Nat
           /\ seqs'[r.fixture] = seqs[r.fixture] + 1
           /\ OwnFixture \in DOMAIN seqs' => seqs[OwnFixture] <= seqs'[OwnFixture]
  BY DEF EnvInv

\* A tick that is fed.
LEMMA FeedInv ==
    ASSUME LiveInv, NEW r \in Records, Feed(r)
    PROVE  LiveInv'
<1> DEFINE tick == _filter_markets(TickOf(r), Allowlist)
<1>1. PICK answers \in Answers(tick) :
        /\ run' = FeedRun(run, tick, answers, None)
        /\ loop' = [loop EXCEPT !.started_ts = IF loop.started_ts = None THEN tick.ts ELSE loop.started_ts,
                                !.fed_any = TRUE, !.last_tick_seq = tick.tick_seq,
                                !.seen_markets = loop.seen_markets \cup DOMAIN tick.markets]
        /\ pc' = pc
  BY DEF Feed
<1>2. /\ pc = "streaming" /\ r.fixture = OwnFixture
      /\ history' = Append(history, Stamped(r))
      /\ seqs' = [seqs EXCEPT ![r.fixture] = seqs[r.fixture] + 1]
      /\ window' = window /\ told' = told /\ result' = result /\ card' = card
  BY DEF Feed, Deliver
<1>3. EnvInv /\ PhaseInv
  BY DEF LiveInv
<1>4. tick.tick_seq = seqs[OwnFixture]
  BY <1>2, TickNumber
<1> HIDE DEF tick
<1>5. /\ Feeding /\ ~loop.interrupted /\ result = None /\ card = None
  BY <1>2, <1>3 DEF PhaseInv
<1>6. /\ DOMAIN seqs' = { x.fixture : x \in Records }
      /\ \A f \in DOMAIN seqs' : seqs'[f] \in Nat
      /\ OwnFixture \in DOMAIN seqs /\ seqs[OwnFixture] \in Nat
      /\ seqs'[OwnFixture] = seqs[OwnFixture] + 1
  BY <1>2, <1>3, DeliveredSeqs
<1>7. /\ loop.last_tick_seq < tick.tick_seq /\ tick.tick_seq \in Nat /\ IsLoop(loop) /\ loop.last_tick_seq \in Int
  BY <1>3, <1>4, <1>6 DEF EnvInv, IsLoop
<1>8. /\ loop' = [started_ts |-> IF loop.started_ts = None THEN tick.ts ELSE loop.started_ts,
                  last_tick_seq |-> tick.tick_seq, fed_any |-> TRUE,
                  seen_markets |-> loop.seen_markets \cup DOMAIN tick.markets,
                  interrupted |-> loop.interrupted, end_rule |-> loop.end_rule]
  <2> DEFINE started == IF loop.started_ts = None THEN tick.ts ELSE loop.started_ts
             seen == loop.seen_markets \cup DOMAIN tick.markets
             q == tick.tick_seq
             fed == TRUE
  <2>1. IsLoop(loop)
    BY <1>7
  <2>2. loop' = Advanced(loop, started, fed, q, seen)
    BY <1>1 DEF Advanced
  <2> HIDE DEF started, seen, q, fed
  <2>3. Advanced(loop, started, fed, q, seen) =
          [started_ts |-> started, last_tick_seq |-> q, fed_any |-> fed,
           seen_markets |-> seen, interrupted |-> loop.interrupted, end_rule |-> loop.end_rule]
    BY <2>1, FedAssigned
  <2>4. loop' = [started_ts |-> started, last_tick_seq |-> q, fed_any |-> fed,
                 seen_markets |-> seen, interrupted |-> loop.interrupted, end_rule |-> loop.end_rule]
    BY <2>2, <2>3, Zenon
  <2> QED BY <2>4 DEF started, seen, q, fed
<1>9. /\ loop'.end_rule = loop.end_rule /\ loop'.last_tick_seq = tick.tick_seq /\ loop'.fed_any = TRUE
      /\ loop'.seen_markets = loop.seen_markets \cup DOMAIN tick.markets
      /\ loop'.interrupted = loop.interrupted /\ IsLoop(loop')
  <2>1. loop.end_rule \in EndRules /\ loop.interrupted \in BOOLEAN
    BY <1>7 DEF IsLoop
  <2>2. tick.tick_seq \in Int
    BY <1>7
  <2> QED BY <1>8, <2>1, <2>2 DEF IsLoop
<1>10. IsRun(run')
  BY <1>1 DEF FeedRun, IsRun
<1>11. EnvInv'
  <2>1. IsSeq(history') /\ IsSeq(told')
    BY <1>2, <1>3, PublishedInv DEF EnvInv
  <2>2. loop'.last_tick_seq < seqs'[OwnFixture]
    BY <1>4, <1>6, <1>9
  <2>3. {"end_rule", "min_clv_horizon_s"} \subseteq DOMAIN window' /\ window'.end_rule \in EndRules
    BY <1>2, <1>3 DEF EnvInv
  <2> QED BY <2>1, <2>2, <2>3, <1>6, <1>9, <1>10 DEF EnvInv
<1>12. PICK f : Laid(f, run) /\ Lined(f, run) /\ Complete(f, run)
  BY <1>5 DEF Feeding
<1>13. /\ Numbered(run)
       /\ \A k \in DOMAIN run.snapshots : run.snapshots[k].tick_seq <= loop.last_tick_seq
       /\ \A n \in DOMAIN run.decisions : DOMAIN run.decisions[n].state.markets \subseteq loop.seen_markets
       /\ loop.end_rule = window.end_rule
  BY <1>5 DEF Feeding
<1>14. \A k \in DOMAIN run.snapshots : run.snapshots[k].tick_seq < tick.tick_seq
  <2>1. \A k \in DOMAIN run.snapshots : run.snapshots[k].tick_seq \in Int
    BY <1>13 DEF Numbered
  <2> QED BY <2>1, <1>7, <1>13
<1>15. tick.tick_seq \in Int
  BY <1>7
<1>16. /\ Numbered(run')
       /\ \E g : Laid(g, run') /\ Lined(g, run') /\ Complete(g, run')
       /\ \A k \in DOMAIN run'.snapshots :
            \/ k \in DOMAIN run.snapshots /\ run'.snapshots[k] = run.snapshots[k]
            \/ run'.snapshots[k] = tick
       /\ \A n \in DOMAIN run'.decisions :
            \/ n \in DOMAIN run.decisions /\ run'.decisions[n] = run.decisions[n]
            \/ run'.decisions[n].state = tick
  BY <1>1, <1>12, <1>13, <1>14, <1>15, FedIsLaid
<1>17. Feeding'
  <2>1. \A k \in DOMAIN run'.snapshots : run'.snapshots[k].tick_seq <= loop'.last_tick_seq
    <3> SUFFICES ASSUME NEW k \in DOMAIN run'.snapshots PROVE run'.snapshots[k].tick_seq <= tick.tick_seq
      BY <1>9
    <3>1. CASE k \in DOMAIN run.snapshots /\ run'.snapshots[k] = run.snapshots[k]
      <4>1. run.snapshots[k].tick_seq \in Int /\ run.snapshots[k].tick_seq < tick.tick_seq
        BY <3>1, <1>13, <1>14 DEF Numbered
      <4> QED BY <3>1, <4>1, <1>15
    <3>2. CASE run'.snapshots[k] = tick
      BY <3>2, <1>15
    <3> QED BY <3>1, <3>2, <1>16
  <2>2. \A n \in DOMAIN run'.decisions : DOMAIN run'.decisions[n].state.markets \subseteq loop'.seen_markets
    <3> SUFFICES ASSUME NEW n \in DOMAIN run'.decisions
                 PROVE  DOMAIN run'.decisions[n].state.markets \subseteq loop.seen_markets \cup DOMAIN tick.markets
      BY <1>9
    <3> QED BY <1>13, <1>16
  <2>3. loop'.end_rule = window'.end_rule /\ loop'.fed_any
    BY <1>2, <1>9, <1>13
  <2> QED BY <2>1, <2>2, <2>3, <1>16 DEF Feeding
<1>18. PhaseInv'
  BY <1>1, <1>2, <1>5, <1>9, <1>17 DEF PhaseInv
<1> QED BY <1>11, <1>18 DEF LiveInv

\* A tick that the sink fails: the run is spoilt, or nothing came of it at all.
LEMMA SinkFailsInv ==
    ASSUME LiveInv, NEW r \in Records, SinkFails(r)
    PROVE  LiveInv'
<1> DEFINE tick == _filter_markets(TickOf(r), Allowlist)
<1>1. PICK answers \in Answers(tick), cut \in 1 .. 1 + Len(Agents) : run' = FeedRun(run, tick, answers, cut)
  BY DEF SinkFails
<1>2. /\ pc = "streaming"
      /\ history' = Append(history, Stamped(r))
      /\ seqs' = [seqs EXCEPT ![r.fixture] = seqs[r.fixture] + 1]
      /\ window' = window /\ told' = told /\ result' = result /\ card' = card
      /\ loop' = [loop EXCEPT !.interrupted = loop.fed_any]
      /\ pc' = IF loop.fed_any THEN "closing" ELSE "failed"
  BY DEF SinkFails, Deliver
<1> HIDE DEF tick
<1>3. EnvInv /\ PhaseInv
  BY DEF LiveInv
<1>4. Numbered(run) /\ result = None /\ card = None
  BY <1>2, <1>3 DEF PhaseInv, Feeding
<1>5. Spoilt(run')
  BY <1>1, <1>4, SinkSpoils
<1>6. loop' = [started_ts |-> loop.started_ts, last_tick_seq |-> loop.last_tick_seq, fed_any |-> loop.fed_any,
               seen_markets |-> loop.seen_markets, interrupted |-> loop.fed_any, end_rule |-> loop.end_rule]
  BY <1>2, <1>3, InterruptedAssigned DEF EnvInv
<1>7. IsLoop(loop') /\ loop'.interrupted = loop.fed_any /\ loop'.last_tick_seq = loop.last_tick_seq
  BY <1>3, <1>6 DEF EnvInv, IsLoop
<1>8. EnvInv'
  <2>1. IsSeq(history') /\ IsSeq(told')
    BY <1>2, <1>3, PublishedInv DEF EnvInv
  <2>2. /\ DOMAIN seqs' = { x.fixture : x \in Records }
        /\ \A f \in DOMAIN seqs' : seqs'[f] \in Nat
        /\ OwnFixture \in DOMAIN seqs' => seqs[OwnFixture] <= seqs'[OwnFixture]
    BY <1>2, <1>3, DeliveredSeqs
  <2>3. OwnFixture \in DOMAIN seqs' => loop'.last_tick_seq < seqs'[OwnFixture]
    <3> SUFFICES ASSUME OwnFixture \in DOMAIN seqs' PROVE loop.last_tick_seq < seqs'[OwnFixture]
      BY <1>7
    <3>1. /\ loop.last_tick_seq < seqs[OwnFixture] /\ loop.last_tick_seq \in Int /\ seqs[OwnFixture] \in Nat
      BY <1>3, <2>2 DEF EnvInv, IsLoop
    <3> QED BY <3>1, <2>2
  <2>4. IsRun(run')
    BY <1>1 DEF FeedRun, IsRun
  <2>5. {"end_rule", "min_clv_horizon_s"} \subseteq DOMAIN window' /\ window'.end_rule \in EndRules
    BY <1>2, <1>3 DEF EnvInv
  <2> QED BY <2>1, <2>2, <2>3, <2>4, <2>5, <1>7 DEF EnvInv
<1>9. PhaseInv'
  <2>1. CASE loop.fed_any
    BY <2>1, <1>2, <1>4, <1>5, <1>7 DEF PhaseInv
  <2>2. CASE ~loop.fed_any
    BY <2>2, <1>2, <1>4, <1>5, <1>7 DEF PhaseInv
  <2> QED BY <2>1, <2>2
<1> QED BY <1>8, <1>9 DEF LiveInv

\* A step that keeps the run and all of the locals but the interruption.
LEMMA StreamInv ==
    ASSUME LiveInv, pc \in {"streaming", "closing"},
           pc = "closing" => pc' = "closing" /\ loop' = loop,
           pc' \in {"streaming", "closing", "failed"},
           run' = run, window' = window, told' = told, result' = result, card' = card,
           loop' = loop \/ (pc' # "streaming" /\ \E x \in BOOLEAN : loop' = [loop EXCEPT !.interrupted = x]),
           history' = history \/ (\E r : history' = Append(history, Stamped(r))),
           seqs' = seqs \/ (\E r \in Records : seqs' = [seqs EXCEPT ![r.fixture] = seqs[r.fixture] + 1])
    PROVE  LiveInv'
<1>1. EnvInv /\ PhaseInv
  BY DEF LiveInv
<1>2. IsSeq(history') /\ IsSeq(told')
  <2>1. IsSeq(history) /\ IsSeq(told)
    BY <1>1 DEF EnvInv
  <2> QED BY <2>1, <1>1, PublishedInv
<1>3. /\ DOMAIN seqs' = { x.fixture : x \in Records }
      /\ \A f \in DOMAIN seqs' : seqs'[f] \in Nat
      /\ OwnFixture \in DOMAIN seqs' => OwnFixture \in DOMAIN seqs /\ seqs[OwnFixture] <= seqs'[OwnFixture]
  <2>1. CASE seqs' = seqs
    BY <2>1, <1>1 DEF EnvInv
  <2>2. CASE \E r \in Records : seqs' = [seqs EXCEPT ![r.fixture] = seqs[r.fixture] + 1]
    <3>1. PICK r \in Records : seqs' = [seqs EXCEPT ![r.fixture] = seqs[r.fixture] + 1]
      BY <2>2
    <3>2. /\ DOMAIN seqs' = { x.fixture : x \in Records }
          /\ \A f \in DOMAIN seqs' : seqs'[f] \in Nat
          /\ OwnFixture \in DOMAIN seqs' => seqs[OwnFixture] <= seqs'[OwnFixture]
      BY <3>1, <1>1, DeliveredSeqs
    <3> QED BY <3>2, <1>1 DEF EnvInv
  <2> QED BY <2>1, <2>2
<1>4. /\ IsLoop(loop') /\ loop'.last_tick_seq = loop.last_tick_seq /\ loop'.end_rule = loop.end_rule
      /\ loop'.seen_markets = loop.seen_markets /\ loop'.fed_any = loop.fed_any
  <2>1. CASE loop' = loop
    BY <2>1, <1>1 DEF EnvInv
  <2>2. CASE \E x \in BOOLEAN : loop' = [loop EXCEPT !.interrupted = x]
    <3>1. PICK x \in BOOLEAN : loop' = [loop EXCEPT !.interrupted = x]
      BY <2>2
    <3>2. IsLoop(loop)
      BY <1>1 DEF EnvInv
    <3>3. loop' = [started_ts |-> loop.started_ts, last_tick_seq |-> loop.last_tick_seq, fed_any |-> loop.fed_any,
                   seen_markets |-> loop.seen_markets, interrupted |-> x, end_rule |-> loop.end_rule]
      BY <3>1, <3>2, InterruptedAssigned
    <3> QED BY <3>2, <3>3 DEF IsLoop
  <2> QED BY <2>1, <2>2
<1>5. EnvInv'
  <2>1. OwnFixture \in DOMAIN seqs' => loop'.last_tick_seq < seqs'[OwnFixture]
    <3> SUFFICES ASSUME OwnFixture \in DOMAIN seqs' PROVE loop.last_tick_seq < seqs'[OwnFixture]
      BY <1>4
    <3>1. /\ loop.last_tick_seq < seqs[OwnFixture] /\ loop.last_tick_seq \in Int
          /\ seqs[OwnFixture] \in Nat /\ seqs'[OwnFixture] \in Nat
      BY <1>1, <1>3 DEF EnvInv, IsLoop
    <3> QED BY <3>1, <1>3
  <2>2. IsRun(run') /\ {"end_rule", "min_clv_horizon_s"} \subseteq DOMAIN window' /\ window'.end_rule \in EndRules
    BY <1>1 DEF EnvInv
  <2> QED BY <2>1, <2>2, <1>2, <1>3, <1>4 DEF EnvInv
<1>6. result = None /\ card = None
  BY <1>1 DEF PhaseInv
<1>7. Feeding => Feeding'
  BY <1>4, FeedingKept
<1>8. PhaseInv'
  <2>1. CASE pc = "streaming"
    <3>1. Feeding' /\ ~loop.interrupted
      BY <2>1, <1>1, <1>7 DEF PhaseInv
    <3> QED BY <3>1, <1>6 DEF PhaseInv
  <2>2. CASE pc = "closing"
    <3>1. Feeding \/ (Spoilt(run) /\ loop.interrupted)
      BY <2>2, <1>1 DEF PhaseInv
    <3>2. Feeding' \/ (Spoilt(run') /\ loop'.interrupted)
      BY <3>1, <2>2, <1>7
    <3> QED BY <3>2, <2>2, <1>6 DEF PhaseInv
  <2> QED BY <2>1, <2>2
<1> QED BY <1>5, <1>8 DEF LiveInv

\* No close is wanted: an interrupted pre-match window gives up its rule.
LEMMA NoCloseInv ==
    ASSUME LiveInv, NoClose
    PROVE  LiveInv'
<1>1. EnvInv /\ PhaseInv
  BY DEF LiveInv
<1> DEFINE rule == IF loop.interrupted /\ loop.end_rule = "pre_match" THEN "manual_stop" ELSE loop.end_rule
<1>2. /\ pc = "closing" /\ pc' = "finalize"
      /\ loop.interrupted \/ window.end_rule # "pre_match" \/ ~loop.fed_any
      /\ loop' = [loop EXCEPT !.end_rule = rule]
      /\ window' = window /\ history' = history /\ told' = told /\ seqs' = seqs /\ run' = run
      /\ result' = result /\ card' = card
  BY DEF NoClose
<1>3. IsLoop(loop) /\ rule \in EndRules
  BY <1>1 DEF EnvInv, IsLoop, EndRules
<1> HIDE DEF rule
<1>4. loop' = [started_ts |-> loop.started_ts, last_tick_seq |-> loop.last_tick_seq, fed_any |-> loop.fed_any,
               seen_markets |-> loop.seen_markets, interrupted |-> loop.interrupted, end_rule |-> rule]
  BY <1>2, <1>3, RuleAssigned
<1>5. IsLoop(loop') /\ loop'.end_rule = rule /\ loop'.last_tick_seq = loop.last_tick_seq
  BY <1>3, <1>4 DEF IsLoop
<1>6. EnvInv'
  BY <1>1, <1>2, <1>5 DEF EnvInv
<1>7. result = None /\ card = None
  BY <1>1, <1>2 DEF PhaseInv
<1>8. Sealable' \/ Spoilt(run')
  <2>1. CASE Feeding
    <3>1. \E f : Laid(f, run') /\ Lined(f, run')
      BY <2>1, <1>2 DEF Feeding
    <3>2. ASSUME TrueClv(rule) PROVE window.end_rule = "pre_match" /\ run.decisions = <<>>
      <4>1. rule = "pre_match"
        BY <3>2 DEF TrueClv
      <4>2. loop.end_rule = "pre_match" /\ ~loop.interrupted
        BY <4>1 DEF rule
      <4> QED BY <4>2, <2>1, <1>2 DEF Feeding
    <3> QED BY <2>1, <3>1, <3>2, <1>2, <1>5 DEF Feeding, Sealable
  <2>2. CASE Spoilt(run)
    BY <2>2, <1>2
  <2> QED BY <2>1, <2>2, <1>1, <1>2 DEF PhaseInv
<1>9. PhaseInv'
  BY <1>2, <1>7, <1>8 DEF PhaseInv
<1> QED BY <1>6, <1>9 DEF LiveInv

\* The close is fetched: the rule stays only if it covers every market that was seen.
LEMMA FetchCloseInv ==
    ASSUME LiveInv, FetchClose
    PROVE  LiveInv'
<1>1. EnvInv /\ PhaseInv
  BY DEF LiveInv
<1>2. /\ pc = "closing" /\ pc' = "finalize" /\ ~loop.interrupted /\ window.end_rule = "pre_match"
      /\ window' = window /\ history' = history /\ told' = history /\ seqs' = seqs
      /\ result' = result /\ card' = card
  BY DEF FetchClose
<1> DEFINE CloseOf(updates) ==
             IF updates = None THEN None
             ELSE _reconstruct_closing_state(updates, Allowlist, ClosingTickSeq(loop.last_tick_seq))
           RuleOf(closing) == IF CompleteClose(closing) THEN loop.end_rule ELSE "manual_stop"
<1>3. PICK updates \in FetchResults(OwnFixture) :
        /\ run' = IF CloseOf(updates) = None THEN run ELSE FeedClosingRun(run, CloseOf(updates))
        /\ loop' = [loop EXCEPT !.end_rule = RuleOf(CloseOf(updates))]
  BY DEF FetchClose
<1> DEFINE closing == CloseOf(updates)
           rule == RuleOf(closing)
           q == loop.last_tick_seq + 1
<1>4. Feeding /\ result = None /\ card = None
  BY <1>1, <1>2 DEF PhaseInv
<1>5. /\ Numbered(run)
      /\ \A k \in DOMAIN run.snapshots : run.snapshots[k].tick_seq <= loop.last_tick_seq
      /\ \A n \in DOMAIN run.decisions : DOMAIN run.decisions[n].state.markets \subseteq loop.seen_markets
      /\ loop.end_rule = "pre_match"
  BY <1>2, <1>4 DEF Feeding
<1>6. PICK f : Laid(f, run) /\ Lined(f, run) /\ Complete(f, run)
  BY <1>4 DEF Feeding
<1>7. IsLoop(loop) /\ IsRun(run) /\ IsSeq(history) /\ loop.last_tick_seq \in Int /\ rule \in EndRules
  BY <1>1 DEF EnvInv, IsLoop, EndRules
<1>8. updates # None /\ closing # None =>
        closing = _reconstruct_closing_state(updates, Allowlist, q)
  BY DEF ClosingTickSeq
<1>9. closing # None => updates # None
  OBVIOUS
<1>10. TrueClv(rule) => closing # None /\ loop.seen_markets \subseteq DOMAIN closing.markets
  BY DEF TrueClv, CompleteClose
<1> HIDE DEF closing, rule, q
<1>11. loop' = [started_ts |-> loop.started_ts, last_tick_seq |-> loop.last_tick_seq, fed_any |-> loop.fed_any,
                seen_markets |-> loop.seen_markets, interrupted |-> loop.interrupted, end_rule |-> rule]
  BY <1>3, <1>7, RuleAssigned DEF rule, closing
<1>12. IsLoop(loop') /\ loop'.end_rule = rule /\ loop'.last_tick_seq = loop.last_tick_seq
  BY <1>7, <1>11 DEF IsLoop
<1>13. CASE closing = None
  <2>1. run' = run
    BY <1>3, <1>13 DEF closing
  <2>2. EnvInv'
    BY <2>1, <1>1, <1>2, <1>12 DEF EnvInv
  <2>3. Sealable'
    BY <2>1, <1>2, <1>5, <1>6, <1>10, <1>12, <1>13 DEF Sealable
  <2>4. PhaseInv'
    BY <2>3, <1>2, <1>4 DEF PhaseInv
  <2> QED BY <2>2, <2>4 DEF LiveInv
<1>14. CASE closing # None
  <2>1. run' = FeedClosingRun(run, closing)
    BY <1>3, <1>14 DEF closing
  <2>2. /\ closing.tick_seq = q
        /\ \A m \in DOMAIN closing.markets : \E i \in DOMAIN history :
             LastSaid(history, m, i) /\ closing.markets[m] = MarketOf(history[i])
    BY <1>7, <1>8, <1>9, <1>14, CloseIsLast
  <2>3. closing.tick_seq \in Int /\ \A k \in DOMAIN run.snapshots : run.snapshots[k].tick_seq < closing.tick_seq
    <3>1. \A k \in DOMAIN run.snapshots : run.snapshots[k].tick_seq \in Int
      BY <1>5 DEF Numbered
    <3> QED BY <3>1, <2>2, <1>5, <1>7 DEF q
  <2>4. /\ IsRun(run') /\ Numbered(run')
        /\ \E g : Laid(g, run') /\ Lined(g, run')
        /\ run'.decisions = run.decisions
        /\ Len(run'.snapshots) = Len(run.snapshots) + 1
        /\ run'.snapshots[Len(run.snapshots) + 1] = closing
    BY <2>1, <2>3, <1>5, <1>6, <1>7, ClosingIsLaid
  <2>5. EnvInv'
    BY <2>4, <1>1, <1>2, <1>12 DEF EnvInv
  <2>6. ASSUME TrueClv(rule) PROVE Closed'
    <3>1. Len(run.snapshots) \in Nat
      BY <1>5, SeqFacts DEF Numbered
    <3>2. Len(run'.snapshots) # 0 /\ run'.snapshots[Len(run'.snapshots)] = closing
      BY <2>4, <3>1
    <3>3. \A d \in DOMAIN run'.decisions : DOMAIN run'.decisions[d].state.markets \subseteq DOMAIN closing.markets
      BY <2>4, <2>6, <1>5, <1>10
    <3>4. \A m \in DOMAIN closing.markets : \E i \in DOMAIN told' :
            LastSaid(told', m, i) /\ closing.markets[m] = MarketOf(told'[i])
      BY <2>2, <1>2
    <3> QED BY <3>2, <3>3, <3>4 DEF Closed
  <2>7. Sealable'
    BY <2>4, <2>6, <1>2, <1>12 DEF Sealable
  <2>8. PhaseInv'
    BY <2>7, <1>2, <1>4 DEF PhaseInv
  <2> QED BY <2>5, <2>8 DEF LiveInv
<1> QED BY <1>13, <1>14

\* The run is sealed: a spoilt one would have been refused.
LEMMA FinalizeInv ==
    ASSUME LiveInv, Finalize
    PROVE  LiveInv'
<1>1. EnvInv /\ PhaseInv
  BY DEF LiveInv
<1>2. /\ pc = "finalize" /\ pc' = "anchor" /\ result' # None
      /\ result' = FinalizeRun(run, "live", loop.end_rule, window.min_clv_horizon_s)
      /\ history' = history /\ told' = told /\ seqs' = seqs /\ run' = run /\ loop' = loop /\ card' = card
  BY DEF Finalize
<1>3. /\ DOMAIN window' = DOMAIN window
      /\ window'.end_rule = window.end_rule /\ window'.min_clv_horizon_s = window.min_clv_horizon_s
  <2>1. \E x : window' = [window EXCEPT !.started_ts = x]
    BY DEF Finalize
  <2> QED BY <2>1, <1>1 DEF EnvInv
<1>4. EnvInv'
  BY <1>1, <1>2, <1>3 DEF EnvInv
<1>5. ~Spoilt(run)
  <2>1. loop.end_rule \in EndRules
    BY <1>1 DEF EnvInv, IsLoop
  <2> QED BY <2>1, <1>2, SpoiltIsRefused
<1>6. Sealable'
  BY <1>1, <1>2, <1>3, <1>5, SealableKept DEF PhaseInv
<1>7. card = None
  BY <1>1, <1>2 DEF PhaseInv
<1>8. result' = FinalizeRun(run', "live", loop'.end_rule, window'.min_clv_horizon_s)
  BY <1>2, <1>3
<1>9. PhaseInv'
  BY <1>2, <1>6, <1>7, <1>8 DEF PhaseInv
<1> QED BY <1>4, <1>9 DEF LiveInv

\* What follows the sealing, and a sealing that fails, leave everything but the card.
LEMMA SealedInv ==
    ASSUME LiveInv, pc \in {"finalize", "anchor"}, pc' \in {"done", "failed"},
           card' = card \/ pc' = "done",
           window' = window, history' = history, told' = told, seqs' = seqs, run' = run, loop' = loop,
           result' = result
    PROVE  LiveInv'
<1>1. EnvInv'
  BY DEF LiveInv, EnvInv
<1>2. Sealable => Sealable'
  BY SealableKept
<1>3. card = None
  BY DEF LiveInv, PhaseInv
<1>4. PhaseInv'
  BY <1>2, <1>3 DEF LiveInv, PhaseInv
<1> QED BY <1>1, <1>4 DEF LiveInv

\* The provider and its clock go on, and the runner does nothing.
LEMMA ProviderInv ==
    ASSUME LiveInv, pc' = pc, window' = window, told' = told, seqs' = seqs, run' = run, loop' = loop,
           result' = result, card' = card,
           history' = history \/ \E r : history' = Append(history, Stamped(r))
    PROVE  LiveInv'
<1>1. EnvInv'
  <2>1. IsSeq(history')
    BY PublishedInv DEF LiveInv, EnvInv
  <2> QED BY <2>1 DEF LiveInv, EnvInv
<1>2. (Sealable => Sealable') /\ (Feeding => Feeding')
  BY SealableKept, FeedingKept
<1>3. PhaseInv'
  BY <1>2 DEF LiveInv, PhaseInv
<1> QED BY <1>1, <1>3 DEF LiveInv

\* Every step keeps the invariant.
LEMMA NextInv == LiveInv /\ [Next]_vars => LiveInv'
<1> SUFFICES ASSUME LiveInv, [Next]_vars PROVE LiveInv'
  OBVIOUS
<1>1. CASE Advance
  BY <1>1, ProviderInv DEF Advance
<1>2. CASE RequestStop
  <2>1. /\ pc = "streaming" /\ pc' = pc /\ run' = run /\ window' = window /\ result' = result
        /\ card' = card /\ loop' = loop /\ told' = told /\ history' = history /\ seqs' = seqs
    BY <1>2 DEF RequestStop
  <2> QED BY <2>1, StreamInv
<1>3. ASSUME NEW r \in Records, Miss(r) PROVE LiveInv'
  BY <1>3, ProviderInv DEF Miss
<1>4. ASSUME NEW r \in Records, OtherFixture(r) PROVE LiveInv'
  <2>1. /\ pc = "streaming" /\ pc' = pc /\ run' = run /\ window' = window /\ result' = result
        /\ card' = card /\ loop' = loop /\ told' = told /\ history' = Append(history, Stamped(r))
        /\ seqs' = [seqs EXCEPT ![r.fixture] = seqs[r.fixture] + 1]
    BY <1>4 DEF OtherFixture, Deliver
  <2> QED BY <2>1, StreamInv
<1>5. ASSUME NEW r \in Records, EndsWindow(r) PROVE LiveInv'
  <2>1. /\ pc = "streaming" /\ pc' = "closing" /\ run' = run /\ window' = window /\ result' = result
        /\ card' = card /\ loop' = loop /\ told' = told /\ history' = Append(history, Stamped(r))
        /\ seqs' = [seqs EXCEPT ![r.fixture] = seqs[r.fixture] + 1]
    BY <1>5 DEF EndsWindow, Deliver
  <2> QED BY <2>1, StreamInv
<1>6. ASSUME NEW r \in Records, Feed(r) PROVE LiveInv'
  BY <1>6, FeedInv
<1>7. ASSUME NEW r \in Records, SinkFails(r) PROVE LiveInv'
  BY <1>7, SinkFailsInv
<1>8. ASSUME NEW x \in BOOLEAN, Break(x) PROVE LiveInv'
  <2>1. /\ pc = "streaming" /\ pc' \in {"closing", "failed"} /\ run' = run /\ window' = window
        /\ result' = result /\ card' = card /\ told' = told /\ history' = history /\ seqs' = seqs
        /\ loop' = [loop EXCEPT !.interrupted = x /\ loop.fed_any]
    BY <1>8 DEF Break
  <2>2. (x /\ loop.fed_any) \in BOOLEAN
    OBVIOUS
  <2>3. \E y \in BOOLEAN : loop' = [loop EXCEPT !.interrupted = y]
    BY <2>1, <2>2
  <2> QED BY <2>1, <2>3, StreamInv
<1>9. CASE StreamEnds
  BY <1>8, <1>9 DEF StreamEnds
<1>10. CASE StreamBreaks
  BY <1>8, <1>10 DEF StreamBreaks
<1>11. CASE HonourStop
  BY <1>8, <1>11 DEF HonourStop
<1>12. CASE NoClose
  BY <1>12, NoCloseInv
<1>13. CASE FetchClose
  BY <1>13, FetchCloseInv
<1>14. CASE Finalize
  BY <1>14, FinalizeInv
<1>15. CASE FinalizeFails
  <2>1. /\ pc = "finalize" /\ pc' = "failed" /\ card' = card /\ window' = window /\ history' = history
        /\ told' = told /\ seqs' = seqs /\ run' = run /\ loop' = loop /\ result' = result
    BY <1>15 DEF FinalizeFails
  <2> QED BY <2>1, SealedInv
<1>16. ASSUME NEW signature \in Signatures, Certify(signature) PROVE LiveInv'
  <2>1. /\ pc = "anchor" /\ pc' = "done" /\ window' = window /\ history' = history
        /\ told' = told /\ seqs' = seqs /\ run' = run /\ loop' = loop /\ result' = result
    BY <1>16 DEF Certify
  <2> QED BY <2>1, SealedInv
<1>17. CASE AnchorFails
  <2>1. /\ pc = "anchor" /\ pc' = "failed" /\ card' = card /\ window' = window /\ history' = history
        /\ told' = told /\ seqs' = seqs /\ run' = run /\ loop' = loop /\ result' = result
    BY <1>17 DEF AnchorFails
  <2> QED BY <2>1, SealedInv
<1>18. CASE UNCHANGED vars
  BY <1>18, ProviderInv DEF vars
<1> QED BY <1>1, <1>2, <1>3, <1>4, <1>5, <1>6, <1>7, <1>9, <1>10, <1>11, <1>12, <1>13, <1>14, <1>15, <1>16,
           <1>17, <1>18 DEF Next

(* Until a run is sealed its events, snapshots and decisions are laid out as one feed made them, *)
(* or the sink has failed it and it cannot be sealed; a sealed run is the one the runner had.    *)
THEOREM RunLaidOut == Spec => []LiveInv
<1>1. Init => LiveInv
  BY InitInv
<1>2. LiveInv /\ [Next]_vars => LiveInv'
  BY NextInv
<1> QED BY <1>1, <1>2, PTL DEF Spec

------------------------------------------------------------------------------
(* What is ranked is measured against the close *)

\* A side that is not refused is priced.
LEMMA ValidMarket ==
    ASSUME NEW state, NEW market, NEW side, NEW reasons, \A k \in 1..3 : reasons[k] # None,
           _validate_market(state, market, side, reasons) = None
    PROVE  /\ market \in DOMAIN state.markets /\ ~state.markets[market].suspended
           /\ side \in DOMAIN state.markets[market].stable_prob_bps
  BY DEF _validate_market

\* An outcome with a CLV compares an entry and a close that are both priced.
LEMMA RecomputeScored ==
    ASSUME NEW entry, NEW action, NEW closing, NEW mode, NEW redo, redo = recompute(entry, action, closing, mode),
           redo.valid, redo.clv_bps \notin {None, PENDING},
           NEW m, m = action.market_key, NEW side, side = action.side
    PROVE  /\ m # None /\ closing # None
           /\ m \in DOMAIN entry.markets
           /\ m \in DOMAIN closing.markets /\ ~closing.markets[m].suspended
           /\ side \in DOMAIN closing.markets[m].stable_prob_bps
           /\ redo.clv_bps = Bps(closing.markets[m].stable_prob_bps[side]
                                   - entry.markets[m].stable_prob_bps[side])
<1> DEFINE refused == _validate_market(entry, m, side, EntryReasons)
           unclosed == _validate_market(closing, m, side, ClosingReasons)
           kelly == _kelly_fraction(entry.markets[m], side)
           clv == closing.markets[m].stable_prob_bps[side] - entry.markets[m].stable_prob_bps[side]
           pending == Outcome(PENDING, kelly, TRUE, "pending_closing")
           scored == Outcome(Bps(clv), kelly, TRUE, compute_clv_check(clv))
<1>1. \A r, k : _invalid(r, k).valid = FALSE
  BY DEF _invalid, Outcome
<1>3. action.type # "WAIT" /\ m # None /\ action.side # None
  <2>1. CASE action.type = "WAIT"
    <3>1. redo = Outcome(PENDING, 0, TRUE, "wait_unscored")
      BY <2>1 DEF recompute
    <3>2. redo.clv_bps = PENDING
      BY <3>1 DEF Outcome
    <3> QED BY <3>2
  <2>2. CASE action.type # "WAIT" /\ m = None
    <3>1. redo = _invalid("market_key_missing", 0)
      BY <2>2 DEF recompute
    <3> QED BY <3>1, <1>1
  <2>3. CASE action.type # "WAIT" /\ m # None /\ action.side = None
    <3>1. redo = _invalid("side_missing", 0)
      BY <2>3 DEF recompute
    <3> QED BY <3>1, <1>1
  <2> QED BY <2>1, <2>2, <2>3
<1>4. redo = IF refused # None THEN _invalid(refused, 0)
             ELSE IF closing = None
                  THEN IF mode = "live" THEN pending ELSE _invalid("closing_missing", kelly)
             ELSE IF unclosed # None THEN _invalid(unclosed, kelly)
             ELSE scored
  BY <1>3 DEF recompute
<1>2. pending.clv_bps = PENDING /\ scored.clv_bps = Bps(clv)
  BY DEF Outcome
<1> HIDE DEF refused, unclosed, kelly, clv, pending, scored
<1>5. refused = None /\ closing # None /\ unclosed = None /\ redo = scored
  BY <1>1, <1>2, <1>4
<1>6. \A k \in 1..3 : EntryReasons[k] # None /\ ClosingReasons[k] # None
  BY AbsentAssumption
<1>7. m \in DOMAIN entry.markets
  BY <1>5, <1>6, ValidMarket DEF refused
<1>8. m \in DOMAIN closing.markets /\ ~closing.markets[m].suspended
      /\ side \in DOMAIN closing.markets[m].stable_prob_bps
  BY <1>5, <1>6, ValidMarket DEF unclosed
<1> QED BY <1>2, <1>3, <1>5, <1>7, <1>8 DEF clv

\* The row of a decision before the window relabels it.
PlainRow(d, r, mode) ==
  LET redo == recompute(d.state, d.action, ClosingOf(_closing_snapshots(r.snapshots), d.action.market_key), mode)
  IN  [agent_id |-> d.agent, tick_seq |-> d.state.tick_seq, proof_mode |-> ProofMode(d.agent),
       clv_bps |-> redo.clv_bps, window_clv_bps |-> None, valid |-> redo.valid,
       reason |-> redo.reason, kelly_fraction |-> redo.kelly_fraction, action |-> d.action]

\* How the window relabels it.
Relabelled(row, plain, entry_ts, end_ts, rule, horizon) ==
  \/ row = plain /\ (is_scored(plain) => TrueClv(rule))
  \/ /\ is_scored(plain) /\ is_pending_horizon(entry_ts, end_ts, horizon)
     /\ row = [plain EXCEPT !.reason = "pending_horizon", !.clv_bps = PENDING]
  \/ /\ is_scored(plain) /\ ~TrueClv(rule)
     /\ row = [plain EXCEPT !.window_clv_bps = plain.clv_bps, !.clv_bps = None]

\* The rows of finalize are of these forms.
LEMMA RowForms ==
    ASSUME NEW d, NEW r, NEW mode, NEW end_ts, NEW rule \in EndRules, NEW horizon
    PROVE  Relabelled(ScoreRow(d, r, mode, end_ts, rule, horizon), PlainRow(d, r, mode),
                      d.state.ts, end_ts, rule, horizon)
<1>1. rule # None
  BY AbsentAssumption
<1> DEFINE p == PlainRow(d, r, mode)
<1>2. ScoreRow(d, r, mode, end_ts, rule, horizon) =
        IF rule = None \/ ~is_scored(p) THEN p
        ELSE IF is_pending_horizon(d.state.ts, end_ts, horizon)
             THEN [p EXCEPT !.reason = "pending_horizon", !.clv_bps = PENDING]
        ELSE IF ~TrueClv(rule) THEN [p EXCEPT !.window_clv_bps = p.clv_bps, !.clv_bps = None]
        ELSE p
  BY DEF ScoreRow, PlainRow
<1> DEFINE row == ScoreRow(d, r, mode, end_ts, rule, horizon)
<1> HIDE DEF p
<1>4. row = IF rule = None \/ ~is_scored(p) THEN p
            ELSE IF is_pending_horizon(d.state.ts, end_ts, horizon)
                 THEN [p EXCEPT !.reason = "pending_horizon", !.clv_bps = PENDING]
            ELSE IF ~TrueClv(rule) THEN [p EXCEPT !.window_clv_bps = p.clv_bps, !.clv_bps = None]
            ELSE p
  BY <1>2, Zenon
<1> HIDE DEF row
<1>5. Relabelled(row, p, d.state.ts, end_ts, rule, horizon)
  BY <1>1, <1>4 DEF Relabelled
<1> QED BY <1>5 DEF row, p

\* Only a row that nothing relabelled is ranked.
LEMMA RankedRow ==
    ASSUME NEW d, NEW r, NEW mode, NEW end_ts, NEW rule \in EndRules, NEW horizon,
           NEW row, row = ScoreRow(d, r, mode, end_ts, rule, horizon), is_scored(row)
    PROVE  TrueClv(rule) /\ row = PlainRow(d, r, mode)
<1> DEFINE plain == PlainRow(d, r, mode)
<1>1. DOMAIN plain = {"agent_id", "tick_seq", "proof_mode", "clv_bps", "window_clv_bps", "valid", "reason",
                      "kelly_fraction", "action"}
  BY DEF PlainRow
<1>0. Relabelled(row, plain, d.state.ts, end_ts, rule, horizon)
  BY RowForms
<1> HIDE DEF plain
<1>2. \/ row = plain /\ (is_scored(plain) => TrueClv(rule))
      \/ row = [plain EXCEPT !.reason = "pending_horizon", !.clv_bps = PENDING]
      \/ row = [plain EXCEPT !.window_clv_bps = plain.clv_bps, !.clv_bps = None]
  BY <1>0 DEF Relabelled
<1>3. CASE row = [plain EXCEPT !.reason = "pending_horizon", !.clv_bps = PENDING]
  <2>1. row.clv_bps = PENDING
    BY <1>1, <1>3
  <2> QED BY <2>1 DEF is_scored
<1>4. CASE row = [plain EXCEPT !.window_clv_bps = plain.clv_bps, !.clv_bps = None]
  <2>1. row.clv_bps = None
    BY <1>1, <1>4
  <2> QED BY <2>1 DEF is_scored
<1>5. CASE row = plain /\ (is_scored(plain) => TrueClv(rule))
  BY <1>5 DEF plain
<1> QED BY <1>2, <1>3, <1>4, <1>5

\* What is sealed of a run.
EndTs(r) == IF r.snapshots = <<>> THEN None ELSE Last(r.snapshots).ts
ConfigOf(r, rule, horizon) == [end_rule |-> rule, min_clv_horizon_s |-> horizon, window_end_ts |-> EndTs(r)]
SealedEvents(r, rule, horizon) ==
  IF r.snapshots = <<>> THEN r.events
  ELSE Append(r.events, Event(r.sequence_no, "window_config", None, None, ConfigOf(r, rule, horizon)))

\* The fields of a sealed run.
LEMMA SealedFields ==
    ASSUME NEW r, NEW mode, NEW rule \in EndRules, NEW horizon,
           NEW sealed, sealed = FinalizeRun(r, mode, rule, horizon), sealed # None
    PROVE  /\ compute_evidence_hash(SealedEvents(r, rule, horizon)) # None
           /\ sealed.run_id = "run" /\ sealed.source_mode = mode /\ sealed.agent_ids = Agents
           /\ sealed.run_events = SealedEvents(r, rule, horizon)
           /\ sealed.evidence_hash = compute_evidence_hash(SealedEvents(r, rule, horizon))
           /\ sealed.score_rows = [i \in DOMAIN r.decisions |->
                                     ScoreRow(r.decisions[i], r, mode, EndTs(r), rule, horizon)]
<1>1. rule # None
  BY AbsentAssumption
<1> DEFINE end_ts == EndTs(r)
           events == SealedEvents(r, rule, horizon)
           hash == compute_evidence_hash(events)
           rows == [i \in DOMAIN r.decisions |-> ScoreRow(r.decisions[i], r, mode, end_ts, rule, horizon)]
           modes == [a \in Range(Agents) |-> ProofMode(a)]
<1>2. FinalizeRun(r, mode, rule, horizon) =
        IF hash = None THEN None
        ELSE [run_id |-> "run", source_mode |-> mode, agent_ids |-> Agents, run_events |-> events,
              score_rows |-> rows, evidence_hash |-> hash, proof_mode_map |-> modes]
  BY <1>1 DEF FinalizeRun, SealedEvents, ConfigOf, EndTs
<1> HIDE DEF rows, modes, hash, events
<1>3. hash # None /\ sealed = [run_id |-> "run", source_mode |-> mode, agent_ids |-> Agents, run_events |-> events,
                               score_rows |-> rows, evidence_hash |-> hash, proof_mode_map |-> modes]
  BY <1>2
<1> QED BY <1>3 DEF hash, events, rows

\* The close of a market that the last snapshot carries is that snapshot.
LEMMA LastCloses ==
    ASSUME NEW s, IsSeq(s), Len(s) # 0, NEW m, m \in DOMAIN s[Len(s)].markets, m # None
    PROVE  ClosingOf(_closing_snapshots(s), m) = s[Len(s)]
<1> DEFINE n == Len(s)
           Final(i) == m \in DOMAIN s[i].markets /\ \A j \in DOMAIN s : m \in DOMAIN s[j].markets => j <= i
<1>1. n \in Nat /\ n \in DOMAIN s /\ DOMAIN s = 1..n
  BY SeqFacts
<1>2. \A i \in DOMAIN s : Final(i) <=> i = n
  BY <1>1
<1>3. (CHOOSE i \in DOMAIN s : Final(i)) = n
  <2> HIDE DEF Final
  <2> QED BY <1>1, <1>2
<1>4. m \in UNION { DOMAIN s[i].markets : i \in DOMAIN s }
  BY <1>1
<1>5. _closing_snapshots(s)[m] = s[CHOOSE i \in DOMAIN s : Final(i)]
  BY <1>4 DEF _closing_snapshots
<1>6. DOMAIN _closing_snapshots(s) = UNION { DOMAIN s[i].markets : i \in DOMAIN s }
  BY DEF _closing_snapshots
<1> HIDE DEF Final
<1> QED BY <1>3, <1>4, <1>5, <1>6 DEF ClosingOf

\* A side of an open market is priced at the provider's percentage.
LEMMA MarketPriced ==
    ASSUME NEW x, ~MarketOf(x).suspended
    PROVE  /\ x.pct # None
           /\ \A side \in DOMAIN MarketOf(x).stable_prob_bps : MarketOf(x).stable_prob_bps[side] = 100 * x.pct
<1> DEFINE sides == IF x.pct = None THEN {} ELSE {1}
           probs == [s \in sides |-> 100 * x.pct]
           prices == [s \in sides |-> 100000 \div x.pct]
           halted == x.pct = None
<1>1. MarketOf(x) = [stable_prob_bps |-> probs, stable_price |-> prices, suspended |-> halted]
  BY DEF MarketOf
<1>2. \A side \in DOMAIN probs : probs[side] = 100 * x.pct
  OBVIOUS
<1> HIDE DEF probs, prices, halted
<1>3. MarketOf(x).stable_prob_bps = probs
  BY <1>1
<1>4. MarketOf(x).suspended = halted
  BY <1>1
<1>5. ~halted
  BY <1>4, Zenon
<1> QED BY <1>2, <1>3, <1>5 DEF halted

\* The provider's close is what it said last.
LEMMA LastSaidIsClose ==
    ASSUME IsSeq(told), NEW m, NEW i \in DOMAIN told, LastSaid(told, m, i)
    PROVE  ProviderClose(m) = told[i].pct
<1> DEFINE said == { j \in DOMAIN told : /\ told[j].fixture = OwnFixture
                                         /\ told[j].market = m
                                         /\ ~told[j].in_running }
<1>1. i \in said /\ \A j \in said : j <= i
  BY DEF LastSaid
<1>2. \A j \in said : j \in Nat
  BY SeqFacts
<1>3. (CHOOSE j \in said : \A k \in said : k <= j) = i
  <2> HIDE DEF said
  <2>1. \A j \in said : (\A k \in said : k <= j) <=> j = i
    BY <1>1, <1>2
  <2> QED BY <1>1, <2>1
<1> QED BY <1>1, <1>3 DEF ProviderClose

\* The only snapshot of the row's tick is its entry, and the row says the distance from there to the close.
MeasuredFrom(entry, row) ==
  /\ { s \in Range(run.snapshots) : s.tick_seq = row.tick_seq } = {entry}
  /\ row.action.market_key \in DOMAIN entry.markets
  /\ window.end_rule = "pre_match"
  /\ ProviderClose(row.action.market_key) # None
  /\ row.clv_bps = Bps(100 * ProviderClose(row.action.market_key)
                         - entry.markets[row.action.market_key].stable_prob_bps[row.action.side])

\* A ranked row of a sealed run is measured so.
LEMMA RankedIsClose ==
    ASSUME LiveInv, result # None, NEW i \in DOMAIN result.score_rows, NEW row, row = result.score_rows[i],
           is_scored(row)
    PROVE  \E entry : MeasuredFrom(entry, row)
<1> DEFINE rule == loop.end_rule
           horizon == window.min_clv_horizon_s
           end_ts == EndTs(run)
           d == run.decisions[i]
           m == d.action.market_key
           side == d.action.side
           closing == ClosingOf(_closing_snapshots(run.snapshots), m)
           redo == recompute(d.state, d.action, closing, "live")
<1>1. EnvInv /\ Sealable /\ result = FinalizeRun(run, "live", rule, horizon) /\ rule \in EndRules /\ IsSeq(told)
  BY DEF LiveInv, PhaseInv, EnvInv, IsLoop
<1>2. result.score_rows = [k \in DOMAIN run.decisions |->
                             ScoreRow(run.decisions[k], run, "live", end_ts, rule, horizon)]
  <2> HIDE DEF rule, horizon
  <2> QED BY <1>1, SealedFields DEF end_ts
<1>3. i \in DOMAIN run.decisions /\ row = ScoreRow(d, run, "live", end_ts, rule, horizon)
  BY <1>2
<1> HIDE DEF rule, horizon, end_ts
<1>4. TrueClv(rule) /\ row = PlainRow(d, run, "live")
  BY <1>1, <1>3, RankedRow
<1>5. /\ row.tick_seq = d.state.tick_seq /\ row.action = d.action
      /\ row.clv_bps = redo.clv_bps /\ row.valid = redo.valid
  BY <1>4 DEF PlainRow
<1> HIDE DEF d, closing
<1>6. redo.valid /\ redo.clv_bps \notin {None, PENDING}
  BY <1>5 DEF is_scored
<1>7. /\ m # None /\ closing # None
      /\ m \in DOMAIN d.state.markets
      /\ m \in DOMAIN closing.markets /\ ~closing.markets[m].suspended
      /\ side \in DOMAIN closing.markets[m].stable_prob_bps
      /\ redo.clv_bps = Bps(closing.markets[m].stable_prob_bps[side] - d.state.markets[m].stable_prob_bps[side])
  <2> HIDE DEF redo
  <2>1. redo = recompute(d.state, d.action, closing, "live")
    BY DEF redo
  <2> HIDE DEF m, side
  <2>2. m = d.action.market_key /\ side = d.action.side
    BY DEF m, side
  <2> QED BY <2>1, <2>2, <1>6, RecomputeScored
<1> HIDE DEF redo
<1>8. window.end_rule = "pre_match" /\ Closed
  <2>1. run.decisions # <<>>
    BY <1>3
  <2> QED BY <2>1, <1>1, <1>4 DEF Sealable, rule
<1> DEFINE n == Len(run.snapshots)
<1>9. IsSeq(run.snapshots) /\ n # 0 /\ m \in DOMAIN run.snapshots[n].markets
  BY <1>1, <1>3, <1>7, <1>8 DEF Closed, Sealable, Numbered, d
<1>10. closing = run.snapshots[n]
  <2> DEFINE s == run.snapshots
  <2>1. IsSeq(s) /\ Len(s) # 0 /\ m \in DOMAIN s[Len(s)].markets /\ m # None
    BY <1>7, <1>9
  <2> HIDE DEF s, m
  <2>2. ClosingOf(_closing_snapshots(s), m) = s[Len(s)]
    BY <2>1, LastCloses
  <2> QED BY <2>2 DEF closing, s, m
<1>11. PICK x \in DOMAIN told : LastSaid(told, m, x) /\ closing.markets[m] = MarketOf(told[x])
  BY <1>7, <1>8, <1>10 DEF Closed
<1>12. told[x].pct # None /\ closing.markets[m].stable_prob_bps[side] = 100 * told[x].pct
  BY <1>7, <1>11, MarketPriced
<1>13. ProviderClose(m) = told[x].pct
  <2> HIDE DEF m
  <2> QED BY <1>1, <1>11, LastSaidIsClose
<1>14. { s \in Range(run.snapshots) : s.tick_seq = row.tick_seq } = {d.state}
  <2>1. PICK f : Laid(f, run) /\ Lined(f, run)
    BY <1>1 DEF Sealable
  <2>2. PICK k \in DOMAIN run.snapshots : d.state = run.snapshots[k]
    BY <2>1, <1>3 DEF Lined, Laid, d
  <2>3. \A j \in DOMAIN run.snapshots : run.snapshots[j].tick_seq = d.state.tick_seq => j = k
    <3>1. DOMAIN run.snapshots = 1..n /\ n \in Nat
      BY <1>9, SeqFacts
    <3>2. \A j \in DOMAIN run.snapshots : run.snapshots[j].tick_seq \in Int
      BY <1>1 DEF Sealable, Numbered
    <3>3. \A p, j \in DOMAIN run.snapshots : p < j => run.snapshots[p].tick_seq < run.snapshots[j].tick_seq
      BY <1>1 DEF Sealable, Numbered
    <3> HIDE DEF n
    <3> SUFFICES ASSUME NEW j \in DOMAIN run.snapshots, run.snapshots[j].tick_seq = d.state.tick_seq PROVE j = k
      OBVIOUS
    <3>4. ~(j < k) /\ ~(k < j)
      BY <2>2, <3>2, <3>3
    <3> QED BY <3>1, <3>4
  <2> QED BY <2>2, <2>3, <1>5 DEF Range
<1>15. MeasuredFrom(d.state, row)
  BY <1>5, <1>7, <1>8, <1>12, <1>13, <1>14 DEF MeasuredFrom
<1> QED BY <1>15

\* The property from the invariant.
LEMMA CloseFollows == LiveInv => TrueClvIsTheClose
<1> SUFFICES ASSUME LiveInv, result # None, NEW i \in DOMAIN result.score_rows, is_scored(result.score_rows[i])
             PROVE  LET row == result.score_rows[i]
                        entries == { s \in Range(run.snapshots) : s.tick_seq = row.tick_seq }
                        entry == CHOOSE s \in entries : row.action.market_key \in DOMAIN s.markets
                    IN  /\ window.end_rule = "pre_match"
                        /\ ProviderClose(row.action.market_key) # None
                        /\ row.clv_bps = Bps(100 * ProviderClose(row.action.market_key)
                             - entry.markets[row.action.market_key].stable_prob_bps[row.action.side])
  BY Zenon DEF TrueClvIsTheClose
<1> DEFINE row == result.score_rows[i]
           m == row.action.market_key
           entries == { s \in Range(run.snapshots) : s.tick_seq = row.tick_seq }
           entry == CHOOSE s \in entries : m \in DOMAIN s.markets
<1>0. PICK e : MeasuredFrom(e, row)
  BY RankedIsClose
<1>1. /\ entries = {e} /\ m \in DOMAIN e.markets
      /\ window.end_rule = "pre_match" /\ ProviderClose(m) # None
      /\ row.clv_bps = Bps(100 * ProviderClose(m) - e.markets[m].stable_prob_bps[row.action.side])
  BY <1>0 DEF MeasuredFrom
<1>2. entry = e
  <2> HIDE DEF entries, m
  <2> QED BY <1>1
<1> HIDE DEF entry, entries
<1>3. /\ window.end_rule = "pre_match" /\ ProviderClose(m) # None
      /\ row.clv_bps = Bps(100 * ProviderClose(m) - entry.markets[m].stable_prob_bps[row.action.side])
  BY <1>1, <1>2
<1> QED BY <1>3, Zenon DEF entry, entries

(* A row that is ranked on CLV is measured against the last pre-match update of its market that *)
(* the provider had given when its close was fetched, whatever the stream missed, broke or      *)
(* failed, and whatever the provider publishes afterwards.  A stream that ends cleanly before   *)
(* kick-off is told an update that is not the last one before it; that is not excluded.         *)
THEOREM CloseSafe == Spec => []TrueClvIsTheClose
  BY RunLaidOut, CloseFollows, PTL

------------------------------------------------------------------------------
(* What the verifier reads back of the sealed events *)

\* f gives the line of each snapshot's tick in the sealed log.
SealedLog(f, r, events) ==
  /\ IsSeq(events) /\ IsSeq(r.snapshots)
  /\ \A i \in DOMAIN events : events[i].sequence_no = i - 1
  /\ f \in [DOMAIN r.snapshots -> DOMAIN events]
  /\ \A j, k \in DOMAIN f : j < k => f[j] + Len(Agents) < f[k]
  /\ \A i \in DOMAIN events : (events[i].event_type = "tick") <=> (\E k \in DOMAIN f : f[k] = i)
  /\ \A k \in DOMAIN f : events[f[k]].snapshot = r.snapshots[k]
  /\ \A i \in DOMAIN events : events[i].event_type = "decision" =>
       \E k \in DOMAIN f, a \in DOMAIN Agents : i = f[k] + a /\ events[i].result = Agents[a]
  /\ \A k \in DOMAIN r.snapshots : r.snapshots[k].tick_seq \in Int
  /\ \A j, k \in DOMAIN r.snapshots : j < k => r.snapshots[j].tick_seq < r.snapshots[k].tick_seq

\* The configuration's line.
LEMMA ConfigEvent ==
    ASSUME NEW n, NEW c
    PROVE  /\ Event(n, "window_config", None, None, c).sequence_no = n
           /\ Event(n, "window_config", None, None, c).event_type = "window_config"
           /\ Event(n, "window_config", None, None, c).result = c
  BY DEF Event

\* The sealed events are those of the run and, after a tick, the configuration.
ConfigAdded(r, events, config) ==
  /\ IsSeq(events)
  /\ \A i \in DOMAIN r.events : i \in DOMAIN events /\ events[i] = r.events[i]
  /\ \A i \in DOMAIN events :
       \/ i \in DOMAIN r.events
       \/ /\ i = Len(r.events) + 1 /\ r.snapshots # <<>> /\ events[i].sequence_no = i - 1
          /\ events[i].event_type = "window_config" /\ events[i].result = config
  /\ r.snapshots # <<>> => Len(r.events) + 1 \in DOMAIN events

\* This is what is sealed.
LEMMA SealedLines ==
    ASSUME NEW r, Numbered(r), NEW rule, NEW horizon
    PROVE  ConfigAdded(r, SealedEvents(r, rule, horizon), ConfigOf(r, rule, horizon))
<1> DEFINE events == SealedEvents(r, rule, horizon)
           old == r.events
           L == Len(r.events)
           config == Event(L, "window_config", None, None, ConfigOf(r, rule, horizon))
<1>1. IsSeq(old) /\ L \in Nat /\ DOMAIN old = 1..L /\ r.sequence_no = L
  BY SeqFacts DEF Numbered
<1>2. CASE r.snapshots = <<>>
  <2>1. events = old
    BY <1>2 DEF SealedEvents
  <2> HIDE DEF events
  <2> QED BY <1>1, <1>2, <2>1 DEF ConfigAdded, events
<1>3. CASE r.snapshots # <<>>
  <2>1. events = Append(old, config)
    BY <1>1, <1>3 DEF SealedEvents
  <2>2. config.sequence_no = L /\ config.event_type = "window_config" /\ config.result = ConfigOf(r, rule, horizon)
    BY ConfigEvent
  <2> HIDE DEF old, config, events
  <2>3. L = Len(old)
    BY DEF old
  <2> HIDE DEF L
  <2>4. /\ IsSeq(events) /\ Len(events) = L + 1 /\ \A i \in 1..L : events[i] = old[i]
        /\ events[L + 1] = config
    BY <1>1, <2>1, <2>3, AppendFacts
  <2>5. DOMAIN events = 1..(L + 1)
    BY <2>4, SeqFacts
  <2>6. \A i \in DOMAIN events : i \in 1..L \/ i = L + 1
    BY <1>1, <2>5
  <2>7. (L + 1) - 1 = L /\ L + 1 \in DOMAIN events /\ \A i \in 1..L : i \in DOMAIN events
    BY <1>1, <2>5
  <2>8. r.events = old /\ Len(r.events) = L
    BY DEF old, L
  <2>9. ConfigAdded(r, events, ConfigOf(r, rule, horizon))
    BY <1>1, <1>3, <2>2, <2>4, <2>6, <2>7, <2>8 DEF ConfigAdded
  <2> QED BY <2>9 DEF events
<1> QED BY <1>2, <1>3

\* The layout carries over to the sealed log.
LEMMA LaidIsSealed ==
    ASSUME NEW r, Numbered(r), NEW f, Laid(f, r), NEW rule, NEW horizon,
           NEW events, events = SealedEvents(r, rule, horizon)
    PROVE  SealedLog(f, r, events)
<1>1. /\ IsSeq(events)
      /\ \A i \in DOMAIN r.events : i \in DOMAIN events /\ events[i] = r.events[i]
      /\ \A i \in DOMAIN events :
           \/ i \in DOMAIN r.events
           \/ events[i].event_type = "window_config" /\ events[i].sequence_no = i - 1
  <2>1. ConfigAdded(r, events, ConfigOf(r, rule, horizon))
    BY SealedLines
  <2> QED BY <2>1 DEF ConfigAdded
<1>2. \A i \in DOMAIN events : events[i].sequence_no = i - 1
  BY <1>1 DEF Numbered
<1>3. DOMAIN f = DOMAIN r.snapshots /\ f \in [DOMAIN r.snapshots -> DOMAIN r.events]
  BY DEF Laid
<1>4. f \in [DOMAIN r.snapshots -> DOMAIN events]
  BY <1>1, <1>3
<1>5. \A k \in DOMAIN f : events[f[k]] = r.events[f[k]] /\ f[k] \in DOMAIN r.events
  BY <1>1, <1>3
<1>6. \A i \in DOMAIN events : (events[i].event_type = "tick") <=> (\E k \in DOMAIN f : f[k] = i)
  <2> SUFFICES ASSUME NEW i \in DOMAIN events
               PROVE  (events[i].event_type = "tick") <=> (\E k \in DOMAIN f : f[k] = i)
    OBVIOUS
  <2>1. CASE i \in DOMAIN r.events
    BY <1>1, <2>1 DEF Laid
  <2>2. CASE i \notin DOMAIN r.events
    BY <1>1, <1>5, <2>2
  <2> QED BY <2>1, <2>2
<1>7. \A i \in DOMAIN events : events[i].event_type = "decision" =>
        \E k \in DOMAIN f, a \in DOMAIN Agents : i = f[k] + a /\ events[i].result = Agents[a]
  <2> SUFFICES ASSUME NEW i \in DOMAIN events, events[i].event_type = "decision"
               PROVE  \E k \in DOMAIN f, a \in DOMAIN Agents : i = f[k] + a /\ events[i].result = Agents[a]
    OBVIOUS
  <2>1. i \in DOMAIN r.events /\ events[i] = r.events[i]
    BY <1>1
  <2> QED BY <2>1 DEF Laid
<1> QED BY <1>1, <1>2, <1>4, <1>5, <1>6, <1>7 DEF SealedLog, Numbered, Laid

\* The states of the verifier are the snapshots of the run.
LEMMA StatesRead ==
    ASSUME NEW r, NEW f, NEW events, SealedLog(f, r, events)
    PROVE  _marketstates_from_events(events) = r.snapshots
<1> DEFINE ticks == { i \in DOMAIN events : events[i].event_type = "tick" }
           rank == [i \in ticks |-> events[i].snapshot.tick_seq]
           n == Len(r.snapshots)
           s == r.snapshots
<1>1. /\ n \in Nat /\ IsSeq(s) /\ DOMAIN s = 1..n /\ f \in [1..n -> DOMAIN events]
      /\ \A k \in 1..n : events[f[k]].snapshot = s[k] /\ s[k].tick_seq \in Int
      /\ \A j, k \in 1..n : j < k => s[j].tick_seq < s[k].tick_seq
      /\ \A i \in DOMAIN events : (events[i].event_type = "tick") <=> (\E k \in 1..n : f[k] = i)
  BY SeqFacts DEF SealedLog
<1>2. DOMAIN events \subseteq Nat
  BY SeqFacts DEF SealedLog
<1>3. ticks \in SUBSET Nat /\ f \in [1..n -> ticks] /\ \A i \in ticks : \E k \in 1..n : f[k] = i
  <2>1. \A k \in 1..n : f[k] \in ticks
    BY <1>1
  <2> QED BY <1>1, <1>2, <2>1
<1>4. \A k \in 1..n : f[k] \in ticks /\ rank[f[k]] = s[k].tick_seq
  BY <1>1, <1>3
<1>5. rank \in [ticks -> Int]
  <2>1. \A i \in ticks : rank[i] \in Int
    BY <1>1, <1>3, <1>4
  <2> QED BY <2>1
<1> HIDE DEF rank, s
<1>6. \A j, k \in 1..n : j < k => Sooner(rank, f[j], f[k])
  BY <1>1, <1>4 DEF Sooner
<1>7. _marketstates_from_events(events) =
        LET order == Arranged(ticks, rank) IN [k \in DOMAIN order |-> events[order[k]].snapshot]
  BY DEF _marketstates_from_events, rank
<1> HIDE DEF ticks
<1>8. Arranged(ticks, rank) = f
  <2> HIDE DEF n
  <2> QED BY <1>1, <1>3, <1>5, <1>6, ArrangedIs
<1>9. _marketstates_from_events(events) = [k \in 1..n |-> events[f[k]].snapshot]
  BY <1>1, <1>7, <1>8
<1>10. _marketstates_from_events(events) = [k \in 1..n |-> s[k]]
  BY <1>1, <1>9
<1>11. s = [k \in 1..n |-> s[k]]
  BY <1>1 DEF IsSeq
<1> QED BY <1>10, <1>11 DEF s

\* How the verifier keys the decisions.
NumberOf(events) == [i \in DOMAIN events |-> events[i].sequence_no]
TickLines(events) == { i \in DOMAIN events : events[i].event_type = "tick" }
DecisionLines(events) == { i \in DOMAIN events : events[i].event_type = "decision" }
NewestOf(events, lines) == CHOOSE i \in lines : \A j \in lines \ {i} : Sooner(NumberOf(events), j, i)
TickBefore(events, i) == NewestOf(events, { j \in TickLines(events) : Sooner(NumberOf(events), j, i) })
KeyRead(events, i) == <<events[TickBefore(events, i)].snapshot.tick_seq, events[i].result>>
KeysRead(events) == { KeyRead(events, i) : i \in DecisionLines(events) }
LineRead(events, key) == NewestOf(events, { i \in DecisionLines(events) : KeyRead(events, i) = key })

\* The decisions of the verifier, in these terms.
LEMMA ActionsForm ==
    ASSUME NEW events
    PROVE  _actions_from_events(events) = [key \in KeysRead(events) |-> events[LineRead(events, key)].action]
  BY DEF _actions_from_events, NumberOf, TickLines, DecisionLines, NewestOf, TickBefore, KeyRead, KeysRead, LineRead

\* In a sealed log the numbers run with the lines.
LEMMA LaterIsNewer ==
    ASSUME NEW r, NEW f, NEW events, SealedLog(f, r, events)
    PROVE  /\ \A i, j \in DOMAIN events : Sooner(NumberOf(events), i, j) <=> i < j
           /\ \A i \in DOMAIN events : i \in Nat
<1>1. \A i \in DOMAIN events : i \in Nat /\ NumberOf(events)[i] = i - 1
  BY SeqFacts DEF SealedLog, NumberOf
<1> QED BY <1>1 DEF Sooner

\* The newest of some lines is the last of them.
LEMMA NewestIs ==
    ASSUME NEW r, NEW f, NEW events, SealedLog(f, r, events), NEW S \in SUBSET DOMAIN events, NEW i \in S,
           \A j \in S : j <= i
    PROVE  NewestOf(events, S) = i
<1> DEFINE Newest(x) == \A j \in S \ {x} : Sooner(NumberOf(events), j, x)
<1>1. \A x, y \in S : x \in Nat /\ (Sooner(NumberOf(events), x, y) <=> x < y)
  BY LaterIsNewer
<1>2. \A x \in S : Newest(x) <=> x = i
  <2>1. Newest(i)
    BY <1>1
  <2>2. ASSUME NEW x \in S, Newest(x) PROVE x = i
    BY <1>1, <2>2
  <2> QED BY <2>1, <2>2
<1>3. NewestOf(events, S) = CHOOSE x \in S : Newest(x)
  BY DEF NewestOf
<1> HIDE DEF Newest
<1> QED BY <1>2, <1>3

\* A line after a tick's, and before the next tick's, belongs to it.
LEMMA TickIsRead ==
    ASSUME NEW r, NEW f, NEW events, SealedLog(f, r, events), NEW k \in DOMAIN f, NEW a \in DOMAIN Agents,
           f[k] + a \in DOMAIN events
    PROVE  TickBefore(events, f[k] + a) = f[k]
<1> DEFINE i == f[k] + a
           S == { j \in TickLines(events) : Sooner(NumberOf(events), j, i) }
<1>1. /\ f \in [DOMAIN f -> DOMAIN events] /\ DOMAIN events \subseteq Nat
      /\ \A x, y \in DOMAIN f : x < y => f[x] + Len(Agents) < f[y]
      /\ \A x \in DOMAIN events : (events[x].event_type = "tick") <=> (\E y \in DOMAIN f : f[y] = x)
  BY SeqFacts DEF SealedLog
<1>2. DOMAIN f \subseteq Nat
  BY SeqFacts DEF SealedLog
<1>3. Len(Agents) \in Nat /\ DOMAIN Agents = 1..Len(Agents)
  BY AgentsAssumption
<1>4. \A x, y \in DOMAIN events : Sooner(NumberOf(events), x, y) <=> x < y
  BY LaterIsNewer
<1>5. f[k] \in S
  <2>1. f[k] < i /\ f[k] \in DOMAIN events
    BY <1>1, <1>3
  <2> QED BY <1>1, <1>4, <2>1 DEF TickLines
<1>6. \A j \in S : j <= f[k]
  <2> SUFFICES ASSUME NEW j \in S PROVE j <= f[k]
    OBVIOUS
  <2>1. j \in DOMAIN events /\ events[j].event_type = "tick" /\ j < i
    BY <1>4 DEF TickLines
  <2>2. PICK y \in DOMAIN f : f[y] = j
    BY <1>1, <2>1
  <2>3. y \in Nat /\ k \in Nat /\ f[y] \in Nat /\ f[k] \in Nat
    BY <1>1, <1>2
  <2>4. ~(k < y)
    BY <1>1, <1>3, <2>1, <2>2, <2>3
  <2>5. y < k \/ y = k
    BY <2>3, <2>4
  <2>6. y < k => f[y] + Len(Agents) < f[k]
    BY <1>1
  <2> QED BY <1>3, <2>2, <2>3, <2>5, <2>6
<1>7. S \in SUBSET DOMAIN events
  BY DEF TickLines
<1>8. TickBefore(events, i) = NewestOf(events, S)
  BY DEF TickBefore
<1> HIDE DEF S, i
<1>9. NewestOf(events, S) = f[k]
  BY <1>5, <1>6, <1>7, NewestIs
<1> QED BY <1>8, <1>9 DEF i

\* A decision line's key is its tick and its agent.
LEMMA KeyIsRead ==
    ASSUME NEW r, NEW f, NEW events, SealedLog(f, r, events), NEW k \in DOMAIN f, NEW a \in DOMAIN Agents,
           f[k] + a \in DOMAIN events, events[f[k] + a].result = Agents[a]
    PROVE  KeyRead(events, f[k] + a) = <<r.snapshots[k].tick_seq, Agents[a]>>
<1>1. TickBefore(events, f[k] + a) = f[k]
  BY TickIsRead
<1>2. events[f[k]].snapshot = r.snapshots[k]
  BY DEF SealedLog
<1> QED BY <1>1, <1>2 DEF KeyRead

\* The verifier finds an agent's decision on a tick under the tick and the agent.
LEMMA ActionRead ==
    ASSUME NEW r, NEW f, NEW events, SealedLog(f, r, events), NEW k \in DOMAIN f, NEW a \in DOMAIN Agents,
           NEW i, i = f[k] + a, i \in DOMAIN events, events[i].event_type = "decision", events[i].result = Agents[a],
           NEW key, key = <<r.snapshots[k].tick_seq, Agents[a]>>
    PROVE  /\ key \in DOMAIN _actions_from_events(events)
           /\ _actions_from_events(events)[key] = events[i].action
<1>1. i \in DecisionLines(events) /\ KeyRead(events, i) = key
  BY KeyIsRead DEF DecisionLines
<1>2. ASSUME NEW j \in DecisionLines(events), KeyRead(events, j) = key PROVE j = i
  <2>1. j \in DOMAIN events /\ events[j].event_type = "decision"
    BY DEF DecisionLines
  <2>2. PICK y \in DOMAIN f, b \in DOMAIN Agents : j = f[y] + b /\ events[j].result = Agents[b]
    BY <2>1 DEF SealedLog
  <2>3. KeyRead(events, j) = <<r.snapshots[y].tick_seq, Agents[b]>>
    BY <2>1, <2>2, KeyIsRead
  <2>4. r.snapshots[y].tick_seq = r.snapshots[k].tick_seq /\ Agents[b] = Agents[a]
    BY <1>2, <2>3
  <2>5. b = a
    BY <2>4, AgentsAssumption
  <2>6. y = k
    <3>1. y \in DOMAIN r.snapshots /\ k \in DOMAIN r.snapshots /\ y \in Nat /\ k \in Nat
      BY SeqFacts DEF SealedLog
    <3>2. r.snapshots[y].tick_seq \in Int /\ r.snapshots[k].tick_seq \in Int
      BY <3>1 DEF SealedLog
    <3>3. (y < k => r.snapshots[y].tick_seq < r.snapshots[k].tick_seq)
          /\ (k < y => r.snapshots[k].tick_seq < r.snapshots[y].tick_seq)
      BY <3>1 DEF SealedLog
    <3> QED BY <2>4, <3>1, <3>2, <3>3
  <2> QED BY <2>2, <2>5, <2>6
<1> DEFINE S == { j \in DecisionLines(events) : KeyRead(events, j) = key }
<1>3. S = {i}
  BY <1>1, <1>2
<1>4. S \in SUBSET DOMAIN events /\ i \in Nat
  BY LaterIsNewer DEF DecisionLines
<1>5. LineRead(events, key) = NewestOf(events, S)
  BY DEF LineRead
<1> HIDE DEF S
<1>6. NewestOf(events, S) = i
  <2>1. i \in S /\ \A j \in S : j <= i
    BY <1>3, <1>4
  <2> QED BY <1>4, <2>1, NewestIs
<1>7. key \in KeysRead(events)
  BY <1>1 DEF KeysRead
<1> QED BY <1>5, <1>6, <1>7, ActionsForm

\* The configuration the verifier finds is the one the run sealed.
LEMMA ConfigRead ==
    ASSUME NEW r, Numbered(r), r.snapshots # <<>>, NEW f, Laid(f, r), NEW events, NEW config,
           ConfigAdded(r, events, config)
    PROVE  config \in _window_config_from_events(events)
<1> DEFINE found == { i \in DOMAIN events : events[i].event_type = "window_config" }
           n == Len(r.events) + 1
<1>1. n \in DOMAIN events /\ n \notin DOMAIN r.events
  <2>1. n \in DOMAIN events
    BY DEF ConfigAdded
  <2>2. DOMAIN r.events = 1..Len(r.events) /\ Len(r.events) \in Nat
    BY SeqFacts DEF Numbered
  <2> QED BY <2>1, <2>2
<1>2. \A i \in found : i = n
  BY DEF ConfigAdded, Laid
<1>3. n \in found /\ events[n].result = config
  BY <1>1 DEF ConfigAdded
<1>4. n \in Nat
  BY SeqFacts DEF Numbered
<1>5. _window_config_from_events(events) = { events[i].result : i \in { j \in found : \A k \in found : j <= k } }
  BY DEF _window_config_from_events
<1> HIDE DEF found, n
<1> QED BY <1>2, <1>3, <1>4, <1>5

\* The law has no reason of that name.
LEMMA NotPendingHorizon ==
    ASSUME NEW entry, NEW action, NEW closing, NEW mode
    PROVE  recompute(entry, action, closing, mode).reason # "pending_horizon"
<1> DEFINE m == action.market_key
           side == action.side
           refused == _validate_market(entry, m, side, EntryReasons)
           unclosed == _validate_market(closing, m, side, ClosingReasons)
           kelly == _kelly_fraction(entry.markets[m], side)
           clv == closing.markets[m].stable_prob_bps[side] - entry.markets[m].stable_prob_bps[side]
           redo == recompute(entry, action, closing, mode)
<1>1. /\ _invalid("market_key_missing", 0).reason = "market_key_missing"
      /\ _invalid("side_missing", 0).reason = "side_missing"
      /\ _invalid(refused, 0).reason = refused
      /\ _invalid("closing_missing", kelly).reason = "closing_missing"
      /\ _invalid(unclosed, kelly).reason = unclosed
  <2> HIDE DEF refused, unclosed, kelly
  <2> QED BY DEF _invalid, Outcome
<1>2. /\ Outcome(PENDING, 0, TRUE, "wait_unscored").reason = "wait_unscored"
      /\ Outcome(PENDING, kelly, TRUE, "pending_closing").reason = "pending_closing"
      /\ Outcome(Bps(clv), kelly, TRUE, compute_clv_check(clv)).reason = compute_clv_check(clv)
  <2> HIDE DEF kelly, clv
  <2> QED BY DEF Outcome
<1>3. refused \in {None, "entry_market_absent", "entry_suspended", "entry_side_missing"}
  BY DEF _validate_market, EntryReasons
<1>4. unclosed \in {None, "closing_market_absent", "closing_suspended", "closing_side_missing"}
  BY DEF _validate_market, ClosingReasons
<1>5. compute_clv_check(clv) \in {"clv_pass", "clv_fail"}
  BY DEF compute_clv_check
<1>6. \/ redo = Outcome(PENDING, 0, TRUE, "wait_unscored")
      \/ redo = _invalid("market_key_missing", 0)
      \/ redo = _invalid("side_missing", 0)
      \/ refused # None /\ redo = _invalid(refused, 0)
      \/ redo = Outcome(PENDING, kelly, TRUE, "pending_closing")
      \/ redo = _invalid("closing_missing", kelly)
      \/ unclosed # None /\ redo = _invalid(unclosed, kelly)
      \/ redo = Outcome(Bps(clv), kelly, TRUE, compute_clv_check(clv))
  <2> DEFINE priced == IF refused # None THEN _invalid(refused, 0)
                       ELSE IF closing = None
                            THEN IF mode = "live" THEN Outcome(PENDING, kelly, TRUE, "pending_closing")
                                                  ELSE _invalid("closing_missing", kelly)
                       ELSE IF unclosed # None THEN _invalid(unclosed, kelly)
                       ELSE Outcome(Bps(clv), kelly, TRUE, compute_clv_check(clv))
  <2>1. redo = CASE action.type = "WAIT" -> Outcome(PENDING, 0, TRUE, "wait_unscored")
                 [] action.type # "WAIT" /\ m = None -> _invalid("market_key_missing", 0)
                 [] action.type # "WAIT" /\ m # None /\ action.side = None -> _invalid("side_missing", 0)
                 [] OTHER -> priced
    BY DEF recompute
  <2> HIDE DEF refused, unclosed, kelly, clv, redo
  <2>2. \/ refused # None /\ priced = _invalid(refused, 0)
        \/ priced = Outcome(PENDING, kelly, TRUE, "pending_closing")
        \/ priced = _invalid("closing_missing", kelly)
        \/ unclosed # None /\ priced = _invalid(unclosed, kelly)
        \/ priced = Outcome(Bps(clv), kelly, TRUE, compute_clv_check(clv))
    OBVIOUS
  <2> HIDE DEF priced, m
  <2>3. CASE action.type = "WAIT"
    BY <2>1, <2>3
  <2>4. CASE action.type # "WAIT" /\ m = None
    BY <2>1, <2>4
  <2>5. CASE action.type # "WAIT" /\ m # None /\ action.side = None
    BY <2>1, <2>5
  <2>6. CASE action.type # "WAIT" /\ m # None /\ action.side # None
    <3>1. redo = priced
      BY <2>1, <2>6
    <3> QED BY <2>2, <3>1
  <2> QED BY <2>3, <2>4, <2>5, <2>6
<1> HIDE DEF refused, unclosed, kelly, clv, redo
<1>7. redo.reason # "pending_horizon"
  <2> DEFINE clv_check == compute_clv_check(clv)
  <2>1. redo.reason \in {"wait_unscored", "market_key_missing", "side_missing", "pending_closing", "closing_missing",
                         clv_check} \cup {x \in {refused, unclosed} : x # None}
    BY <1>1, <1>2, <1>6
  <2>2. clv_check \in {"clv_pass", "clv_fail"}
    BY <1>5
  <2> HIDE DEF clv_check
  <2> QED BY <2>1, <2>2, <1>3, <1>4
<1> QED BY <1>7 DEF redo

\* What the verifier has of a run when it reads its sealed events.
Reread(r, events, config) ==
  /\ _marketstates_from_events(events) = r.snapshots
  /\ \A d \in Range(r.decisions) : \E k \in DOMAIN r.snapshots :
       /\ d.state = r.snapshots[k]
       /\ \A j \in DOMAIN r.snapshots : r.snapshots[j].tick_seq = d.state.tick_seq => j = k
       /\ <<d.state.tick_seq, d.agent>> \in DOMAIN _actions_from_events(events)
       /\ _actions_from_events(events)[<<d.state.tick_seq, d.agent>>] = d.action
       /\ config \in _window_config_from_events(events)

\* The verifier has it of every sealed run.
LEMMA SealedIsReread ==
    ASSUME NEW r, Numbered(r), NEW f, Laid(f, r), Lined(f, r), NEW rule, NEW horizon
    PROVE  Reread(r, SealedEvents(r, rule, horizon), ConfigOf(r, rule, horizon))
<1> DEFINE events == SealedEvents(r, rule, horizon)
           config == ConfigOf(r, rule, horizon)
<1>1. ConfigAdded(r, events, config)
  BY SealedLines
<1>2. SealedLog(f, r, events)
  BY LaidIsSealed
<1> HIDE DEF events, config
<1>3. _marketstates_from_events(events) = r.snapshots
  BY <1>2, StatesRead
<1>4. ASSUME NEW n \in DOMAIN r.decisions
      PROVE  \E k \in DOMAIN r.snapshots :
               /\ r.decisions[n].state = r.snapshots[k]
               /\ \A j \in DOMAIN r.snapshots : r.snapshots[j].tick_seq = r.decisions[n].state.tick_seq => j = k
               /\ <<r.decisions[n].state.tick_seq, r.decisions[n].agent>> \in DOMAIN _actions_from_events(events)
               /\ _actions_from_events(events)[<<r.decisions[n].state.tick_seq, r.decisions[n].agent>>]
                    = r.decisions[n].action
               /\ config \in _window_config_from_events(events)
  <2> DEFINE d == r.decisions[n]
  <2>1. PICK k \in DOMAIN f, a \in DOMAIN Agents :
          /\ f[k] + a \in DOMAIN r.events /\ r.events[f[k] + a].event_type = "decision"
          /\ r.events[f[k] + a].result = Agents[a] /\ r.events[f[k] + a].action = d.action
          /\ d.agent = Agents[a] /\ d.state = r.snapshots[k]
    BY DEF Lined
  <2> DEFINE i == f[k] + a
             key == <<r.snapshots[k].tick_seq, Agents[a]>>
  <2>2. i \in DOMAIN events /\ events[i] = r.events[i]
    BY <1>1, <2>1 DEF ConfigAdded
  <2>3. events[i].event_type = "decision" /\ events[i].result = Agents[a] /\ events[i].action = d.action
    BY <2>1, <2>2
  <2>4. k \in DOMAIN r.snapshots
    BY DEF Laid
  <2>5. i = f[k] + a /\ key = <<r.snapshots[k].tick_seq, Agents[a]>> /\ key = <<d.state.tick_seq, d.agent>>
    BY <2>1
  <2> HIDE DEF i, key, d
  <2>6. key \in DOMAIN _actions_from_events(events) /\ _actions_from_events(events)[key] = d.action
    BY <1>2, <2>2, <2>3, <2>5, ActionRead
  <2>7. \A j \in DOMAIN r.snapshots : r.snapshots[j].tick_seq = r.snapshots[k].tick_seq => j = k
    <3>1. \A x \in DOMAIN r.snapshots : x \in Nat /\ r.snapshots[x].tick_seq \in Int
      BY SeqFacts DEF Numbered
    <3>2. \A x, y \in DOMAIN r.snapshots : x < y => r.snapshots[x].tick_seq < r.snapshots[y].tick_seq
      BY DEF Numbered
    <3> SUFFICES ASSUME NEW j \in DOMAIN r.snapshots, r.snapshots[j].tick_seq = r.snapshots[k].tick_seq PROVE j = k
      OBVIOUS
    <3>3. ~(j < k) /\ ~(k < j)
      BY <2>4, <3>1, <3>2
    <3> QED BY <2>4, <3>1, <3>3
  <2>8. config \in _window_config_from_events(events)
    <3>1. r.snapshots # <<>>
      BY <2>4
    <3> QED BY <1>1, <3>1, ConfigRead
  <2>9. d.state = r.snapshots[k]
    BY <2>1 DEF d
  <2>10. /\ d.state = r.snapshots[k]
         /\ \A j \in DOMAIN r.snapshots : r.snapshots[j].tick_seq = d.state.tick_seq => j = k
         /\ <<d.state.tick_seq, d.agent>> \in DOMAIN _actions_from_events(events)
         /\ _actions_from_events(events)[<<d.state.tick_seq, d.agent>>] = d.action
         /\ config \in _window_config_from_events(events)
    BY <2>5, <2>6, <2>7, <2>8, <2>9
  <2> QED BY <2>4, <2>10 DEF d
<1>5. Reread(r, events, config)
  BY <1>3, <1>4 DEF Reread, Range
<1> QED BY <1>5 DEF events, config

\* A row is what the law makes of its decision, or was relabelled as the window asks.
Explained(row, d, redo, end_ts, horizon) ==
  /\ row.tick_seq = d.state.tick_seq /\ row.agent_id = d.agent
  /\ IF row.reason = "pending_horizon" /\ row.clv_bps = PENDING
     THEN is_pending_horizon(d.state.ts, end_ts, horizon)
     ELSE redo.clv_bps = IF row.window_clv_bps # None THEN row.window_clv_bps ELSE row.clv_bps

\* The rows of finalize are so explained.
LEMMA RowIsExplained ==
    ASSUME NEW d, NEW r, NEW rule \in EndRules, NEW horizon
    PROVE  Explained(ScoreRow(d, r, "live", EndTs(r), rule, horizon), d,
                     recompute(d.state, d.action,
                               ClosingOf(_closing_snapshots(r.snapshots), d.action.market_key), "live"),
                     EndTs(r), horizon)
<1> DEFINE plain == PlainRow(d, r, "live")
           row == ScoreRow(d, r, "live", EndTs(r), rule, horizon)
           redo == recompute(d.state, d.action,
                             ClosingOf(_closing_snapshots(r.snapshots), d.action.market_key), "live")
<1>1. Relabelled(row, plain, d.state.ts, EndTs(r), rule, horizon)
  BY RowForms
<1>2. redo.reason # "pending_horizon"
  BY NotPendingHorizon
<1> HIDE DEF plain, row
<1>3. /\ DOMAIN plain = {"agent_id", "tick_seq", "proof_mode", "clv_bps", "window_clv_bps", "valid", "reason",
                         "kelly_fraction", "action"}
      /\ plain.tick_seq = d.state.tick_seq /\ plain.agent_id = d.agent /\ plain.window_clv_bps = None
      /\ plain.clv_bps = redo.clv_bps /\ plain.reason = redo.reason
  <2>1. plain = [agent_id |-> d.agent, tick_seq |-> d.state.tick_seq, proof_mode |-> ProofMode(d.agent),
                 clv_bps |-> redo.clv_bps, window_clv_bps |-> None, valid |-> redo.valid,
                 reason |-> redo.reason, kelly_fraction |-> redo.kelly_fraction, action |-> d.action]
    BY DEF plain, PlainRow
  <2> HIDE DEF redo
  <2> QED BY <2>1
<1> HIDE DEF redo
<1> SUFFICES Explained(row, d, redo, EndTs(r), horizon)
  BY DEF row, redo
<1>4. CASE row = plain
  BY <1>2, <1>3, <1>4 DEF Explained
<1>5. CASE /\ is_pending_horizon(d.state.ts, EndTs(r), horizon)
           /\ row = [plain EXCEPT !.reason = "pending_horizon", !.clv_bps = PENDING]
  <2>1. row.tick_seq = plain.tick_seq /\ row.agent_id = plain.agent_id
        /\ row.reason = "pending_horizon" /\ row.clv_bps = PENDING
    BY <1>3, <1>5
  <2> QED BY <1>3, <1>5, <2>1 DEF Explained
<1>6. CASE is_scored(plain) /\ row = [plain EXCEPT !.window_clv_bps = plain.clv_bps, !.clv_bps = None]
  <2>1. /\ row.tick_seq = plain.tick_seq /\ row.agent_id = plain.agent_id /\ row.reason = plain.reason
        /\ row.window_clv_bps = plain.clv_bps
    BY <1>3, <1>6
  <2>2. plain.clv_bps # None
    BY <1>6 DEF is_scored
  <2> QED BY <1>2, <1>3, <2>1, <2>2 DEF Explained
<1> QED BY <1>1, <1>4, <1>5, <1>6 DEF Relabelled

\* A row agrees with what the verifier reads.
LEMMA RowIsAgreed ==
    ASSUME NEW r, Numbered(r), NEW rule \in EndRules, NEW horizon, NEW events,
           Reread(r, events, ConfigOf(r, rule, horizon)),
           NEW d \in Range(r.decisions), NEW row, row = ScoreRow(d, r, "live", EndTs(r), rule, horizon)
    PROVE  RowAgrees(row, _marketstates_from_events(events), _closing_snapshots(_marketstates_from_events(events)),
                     _actions_from_events(events), _window_config_from_events(events), "live")
<1> DEFINE states == _marketstates_from_events(events)
           closings == _closing_snapshots(states)
           actions == _actions_from_events(events)
           configs == _window_config_from_events(events)
           config == ConfigOf(r, rule, horizon)
           key == <<row.tick_seq, row.agent_id>>
           entries == { i \in DOMAIN states : states[i].tick_seq = row.tick_seq }
           entry == states[CHOOSE i \in entries : \A j \in entries : j <= i]
           redo == recompute(d.state, d.action, ClosingOf(closings, d.action.market_key), "live")
<1> HIDE DEF states, actions, configs, closings
<1>1. states = r.snapshots /\ closings = _closing_snapshots(r.snapshots)
  BY DEF Reread, states, closings
<1>2. /\ row.tick_seq = d.state.tick_seq /\ row.agent_id = d.agent
      /\ IF row.reason = "pending_horizon" /\ row.clv_bps = PENDING
         THEN is_pending_horizon(d.state.ts, EndTs(r), horizon)
         ELSE redo.clv_bps = IF row.window_clv_bps # None THEN row.window_clv_bps ELSE row.clv_bps
  <2>1. redo = recompute(d.state, d.action,
                         ClosingOf(_closing_snapshots(r.snapshots), d.action.market_key), "live")
    BY <1>1
  <2> HIDE DEF redo
  <2>2. Explained(row, d, redo, EndTs(r), horizon)
    BY <2>1, RowIsExplained
  <2> QED BY <2>2 DEF Explained
<1>3. PICK k \in DOMAIN states :
        /\ d.state = states[k]
        /\ \A j \in DOMAIN states : states[j].tick_seq = d.state.tick_seq => j = k
        /\ <<d.state.tick_seq, d.agent>> \in DOMAIN actions
        /\ actions[<<d.state.tick_seq, d.agent>>] = d.action
        /\ config \in configs
  BY <1>1 DEF Reread, actions, configs
<1>4. entries = {k} /\ k \in Nat
  BY <1>1, <1>2, <1>3, SeqFacts DEF Numbered
<1>5. entry = d.state
  <2>1. (CHOOSE i \in entries : \A j \in entries : j <= i) = k
    <3> HIDE DEF entries
    <3> QED BY <1>4
  <2> QED BY <1>3, <2>1
<1> HIDE DEF entries, entry
<1>6. key \in DOMAIN actions /\ actions[key] = d.action
  BY <1>2, <1>3
<1> HIDE DEF key
<1>7. redo = recompute(entry, actions[key], ClosingOf(closings, actions[key].market_key), "live")
  BY <1>5, <1>6
<1>8. config.window_end_ts = EndTs(r) /\ config.min_clv_horizon_s = horizon
  BY DEF ConfigOf
<1> HIDE DEF redo, config
<1>9. RowAgrees(row, states, closings, actions, configs, "live") =
        /\ entries # {}
        /\ key \in DOMAIN actions
        /\ IF row.reason = "pending_horizon" /\ row.clv_bps = PENDING
           THEN \E c \in configs : is_pending_horizon(entry.ts, c.window_end_ts, c.min_clv_horizon_s)
           ELSE redo.clv_bps = IF row.window_clv_bps # None THEN row.window_clv_bps ELSE row.clv_bps
  BY <1>7 DEF RowAgrees, entries, entry, key
<1>10. entries # {}
  BY <1>4
<1>11. CASE row.reason = "pending_horizon" /\ row.clv_bps = PENDING
  <2>1. is_pending_horizon(entry.ts, config.window_end_ts, config.min_clv_horizon_s)
    BY <1>2, <1>5, <1>8, <1>11
  <2>2. \E c \in configs : is_pending_horizon(entry.ts, c.window_end_ts, c.min_clv_horizon_s)
    BY <1>3, <2>1
  <2>3. RowAgrees(row, states, closings, actions, configs, "live")
    BY <1>6, <1>9, <1>10, <1>11, <2>2
  <2> QED BY <2>3 DEF states, closings, actions, configs
<1>12. CASE ~(row.reason = "pending_horizon" /\ row.clv_bps = PENDING)
  <2>1. redo.clv_bps = IF row.window_clv_bps # None THEN row.window_clv_bps ELSE row.clv_bps
    BY <1>2, <1>12
  <2>2. RowAgrees(row, states, closings, actions, configs, "live")
    BY <1>6, <1>9, <1>10, <1>12, <2>1
  <2> QED BY <2>2 DEF states, closings, actions, configs
<1> QED BY <1>11, <1>12

\* The check of the metrics does not fail.
LEMMA MetricsPass ==
    ASSUME NEW r, Numbered(r), NEW f, Laid(f, r), Lined(f, r), NEW rule \in EndRules, NEW horizon,
           NEW sealed, sealed.source_mode = "live", sealed.run_events = SealedEvents(r, rule, horizon),
           sealed.score_rows = [i \in DOMAIN r.decisions |->
                                  ScoreRow(r.decisions[i], r, "live", EndTs(r), rule, horizon)]
    PROVE  _metrics_recomputed(score_run(sealed), sealed) # "fail"
<1> DEFINE events == sealed.run_events
           states == _marketstates_from_events(events)
           closings == _closing_snapshots(states)
           actions == _actions_from_events(events)
           configs == _window_config_from_events(events)
           mode == IF sealed.source_mode = "live" THEN "live" ELSE "replay"
           rows == sealed.score_rows
           agreed == \A i \in DOMAIN rows : RowAgrees(rows[i], states, closings, actions, configs, mode)
<1>1. Reread(r, events, ConfigOf(r, rule, horizon))
  BY SealedIsReread
<1>2. mode = "live"
  OBVIOUS
<1>3. ASSUME NEW i \in DOMAIN rows PROVE RowAgrees(rows[i], states, closings, actions, configs, mode)
  <2> DEFINE d == r.decisions[i]
             row == rows[i]
  <2>1. d \in Range(r.decisions) /\ row = ScoreRow(d, r, "live", EndTs(r), rule, horizon)
    BY DEF Range
  <2> HIDE DEF d, row, events
  <2>2. RowAgrees(row, states, closings, actions, configs, "live")
    BY <1>1, <2>1, RowIsAgreed
  <2> HIDE DEF states, closings, actions, configs
  <2> QED BY <1>2, <2>2 DEF row
<1>4. agreed
  BY <1>3
<1>5. _metrics_recomputed(score_run(sealed), sealed) =
        IF rows = <<>> THEN "not_applicable" ELSE Verdict(agreed /\ score_run(sealed) = score_run(sealed))
  BY DEF _metrics_recomputed
<1> HIDE DEF agreed, rows
<1>6. Verdict(agreed /\ score_run(sealed) = score_run(sealed)) = "pass"
  BY <1>4 DEF Verdict
<1> QED BY <1>5, <1>6

\* What Certify publishes of a sealed run.
CardOf(sealed, signature) ==
  LET scores == score_run(sealed)
      manifest == manifest_from_run(sealed, "window", recompute_score_root(scores))
  IN  [checks |-> build_check_results(scores, sealed, manifest, manifest, AnchorBlock(signature), <<>>, "live"),
       report |-> verify_run(sealed, "window"), anchored |-> manifest]

\* Nothing of the execution lane is in a live run.
LEMMA NoLaneEvents ==
  /\ _policy_obeyed(<<>>) = "not_applicable"
  /\ _receipt_separation(<<>>) = "not_applicable"
  BY DEF _policy_obeyed, _receipt_separation

\* An anchor passes, is pending, or does not apply.
LEMMA AnchorNeverFails ==
    ASSUME NEW anchor, NEW mode
    PROVE  _anchor(anchor, mode) # "fail"
  BY DEF _anchor

\* A manifest made of the sealed run is bound to it.
LEMMA ManifestPasses ==
    ASSUME NEW scores, NEW sealed, NEW id, NEW manifest,
           manifest = manifest_from_run(sealed, id, recompute_score_root(scores))
    PROVE  _manifest_bound(scores, sealed, manifest, manifest) # "fail"
<1>1. /\ manifest.run_id = sealed.run_id /\ manifest.action_evidence_root = sealed.evidence_hash
      /\ manifest.score_root = recompute_score_root(scores)
      /\ manifest.proof_mode_map = sealed.proof_mode_map
  BY DEF manifest_from_run, run_manifest
<1> QED BY <1>1 DEF _manifest_bound, Verdict

\* The hash that was sealed is the one the verifier takes.
LEMMA EvidencePasses ==
    ASSUME NEW sealed, compute_evidence_hash(sealed.run_events) # None,
           sealed.evidence_hash = compute_evidence_hash(sealed.run_events)
    PROVE  /\ _evidence_integrity(sealed) = "pass"
           /\ verify_run(sealed, "window").verified
           /\ verify_run(sealed, "window").score_rows = score_run(sealed)
<1> DEFINE hash == compute_evidence_hash(sealed.run_events)
           scores == score_run(sealed)
           manifest == manifest_from_run(sealed, IF "window" # None THEN "window"
                                                 ELSE fixture_or_window_id_from_events(sealed.run_events),
                                         recompute_score_root(scores))
           bound == [root_forest |-> root_forest_for_run(sealed, scores)] @@ manifest
           same == hash = sealed.evidence_hash
<1>1. _evidence_integrity(sealed) = "pass"
  BY DEF _evidence_integrity, Verdict
<1>2. verify_run(sealed, "window") =
        [evidence_match |-> same, score_rows |-> scores, manifest_hash |-> bound, verified |-> same]
  BY DEF verify_run
<1>3. same
  OBVIOUS
<1> HIDE DEF scores, bound, same
<1>4. verify_run(sealed, "window").verified = same /\ verify_run(sealed, "window").score_rows = scores
  BY <1>2
<1>5. verify_run(sealed, "window").verified
  BY <1>3, <1>4, Zenon
<1> QED BY <1>1, <1>4, <1>5 DEF scores

\* The card of a run that passes.
Passes(sealed, c) ==
  /\ \A check \in DOMAIN c.checks : c.checks[check] # "fail"
  /\ c.report.verified
  /\ c.report.score_rows = score_run(sealed)

\* Every check of a sealed run, together.
LEMMA SealedPasses ==
    ASSUME LiveInv, result # None, NEW signature
    PROVE  Passes(result, CardOf(result, signature))
<1> DEFINE rule == loop.end_rule
           horizon == window.min_clv_horizon_s
           scores == score_run(result)
           manifest == manifest_from_run(result, "window", recompute_score_root(scores))
           anchor == AnchorBlock(signature)
           report == verify_run(result, "window")
           checks == build_check_results(scores, result, manifest, manifest, anchor, <<>>, "live")
<1>1. Sealable /\ result = FinalizeRun(run, "live", rule, horizon) /\ rule \in EndRules
  BY DEF LiveInv, PhaseInv, EnvInv, IsLoop
<1>2. PICK f : Laid(f, run) /\ Lined(f, run)
  BY <1>1 DEF Sealable
<1> HIDE DEF rule, horizon
<1>3. /\ compute_evidence_hash(SealedEvents(run, rule, horizon)) # None
      /\ result.source_mode = "live" /\ result.run_events = SealedEvents(run, rule, horizon)
      /\ result.evidence_hash = compute_evidence_hash(SealedEvents(run, rule, horizon))
      /\ result.score_rows = [i \in DOMAIN run.decisions |->
                                ScoreRow(run.decisions[i], run, "live", EndTs(run), rule, horizon)]
  BY <1>1, SealedFields
<1>4. _metrics_recomputed(scores, result) # "fail"
  <2>1. Numbered(run)
    BY <1>1 DEF Sealable
  <2> QED BY <1>1, <1>2, <1>3, <2>1, MetricsPass
<1>5. _evidence_integrity(result) = "pass" /\ report.verified /\ report.score_rows = scores
  BY <1>3, EvidencePasses
<1>6. _manifest_bound(scores, result, manifest, manifest) # "fail"
  BY ManifestPasses
<1>7. _anchor(anchor, "live") # "fail"
  BY AnchorNeverFails
<1> HIDE DEF scores, manifest, anchor, report
<1>8. checks = [evidence_integrity |-> _evidence_integrity(result),
                metrics_recomputed |-> _metrics_recomputed(scores, result),
                manifest_bound     |-> _manifest_bound(scores, result, manifest, manifest),
                policy_obeyed      |-> _policy_obeyed(<<>>),
                receipt_separation |-> _receipt_separation(<<>>),
                anchor             |-> _anchor(anchor, "live")]
  BY DEF build_check_results
<1>9. \A check \in DOMAIN checks : checks[check] # "fail"
  <2> HIDE DEF checks
  <2> QED BY <1>4, <1>5, <1>6, <1>7, <1>8, NoLaneEvents
<1>10. CardOf(result, signature) = [checks |-> checks, report |-> report, anchored |-> manifest]
  BY DEF CardOf, scores, manifest, anchor, report
<1> HIDE DEF checks
<1> QED BY <1>5, <1>9, <1>10 DEF Passes, scores

\* A card is the one of the sealed run.
CardInv ==
  /\ pc = "anchor" => result # None
  /\ card # None => result # None /\ \E signature : card = CardOf(result, signature)

\* Only Certify makes a card, and nothing follows it.
LEMMA CardKept ==
    ASSUME LiveInv, CardInv, [Next]_vars
    PROVE  CardInv'
<1>1. CASE UNCHANGED vars
  BY <1>1 DEF CardInv, vars
<1>2. CASE Finalize
  <2>1. card = None
    BY <1>2 DEF LiveInv, PhaseInv, Finalize
  <2> QED BY <1>2, <2>1 DEF CardInv, Finalize
<1>3. ASSUME NEW signature \in Signatures, Certify(signature) PROVE CardInv'
  <2>1. pc = "anchor" /\ pc' = "done" /\ result' = result /\ card' = CardOf(result, signature)
    BY <1>3 DEF Certify, CardOf
  <2> QED BY <2>1 DEF CardInv
<1>4. ASSUME pc # "done", pc' # "anchor", card' = card PROVE CardInv'
  <2>1. card' = None
    BY <1>4 DEF LiveInv, PhaseInv
  <2> QED BY <1>4, <2>1 DEF CardInv
<1>5. CASE Advance
  BY <1>5 DEF Advance, CardInv
<1>6. CASE RequestStop
  BY <1>4, <1>6 DEF RequestStop
<1>7. ASSUME NEW r \in Records, Miss(r) PROVE CardInv'
  BY <1>7 DEF Miss, CardInv
<1>8. ASSUME NEW r \in Records, OtherFixture(r) PROVE CardInv'
  BY <1>4, <1>8 DEF OtherFixture, Deliver
<1>9. ASSUME NEW r \in Records, EndsWindow(r) PROVE CardInv'
  BY <1>4, <1>9 DEF EndsWindow, Deliver
<1>10. ASSUME NEW r \in Records, Feed(r) PROVE CardInv'
  <2>1. pc = "streaming" /\ card' = card /\ pc' = pc
    BY <1>10 DEF Feed, Deliver
  <2> QED BY <1>4, <2>1
<1>11. ASSUME NEW r \in Records, SinkFails(r) PROVE CardInv'
  <2>1. pc = "streaming" /\ card' = card /\ pc' \in {"closing", "failed"}
    BY <1>11 DEF SinkFails, Deliver
  <2> QED BY <1>4, <2>1
<1>12. ASSUME NEW x, Break(x) PROVE CardInv'
  <2>1. pc = "streaming" /\ card' = card /\ pc' \in {"closing", "failed"}
    BY <1>12 DEF Break
  <2> QED BY <1>4, <2>1
<1>13. CASE StreamEnds \/ StreamBreaks \/ HonourStop
  BY <1>12, <1>13 DEF StreamEnds, StreamBreaks, HonourStop
<1>14. CASE NoClose
  BY <1>4, <1>14 DEF NoClose
<1>15. CASE FetchClose
  <2>1. pc = "closing" /\ card' = card /\ pc' = "finalize"
    BY <1>15 DEF FetchClose
  <2> QED BY <1>4, <2>1
<1>16. CASE FinalizeFails
  BY <1>4, <1>16 DEF FinalizeFails
<1>17. CASE AnchorFails
  BY <1>4, <1>17 DEF AnchorFails
<1> QED BY <1>1, <1>2, <1>3, <1>5, <1>6, <1>7, <1>8, <1>9, <1>10, <1>11, <1>13, <1>14, <1>15, <1>16, <1>17 DEF Next

\* The property from both invariants.
LEMMA CardHolds == LiveInv /\ CardInv => ProofCardHolds
<1> SUFFICES ASSUME LiveInv, CardInv, card # None PROVE Passes(result, card)
  BY DEF ProofCardHolds, Passes
<1>1. PICK signature : card = CardOf(result, signature)
  BY DEF CardInv
<1> QED BY <1>1, SealedPasses DEF CardInv

(* Whatever broke on the way, the card of a sealed run fails no check, and the verifier, from the *)
(* sealed events alone, arrives at the rows and the ranking the runner published.                 *)
THEOREM CardSafe == Spec => []ProofCardHolds
<1>1. Init => CardInv
  BY DEF Init, CardInv
<1>2. LiveInv /\ CardInv /\ [Next]_vars => CardInv'
  BY CardKept
<1> QED BY <1>1, <1>2, RunLaidOut, CardHolds, PTL DEF Spec
====
