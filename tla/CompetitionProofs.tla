------------------------- MODULE CompetitionProofs --------------------------
(***************************************************************************)
(* Proofs that a competition's log stays the record of one run, whatever   *)
(* start, arena and approval requests interleave, that its lane respects   *)
(* the envelope, and that a spectator misses no evidence.                  *)
(***************************************************************************)
EXTENDS Competition, TLAPS, FiniteSetTheorems

------------------------------------------------------------------------------
(* Types *)

RunEvent ==
  [type: {"tick"}, agent: {None}, bet: {FALSE}]
    \cup [type: {"decision", "error"}, agent: Agents, bet: BOOLEAN]

Breaker == [state: CircuitState, consecutive_failures: Nat, opened_at: Nat, probe_used: BOOLEAN]

StartRequest ==
  [pc: StartPC, agents: SUBSET Agents, env: PolicyEnvelope, emit: Seq(RunEvent),
   events: Seq(RunEvent), todo: Seq([type: {"decision"}, agent: Agents, bet: {TRUE}]), next: Nat,
   lane: Seq(CompetitionEvent), placed: Nat, breaker: Breaker,
   pending: (Agents \X ExecutionStatus) \cup {None}]

ApprovalPC == {"idle", "check", "number", "resolve", "append", "cast", "done", "failed", "refused"}

ApprovalRequest ==
  [pc: ApprovalPC, exec: (Runs \X Agents) \cup {None}, status: ExecutionStatus \cup {None},
   env: PolicyEnvelope, next: Nat, events: Seq(CompetitionEvent)]

Order == [run: Runs, agent: Agents, by: Starts \cup Approvals,
          receipt: TerminalAnswers \cup {"unresolved"}]

SpectatorState ==
  [pc: {"away", "list", "replay", "live"}, queue: Seq(CompetitionEvent) \cup {None},
   backlog: Seq(CompetitionEvent), replay: Seq(CompetitionEvent), last: Nat, got: Seq(Nat),
   connects: Nat]

Config == [mode: {"paper", "dry_run", "live_guarded"}, armed: BOOLEAN, env: PolicyEnvelope]

RowTypes ==
  /\ config \in Config
  /\ comp \in [status: CompetitionStatus, run_id: Runs \cup {None}, roster: SUBSET Agents]

TypesInv ==
  /\ RowTypes
  /\ log \in Seq(CompetitionEvent)
  /\ runs \in [Starts -> Seq(RunEvent) \cup {None}]
  /\ records \in [Runs \X Agents -> ExecutionStatus \cup {None}]
  /\ orders \in Seq(Order)
  /\ start \in [Starts -> StartRequest]
  /\ approval \in [Approvals -> ApprovalRequest]
  /\ client \in SpectatorState

------------------------------------------------------------------------------
(* The log *)

OwnsLog(r) == log # <<>> /\ log[1].run = r

\* Where a start writes the evidence of its run, and where the run is sealed and logged.
Writing == {"emit", "cast", "parity", "tail"}
Sealed == {"route", "lane", "record", "cast_lane", "finalize", "abort", "done", "failed"}

\* Events from seq base on, none of them evidence, about run r.
Derived(events, base, r) ==
  \A i \in DOMAIN events :
    events[i].seq = base + i - 1 /\ events[i].run = r /\ events[i].type \notin EvidenceTypes

\* Events that are in the log, none of them evidence.
Logged(events) ==
  \A i \in DOMAIN events :
    events[i].seq < Len(log) /\ log[events[i].seq + 1].type \notin EvidenceTypes

\* What a start knows of the log where it is.
StartKnows(s) ==
  /\ start[s].pc # "integrity_error"
  /\ start[s].pc \in Writing => log = ProjectionPrefix(s, start[s].events)
  /\ start[s].pc \in {"idle", "begin", "mark", "bind", "started"} => start[s].events = <<>>
  /\ start[s].pc = "cast" => start[s].events # <<>>
  /\ start[s].pc \in {"route", "lane", "record", "cast_lane"} => OwnsLog(s)
  /\ start[s].pc \in {"route", "lane", "record"} =>
       start[s].next <= Len(log) /\ Derived(start[s].lane, start[s].next, s)
  /\ start[s].pc \notin Sealed => start[s].lane = <<>>
  /\ start[s].pc = "route" => start[s].lane = <<>>
  /\ start[s].pc = "record" => start[s].pending \in Agents \X ExecutionStatus
  /\ start[s].pc = "cast_lane" => Logged(start[s].lane)
  /\ runs[s] # None => IsPrefix(ProjectionPrefix(s, runs[s]), log)

\* A run whose records an approval may find: it owns the log and writes no more evidence.
Laned(r) == r \in Starts /\ OwnsLog(r) /\ start[r].pc \in Sealed

RecordKnows == \A x \in Runs \X Agents : records[x] # None => Laned(x[1])

ApprovalKnows(p) ==
  /\ approval[p].pc \in {"check", "number", "resolve", "append", "cast"} =>
       approval[p].exec \in Runs \X Agents /\ Laned(approval[p].exec[1])
  /\ approval[p].pc \in {"resolve", "append"} => approval[p].next <= Len(log)
  /\ approval[p].pc = "append" =>
       Derived(approval[p].events, approval[p].next, approval[p].exec[1])
  /\ approval[p].pc = "cast" => Logged(approval[p].events)

LogInv ==
  /\ LogIsOneRun
  /\ \A s \in Starts : StartKnows(s)
  /\ RecordKnows
  /\ \A p \in Approvals : ApprovalKnows(p)

------------------------------------------------------------------------------
(* The lane *)

\* LaneOrders and FailedInARow of any sequence of orders.
LanePositions(os, s) == {i \in DOMAIN os : os[i].by = s}
FailedRow(os, s, k) ==
  {i \in LanePositions(os, s) :
     i < k /\ \A j \in LanePositions(os, s) : i <= j /\ j < k => os[j].receipt \in FailureReceipts}

\* The lane has counted its orders; in a live run its breaker has counted the failures in a row up
\* to the next order, and is closed only below its threshold.
LaneFacts(st, os, mode, s) ==
  LET b == st.breaker
      t == st.env.circuit_breaker_threshold
  IN  /\ st.placed = Cardinality(LanePositions(os, s))
      /\ st.placed <= st.env.max_orders_per_run
      /\ st.pc \in {"idle", "begin"} => st.placed = 0 /\ b = ClosedBreaker
      /\ mode = "live_guarded" =>
           /\ b.consecutive_failures = Cardinality(FailedRow(os, s, Len(os) + 1))
           /\ b.state # "half_open"
           /\ b.state = "closed" /\ t > 0 => b.consecutive_failures < t
           /\ t > 0 => \A k \in LanePositions(os, s) : Cardinality(FailedRow(os, s, k)) < t

LaneInv == \A s \in Starts : LaneFacts(start[s], orders, EffectiveMode, s)

------------------------------------------------------------------------------
(* The spectator *)

EvidenceIn(lg, n) == n \in 0..(Len(lg) - 1) /\ lg[n + 1].type \in EvidenceTypes

\* The last event of the log is evidence that is persisted and not yet broadcast.
Casting == \E s \in Starts : start[s].pc = "cast"
Uncast(lg, casting, n) == casting /\ n = Len(lg) - 1

\* What the spectator got: in order, and no evidence up to the last event is missing.
GotFacts(got, last, lg) ==
  /\ \A i \in 1..(Len(got) - 1) : got[i] < got[i + 1]
  /\ \A i \in 1..Len(got) : got[i] <= last
  /\ \A n \in Nat : EvidenceIn(lg, n) /\ n <= last => \E i \in 1..Len(got) : got[i] = n
  /\ last < Len(lg) \/ last = 0

\* What is being replayed continues what it got.
ReplayFacts(replay, last, lg) ==
  /\ \A i \in 1..Len(replay) : replay[i].seq = last + i
  /\ replay # <<>> => last + Len(replay) < Len(lg)

\* What waits for the spectator is in the log and was broadcast, evidence in order.
QueueFacts(waiting, lg, casting) ==
  /\ \A i \in 1..Len(waiting) : waiting[i].seq < Len(lg) /\ ~Uncast(lg, casting, waiting[i].seq)
  /\ \A i, j \in 1..Len(waiting) :
       i < j /\ EvidenceIn(lg, waiting[j].seq) => waiting[i].seq < waiting[j].seq

\* Evidence beyond what the spectator has and is being replayed waits for it, is not broadcast
\* yet, or was lost together with everything after it.
Covered(waiting, registered, horizon, lg, casting) ==
  \A n \in Nat : EvidenceIn(lg, n) /\ n > horizon =>
    \/ \E i \in 1..Len(waiting) : waiting[i].seq = n
    \/ registered /\ Uncast(lg, casting, n)
    \/ ~registered /\ \A i \in 1..Len(waiting) : waiting[i].seq < n

WaitingOf(c) == IF c.queue # None THEN c.queue ELSE c.backlog

ClientFacts(c, lg, casting) ==
  /\ GotFacts(c.got, c.last, lg)
  /\ c.pc # "replay" => c.replay = <<>>
  /\ ReplayFacts(c.replay, c.last, lg)
  /\ c.pc = "away" => c.queue = None /\ c.backlog = <<>>
  /\ QueueFacts(WaitingOf(c), lg, casting)
  /\ c.pc \in {"replay", "live"} =>
       Covered(WaitingOf(c), c.queue # None, c.last + Len(c.replay), lg, casting)

ClientInv == ClientFacts(client, log, Casting)

------------------------------------------------------------------------------
(* Lemmas about the operators *)

\* The size of an interval that may be empty.
LEMMA IntervalSize ==
    ASSUME NEW a \in Int, NEW b \in Int, b >= a - 1
    PROVE  IsFiniteSet(a..b) /\ Cardinality(a..b) = b - a + 1
<1>1. IsFiniteSet(a..b) /\ Cardinality(a..b) = IF a > b THEN 0 ELSE b - a + 1
  BY FS_Interval, Zenon
<1>2. (IF a > b THEN 0 ELSE b - a + 1) = b - a + 1
  OBVIOUS
<1> QED BY <1>1, <1>2, Zenon

\* Numbers in order: the k-th has k - 1 smaller ones, and there is one for every k.
LEMMA InOrderMembers ==
    ASSUME NEW S \in SUBSET Nat, IsFiniteSet(S)
    PROVE  /\ Cardinality(S) \in Nat
           /\ DOMAIN InOrder(S) = 1..Cardinality(S)
           /\ \A k \in 1..Cardinality(S) : InOrder(S)[k] \in S
<1> DEFINE below(n) == {m \in S : m < n}
           rank     == [n \in S |-> Cardinality(below(n))]
           T        == 0..(Cardinality(S) - 1)
<1>1. Cardinality(S) \in Nat
  BY FS_CardinalityType
<1>2. ASSUME NEW n \in S
      PROVE  IsFiniteSet(below(n)) /\ Cardinality(below(n)) \in T
  <2>1. below(n) \in SUBSET S /\ n \notin below(n)
    OBVIOUS
  <2>2. /\ IsFiniteSet(below(n)) /\ Cardinality(below(n)) <= Cardinality(S)
        /\ Cardinality(below(n)) # Cardinality(S)
    BY <2>1, FS_Subset, <1>2
  <2>3. Cardinality(below(n)) \in Nat
    BY <2>2, FS_CardinalityType
  <2> QED BY <2>2, <2>3, <1>1
<1>3. ASSUME NEW m \in S, NEW n \in S, m < n
      PROVE  Cardinality(below(m)) # Cardinality(below(n))
  <2>1. below(m) \in SUBSET below(n) /\ m \in below(n) /\ m \notin below(m)
    <3>1. m \in Nat /\ n \in Nat /\ S \subseteq Nat
      OBVIOUS
    <3>2. \A q \in below(m) : q \in below(n)
      BY <1>3, <3>1
    <3>3. m \in below(n) /\ m \notin below(m)
      BY <1>3, <3>1
    <3> HIDE DEF below
    <3> QED BY <3>2, <3>3
  <2> QED BY <2>1, <1>2, FS_Subset
<1>4. \A m, n \in S : rank[m] = rank[n] => m = n
  <2> SUFFICES ASSUME NEW m \in S, NEW n \in S, m # n PROVE rank[m] # rank[n]
    OBVIOUS
  <2>1. m < n \/ n < m
    OBVIOUS
  <2> QED BY <2>1, <1>3
<1>5. rank \in Injection(S, T)
  <2>1. rank \in [S -> T]
    BY <1>2
  <2> HIDE DEF rank, T
  <2> QED BY <2>1, <1>4 DEF Injection, IsInjective
<1>6. IsFiniteSet(T) /\ Cardinality(T) = Cardinality(S)
  <2> DEFINE c == Cardinality(S) - 1
  <2>1. c \in Int /\ c >= 0 - 1 /\ c - 0 + 1 = Cardinality(S) /\ 0 \in Int
    BY <1>1
  <2> HIDE DEF c
  <2>2. IsFiniteSet(0..c) /\ Cardinality(0..c) = c - 0 + 1
    BY <2>1, IntervalSize, Zenon
  <2> QED BY <2>1, <2>2, Zenon DEF c
<1>7. rank \in Surjection(S, T)
  <2> HIDE DEF rank, T
  <2> QED BY <1>5, <1>6, FS_Injection
<1>8. ASSUME NEW k \in 1..Cardinality(S)
      PROVE  \E n \in S : Cardinality(below(n)) = k - 1
  <2>1. k - 1 \in T
    BY <1>1
  <2>2. PICK n \in S : rank[n] = k - 1
    BY <2>1, <1>7 DEF Surjection
  <2> QED BY <2>2
<1>9. \A k \in 1..Cardinality(S) : InOrder(S)[k] \in S
  BY <1>8 DEF InOrder
<1> QED
  BY <1>1, <1>9 DEF InOrder

\* An interval in order counts up.
LEMMA InOrderInterval ==
    ASSUME NEW a \in Nat, NEW b \in Int, b >= a - 1
    PROVE  /\ Cardinality(a..b) = b - a + 1
           /\ \A k \in 1..(b - a + 1) : InOrder(a..b)[k] = a + k - 1
<1>1. Cardinality(a..b) = b - a + 1
  BY IntervalSize
<1>2. ASSUME NEW n \in a..b
      PROVE  Cardinality({m \in a..b : m < n}) = n - a
  <2>1. {m \in a..b : m < n} = a..(n - 1)
    OBVIOUS
  <2>2. n - 1 \in Int /\ n - 1 >= a - 1 /\ a \in Int /\ (n - 1) - a + 1 = n - a
    OBVIOUS
  <2>3. Cardinality(a..(n - 1)) = (n - 1) - a + 1
    BY <2>2, IntervalSize, Zenon
  <2> QED BY <2>1, <2>2, <2>3, Zenon
<1>3. ASSUME NEW k \in 1..(b - a + 1)
      PROVE  (CHOOSE n \in a..b : Cardinality({m \in a..b : m < n}) = k - 1) = a + k - 1
  <2>1. \A n \in a..b : Cardinality({m \in a..b : m < n}) = k - 1 <=> n = a + k - 1
    BY <1>2
  <2>2. a + k - 1 \in a..b
    OBVIOUS
  <2> DEFINE P(n) == Cardinality({m \in a..b : m < n}) = k - 1
  <2> HIDE DEF P
  <2>3. \A n \in a..b : P(n) <=> n = a + k - 1
    BY <2>1 DEF P
  <2>4. (CHOOSE n \in a..b : P(n)) = a + k - 1
    BY <2>2, <2>3
  <2> QED BY <2>4 DEF P
<1> QED
  BY <1>1, <1>3 DEF InOrder

\* The seqs of a log without gaps.
LEMMA SeqsOfLog ==
    ASSUME log \in Seq(CompetitionEvent), \A i \in DOMAIN log : log[i].seq = i - 1
    PROVE  Seqs = 0..(Len(log) - 1)
<1>1. ASSUME NEW n \in 0..(Len(log) - 1) PROVE n \in Seqs
  <2>1. n + 1 \in DOMAIN log /\ log[n + 1].seq = n
    OBVIOUS
  <2> QED BY <2>1 DEF Seqs, Range
<1>2. ASSUME NEW n \in Seqs PROVE n \in 0..(Len(log) - 1)
  <2>1. PICK i \in DOMAIN log : n = log[i].seq
    BY DEF Seqs, Range
  <2> QED BY <2>1
<1> QED BY <1>1, <1>2

\* Listing a log without gaps gives its end, as it stands.
LEMMA ListFacts ==
    ASSUME log \in Seq(CompetitionEvent), \A i \in DOMAIN log : log[i].seq = i - 1,
           NEW since \in Int, since >= -1, since < Len(log)
    PROVE  ListEvents(since) = [k \in 1..(Len(log) - 1 - since) |-> log[since + 1 + k]]
<1> DEFINE later == {n \in Seqs : n > since}
           n == Len(log) - 1 - since
<1>1. later = (since + 1)..(Len(log) - 1)
  BY SeqsOfLog
<1>2. /\ Cardinality(later) = n
      /\ \A k \in 1..n : InOrder(later)[k] = since + k
  <2> DEFINE a == since + 1  b == Len(log) - 1
  <2>1. a \in Nat /\ b \in Int /\ b >= a - 1 /\ b - a + 1 = n /\ \A k \in Int : a + k - 1 = since + k
    OBVIOUS
  <2>2. later = a..b
    BY <1>1
  <2> HIDE DEF a, b, later, n
  <2>3. Cardinality(a..b) = b - a + 1 /\ \A k \in 1..(b - a + 1) : InOrder(a..b)[k] = a + k - 1
    BY <2>1, InOrderInterval, Zenon
  <2>4. Cardinality(later) = n /\ \A k \in 1..n : InOrder(later)[k] = a + k - 1
    BY <2>1, <2>2, <2>3, Zenon
  <2>5. \A k \in 1..n : a + k - 1 = since + k
    BY <2>1 DEF n
  <2> QED BY <2>4, <2>5, Zenon
<1>3. ASSUME NEW k \in 1..n
      PROVE  (CHOOSE e \in Range(log) : e.seq = InOrder(later)[k]) = log[since + 1 + k]
  <2>1. log[since + 1 + k] \in Range(log) /\ log[since + 1 + k].seq = since + k
    BY DEF Range
  <2>2. \A e \in Range(log) : e.seq = since + k => e = log[since + 1 + k]
    BY DEF Range
  <2>3. InOrder(later)[k] = since + k
    BY <1>2
  <2> HIDE DEF later
  <2> QED BY <2>1, <2>2, <2>3
<1>4. DOMAIN InOrder(later) = 1..n
  BY <1>2 DEF InOrder
<1> HIDE DEF later
<1>5. ListEvents(since) = [k \in DOMAIN InOrder(later) |->
                             CHOOSE e \in Range(log) : e.seq = InOrder(later)[k]]
  BY DEF ListEvents, later
<1> QED
  BY <1>3, <1>4, <1>5

\* A batch of derived events.
LEMMA BatchFacts ==
    ASSUME NEW r \in Runs, NEW base \in Nat, NEW types \in Seq(DerivedTypes),
           NEW exec \in (Runs \X Agents) \cup {None}
    PROVE  /\ Batch(r, base, types, exec) \in Seq(CompetitionEvent)
           /\ Len(Batch(r, base, types, exec)) = Len(types)
           /\ Derived(Batch(r, base, types, exec), base, r)
<1> DEFINE b == Batch(r, base, types, exec)
<1>1. b = [i \in 1..Len(types) |-> [seq |-> base + i - 1, run |-> r, type |-> types[i], exec |-> exec]]
  BY DEF Batch, Event
<1>2. \A i \in 1..Len(types) :
        [seq |-> base + i - 1, run |-> r, type |-> types[i], exec |-> exec] \in CompetitionEvent
  BY DEF CompetitionEvent
<1> HIDE DEF b
<1>3. b \in Seq(CompetitionEvent) /\ Len(b) = Len(types)
  BY <1>1, <1>2
<1>4. Derived(b, base, r)
  BY <1>1, <1>3 DEF Derived, DerivedTypes, EvidenceTypes
<1> QED
  BY <1>3, <1>4 DEF b

\* The derived tail has some events, none of them evidence.
LEMMA TailFacts ==
    ASSUME NEW events \in Seq(RunEvent)
    PROVE  TailTypes(events) \in Seq(DerivedTypes) /\ Len(TailTypes(events)) > 0
<1> DEFINE n == Cardinality(Decisions(events))
<1>1. n \in Nat
  <2>1. Decisions(events) \in SUBSET (1..Len(events))
    BY DEF Decisions
  <2>2. IsFiniteSet(1..Len(events))
    BY FS_Interval, Len(events) \in Int, 1 \in Int
  <2> QED BY <2>1, <2>2, FS_Subset, FS_CardinalityType
<1> HIDE DEF n
<1>2. /\ [i \in 1..n |-> "law_result"] \in Seq(DerivedTypes)
      /\ [i \in 1..n |-> "score_update"] \in Seq(DerivedTypes)
      /\ <<"proof_anchor", "competition_finalized">> \in Seq(DerivedTypes)
      /\ Len([i \in 1..n |-> "law_result"]) = n
      /\ Len([i \in 1..n |-> "score_update"]) = n
      /\ Len(<<"proof_anchor", "competition_finalized">>) = 2
  BY <1>1 DEF DerivedTypes
<1>3. TailTypes(events) = [i \in 1..n |-> "law_result"] \o [i \in 1..n |-> "score_update"]
                            \o <<"proof_anchor", "competition_finalized">>
  BY DEF TailTypes, n
<1> QED
  BY <1>1, <1>2, <1>3

\* The proposals of a run are bets of agents.
LEMMA ProposalFacts ==
    ASSUME NEW events \in Seq(RunEvent)
    PROVE  Proposals(events) \in Seq([type: {"decision"}, agent: Agents, bet: {TRUE}])
<1> DEFINE S == {n \in Decisions(events) : events[n].bet}
<1>1. S \in SUBSET (1..Len(events)) /\ S \in SUBSET Nat
  BY DEF Decisions
<1>2. IsFiniteSet(S)
  <2>1. IsFiniteSet(1..Len(events))
    BY FS_Interval, Len(events) \in Int, 1 \in Int
  <2> HIDE DEF S
  <2> QED BY <1>1, <2>1, FS_Subset
<1>3. \A n \in S : events[n] \in [type: {"decision"}, agent: Agents, bet: {TRUE}]
  <2> TAKE n \in S
  <2>1. n \in 1..Len(events) /\ events[n].type = "decision" /\ events[n].bet
    BY DEF Decisions
  <2>2. events[n] \in RunEvent
    BY <2>1
  <2>3. events[n] \in [type: {"decision", "error"}, agent: Agents, bet: BOOLEAN]
    BY <2>1, <2>2 DEF RunEvent
  <2> QED BY <2>1, <2>3
<1> HIDE DEF S
<1>4. /\ Cardinality(S) \in Nat /\ DOMAIN InOrder(S) = 1..Cardinality(S)
      /\ \A k \in 1..Cardinality(S) : InOrder(S)[k] \in S
  BY <1>1, <1>2, InOrderMembers
<1>5. Proposals(events) = [k \in DOMAIN InOrder(S) |-> events[InOrder(S)[k]]]
  BY DEF Proposals, S
<1> DEFINE B == [type: {"decision"}, agent: Agents, bet: {TRUE}]
<1> HIDE DEF B
<1>6. \A k \in 1..Cardinality(S) : events[InOrder(S)[k]] \in B
  BY <1>3, <1>4 DEF B
<1>7. Proposals(events) = [k \in 1..Cardinality(S) |-> events[InOrder(S)[k]]]
  BY <1>4, <1>5
<1> DEFINE c == Cardinality(S)  P == Proposals(events)
<1>8. c \in Nat /\ DOMAIN P = 1..c /\ \A k \in 1..c : P[k] \in B
  BY <1>4, <1>6, <1>7
<1>9. P = [k \in 1..c |-> P[k]]
  BY <1>7
<1> HIDE DEF c, P
<1>10. P \in Seq(B)
  BY <1>8, <1>9
<1> QED
  BY <1>10 DEF B, P

\* The agents of a roster in some order.
LEMMA RosterInOrder ==
    ASSUME NEW S \in SUBSET Agents
    PROVE  /\ Cardinality(S) \in Nat
           /\ SetToSeq(S) \in [1..Cardinality(S) -> S]
<1>1. IsFiniteSet(S)
  BY AgentsAssumption, FS_Subset
<1>2. Cardinality(S) \in Nat /\ ExistsBijection(1..Cardinality(S), S)
  BY <1>1, FS_CardinalityType
<1>3. \E f \in [1..Cardinality(S) -> S] : IsInjective(f)
  BY <1>2 DEF ExistsBijection, Bijection, Injection
<1> QED
  BY <1>2, <1>3 DEF SetToSeq

\* Every receipt leaves the record at a status.
LEMMA StatusFacts ==
    ASSUME NEW receipt \in TerminalAnswers \cup {"accepted", "unresolved"}
    PROVE  SubmittedStatus(receipt) \in ExecutionStatus
BY DEF SubmittedStatus, PostPolicyPath, ExecutionStatus, NextExec, TerminalAnswers

LEMMA ReceiptFacts ==
    ASSUME NEW answer \in VenueAnswers
    PROVE  ReceiptStatus(answer) \in TerminalAnswers \cup {"unresolved"}
BY DEF ReceiptStatus, VenueAnswers, TerminalAnswers

\* What the lane submits was counted below the cap and let through by the breaker.
LEMMA GateFacts ==
    ASSUME NEW p, NEW env \in PolicyEnvelope, NEW breaker \in Breaker, NEW placed \in Nat, NEW mode,
           NEW eligible, NEW quote
    PROVE  LET d == LaneDecision(p, env, breaker, placed, mode, eligible, quote)
           IN  /\ d.submit \in BOOLEAN
               /\ d.status \in ExecutionStatus
               /\ d.submit => placed < env.max_orders_per_run /\ Allows(breaker)
<1> DEFINE ctx == PreQuoteContext(p, env, breaker, placed, mode, eligible)
           d == LaneDecision(p, env, breaker, placed, mode, eligible, quote)
<1>1. /\ d.submit \in BOOLEAN /\ d.status \in ExecutionStatus
      /\ d.submit => PreQuoteDecision(ctx, env) # "denied"
  BY DEF LaneDecision, ExecutionStatus, NextExec
<1>2. ctx.breaker = breaker /\ ctx.orders_this_run = placed
  BY DEF PreQuoteContext
<1> HIDE DEF ctx
<1>3. PreQuoteDecision(ctx, env) # "denied" => PreQuoteReasons(ctx, env) = {}
  BY DEF PreQuoteDecision
<1>4. PreQuoteReasons(ctx, env) = {} => ~(ctx.orders_this_run >= env.max_orders_per_run) /\ Allows(ctx.breaker)
  <2>1. ctx.orders_this_run >= env.max_orders_per_run => "order_cap_run" \in PreQuoteReasons(ctx, env)
    BY DEF PreQuoteReasons
  <2>2. ~Allows(ctx.breaker) => "circuit_open" \in PreQuoteReasons(ctx, env)
    BY DEF PreQuoteReasons
  <2> QED BY <2>1, <2>2
<1>5. env.max_orders_per_run \in Nat
  BY DEF PolicyEnvelope
<1> HIDE DEF d
<1> QED
  BY <1>1, <1>2, <1>3, <1>4, <1>5 DEF d

\* The projection of a run: the started event, then its evidence.
LEMMA ProjectionFacts ==
    ASSUME NEW s \in Runs, NEW events \in Seq(RunEvent)
    PROVE  /\ ProjectionPrefix(s, events) \in Seq(CompetitionEvent)
           /\ Len(ProjectionPrefix(s, events)) = Len(events) + 1
           /\ ProjectionPrefix(s, events)[1] = StartedEvent(s)
           /\ \A n \in 1..Len(events) :
                ProjectionPrefix(s, events)[n + 1] = EvidenceEvent(s, n - 1, events[n])
<1> DEFINE ev == [n \in 1..Len(events) |-> EvidenceEvent(s, n - 1, events[n])]
<1>1. StartedEvent(s) \in CompetitionEvent
  BY DEF StartedEvent, Event, CompetitionEvent, DerivedTypes
<1>2. \A n \in 1..Len(events) : EvidenceEvent(s, n - 1, events[n]) \in CompetitionEvent
  BY DEF EvidenceEvent, EvidenceType, Event, CompetitionEvent, EvidenceTypes
<1>3. ev \in Seq(CompetitionEvent) /\ Len(ev) = Len(events)
  BY <1>2
<1>4. ProjectionPrefix(s, events) = <<StartedEvent(s)>> \o ev
  BY DEF ProjectionPrefix
<1>5. \A n \in 1..Len(events) : ev[n] = EvidenceEvent(s, n - 1, events[n])
  OBVIOUS
<1> HIDE DEF ev
<1>6. <<StartedEvent(s)>> \in Seq(CompetitionEvent) /\ Len(<<StartedEvent(s)>>) = 1
  BY <1>1
<1> QED
  BY <1>3, <1>4, <1>5, <1>6

------------------------------------------------------------------------------
(* How the log grows *)

\* The log only ever gets longer.
Grows ==
  /\ log' \in Seq(CompetitionEvent)
  /\ Len(log) <= Len(log')
  /\ \A i \in 1..Len(log) : log'[i] = log[i]

\* A batch that the store accepts and that does not start beyond the end of the log continues it.
LEMMA GrowLog ==
    ASSUME log \in Seq(CompetitionEvent), LogIsOneRun, NEW r \in Runs,
           NEW batch \in Seq(CompetitionEvent), NEW base \in Nat, base <= Len(log),
           \A i \in DOMAIN batch : batch[i].seq = base + i - 1 /\ batch[i].run = r,
           log = <<>> \/ OwnsLog(r), NoDuplicateSeq(batch), log' = log \o batch
    PROVE  /\ Grows /\ LogIsOneRun'
           /\ Len(log') = Len(log) + Len(batch)
           /\ batch # <<>> => base = Len(log) /\ OwnsLog(r)'
           /\ \A i \in 1..Len(batch) : log'[Len(log) + i] = batch[i]
<1>1. /\ log' \in Seq(CompetitionEvent)
      /\ Len(log') = Len(log) + Len(batch)
      /\ \A i \in 1..Len(log) : log'[i] = log[i]
      /\ \A i \in 1..Len(batch) : log'[Len(log) + i] = batch[i]
  OBVIOUS
<1>2. Grows
  BY <1>1 DEF Grows
<1>3. CASE batch = <<>>
  <2>1. log' = log
    BY <1>3
  <2> QED BY <2>1, <1>1, <1>2, <1>3 DEF LogIsOneRun
<1>4. CASE batch # <<>>
  <2>1. 1 \in DOMAIN batch /\ batch[1].seq = base /\ Len(batch) >= 1
    BY <1>4
  <2>2. base \in {e.seq : e \in Range(batch)}
    BY <2>1 DEF Range
  <2>3. Seqs = 0..(Len(log) - 1)
    BY SeqsOfLog DEF LogIsOneRun
  <2>4. base = Len(log)
    BY <2>2, <2>3 DEF NoDuplicateSeq
  <2>5. \A i \in DOMAIN log' : log'[i].seq = i - 1
    <3> TAKE i \in DOMAIN log'
    <3>1. CASE i \in 1..Len(log)
      BY <1>1, <3>1 DEF LogIsOneRun
    <3>2. CASE i \in (Len(log) + 1)..(Len(log) + Len(batch))
      <4>1. i - Len(log) \in 1..Len(batch) /\ i = Len(log) + (i - Len(log))
        BY <3>2
      <4>2. log'[i] = batch[i - Len(log)]
        BY <1>1, <4>1
      <4> QED BY <4>1, <4>2, <2>4
    <3> QED BY <1>1, <3>1, <3>2
  <2>6. \A i \in DOMAIN log' : log'[i].run = r
    <3> TAKE i \in DOMAIN log'
    <3>1. CASE i \in 1..Len(log)
      <4>1. log[i].run = log[1].run
        <5>1. i \in DOMAIN log /\ 1 \in DOMAIN log
          BY <3>1
        <5>2. log[i] \in Range(log) /\ log[1] \in Range(log)
          BY <5>1 DEF Range
        <5> QED BY <5>2 DEF LogIsOneRun
      <4> QED BY <1>1, <3>1, <4>1 DEF OwnsLog
    <3>2. CASE i \in (Len(log) + 1)..(Len(log) + Len(batch))
      <4>1. i - Len(log) \in 1..Len(batch) /\ i = Len(log) + (i - Len(log))
        BY <3>2
      <4>2. log'[i] = batch[i - Len(log)]
        BY <1>1, <4>1
      <4> QED BY <4>1, <4>2
    <3> QED BY <1>1, <3>1, <3>2
  <2>7. LogIsOneRun'
    BY <2>5, <2>6 DEF LogIsOneRun, Range
  <2>8. OwnsLog(r)'
    BY <1>1, <2>1, <2>6 DEF OwnsLog
  <2> QED BY <1>1, <1>2, <2>4, <2>7, <2>8
<1> QED
  BY <1>3, <1>4

\* What a start or an approval knows of the log stays true while the log grows.
LEMMA PrefixStays ==
    ASSUME NEW P \in Seq(CompetitionEvent), log \in Seq(CompetitionEvent), Grows, IsPrefix(P, log)
    PROVE  IsPrefix(P, log')
<1>1. /\ Len(P) <= Len(log) /\ Len(P) \in Nat
      /\ SubSeq(P, 1, Len(P)) = SubSeq(log, 1, Len(P))
  BY DEF IsPrefix
<1>2. SubSeq(log, 1, Len(P)) = SubSeq(log', 1, Len(P))
  BY <1>1 DEF Grows
<1> QED
  BY <1>1, <1>2 DEF IsPrefix, Grows

LEMMA StartStays ==
    ASSUME TypesInv, Grows, NEW q \in Starts, StartKnows(q), start'[q] = start[q],
           runs'[q] = runs[q], start[q].pc \in Writing => log' = log
    PROVE  StartKnows(q)'
<1>1. log \in Seq(CompetitionEvent) /\ start[q] \in StartRequest /\ q \in Runs
      /\ runs[q] \in Seq(RunEvent) \cup {None}
  BY DEF TypesInv, Runs
<1>2. start[q].lane \in Seq(CompetitionEvent)
  BY <1>1 DEF StartRequest
<1>3. runs'[q] # None => IsPrefix(ProjectionPrefix(q, runs[q]), log')
  BY <1>1, PrefixStays, ProjectionFacts DEF StartKnows
<1>4. OwnsLog(q) => OwnsLog(q)'
  BY <1>1 DEF OwnsLog, Grows
<1>5. ASSUME Logged(start[q].lane), NEW i \in DOMAIN start[q].lane
      PROVE  /\ start[q].lane[i].seq < Len(log')
             /\ log'[start[q].lane[i].seq + 1].type \notin EvidenceTypes
  <2> DEFINE n == start[q].lane[i].seq
  <2>1. n \in Nat
    <3>1. start[q].lane[i] \in CompetitionEvent
      BY <1>2, <1>5
    <3> QED BY <3>1 DEF CompetitionEvent
  <2>2. n < Len(log) /\ log[n + 1].type \notin EvidenceTypes
    BY <1>5 DEF Logged
  <2> HIDE DEF n
  <2>3. n < Len(log') /\ log'[n + 1] = log[n + 1]
    BY <2>1, <2>2, <1>1 DEF Grows
  <2> QED BY <2>2, <2>3 DEF n
<1>6. start[q].next \in Nat /\ Len(log) \in Nat /\ Len(log') \in Nat
  BY <1>1 DEF StartRequest, Grows
<1> QED
  BY <1>3, <1>4, <1>5, <1>6 DEF StartKnows, Derived, Logged, Grows

\* A run that was laned stays laned.
LEMMA LanedStays ==
    ASSUME TypesInv, Grows, \A q \in Starts : start[q].pc \in Sealed => start'[q].pc \in Sealed,
           NEW r, Laned(r)
    PROVE  Laned(r)'
<1>1. log \in Seq(CompetitionEvent)
  BY DEF TypesInv
<1>2. OwnsLog(r)'
  BY <1>1 DEF Laned, OwnsLog, Grows
<1> QED
  BY <1>2 DEF Laned

LEMMA ApprovalStays ==
    ASSUME TypesInv, Grows, \A q \in Starts : start[q].pc \in Sealed => start'[q].pc \in Sealed,
           NEW p \in Approvals, ApprovalKnows(p), approval'[p] = approval[p]
    PROVE  ApprovalKnows(p)'
<1>1. log \in Seq(CompetitionEvent) /\ approval[p] \in ApprovalRequest
  BY DEF TypesInv
<1>2. approval[p].events \in Seq(CompetitionEvent) /\ approval[p].next \in Nat
  BY <1>1 DEF ApprovalRequest
<1>3. Laned(approval[p].exec[1]) => (Laned(approval[p].exec[1]))'
  BY LanedStays
<1>4. ASSUME Logged(approval[p].events), NEW i \in DOMAIN approval[p].events
      PROVE  /\ approval[p].events[i].seq < Len(log')
             /\ log'[approval[p].events[i].seq + 1].type \notin EvidenceTypes
  <2> DEFINE n == approval[p].events[i].seq
  <2>1. n \in Nat
    <3>1. approval[p].events[i] \in CompetitionEvent
      BY <1>2, <1>4
    <3> QED BY <3>1 DEF CompetitionEvent
  <2>2. n < Len(log) /\ log[n + 1].type \notin EvidenceTypes
    BY <1>4 DEF Logged
  <2> HIDE DEF n
  <2>3. n < Len(log') /\ log'[n + 1] = log[n + 1]
    BY <2>1, <2>2, <1>1 DEF Grows
  <2> QED BY <2>2, <2>3 DEF n
<1>5. Len(log) \in Nat /\ Len(log') \in Nat
  BY <1>1 DEF Grows
<1> QED
  BY <1>2, <1>3, <1>4, <1>5 DEF ApprovalKnows, Derived, Logged, Grows

\* What every step does to the log keeps what the others know of it.
LEMMA LogStep ==
    ASSUME TypesInv, LogInv, Grows, LogIsOneRun',
           \A q \in Starts : start[q].pc \in Sealed => start'[q].pc \in Sealed,
           \A q \in Starts : \/ StartKnows(q)'
                             \/ /\ start'[q] = start[q] /\ runs'[q] = runs[q]
                                /\ start[q].pc \in Writing => log' = log,
           \A x \in Runs \X Agents : records'[x] = records[x] \/ (Laned(x[1]))',
           \A p \in Approvals : ApprovalKnows(p)' \/ approval'[p] = approval[p]
    PROVE  LogInv'
<1>1. \A q \in Starts : StartKnows(q)'
  BY StartStays DEF LogInv
<1>2. \A p \in Approvals : ApprovalKnows(p)'
  BY ApprovalStays DEF LogInv
<1>3. RecordKnows'
  <2> SUFFICES ASSUME NEW x \in Runs \X Agents, records'[x] # None PROVE (Laned(x[1]))'
    BY DEF RecordKnows
  <2>1. records'[x] = records[x] => Laned(x[1])
    BY DEF LogInv, RecordKnows
  <2> QED BY <2>1, LanedStays
<1> QED
  BY <1>1, <1>2, <1>3 DEF LogInv

\* While a start writes evidence nobody else appends: an approval or another start that did
\* would own the same log.
LEMMA OneWriter ==
    ASSUME TypesInv, LogInv, NEW q \in Starts, start[q].pc \in Writing
    PROVE  log # <<>> /\ OwnsLog(q) /\ Len(log) = Len(start[q].events) + 1 /\ ~Laned(q)
<1>1. start[q].events \in Seq(RunEvent) /\ q \in Runs
  BY DEF TypesInv, StartRequest, Runs
<1>2. log = ProjectionPrefix(q, start[q].events)
  BY DEF LogInv, StartKnows
<1>3. Len(log) = Len(start[q].events) + 1 /\ log[1] = StartedEvent(q) /\ log \in Seq(CompetitionEvent)
  BY <1>1, <1>2, ProjectionFacts
<1>4. log # <<>> /\ OwnsLog(q)
  BY <1>1, <1>3 DEF OwnsLog, StartedEvent, Event
<1> QED
  BY <1>3, <1>4 DEF Laned, Writing, Sealed

------------------------------------------------------------------------------
(* The steps of a start request *)

\* A start moves and leaves the log, the sealed runs, the records and the approvals alone.
LEMMA StartMoves ==
    ASSUME TypesInv, LogInv, NEW s \in Starts, start' \in [Starts -> StartRequest],
           \A q \in Starts : q # s => start'[q] = start[q],
           UNCHANGED <<log, runs, records, approval>>,
           start[s].pc \in Sealed => start'[s].pc \in Sealed, StartKnows(s)'
    PROVE  LogInv'
<1>1. Grows
  BY DEF Grows, TypesInv
<1>2. LogIsOneRun'
  BY DEF LogInv, LogIsOneRun
<1>3. \A q \in Starts : start[q].pc \in Sealed => start'[q].pc \in Sealed
  OBVIOUS
<1> QED
  BY <1>1, <1>2, <1>3, LogStep

\* A start request is replaced by another one.
LEMMA StartSet ==
    ASSUME TypesInv, NEW s \in Starts, NEW r \in StartRequest, start' = [start EXCEPT ![s] = r]
    PROVE  /\ start' \in [Starts -> StartRequest] /\ start'[s] = r
           /\ \A q \in Starts : q # s => start'[q] = start[q]
BY DEF TypesInv

\* Only the place of a start changes.
LEMMA GotoFacts ==
    ASSUME TypesInv, NEW s \in Starts, NEW pc \in StartPC, Goto(s, pc)
    PROVE  /\ start' \in [Starts -> StartRequest]
           /\ \A q \in Starts : q # s => start'[q] = start[q]
           /\ start'[s] = [start[s] EXCEPT !.pc = pc]
           /\ start'[s].pc = pc
           /\ start'[s].lane = start[s].lane /\ start'[s].next = start[s].next
           /\ start'[s].events = start[s].events /\ start'[s].pending = start[s].pending
           /\ start'[s].env = start[s].env /\ start'[s].breaker = start[s].breaker
           /\ start'[s].placed = start[s].placed
<1>1. start \in [Starts -> StartRequest]
  BY DEF TypesInv
<1>2. start' = [start EXCEPT ![s] = [start[s] EXCEPT !.pc = pc]]
  BY <1>1 DEF Goto
<1>3. [start[s] EXCEPT !.pc = pc] \in StartRequest
  BY <1>1 DEF StartRequest
<1> QED
  BY <1>1, <1>2, <1>3 DEF StartRequest

LEMMA ResolveStartKeeps ==
    ASSUME TypesInv, LogInv, NEW s \in Starts, ResolveStart(s)
    PROVE  TypesInv' /\ LogInv'
<1>1. /\ start' \in [Starts -> StartRequest]
      /\ \A q \in Starts : q # s => start'[q] = start[q]
      /\ start[s].pc = "idle" /\ start'[s].pc = "begin" /\ start'[s].lane = start[s].lane
      /\ start'[s].events = start[s].events
  <2> DEFINE r == [start[s] EXCEPT !.pc = "begin", !.agents = comp.roster]
  <2>1. start[s] \in StartRequest /\ comp.roster \in SUBSET Agents /\ start \in [Starts -> StartRequest]
    BY DEF TypesInv, RowTypes
  <2>2. r \in StartRequest /\ r.pc = "begin" /\ r.lane = start[s].lane /\ r.events = start[s].events
    BY <2>1 DEF StartRequest, StartPC
  <2>3. start' = [start EXCEPT ![s] = r] /\ start[s].pc = "idle"
    BY <2>1 DEF ResolveStart
  <2> HIDE DEF r
  <2> QED BY <2>2, <2>3, StartSet
<1>2. StartKnows(s)'
  BY <1>1 DEF ResolveStart, LogInv, StartKnows, Writing, Sealed
<1>3. LogInv'
  BY <1>1, <1>2, StartMoves DEF ResolveStart, Sealed
<1> QED
  BY <1>1, <1>3 DEF ResolveStart, TypesInv, RowTypes

LEMMA BeginKeeps ==
    ASSUME TypesInv, LogInv, NEW s \in Starts, Begin(s)
    PROVE  TypesInv' /\ LogInv'
<1>1. /\ start' \in [Starts -> StartRequest]
      /\ \A q \in Starts : q # s => start'[q] = start[q]
      /\ start[s].pc = "begin" /\ start'[s].pc \in {"mark", "refused"}
      /\ start'[s].lane = start[s].lane /\ start'[s].events = start[s].events
  <2> DEFINE pc == IF comp.status = "draft" THEN "mark" ELSE "refused"
             r == [start[s] EXCEPT !.pc = pc, !.env = config.env]
  <2>1. start[s] \in StartRequest /\ config.env \in PolicyEnvelope /\ start \in [Starts -> StartRequest]
    BY DEF TypesInv, RowTypes, Config
  <2>2. pc \in StartPC /\ pc \in {"mark", "refused"}
    BY DEF StartPC
  <2>3. start' = [start EXCEPT ![s] = r] /\ start[s].pc = "begin"
    BY <2>1 DEF Begin
  <2> HIDE DEF pc
  <2>4. r \in StartRequest /\ r.pc = pc /\ r.lane = start[s].lane /\ r.events = start[s].events
    BY <2>1, <2>2 DEF StartRequest
  <2> HIDE DEF r
  <2> QED BY <2>2, <2>3, <2>4, StartSet
<1>2. StartKnows(s)'
  BY <1>1 DEF Begin, LogInv, StartKnows, Writing, Sealed
<1>3. LogInv'
  BY <1>1, <1>2, StartMoves DEF Begin, Sealed
<1> QED
  BY <1>1, <1>3 DEF Begin, TypesInv, RowTypes

LEMMA MarkRunningKeeps ==
    ASSUME TypesInv, LogInv, NEW s \in Starts, MarkRunning(s)
    PROVE  TypesInv' /\ LogInv'
<1>0. start[s].pc = "mark" /\ Goto(s, "bind") /\ "bind" \in StartPC
  BY DEF MarkRunning, StartPC
<1>1. /\ start' \in [Starts -> StartRequest]
      /\ \A q \in Starts : q # s => start'[q] = start[q]
      /\ start'[s].pc = "bind" /\ start'[s].lane = start[s].lane
      /\ start'[s].events = start[s].events
  BY <1>0, GotoFacts
<1>2. StartKnows(s)'
  BY <1>0, <1>1 DEF MarkRunning, LogInv, StartKnows, Writing, Sealed
<1>3. LogInv'
  BY <1>0, <1>1, <1>2, StartMoves DEF MarkRunning, Sealed
<1> QED
  BY <1>1, <1>3 DEF MarkRunning, SetStatus, TypesInv, RowTypes, CompetitionStatus

LEMMA BindRunKeeps ==
    ASSUME TypesInv, LogInv, NEW s \in Starts, BindRun(s)
    PROVE  TypesInv' /\ LogInv'
<1>0. start[s].pc = "bind" /\ Goto(s, "started") /\ "started" \in StartPC
  BY DEF BindRun, StartPC
<1>1. /\ start' \in [Starts -> StartRequest]
      /\ \A q \in Starts : q # s => start'[q] = start[q]
      /\ start'[s].pc = "started" /\ start'[s].lane = start[s].lane
      /\ start'[s].events = start[s].events
  BY <1>0, GotoFacts
<1>2. StartKnows(s)'
  BY <1>0, <1>1 DEF BindRun, LogInv, StartKnows, Writing, Sealed
<1>3. LogInv'
  BY <1>0, <1>1, <1>2, StartMoves DEF BindRun, Sealed
<1> QED
  BY <1>1, <1>3 DEF BindRun, TypesInv, RowTypes, Runs

\* A start that fails keeps what is sealed and nothing else.
LEMMA FailKeeps ==
    ASSUME TypesInv, LogInv, NEW s \in Starts, NEW pc \in {"failed", "abort", "done"}, Goto(s, pc),
           UNCHANGED <<log, runs, records, approval>>
    PROVE  start' \in [Starts -> StartRequest] /\ LogInv'
<1>1. /\ start' \in [Starts -> StartRequest]
      /\ \A q \in Starts : q # s => start'[q] = start[q]
      /\ start'[s].pc = pc
  BY GotoFacts DEF StartPC
<1>2. StartKnows(s)'
  BY <1>1 DEF LogInv, StartKnows, Writing, Sealed
<1> QED
  BY <1>1, <1>2, StartMoves DEF Sealed

LEMMA StoreErrorKeeps ==
    ASSUME TypesInv, LogInv, NEW s \in Starts, StoreError(s)
    PROVE  TypesInv' /\ LogInv'
<1>1. start' \in [Starts -> StartRequest] /\ LogInv'
  BY FailKeeps DEF StoreError
<1> QED
  BY <1>1 DEF StoreError, TypesInv, RowTypes

LEMMA LaneRaisesKeeps ==
    ASSUME TypesInv, LogInv, NEW s \in Starts, LaneRaises(s)
    PROVE  TypesInv' /\ LogInv'
<1>1. start' \in [Starts -> StartRequest] /\ LogInv'
  BY FailKeeps DEF LaneRaises
<1> QED
  BY <1>1 DEF LaneRaises, TypesInv, RowTypes

LEMMA FinalizeKeeps ==
    ASSUME TypesInv, LogInv, NEW s \in Starts, Finalize(s)
    PROVE  TypesInv' /\ LogInv'
<1>1. start' \in [Starts -> StartRequest] /\ LogInv'
  BY FailKeeps DEF Finalize
<1> QED
  BY <1>1 DEF Finalize, SetStatus, TypesInv, RowTypes, CompetitionStatus

LEMMA DecideKeeps ==
    ASSUME TypesInv, LogInv, NEW s \in Starts, Decide(s)
    PROVE  TypesInv' /\ LogInv'
<1>1. start \in [Starts -> StartRequest] /\ start[s].agents \in SUBSET Agents
  BY DEF TypesInv, StartRequest
<1>2. PICK outcome \in [start[s].agents -> {"bet", "wait", "error"}] :
        start' = [start EXCEPT ![s].emit =
                   LET as == SetToSeq(start[s].agents)
                   IN  [i \in DOMAIN as |->
                          [type |-> IF outcome[as[i]] = "error" THEN "error" ELSE "decision",
                           agent |-> as[i], bet |-> outcome[as[i]] = "bet"]]]
  BY DEF Decide
<1> DEFINE as == SetToSeq(start[s].agents)
           n == Cardinality(start[s].agents)
           event(i) == [type |-> IF outcome[as[i]] = "error" THEN "error" ELSE "decision",
                        agent |-> as[i], bet |-> outcome[as[i]] = "bet"]
           emit == [i \in DOMAIN as |-> event(i)]
<1>3. n \in Nat /\ as \in [1..n -> start[s].agents]
  BY <1>1, RosterInOrder
<1> HIDE DEF as, n
<1>4. \A i \in 1..n : event(i) \in RunEvent
  <2> TAKE i \in 1..n
  <2>1. as[i] \in start[s].agents /\ as[i] \in Agents
    BY <1>1, <1>3
  <2>2. (IF outcome[as[i]] = "error" THEN "error" ELSE "decision") \in {"decision", "error"}
    OBVIOUS
  <2>3. (outcome[as[i]] = "bet") \in BOOLEAN
    OBVIOUS
  <2> QED BY <2>1, <2>2, <2>3, Zenon DEF RunEvent
<1>5. start' = [start EXCEPT ![s].emit = emit]
  BY <1>2 DEF as
<1> HIDE DEF event
<1>6. emit \in Seq(RunEvent)
  BY <1>3, <1>4
<1> HIDE DEF emit
<1>7. /\ start' \in [Starts -> StartRequest]
      /\ \A q \in Starts : q # s => start'[q] = start[q]
      /\ start'[s].pc = start[s].pc /\ start'[s].lane = start[s].lane
      /\ start'[s].events = start[s].events
  <2> DEFINE r == [start[s] EXCEPT !.emit = emit]
  <2>1. r \in StartRequest /\ r.pc = start[s].pc /\ r.lane = start[s].lane /\ r.events = start[s].events
    BY <1>1, <1>6 DEF StartRequest
  <2>2. start' = [start EXCEPT ![s] = r]
    BY <1>1, <1>5
  <2> HIDE DEF r
  <2> QED BY <2>1, <2>2, StartSet
<1>8. start[s].pc = "emit" /\ UNCHANGED <<log, runs, records, approval>>
  BY DEF Decide
<1>9. StartKnows(s)'
  BY <1>7, <1>8 DEF LogInv, StartKnows, Writing, Sealed
<1>10. LogInv'
  BY <1>7, <1>8, <1>9, StartMoves DEF Sealed
<1> QED
  BY <1>7, <1>10 DEF Decide, TypesInv, RowTypes

LEMMA ParityKeeps ==
    ASSUME TypesInv, LogInv, NEW s \in Starts, Parity(s)
    PROVE  TypesInv' /\ LogInv'
<1>1. /\ start[s].pc = "parity" /\ start[s].events \in Seq(RunEvent)
      /\ log \in Seq(CompetitionEvent) /\ log = ProjectionPrefix(s, start[s].events)
  BY DEF Parity, TypesInv, StartRequest, LogInv, StartKnows, Writing
<1>2. ListEvents(-1) = log
  <2>1. Len(log) \in Nat /\ -1 \in Int /\ -1 < Len(log) /\ -1 >= -1
    BY <1>1
  <2>2. ListEvents(-1) = [k \in 1..(Len(log) - 1 - (-1)) |-> log[-1 + 1 + k]]
    BY <1>1, <2>1, ListFacts DEF LogInv, LogIsOneRun
  <2>3. ListEvents(-1) = [k \in 1..Len(log) |-> log[k]]
    BY <2>1, <2>2
  <2> QED BY <1>1, <2>3
<1>3. Goto(s, "tail") /\ "tail" \in StartPC /\ UNCHANGED <<log, runs, records, approval>>
  BY <1>1, <1>2 DEF Parity, StartPC
<1>4. /\ start' \in [Starts -> StartRequest]
      /\ \A q \in Starts : q # s => start'[q] = start[q]
      /\ start'[s].pc = "tail" /\ start'[s].lane = start[s].lane
      /\ start'[s].events = start[s].events
  BY <1>3, GotoFacts
<1>5. StartKnows(s)'
  BY <1>1, <1>3, <1>4 DEF LogInv, StartKnows, Writing, Sealed
<1>6. LogInv'
  BY <1>1, <1>3, <1>4, <1>5, StartMoves DEF Sealed
<1> QED
  BY <1>4, <1>6 DEF Parity, TypesInv, RowTypes

LEMMA SealKeeps ==
    ASSUME TypesInv, LogInv, NEW s \in Starts, Seal(s)
    PROVE  TypesInv' /\ LogInv'
<1>1. /\ start[s].pc = "emit" /\ start[s].events \in Seq(RunEvent) /\ s \in Runs
      /\ log \in Seq(CompetitionEvent) /\ log = ProjectionPrefix(s, start[s].events)
  BY DEF Seal, TypesInv, StartRequest, LogInv, StartKnows, Writing, Runs
<1>2. /\ Goto(s, "parity") /\ "parity" \in StartPC /\ UNCHANGED <<log, records, approval>>
      /\ runs' = [runs EXCEPT ![s] = start[s].events]
  BY DEF Seal, StartPC
<1>3. /\ start' \in [Starts -> StartRequest]
      /\ \A q \in Starts : q # s => start'[q] = start[q]
      /\ start'[s].pc = "parity" /\ start'[s].lane = start[s].lane
      /\ start'[s].events = start[s].events
  BY <1>2, GotoFacts
<1>4. /\ runs' \in [Starts -> Seq(RunEvent) \cup {None}]
      /\ runs'[s] = start[s].events /\ \A q \in Starts : q # s => runs'[q] = runs[q]
  BY <1>1, <1>2 DEF TypesInv
<1>5. IsPrefix(log, log)
  BY <1>1 DEF IsPrefix
<1>6. StartKnows(s)'
  BY <1>1, <1>2, <1>3, <1>4, <1>5 DEF LogInv, StartKnows, Writing, Sealed
<1>7. Grows /\ LogIsOneRun'
  BY <1>1, <1>2 DEF Grows, LogInv, LogIsOneRun
<1>8. LogInv'
  BY <1>1, <1>2, <1>3, <1>4, <1>6, <1>7, LogStep DEF Sealed
<1> QED
  BY <1>3, <1>4, <1>8 DEF Seal, TypesInv, RowTypes

\* A broadcast puts one more event in the queue, or drops the client with what it has.
LEMMA BroadcastTypes ==
    ASSUME client \in SpectatorState, NEW e \in CompetitionEvent, Broadcast(e)
    PROVE  client' \in SpectatorState
<1>1. CASE client.queue = None
  BY <1>1 DEF Broadcast
<1>2. CASE client.queue # None
  <2>1. client.queue \in Seq(CompetitionEvent)
    BY <1>2 DEF SpectatorState
  <2>2. Append(client.queue, e) \in Seq(CompetitionEvent)
    BY <2>1
  <2>3. CASE Len(client.queue) < QueueMax
    BY <1>2, <2>1, <2>2, <2>3 DEF Broadcast, SpectatorState
  <2>4. CASE ~(Len(client.queue) < QueueMax)
    BY <1>2, <2>1, <2>4 DEF Broadcast, SpectatorState
  <2> QED BY <2>3, <2>4
<1> QED BY <1>1, <1>2

LEMMA CastEvidenceKeeps ==
    ASSUME TypesInv, LogInv, NEW s \in Starts, CastEvidence(s)
    PROVE  TypesInv' /\ LogInv'
<1> DEFINE n == Len(start[s].events) - 1
           e == EvidenceEvent(s, n, start[s].events[n + 1])
<1>1. /\ start[s].pc = "cast" /\ start[s].events \in Seq(RunEvent) /\ s \in Runs
      /\ start[s].events # <<>>
      /\ log \in Seq(CompetitionEvent) /\ log = ProjectionPrefix(s, start[s].events)
  BY DEF CastEvidence, TypesInv, StartRequest, LogInv, StartKnows, Writing, Runs
<1>2. n + 1 \in 1..Len(start[s].events) /\ n = (n + 1) - 1
  BY <1>1
<1>3. e = log[n + 2] /\ e \in CompetitionEvent
  <2>1. /\ \A k \in 1..Len(start[s].events) : log[k + 1] = EvidenceEvent(s, k - 1, start[s].events[k])
        /\ Len(log) = Len(start[s].events) + 1
    BY <1>1, ProjectionFacts
  <2>2. log[(n + 1) + 1] = EvidenceEvent(s, (n + 1) - 1, start[s].events[n + 1])
    BY <1>2, <2>1
  <2>3. (n + 1) - 1 = n /\ (n + 1) + 1 = n + 2 /\ n + 2 \in 1..Len(log)
    BY <1>1, <1>2, <2>1
  <2>4. e = log[n + 2]
    BY <2>2, <2>3
  <2> QED BY <1>1, <2>3, <2>4
<1>4. /\ Goto(s, "emit") /\ "emit" \in StartPC /\ UNCHANGED <<log, runs, records, approval>>
      /\ Broadcast(e)
  BY DEF CastEvidence, StartPC
<1> HIDE DEF e
<1>5. client' \in SpectatorState
  BY <1>3, <1>4, BroadcastTypes DEF TypesInv
<1>6. /\ start' \in [Starts -> StartRequest]
      /\ \A q \in Starts : q # s => start'[q] = start[q]
      /\ start'[s].pc = "emit" /\ start'[s].lane = start[s].lane
      /\ start'[s].events = start[s].events
  BY <1>4, GotoFacts
<1>7. StartKnows(s)'
  BY <1>1, <1>4, <1>6 DEF LogInv, StartKnows, Writing, Sealed
<1>8. LogInv'
  BY <1>1, <1>4, <1>6, <1>7, StartMoves DEF Sealed
<1> QED
  BY <1>5, <1>6, <1>8 DEF CastEvidence, TypesInv, RowTypes

\* A start appends: nobody else is writing evidence.
LEMMA StartWrites ==
    ASSUME TypesInv, LogInv, NEW s \in Starts, start' \in [Starts -> StartRequest],
           \A q \in Starts : q # s => start'[q] = start[q],
           UNCHANGED <<runs, records, approval>>, Grows, LogIsOneRun',
           log = <<>> \/ OwnsLog(s),
           start[s].pc \in Sealed => start'[s].pc \in Sealed, StartKnows(s)'
    PROVE  LogInv'
<1>1. \A q \in Starts : q # s => start[q].pc \notin Writing
  BY OneWriter DEF OwnsLog
<1>2. \A q \in Starts : start[q].pc \in Sealed => start'[q].pc \in Sealed
  OBVIOUS
<1> QED
  BY <1>1, <1>2, LogStep

LEMMA AppendStartedKeeps ==
    ASSUME TypesInv, LogInv, NEW s \in Starts, AppendStarted(s)
    PROVE  TypesInv' /\ LogInv'
<1>0. /\ start[s].pc = "started" /\ UNCHANGED <<runs, records, approval>> /\ s \in Runs
      /\ log \in Seq(CompetitionEvent) /\ start \in [Starts -> StartRequest]
      /\ start[s].events \in Seq(RunEvent)
  BY DEF AppendStarted, Runs, TypesInv, StartRequest
<1>1. CASE ~NoDuplicateSeq(<<StartedEvent(s)>>)
  <2>1. Goto(s, "failed") /\ UNCHANGED log
    BY <1>1 DEF AppendStarted
  <2>2. start' \in [Starts -> StartRequest] /\ LogInv'
    BY <1>0, <2>1, FailKeeps
  <2> QED BY <2>1, <2>2 DEF AppendStarted, TypesInv, RowTypes
<1>2. CASE NoDuplicateSeq(<<StartedEvent(s)>>)
  <2> DEFINE b == <<StartedEvent(s)>>
             tick == [type |-> "tick", agent |-> None, bet |-> FALSE]
             r == [start[s] EXCEPT !.pc = "emit", !.emit = <<tick>>]
  <2>1. log' = log \o b /\ start' = [start EXCEPT ![s].pc = "emit", ![s].emit = <<tick>>]
    BY <1>2 DEF AppendStarted, AppendEvents
  <2>2. /\ b \in Seq(CompetitionEvent) /\ Len(b) = 1 /\ b # <<>> /\ b[1] = StartedEvent(s)
        /\ \A i \in DOMAIN b : b[i].seq = 0 + i - 1 /\ b[i].run = s
    BY <1>0 DEF StartedEvent, Event, CompetitionEvent, DerivedTypes
  <2>3. log = <<>>
    <3>1. 0 \in {e.seq : e \in Range(b)}
      BY <2>2 DEF Range, StartedEvent, Event
    <3>2. Seqs = 0..(Len(log) - 1)
      BY <1>0, SeqsOfLog DEF LogInv, LogIsOneRun
    <3> HIDE DEF b
    <3>3. 0 \notin Seqs
      BY <1>2, <3>1 DEF NoDuplicateSeq, b
    <3> QED BY <1>0, <3>2, <3>3
  <2>4. tick \in RunEvent
    BY DEF RunEvent
  <2> HIDE DEF tick
  <2>5. r \in StartRequest /\ r.pc = "emit" /\ r.lane = start[s].lane /\ r.events = start[s].events
    <3>1. <<tick>> \in Seq(RunEvent) /\ start[s] \in StartRequest
      BY <1>0, <2>4
    <3> DEFINE t == <<tick>>
    <3> HIDE DEF t
    <3>2. [start[s] EXCEPT !.pc = "emit", !.emit = t] \in StartRequest
      BY <3>1 DEF StartRequest, StartPC, t
    <3> QED BY <3>1, <3>2 DEF StartRequest, t
  <2>6. start' = [start EXCEPT ![s] = r]
    BY <1>0, <2>1
  <2> HIDE DEF r, b
  <2>7. /\ start' \in [Starts -> StartRequest] /\ start'[s] = r
        /\ \A q \in Starts : q # s => start'[q] = start[q]
    BY <2>5, <2>6, StartSet
  <2>8. Grows /\ LogIsOneRun'
    <3>1. 0 \in Nat /\ 0 <= Len(log)
      BY <1>0
    <3> QED BY <1>0, <1>2, <2>1, <2>2, <2>3, <3>1, GrowLog DEF LogInv, b
  <2>9. /\ start'[s].events = <<>> /\ start'[s].pc = "emit" /\ start'[s].lane = <<>>
        /\ runs'[s] = runs[s]
    BY <1>0, <2>5, <2>7 DEF LogInv, StartKnows, Sealed
  <2>10. log' = ProjectionPrefix(s, <<>>)
    <3>1. log' = b
      BY <2>1, <2>2, <2>3
    <3>2. ProjectionPrefix(s, <<>>) = b
      BY <2>2 DEF ProjectionPrefix, b
    <3> QED BY <3>1, <3>2
  <2>11. runs'[s] # None => IsPrefix(ProjectionPrefix(s, runs[s]), log')
    <3>1. runs[s] \in Seq(RunEvent) \cup {None}
      BY DEF TypesInv
    <3> QED BY <1>0, <2>8, <2>9, <3>1, PrefixStays, ProjectionFacts DEF LogInv, StartKnows
  <2>12. StartKnows(s)'
    BY <2>9, <2>10, <2>11 DEF StartKnows, Writing, Sealed
  <2>13. LogInv'
    BY <1>0, <2>3, <2>7, <2>8, <2>12, StartWrites DEF Sealed
  <2> QED BY <1>0, <2>7, <2>8, <2>13 DEF AppendStarted, TypesInv, RowTypes, Grows
<1> QED BY <1>1, <1>2

LEMMA EmitKeeps ==
    ASSUME TypesInv, LogInv, NEW s \in Starts, Emit(s)
    PROVE  TypesInv' /\ LogInv'
<1> DEFINE ev == start[s].events
           h == Head(start[s].emit)
           e == EvidenceEvent(s, Len(ev), h)
<1>0. /\ start[s].pc = "emit" /\ UNCHANGED <<runs, records, approval>> /\ s \in Runs
      /\ log \in Seq(CompetitionEvent) /\ start \in [Starts -> StartRequest]
      /\ ev \in Seq(RunEvent) /\ start[s].emit \in Seq(RunEvent) /\ start[s].emit # <<>>
      /\ log = ProjectionPrefix(s, ev)
  BY DEF Emit, Runs, TypesInv, StartRequest, LogInv, StartKnows, Writing
<1>1. h \in RunEvent /\ Tail(start[s].emit) \in Seq(RunEvent)
  BY <1>0
<1>2. OwnsLog(s) /\ Len(log) = Len(ev) + 1
  BY <1>0, OneWriter DEF Writing
<1>3. CASE ~NoDuplicateSeq(<<e>>)
  <2>1. Goto(s, "failed") /\ UNCHANGED log
    BY <1>3 DEF Emit
  <2>2. start' \in [Starts -> StartRequest] /\ LogInv'
    BY <1>0, <2>1, FailKeeps
  <2> QED BY <2>1, <2>2 DEF Emit, TypesInv, RowTypes
<1>4. CASE NoDuplicateSeq(<<e>>)
  <2> DEFINE b == <<e>>
             r == [start[s] EXCEPT !.pc = "cast", !.events = Append(ev, h),
                                   !.emit = Tail(start[s].emit)]
  <2>1. log' = log \o b
    BY <1>4 DEF Emit, AppendEvents
  <2>2. start' = [start EXCEPT ![s] = r]
    <3>1. start' = [start EXCEPT ![s].pc = "cast", ![s].events = Append(@, h), ![s].emit = Tail(@)]
      BY <1>4 DEF Emit
    <3> HIDE DEF h
    <3> QED BY <1>0, <3>1
  <2>3. e \in CompetitionEvent /\ e.seq = Len(ev) + 1 /\ e.run = s
    BY <1>0 DEF EvidenceEvent, EvidenceType, Event, CompetitionEvent, EvidenceTypes
  <2> HIDE DEF e
  <2>4. /\ b \in Seq(CompetitionEvent) /\ Len(b) = 1 /\ b # <<>> /\ b[1] = e
        /\ \A i \in DOMAIN b : b[i].seq = Len(log) + i - 1 /\ b[i].run = s
    BY <1>0, <1>2, <2>3
  <2> HIDE DEF h
  <2>5. Append(ev, h) \in Seq(RunEvent) /\ Len(Append(ev, h)) = Len(ev) + 1 /\ Append(ev, h) # <<>>
    BY <1>0, <1>1
  <2>6. r \in StartRequest /\ r.pc = "cast" /\ r.lane = start[s].lane /\ r.events = Append(ev, h)
    <3> DEFINE a == Append(ev, h)  t == Tail(start[s].emit)
    <3>1. a \in Seq(RunEvent) /\ t \in Seq(RunEvent) /\ start[s] \in StartRequest
      BY <1>0, <1>1, <2>5
    <3> HIDE DEF a, t
    <3>2. [start[s] EXCEPT !.pc = "cast", !.events = a, !.emit = t] \in StartRequest
      BY <3>1 DEF StartRequest, StartPC
    <3>3. LET x == [start[s] EXCEPT !.pc = "cast", !.events = a, !.emit = t]
          IN  x.pc = "cast" /\ x.lane = start[s].lane /\ x.events = a
      BY <3>1 DEF StartRequest
    <3> QED BY <3>2, <3>3 DEF a, t
  <2> HIDE DEF r, b
  <2>7. /\ start' \in [Starts -> StartRequest] /\ start'[s] = r
        /\ \A q \in Starts : q # s => start'[q] = start[q]
    BY <2>2, <2>6, StartSet
  <2>8. /\ Grows /\ LogIsOneRun' /\ Len(log') = Len(log) + 1
        /\ log'[Len(log) + 1] = e
    <3>1. Len(log) \in Nat /\ Len(log) <= Len(log) /\ 1 \in 1..Len(b)
      BY <1>0, <2>4
    <3>2. NoDuplicateSeq(b)
      BY <1>4 DEF b
    <3>3. /\ Grows /\ LogIsOneRun' /\ Len(log') = Len(log) + Len(b)
          /\ \A i \in 1..Len(b) : log'[Len(log) + i] = b[i]
      BY <1>0, <1>2, <2>1, <2>4, <3>1, <3>2, GrowLog DEF LogInv
    <3> QED BY <2>4, <3>1, <3>3
  <2>9. log' = ProjectionPrefix(s, Append(ev, h))
    <3> DEFINE P == ProjectionPrefix(s, Append(ev, h))
    <3>1. /\ P \in Seq(CompetitionEvent) /\ Len(P) = Len(ev) + 2 /\ P[1] = StartedEvent(s)
          /\ \A n \in 1..(Len(ev) + 1) : P[n + 1] = EvidenceEvent(s, n - 1, Append(ev, h)[n])
      <4> DEFINE A == Append(ev, h)
      <4> HIDE DEF A
      <4>1. /\ ProjectionPrefix(s, A) \in Seq(CompetitionEvent)
            /\ Len(ProjectionPrefix(s, A)) = Len(A) + 1
            /\ ProjectionPrefix(s, A)[1] = StartedEvent(s)
            /\ \A n \in 1..Len(A) : ProjectionPrefix(s, A)[n + 1] = EvidenceEvent(s, n - 1, A[n])
        BY <1>0, <2>5, ProjectionFacts DEF A
      <4>2. Len(A) = Len(ev) + 1 /\ Len(A) + 1 = Len(ev) + 2
        BY <1>0, <2>5 DEF A
      <4> QED BY <4>1, <4>2 DEF A
    <3>2. /\ log[1] = StartedEvent(s)
          /\ \A n \in 1..Len(ev) : log[n + 1] = EvidenceEvent(s, n - 1, ev[n])
      BY <1>0, ProjectionFacts
    <3>3. \A n \in 1..Len(ev) : Append(ev, h)[n] = ev[n]
      BY <1>0, <1>1
    <3>4. Append(ev, h)[Len(ev) + 1] = h /\ Len(ev) \in Nat
      <4> HIDE DEF ev
      <4>1. Len(ev) \in Nat
        BY <1>0
      <4> QED BY <1>0, <1>1, <4>1
    <3> HIDE DEF P
    <3>5. ASSUME NEW i \in 1..(Len(ev) + 2) PROVE log'[i] = P[i]
      <4>1. CASE i = 1
        BY <4>1, <1>2, <2>8, <3>1, <3>2, <3>4 DEF Grows
      <4>2. CASE i \in 2..(Len(ev) + 1)
        <5>1. i - 1 \in 1..Len(ev) /\ i = (i - 1) + 1 /\ i \in 1..Len(log)
          BY <4>2, <3>4, <1>2
        <5>2. log'[i] = log[(i - 1) + 1] /\ log[(i - 1) + 1] = EvidenceEvent(s, (i - 1) - 1, ev[i - 1])
          BY <5>1, <2>8, <3>2 DEF Grows
        <5>3. P[(i - 1) + 1] = EvidenceEvent(s, (i - 1) - 1, Append(ev, h)[i - 1])
          <6>1. i - 1 \in 1..(Len(ev) + 1)
            BY <5>1, <3>4
          <6> QED BY <6>1, <3>1
        <5> QED BY <5>1, <5>2, <5>3, <3>3
      <4>3. CASE i = Len(ev) + 2
        <5>1. Len(ev) + 1 \in 1..(Len(ev) + 1) /\ i = (Len(ev) + 1) + 1 /\ (Len(ev) + 1) - 1 = Len(ev)
              /\ i = Len(log) + 1
          BY <4>3, <3>4, <1>2
        <5>2. P[(Len(ev) + 1) + 1] = EvidenceEvent(s, (Len(ev) + 1) - 1, Append(ev, h)[Len(ev) + 1])
          BY <5>1, <3>1
        <5> QED BY <5>1, <5>2, <2>8, <3>4 DEF e
      <4> QED BY <4>1, <4>2, <4>3, <3>4
    <3>6. log' \in Seq(CompetitionEvent) /\ Len(log') = Len(ev) + 2
      BY <2>8, <1>2, <3>4 DEF Grows
    <3> QED BY <3>1, <3>5, <3>6 DEF P
  <2>10. runs'[s] # None => IsPrefix(ProjectionPrefix(s, runs[s]), log')
    <3>1. runs[s] \in Seq(RunEvent) \cup {None}
      BY DEF TypesInv
    <3> QED BY <1>0, <2>8, <3>1, PrefixStays, ProjectionFacts DEF LogInv, StartKnows
  <2>11. start'[s].lane = <<>> /\ runs'[s] = runs[s]
    BY <1>0, <2>6, <2>7 DEF LogInv, StartKnows, Sealed
  <2>12. StartKnows(s)'
    BY <2>5, <2>6, <2>7, <2>9, <2>10, <2>11 DEF StartKnows, Writing, Sealed
  <2>13. LogInv'
    BY <1>0, <1>2, <2>7, <2>8, <2>12, StartWrites DEF Sealed
  <2> QED BY <1>0, <2>7, <2>8, <2>13 DEF Emit, TypesInv, RowTypes, Grows
<1> QED BY <1>3, <1>4

\* The owner of the log appends derived events.
LEMMA DerivedGrows ==
    ASSUME TypesInv, LogInv, NEW r \in Runs, NEW batch \in Seq(CompetitionEvent), NEW base \in Nat,
           base <= Len(log), Derived(batch, base, r), OwnsLog(r), NoDuplicateSeq(batch),
           log' = log \o batch
    PROVE  /\ Grows /\ LogIsOneRun' /\ OwnsLog(r)'
           /\ Len(log') = Len(log) + Len(batch)
           /\ \A i \in DOMAIN batch : batch[i].seq < Len(log')
                                      /\ log'[batch[i].seq + 1].type \notin EvidenceTypes
           /\ \A i \in 1..Len(batch) : log'[Len(log) + i] = batch[i]
<1>1. log \in Seq(CompetitionEvent) /\ LogIsOneRun
  BY DEF TypesInv, LogInv
<1>2. \A i \in DOMAIN batch : batch[i].seq = base + i - 1 /\ batch[i].run = r
  BY DEF Derived
<1>3. /\ Grows /\ LogIsOneRun'
      /\ Len(log') = Len(log) + Len(batch)
      /\ batch # <<>> => base = Len(log)
      /\ \A i \in 1..Len(batch) : log'[Len(log) + i] = batch[i]
  BY <1>1, <1>2, GrowLog
<1>4. OwnsLog(r)'
  BY <1>1, <1>3 DEF OwnsLog, Grows
<1>5. ASSUME NEW i \in DOMAIN batch
      PROVE  batch[i].seq < Len(log') /\ log'[batch[i].seq + 1].type \notin EvidenceTypes
  <2>1. i \in 1..Len(batch) /\ batch # <<>> /\ Len(log) \in Nat /\ Len(batch) \in Nat
    BY <1>1
  <2>2. base = Len(log) /\ batch[i].seq = Len(log) + i - 1 /\ batch[i].seq + 1 = Len(log) + i
    BY <1>2, <1>3, <2>1
  <2>3. log'[batch[i].seq + 1] = batch[i]
    BY <1>3, <2>1, <2>2
  <2>4. batch[i].type \notin EvidenceTypes
    BY DEF Derived
  <2> QED BY <1>3, <2>1, <2>2, <2>3, <2>4
<1> QED BY <1>3, <1>4, <1>5

\* The last conjunct of what a start knows, when the log grows.
LEMMA RunStays ==
    ASSUME TypesInv, LogInv, Grows, NEW s \in Starts, runs'[s] = runs[s]
    PROVE  runs'[s] # None => IsPrefix(ProjectionPrefix(s, runs'[s]), log')
<1>1. runs[s] \in Seq(RunEvent) \cup {None} /\ log \in Seq(CompetitionEvent) /\ s \in Runs
  BY DEF TypesInv, Runs
<1> QED BY <1>1, PrefixStays, ProjectionFacts DEF LogInv, StartKnows

LEMMA AppendTailKeeps ==
    ASSUME TypesInv, LogInv, NEW s \in Starts, AppendTail(s)
    PROVE  TypesInv' /\ LogInv'
<1> DEFINE ev == start[s].events
           b == DerivedTail(s)
<1>0. /\ start[s].pc = "tail" /\ UNCHANGED <<runs, records, approval>> /\ s \in Runs
      /\ log \in Seq(CompetitionEvent) /\ start \in [Starts -> StartRequest]
      /\ ev \in Seq(RunEvent)
  BY DEF AppendTail, Runs, TypesInv, StartRequest
<1>1. OwnsLog(s) /\ Len(log) = Len(ev) + 1 /\ Len(ev) + 1 \in Nat /\ Len(log) <= Len(log)
  BY <1>0, OneWriter DEF Writing
<1>2. CASE ~NoDuplicateSeq(b)
  <2>1. Goto(s, "failed") /\ UNCHANGED log
    BY <1>2 DEF AppendTail
  <2>2. start' \in [Starts -> StartRequest] /\ LogInv'
    BY <1>0, <2>1, FailKeeps
  <2> QED BY <2>1, <2>2 DEF AppendTail, TypesInv, RowTypes
<1>3. CASE NoDuplicateSeq(b)
  <2> DEFINE pc == IF config.mode = "paper" THEN "finalize" ELSE "route"
             todo == Proposals(ev)
             next == NextSeqOf(s)
             r == [start[s] EXCEPT !.pc = pc, !.todo = todo, !.next = next]
  <2>1. log' = log \o b /\ start' = [start EXCEPT ![s].pc = pc, ![s].todo = todo, ![s].next = next]
    BY <1>3 DEF AppendTail, AppendEvents
  <2>2. TailTypes(ev) \in Seq(DerivedTypes)
    BY <1>0, TailFacts
  <2>3. /\ b \in Seq(CompetitionEvent) /\ Len(b) = Len(TailTypes(ev))
        /\ Derived(b, Len(log), s)
    BY <1>0, <1>1, <2>2, BatchFacts DEF DerivedTail
  <2>4. next = Len(log) + Len(b) /\ next \in Nat
    <3>1. Len(TailTypes(ev)) \in Nat /\ next = Len(ev) + 1 + Len(TailTypes(ev))
      BY <2>2 DEF NextSeqOf
    <3> HIDE DEF b, ev, next
    <3> QED BY <1>1, <2>3, <3>1
  <2>5. todo \in Seq([type: {"decision"}, agent: Agents, bet: {TRUE}])
    BY <1>0, ProposalFacts
  <2>6. pc \in {"finalize", "route"} /\ pc \in StartPC
    BY DEF StartPC
  <2> HIDE DEF pc, todo, next, b
  <2>7. /\ r \in StartRequest /\ r.pc = pc /\ r.lane = start[s].lane /\ r.next = next
        /\ r.events = ev
    BY <1>0, <2>4, <2>5, <2>6 DEF StartRequest
  <2>8. start' = [start EXCEPT ![s] = r]
    BY <1>0, <2>1
  <2> HIDE DEF r
  <2>9. /\ start' \in [Starts -> StartRequest] /\ start'[s] = r
        /\ \A q \in Starts : q # s => start'[q] = start[q]
    BY <2>7, <2>8, StartSet
  <2>10. Grows /\ LogIsOneRun' /\ OwnsLog(s)' /\ Len(log') = Len(log) + Len(b)
    BY <1>0, <1>1, <1>3, <2>1, <2>3, DerivedGrows
  <2>11. start'[s].lane = <<>> /\ runs'[s] = runs[s]
    BY <1>0, <2>7, <2>9 DEF LogInv, StartKnows, Sealed
  <2>12. runs'[s] # None => IsPrefix(ProjectionPrefix(s, runs'[s]), log')
    BY <2>10, <2>11, RunStays
  <2>13. start'[s].next <= Len(log') /\ start'[s].pc \in {"finalize", "route"}
    BY <2>4, <2>6, <2>7, <2>9, <2>10
  <2>14. StartKnows(s)'
    BY <2>10, <2>11, <2>12, <2>13 DEF StartKnows, Writing, Sealed, Derived
  <2>15. LogInv'
    BY <1>0, <1>1, <2>9, <2>10, <2>14, StartWrites DEF Sealed
  <2> QED BY <1>0, <2>9, <2>10, <2>15 DEF AppendTail, TypesInv, RowTypes, Grows
<1> QED BY <1>2, <1>3

LEMMA SelectRouteKeeps ==
    ASSUME TypesInv, LogInv, NEW s \in Starts, SelectRoute(s)
    PROVE  TypesInv' /\ LogInv'
<1> DEFINE b == Batch(s, start[s].next, <<"execution_route">>, None)
<1>0. /\ start[s].pc = "route" /\ UNCHANGED <<runs, records, approval>> /\ s \in Runs
      /\ log \in Seq(CompetitionEvent) /\ start \in [Starts -> StartRequest]
      /\ start[s].next \in Nat /\ client \in SpectatorState
  BY DEF SelectRoute, Runs, TypesInv, StartRequest
<1>1. OwnsLog(s) /\ start[s].next <= Len(log) /\ start[s].lane = <<>>
  BY <1>0 DEF LogInv, StartKnows
<1>2. \/ Goto(s, "abort") /\ UNCHANGED <<log, client>>
      \/ Goto(s, "lane") /\ UNCHANGED <<log, client>>
      \/ /\ NoDuplicateSeq(b) /\ log' = log \o b /\ Broadcast(b[1])
         /\ start' = [start EXCEPT ![s].pc = "lane", ![s].next = @ + 1]
  BY DEF SelectRoute, AppendEvents
<1>3. CASE Goto(s, "abort") /\ UNCHANGED <<log, client>>
  <2>1. start' \in [Starts -> StartRequest] /\ LogInv'
    BY <1>0, <1>3, FailKeeps
  <2> QED BY <1>3, <2>1 DEF SelectRoute, TypesInv, RowTypes
<1>4. CASE Goto(s, "lane") /\ UNCHANGED <<log, client>>
  <2>1. /\ start' \in [Starts -> StartRequest]
        /\ \A q \in Starts : q # s => start'[q] = start[q]
        /\ start'[s].pc = "lane" /\ start'[s].lane = start[s].lane
        /\ start'[s].next = start[s].next
    BY <1>4, GotoFacts DEF StartPC
  <2>2. StartKnows(s)'
    BY <1>0, <1>1, <1>4, <2>1 DEF LogInv, StartKnows, Writing, Sealed, Derived, OwnsLog
  <2>3. LogInv'
    BY <1>0, <1>4, <2>1, <2>2, StartMoves DEF Sealed
  <2> QED BY <1>4, <2>1, <2>3 DEF SelectRoute, TypesInv, RowTypes
<1>5. CASE /\ NoDuplicateSeq(b) /\ log' = log \o b /\ Broadcast(b[1])
           /\ start' = [start EXCEPT ![s].pc = "lane", ![s].next = @ + 1]
  <2> DEFINE r == [start[s] EXCEPT !.pc = "lane", !.next = start[s].next + 1]
             types == <<"execution_route">>
  <2>1. types \in Seq(DerivedTypes) /\ Len(types) = 1
    BY DEF DerivedTypes
  <2> HIDE DEF types
  <2>2. /\ b \in Seq(CompetitionEvent) /\ Len(b) = 1 /\ Derived(b, start[s].next, s)
    BY <1>0, <2>1, BatchFacts DEF types
  <2>3. /\ r \in StartRequest /\ r.pc = "lane" /\ r.lane = start[s].lane /\ r.next = start[s].next + 1
    <3> DEFINE n == start[s].next + 1
    <3>1. n \in Nat /\ start[s] \in StartRequest
      BY <1>0
    <3> HIDE DEF n
    <3>2. LET x == [start[s] EXCEPT !.pc = "lane", !.next = n]
          IN  x \in StartRequest /\ x.pc = "lane" /\ x.lane = start[s].lane /\ x.next = n
      BY <3>1 DEF StartRequest, StartPC
    <3> QED BY <3>2 DEF n
  <2>4. start' = [start EXCEPT ![s] = r]
    BY <1>0, <1>5
  <2> HIDE DEF b, r
  <2>5. /\ start' \in [Starts -> StartRequest] /\ start'[s] = r
        /\ \A q \in Starts : q # s => start'[q] = start[q]
    BY <2>3, <2>4, StartSet
  <2>6. Grows /\ LogIsOneRun' /\ OwnsLog(s)' /\ Len(log') = Len(log) + Len(b)
    BY <1>0, <1>1, <1>5, <2>2, DerivedGrows
  <2>7. start'[s].next <= Len(log') /\ start'[s].lane = <<>> /\ start'[s].pc = "lane"
    BY <1>0, <1>1, <2>2, <2>3, <2>5, <2>6
  <2>8. runs'[s] # None => IsPrefix(ProjectionPrefix(s, runs'[s]), log')
    BY <1>0, <2>6, RunStays
  <2>9. StartKnows(s)'
    BY <2>6, <2>7, <2>8 DEF StartKnows, Writing, Sealed, Derived
  <2>10. LogInv'
    BY <1>0, <1>1, <2>5, <2>6, <2>7, <2>9, StartWrites DEF Sealed
  <2>11. client' \in SpectatorState
    BY <1>0, <1>5, <2>2, BroadcastTypes
  <2> QED BY <1>0, <2>5, <2>6, <2>10, <2>11 DEF SelectRoute, TypesInv, RowTypes, Grows
<1> QED BY <1>2, <1>3, <1>4, <1>5

\* The lane's events stay numbered from where the lane began.
LEMMA LaneExtends ==
    ASSUME NEW s \in Runs, NEW lane \in Seq(CompetitionEvent), NEW next \in Nat, Derived(lane, next, s),
           NEW types \in Seq(DerivedTypes), NEW exec \in (Runs \X Agents) \cup {None}
    PROVE  LET l == lane \o Batch(s, next + Len(lane), types, exec)
           IN  l \in Seq(CompetitionEvent) /\ Derived(l, next, s)
<1> DEFINE b == Batch(s, next + Len(lane), types, exec)
           l == lane \o b
<1>1. Len(lane) \in Nat /\ next + Len(lane) \in Nat
  OBVIOUS
<1>2. b \in Seq(CompetitionEvent) /\ Derived(b, next + Len(lane), s)
  BY <1>1, BatchFacts
<1> HIDE DEF b
<1>3. /\ l \in Seq(CompetitionEvent) /\ Len(l) = Len(lane) + Len(b) /\ Len(b) \in Nat
      /\ \A i \in 1..Len(lane) : l[i] = lane[i]
      /\ \A i \in 1..Len(b) : l[Len(lane) + i] = b[i]
  BY <1>2
<1> HIDE DEF l
<1>4. ASSUME NEW i \in DOMAIN l
      PROVE  l[i].seq = next + i - 1 /\ l[i].run = s /\ l[i].type \notin EvidenceTypes
  <2>1. CASE i \in 1..Len(lane)
    BY <1>3, <2>1 DEF Derived
  <2>2. CASE i \in (Len(lane) + 1)..(Len(lane) + Len(b))
    <3>1. i - Len(lane) \in 1..Len(b) /\ i = Len(lane) + (i - Len(lane))
      BY <1>1, <1>3, <2>2
    <3>2. l[i] = b[i - Len(lane)]
      BY <1>3, <3>1
    <3>3. /\ b[i - Len(lane)].seq = next + Len(lane) + (i - Len(lane)) - 1
          /\ b[i - Len(lane)].run = s /\ b[i - Len(lane)].type \notin EvidenceTypes
      BY <1>2, <3>1 DEF Derived
    <3>4. next + Len(lane) + (i - Len(lane)) - 1 = next + i - 1
      BY <1>1, <3>1
    <3> QED BY <3>2, <3>3, <3>4
  <2> QED BY <1>1, <1>3, <2>1, <2>2
<1> QED BY <1>3, <1>4 DEF Derived, l, b

\* The breaker stays a breaker.
LEMMA BreakerFacts ==
    ASSUME NEW b \in Breaker, NEW env \in PolicyEnvelope, NEW mode, NEW receipt
    PROVE  NextBreaker(b, env, mode, receipt) \in Breaker
<1>1. env.circuit_breaker_threshold \in Nat
  BY DEF PolicyEnvelope
<1>2. RecordSuccess(b) \in Breaker
  BY DEF RecordSuccess, ClosedBreaker, Breaker, CircuitState
<1>3. RecordFailure(b, env.circuit_breaker_threshold, 0) \in Breaker
  BY <1>1 DEF RecordFailure, Opened, Breaker, CircuitState
<1> QED
  BY <1>2, <1>3 DEF NextBreaker

\* One proposal of the lane: what the step does to the start and to the orders.
LEMMA LaneStepFacts ==
    ASSUME TypesInv, LogInv, NEW s \in Starts, LaneStep(s)
    PROVE  \E a \in Agents, submit \in BOOLEAN, receipt \in TerminalAnswers \cup {"unresolved"} :
             /\ start' \in [Starts -> StartRequest]
             /\ \A q \in Starts : q # s => start'[q] = start[q]
             /\ start[s].pc = "lane" /\ start'[s].pc = "record"
             /\ start'[s].pending \in Agents \X ExecutionStatus
             /\ start'[s].next = start[s].next /\ start'[s].env = start[s].env
             /\ Derived(start'[s].lane, start[s].next, s)
             /\ start'[s].placed = IF submit THEN start[s].placed + 1 ELSE start[s].placed
             /\ start'[s].breaker = IF submit
                                    THEN NextBreaker(start[s].breaker, start[s].env, EffectiveMode, receipt)
                                    ELSE start[s].breaker
             /\ submit => start[s].placed < start[s].env.max_orders_per_run /\ Allows(start[s].breaker)
             /\ orders' = IF submit
                          THEN Append(orders, [run |-> s, agent |-> a, by |-> s, receipt |-> receipt])
                          ELSE orders
<1> DEFINE st == start[s]
           a == Head(st.todo).agent
<1>0. /\ st \in StartRequest /\ start \in [Starts -> StartRequest] /\ s \in Runs
      /\ st.pc = "lane" /\ st.todo # <<>>
  BY DEF TypesInv, Runs, LaneStep
<1>1. /\ st.todo \in Seq([type: {"decision"}, agent: Agents, bet: {TRUE}])
      /\ st.lane \in Seq(CompetitionEvent) /\ st.next \in Nat /\ st.env \in PolicyEnvelope
      /\ st.placed \in Nat /\ st.breaker \in Breaker
  BY <1>0 DEF StartRequest
<1>2. /\ a \in Agents
      /\ Tail(st.todo) \in Seq([type: {"decision"}, agent: Agents, bet: {TRUE}])
  <2> DEFINE B == [type: {"decision"}, agent: Agents, bet: {TRUE}]
  <2>1. \A x \in B : x.agent \in Agents
    OBVIOUS
  <2>2. st.todo \in Seq(B)
    BY <1>1
  <2> HIDE DEF B, st
  <2>3. Head(st.todo) \in B /\ Tail(st.todo) \in Seq(B)
    BY <1>0, <2>2
  <2> QED BY <2>1, <2>3 DEF B
<1>3. Derived(st.lane, st.next, s)
  BY <1>0 DEF LogInv, StartKnows
<1>4. PICK quote \in QuotesOf(EffectiveMode), answer \in AnswersOf(EffectiveMode) :
       LET d == LaneDecision(Bet[a], start[s].env, start[s].breaker, start[s].placed,
                             EffectiveMode, a \in Eligible, quote)
           receipt == ReceiptStatus(answer)
           status  == IF d.submit THEN SubmittedStatus(receipt) ELSE d.status
       IN  /\ start' = [start EXCEPT
                ![s].pc = "record", ![s].todo = Tail(@), ![s].pending = <<a, status>>,
                ![s].lane = @ \o Batch(s, start[s].next + Len(@), LaneEvents(d.submit), <<s, a>>),
                ![s].placed = IF d.submit THEN @ + 1 ELSE @,
                ![s].breaker = IF d.submit THEN NextBreaker(@, start[s].env, EffectiveMode, receipt)
                                           ELSE @]
           /\ orders' = IF d.submit
                        THEN Append(orders, [run |-> s, agent |-> a, by |-> s, receipt |-> receipt])
                        ELSE orders
  BY Zenon DEF LaneStep
<1> DEFINE d == LaneDecision(Bet[a], st.env, st.breaker, st.placed, EffectiveMode, a \in Eligible, quote)
           receipt == ReceiptStatus(answer)
           status == IF d.submit THEN SubmittedStatus(receipt) ELSE d.status
           lane == st.lane \o Batch(s, st.next + Len(st.lane), LaneEvents(d.submit), <<s, a>>)
           placed == IF d.submit THEN st.placed + 1 ELSE st.placed
           breaker == IF d.submit THEN NextBreaker(st.breaker, st.env, EffectiveMode, receipt)
                                  ELSE st.breaker
           r == [st EXCEPT !.pc = "record", !.todo = Tail(st.todo), !.pending = <<a, status>>,
                           !.lane = lane, !.placed = placed, !.breaker = breaker]
<1>5. /\ d.submit \in BOOLEAN /\ d.status \in ExecutionStatus
      /\ d.submit => st.placed < st.env.max_orders_per_run /\ Allows(st.breaker)
  BY <1>1, GateFacts
<1>6. receipt \in TerminalAnswers \cup {"unresolved"}
  BY ReceiptFacts DEF AnswersOf, VenueAnswers, TerminalAnswers
<1>7. status \in ExecutionStatus
  BY <1>5, <1>6, StatusFacts
<1>8. LaneEvents(d.submit) \in Seq(DerivedTypes)
  <2> HIDE DEF d
  <2>1. /\ <<"policy_result", "execution_submitted", "execution_receipt">> \in Seq(DerivedTypes)
        /\ <<"policy_result">> \in Seq(DerivedTypes)
    BY DEF DerivedTypes
  <2> QED BY <2>1 DEF LaneEvents
<1>9. <<s, a>> \in (Runs \X Agents) \cup {None}
  BY <1>0, <1>2
<1>10. lane \in Seq(CompetitionEvent) /\ Derived(lane, st.next, s)
  <2> DEFINE types == LaneEvents(d.submit)
             exec == <<s, a>>
  <2>1. types \in Seq(DerivedTypes) /\ exec \in (Runs \X Agents) \cup {None}
    BY <1>8, <1>9
  <2> HIDE DEF types, exec, d
  <2> QED BY <1>0, <1>1, <1>3, <2>1, LaneExtends DEF types, exec
<1>11. placed \in Nat /\ breaker \in Breaker
  <2>1. NextBreaker(st.breaker, st.env, EffectiveMode, receipt) \in Breaker
    BY <1>1, BreakerFacts
  <2> HIDE DEF d
  <2> QED BY <1>1, <2>1
<1>12. start' = [start EXCEPT ![s].pc = "record", ![s].todo = Tail(@), ![s].pending = <<a, status>>,
                              ![s].lane = lane, ![s].placed = placed, ![s].breaker = breaker]
  BY <1>0, <1>4
<1>13. orders' = IF d.submit
                 THEN Append(orders, [run |-> s, agent |-> a, by |-> s, receipt |-> receipt])
                 ELSE orders
  BY <1>4, Zenon
<1> DEFINE pending == <<a, status>>  todo == Tail(st.todo)
<1>14. /\ pending \in Agents \X ExecutionStatus
       /\ todo \in Seq([type: {"decision"}, agent: Agents, bet: {TRUE}])
  BY <1>2, <1>7
<1> HIDE DEF d, receipt, status, lane, placed, breaker, a, pending, todo
<1>15. start' = [start EXCEPT ![s] = r]
  BY <1>0, <1>12
<1>16. /\ r \in StartRequest /\ r.pc = "record" /\ r.pending = pending /\ r.lane = lane
       /\ r.next = st.next /\ r.env = st.env /\ r.placed = placed /\ r.breaker = breaker
  <2>1. /\ lane \in Seq(CompetitionEvent) /\ placed \in Nat /\ breaker \in Breaker
        /\ "record" \in StartPC
    BY <1>10, <1>11 DEF StartPC
  <2> HIDE DEF st
  <2> QED BY <1>0, <1>14, <2>1 DEF StartRequest, pending, todo
<1> HIDE DEF r
<1>17. /\ start' \in [Starts -> StartRequest] /\ start'[s] = r
       /\ \A q \in Starts : q # s => start'[q] = start[q]
  BY <1>15, <1>16, StartSet
<1>18. d.submit \in BOOLEAN /\ receipt \in TerminalAnswers \cup {"unresolved"} /\ a \in Agents
  BY <1>2, <1>5, <1>6
<1>19. /\ start'[s].placed = IF d.submit THEN start[s].placed + 1 ELSE start[s].placed
       /\ start'[s].breaker = IF d.submit
                              THEN NextBreaker(start[s].breaker, start[s].env, EffectiveMode, receipt)
                              ELSE start[s].breaker
  BY <1>16, <1>17, Zenon DEF placed, breaker
<1>20. /\ start[s].pc = "lane" /\ start'[s].pc = "record"
       /\ start'[s].pending \in Agents \X ExecutionStatus
       /\ start'[s].next = start[s].next /\ start'[s].env = start[s].env
       /\ Derived(start'[s].lane, start[s].next, s)
       /\ d.submit => start[s].placed < start[s].env.max_orders_per_run /\ Allows(start[s].breaker)
  BY <1>0, <1>5, <1>10, <1>14, <1>16, <1>17
<1> QED
  BY <1>13, <1>17, <1>18, <1>19, <1>20, Zenon

LEMMA LaneStepKeeps ==
    ASSUME TypesInv, LogInv, NEW s \in Starts, LaneStep(s)
    PROVE  TypesInv' /\ LogInv'
<1>1. PICK a \in Agents, submit \in BOOLEAN, receipt \in TerminalAnswers \cup {"unresolved"} :
         /\ start' \in [Starts -> StartRequest]
         /\ \A q \in Starts : q # s => start'[q] = start[q]
         /\ start[s].pc = "lane" /\ start'[s].pc = "record"
         /\ start'[s].pending \in Agents \X ExecutionStatus
         /\ start'[s].next = start[s].next
         /\ Derived(start'[s].lane, start[s].next, s)
         /\ orders' = IF submit
                      THEN Append(orders, [run |-> s, agent |-> a, by |-> s, receipt |-> receipt])
                      ELSE orders
  BY LaneStepFacts, Zenon
<1>2. UNCHANGED <<requests, config, comp, log, runs, records, arena, approval, client>>
  BY DEF LaneStep
<1>3. StartKnows(s)'
  BY <1>1, <1>2 DEF LogInv, StartKnows, Writing, Sealed, OwnsLog, Derived
<1>4. LogInv'
  BY <1>1, <1>2, <1>3, StartMoves DEF Sealed
<1>5. orders' \in Seq(Order)
  <2> DEFINE o == [run |-> s, agent |-> a, by |-> s, receipt |-> receipt]
  <2>1. o \in Order
    BY DEF Order, Runs
  <2> HIDE DEF o
  <2>2. Append(orders, o) \in Seq(Order) /\ orders \in Seq(Order)
    BY <2>1 DEF TypesInv
  <2> QED BY <1>1, <2>2 DEF o
<1> QED
  BY <1>1, <1>2, <1>4, <1>5 DEF TypesInv, RowTypes

LEMMA RecordExecutionKeeps ==
    ASSUME TypesInv, LogInv, NEW s \in Starts, RecordExecution(s)
    PROVE  TypesInv' /\ LogInv'
<1> DEFINE r == [start[s] EXCEPT !.pc = "lane", !.pending = None]
           x == <<s, start[s].pending[1]>>
<1>0. /\ start[s].pc = "record" /\ UNCHANGED <<log, runs, approval>> /\ s \in Runs
      /\ start \in [Starts -> StartRequest] /\ log \in Seq(CompetitionEvent)
      /\ records' = [records EXCEPT ![x] = start[s].pending[2]]
      /\ start[s].pending \in Agents \X ExecutionStatus
  <2>1. start[s].pc = "record" /\ start[s].pending \in Agents \X ExecutionStatus
    BY DEF RecordExecution, LogInv, StartKnows
  <2> QED BY <2>1 DEF RecordExecution, PutRecord, TypesInv, Runs
<1>1. r \in StartRequest /\ r.pc = "lane" /\ r.lane = start[s].lane /\ r.next = start[s].next
  <2>1. start[s] \in StartRequest
    BY <1>0
  <2> DEFINE P == (Agents \X ExecutionStatus) \cup {None}
  <2>2. None \in P /\ "lane" \in StartPC
    BY DEF StartPC
  <2>3. StartRequest = [pc: StartPC, agents: SUBSET Agents, env: PolicyEnvelope,
          emit: Seq(RunEvent), events: Seq(RunEvent),
          todo: Seq([type: {"decision"}, agent: Agents, bet: {TRUE}]), next: Nat,
          lane: Seq(CompetitionEvent), placed: Nat, breaker: Breaker, pending: P]
    BY DEF StartRequest
  <2> HIDE DEF P
  <2> QED BY <2>1, <2>2, <2>3
<1>2. start' = [start EXCEPT ![s] = r]
  BY <1>0 DEF RecordExecution
<1> HIDE DEF r
<1>3. /\ start' \in [Starts -> StartRequest] /\ start'[s] = r
      /\ \A q \in Starts : q # s => start'[q] = start[q]
  BY <1>1, <1>2, StartSet
<1>4. x \in Runs \X Agents /\ start[s].pending[2] \in ExecutionStatus /\ x[1] = s
  BY <1>0
<1>5. /\ records' \in [Runs \X Agents -> ExecutionStatus \cup {None}]
      /\ \A y \in Runs \X Agents : y # x => records'[y] = records[y]
  BY <1>0, <1>4 DEF TypesInv
<1>6. StartKnows(s)'
  BY <1>0, <1>1, <1>3 DEF LogInv, StartKnows, Writing, Sealed, OwnsLog, Derived
<1>7. Laned(s)'
  BY <1>0, <1>1, <1>3 DEF LogInv, StartKnows, Laned, OwnsLog, Sealed
<1>8. Grows /\ LogIsOneRun'
  BY <1>0 DEF Grows, LogInv, LogIsOneRun
<1>9. \A y \in Runs \X Agents : records'[y] = records[y] \/ (Laned(y[1]))'
  <2> SUFFICES ASSUME NEW y \in Runs \X Agents, y = x PROVE (Laned(y[1]))'
    BY <1>5
  <2>1. y[1] = s
    BY <1>4
  <2> QED BY <1>7, <2>1 DEF Laned, OwnsLog
<1>10. LogInv'
  BY <1>0, <1>1, <1>3, <1>6, <1>8, <1>9, LogStep DEF Sealed
<1> QED
  BY <1>3, <1>5, <1>10 DEF RecordExecution, TypesInv, RowTypes

LEMMA AppendLaneKeeps ==
    ASSUME TypesInv, LogInv, NEW s \in Starts, AppendLane(s)
    PROVE  TypesInv' /\ LogInv'
<1> DEFINE b == start[s].lane
<1>0. /\ start[s].pc = "lane" /\ UNCHANGED <<runs, records, approval>> /\ s \in Runs
      /\ log \in Seq(CompetitionEvent) /\ start \in [Starts -> StartRequest]
      /\ start[s].next \in Nat /\ b \in Seq(CompetitionEvent)
  BY DEF AppendLane, Runs, TypesInv, StartRequest
<1>1. OwnsLog(s) /\ start[s].next <= Len(log) /\ Derived(b, start[s].next, s)
  BY <1>0 DEF LogInv, StartKnows
<1>2. CASE ~NoDuplicateSeq(b)
  <2>1. Goto(s, "abort") /\ UNCHANGED log
    BY <1>2 DEF AppendLane
  <2>2. start' \in [Starts -> StartRequest] /\ LogInv'
    BY <1>0, <2>1, FailKeeps
  <2> QED BY <2>1, <2>2 DEF AppendLane, TypesInv, RowTypes
<1>3. CASE NoDuplicateSeq(b)
  <2>1. log' = log \o b /\ Goto(s, "cast_lane") /\ "cast_lane" \in StartPC
    BY <1>3 DEF AppendLane, AppendEvents, StartPC
  <2>2. /\ start' \in [Starts -> StartRequest]
        /\ \A q \in Starts : q # s => start'[q] = start[q]
        /\ start'[s].pc = "cast_lane" /\ start'[s].lane = b
    BY <2>1, GotoFacts
  <2> HIDE DEF b
  <2>3. /\ Grows /\ LogIsOneRun' /\ OwnsLog(s)'
        /\ \A i \in DOMAIN b : b[i].seq < Len(log') /\ log'[b[i].seq + 1].type \notin EvidenceTypes
    BY <1>0, <1>1, <1>3, <2>1, DerivedGrows
  <2>4. runs'[s] # None => IsPrefix(ProjectionPrefix(s, runs'[s]), log')
    BY <1>0, <2>3, RunStays
  <2>5. StartKnows(s)'
    BY <2>2, <2>3, <2>4 DEF StartKnows, Writing, Sealed, Logged
  <2>6. LogInv'
    BY <1>0, <1>1, <2>2, <2>3, <2>5, StartWrites DEF Sealed
  <2> QED BY <1>0, <2>2, <2>3, <2>6 DEF AppendLane, TypesInv, RowTypes, Grows
<1> QED BY <1>2, <1>3

LEMMA CastLaneKeeps ==
    ASSUME TypesInv, LogInv, NEW s \in Starts, CastLane(s)
    PROVE  TypesInv' /\ LogInv'
<1> DEFINE b == start[s].lane
<1>0. /\ start[s].pc = "cast_lane" /\ UNCHANGED <<log, runs, records, approval>> /\ s \in Runs
      /\ start \in [Starts -> StartRequest] /\ b \in Seq(CompetitionEvent)
      /\ client \in SpectatorState /\ Logged(b) /\ OwnsLog(s)
  BY DEF CastLane, Runs, TypesInv, StartRequest, LogInv, StartKnows
<1>1. CASE b = <<>>
  <2>1. Goto(s, "finalize") /\ UNCHANGED client /\ "finalize" \in StartPC
    BY <1>1 DEF CastLane, StartPC
  <2>2. /\ start' \in [Starts -> StartRequest]
        /\ \A q \in Starts : q # s => start'[q] = start[q]
        /\ start'[s].pc = "finalize"
    BY <2>1, GotoFacts
  <2>3. StartKnows(s)'
    BY <1>0, <2>2 DEF LogInv, StartKnows, Writing, Sealed
  <2>4. LogInv'
    BY <1>0, <2>2, <2>3, StartMoves DEF Sealed
  <2> QED BY <2>1, <2>2, <2>4 DEF CastLane, TypesInv, RowTypes
<1>2. CASE b # <<>>
  <2> DEFINE r == [start[s] EXCEPT !.lane = Tail(b)]
  <2>1. /\ Head(b) \in CompetitionEvent /\ Tail(b) \in Seq(CompetitionEvent)
        /\ \A i \in DOMAIN Tail(b) : i + 1 \in DOMAIN b /\ Tail(b)[i] = b[i + 1]
    BY <1>0, <1>2
  <2>2. Broadcast(Head(b)) /\ start' = [start EXCEPT ![s].lane = Tail(@)]
    BY <1>2 DEF CastLane
  <2>3. client' \in SpectatorState
    BY <1>0, <2>1, <2>2, BroadcastTypes
  <2>4. r \in StartRequest /\ r.pc = "cast_lane" /\ r.lane = Tail(b)
    BY <1>0, <2>1 DEF StartRequest
  <2>5. start' = [start EXCEPT ![s] = r]
    BY <1>0, <2>2
  <2> HIDE DEF r, b
  <2>6. /\ start' \in [Starts -> StartRequest] /\ start'[s] = r
        /\ \A q \in Starts : q # s => start'[q] = start[q]
    BY <2>4, <2>5, StartSet
  <2>7. \A i \in DOMAIN Tail(b) : /\ Tail(b)[i].seq < Len(log)
                                  /\ log[Tail(b)[i].seq + 1].type \notin EvidenceTypes
    BY <1>0, <2>1 DEF Logged
  <2>8. StartKnows(s)'
    BY <1>0, <2>4, <2>6, <2>7 DEF LogInv, StartKnows, Writing, Sealed, Logged, OwnsLog
  <2>9. LogInv'
    BY <1>0, <2>4, <2>6, <2>8, StartMoves DEF Sealed
  <2> QED BY <2>3, <2>6, <2>9 DEF CastLane, TypesInv, RowTypes
<1> QED BY <1>1, <1>2

------------------------------------------------------------------------------
(* The arena, the approvals, the operator and the spectator *)

\* Steps that touch neither the log nor the requests it is kept for.
LEMMA QuietLog ==
    ASSUME TypesInv, LogInv, UNCHANGED <<log, runs, records, start, approval>>
    PROVE  LogInv'
<1>1. Grows
  BY DEF Grows, TypesInv
<1>2. LogIsOneRun'
  BY DEF LogInv, LogIsOneRun
<1> QED
  BY <1>1, <1>2, LogStep

LEMMA AppendArenaKeeps ==
    ASSUME TypesInv, LogInv, NEW a \in Arenas, AppendArena(a)
    PROVE  TypesInv' /\ LogInv'
<1> DEFINE b == ArenaEvents(a)
<1>0. /\ UNCHANGED <<config, comp, runs, records, orders, start, approval, client>> /\ a \in Runs
      /\ log \in Seq(CompetitionEvent)
  BY DEF AppendArena, Runs, TypesInv
<1>1. CASE UNCHANGED log
  BY <1>0, <1>1, QuietLog DEF TypesInv, RowTypes
<1>2. CASE NoDuplicateSeq(b) /\ log' = log \o b
  <2>1. /\ b \in Seq(CompetitionEvent) /\ Len(b) = 2 /\ b # <<>> /\ b[1].seq = 0
        /\ \A i \in DOMAIN b : b[i].seq = 0 + i - 1 /\ b[i].run = a
    BY <1>0 DEF ArenaEvents, StartedEvent, Event, CompetitionEvent, DerivedTypes
  <2> HIDE DEF b
  <2>2. log = <<>>
    <3>1. 0 \in {e.seq : e \in Range(b)}
      BY <2>1 DEF Range
    <3>2. Seqs = 0..(Len(log) - 1)
      BY <1>0, SeqsOfLog DEF LogInv, LogIsOneRun
    <3>3. 0 \notin Seqs
      BY <1>2, <3>1 DEF NoDuplicateSeq
    <3> QED BY <1>0, <3>2, <3>3
  <2>3. Grows /\ LogIsOneRun'
    <3>1. 0 \in Nat /\ 0 <= Len(log)
      BY <1>0
    <3> QED BY <1>0, <1>2, <2>1, <2>2, <3>1, GrowLog DEF LogInv
  <2>4. \A q \in Starts : start[q].pc \notin Writing
    BY <2>2, OneWriter
  <2>5. LogInv'
    BY <1>0, <2>3, <2>4, LogStep
  <2> QED BY <1>0, <2>3, <2>5 DEF TypesInv, RowTypes, Grows
<1> QED
  BY <1>1, <1>2 DEF AppendArena, AppendEvents

LEMMA ArenaStepKeeps ==
    ASSUME TypesInv, LogInv, NEW a \in Arenas, ArenaStep(a)
    PROVE  TypesInv' /\ LogInv'
<1>1. CASE AppendArena(a)
  BY <1>1, AppendArenaKeeps
<1>2. CASE ~AppendArena(a)
  <2>1. UNCHANGED <<config, log, runs, records, orders, start, approval, client>>
    BY <1>2 DEF ArenaStep, CheckArena, ClaimRun, VerifyClaimed, FinalizeArena, Recover, ReleaseClaim
  <2>2. comp' \in [status: CompetitionStatus, run_id: Runs \cup {None}, roster: SUBSET Agents]
    BY <1>2 DEF ArenaStep, CheckArena, ClaimRun, VerifyClaimed, FinalizeArena, Recover, ReleaseClaim,
                SetStatus, TypesInv, RowTypes, CompetitionStatus, Runs
  <2> QED BY <2>1, <2>2, QuietLog DEF TypesInv, RowTypes
<1> QED BY <1>1, <1>2

\* An approval moves and leaves the log alone.
LEMMA ApprovalMoves ==
    ASSUME TypesInv, LogInv, NEW p \in Approvals,
           \A q \in Approvals : q # p => approval'[q] = approval[q],
           UNCHANGED <<log, runs, start>>, ApprovalKnows(p)',
           \A x \in Runs \X Agents : records'[x] = records[x] \/ Laned(x[1])
    PROVE  LogInv'
<1>1. Grows
  BY DEF Grows, TypesInv
<1>2. LogIsOneRun'
  BY DEF LogInv, LogIsOneRun
<1>3. \A x \in Runs \X Agents : records'[x] = records[x] \/ (Laned(x[1]))'
  BY <1>1, LanedStays
<1> QED
  BY <1>1, <1>2, <1>3, LogStep

LEMMA ApprovalGotoFacts ==
    ASSUME TypesInv, NEW p \in Approvals, NEW pc \in ApprovalPC, ApprovalGoto(p, pc)
    PROVE  /\ approval' \in [Approvals -> ApprovalRequest]
           /\ \A q \in Approvals : q # p => approval'[q] = approval[q]
           /\ approval'[p].pc = pc /\ approval'[p].exec = approval[p].exec
           /\ approval'[p].events = approval[p].events /\ approval'[p].next = approval[p].next
<1>1. approval \in [Approvals -> ApprovalRequest]
  BY DEF TypesInv
<1>2. approval' = [approval EXCEPT ![p] = [approval[p] EXCEPT !.pc = pc]]
  BY <1>1 DEF ApprovalGoto
<1>3. [approval[p] EXCEPT !.pc = pc] \in ApprovalRequest
  BY <1>1 DEF ApprovalRequest
<1> QED
  BY <1>1, <1>2, <1>3 DEF ApprovalRequest

LEMMA ApprovalSet ==
    ASSUME TypesInv, NEW p \in Approvals, NEW r \in ApprovalRequest,
           approval' = [approval EXCEPT ![p] = r]
    PROVE  /\ approval' \in [Approvals -> ApprovalRequest] /\ approval'[p] = r
           /\ \A q \in Approvals : q # p => approval'[q] = approval[q]
BY DEF TypesInv

LEMMA ReadRecordKeeps ==
    ASSUME TypesInv, LogInv, NEW p \in Approvals, ReadRecord(p)
    PROVE  TypesInv' /\ LogInv'
<1>0. PICK x \in Runs \X Agents :
        /\ records[x] # None
        /\ approval' = [approval EXCEPT ![p].pc = "check", ![p].exec = x, ![p].status = records[x]]
  BY DEF ReadRecord
<1>1. UNCHANGED <<config, comp, log, runs, records, orders, start, client>>
  BY DEF ReadRecord
<1> DEFINE r == [approval[p] EXCEPT !.pc = "check", !.exec = x, !.status = records[x]]
<1>2. /\ approval \in [Approvals -> ApprovalRequest]
      /\ records[x] \in ExecutionStatus \cup {None} /\ x \in (Runs \X Agents) \cup {None}
  BY DEF TypesInv
<1>3. r \in ApprovalRequest /\ r.pc = "check" /\ r.exec = x
  BY <1>2 DEF ApprovalRequest, ApprovalPC
<1>4. approval' = [approval EXCEPT ![p] = r]
  BY <1>0, <1>2
<1> HIDE DEF r
<1>5. /\ approval' \in [Approvals -> ApprovalRequest] /\ approval'[p] = r
      /\ \A q \in Approvals : q # p => approval'[q] = approval[q]
  BY <1>3, <1>4, ApprovalSet
<1>6. Laned(x[1])
  BY <1>0 DEF LogInv, RecordKnows
<1>7. ApprovalKnows(p)'
  BY <1>1, <1>3, <1>5, <1>6 DEF ApprovalKnows, Laned, OwnsLog
<1>8. LogInv'
  BY <1>1, <1>5, <1>7, ApprovalMoves
<1> QED
  BY <1>1, <1>5, <1>8 DEF TypesInv, RowTypes

LEMMA CheckAwaitingKeeps ==
    ASSUME TypesInv, LogInv, NEW p \in Approvals, CheckAwaiting(p)
    PROVE  TypesInv' /\ LogInv'
<1> DEFINE pc == IF approval[p].status = "awaiting_human" /\ runs[approval[p].exec[1]] # None
                 THEN "number" ELSE "refused"
           r == [approval[p] EXCEPT !.pc = pc, !.env = config.env]
<1>1. /\ UNCHANGED <<config, comp, log, runs, records, orders, start, client>>
      /\ approval' = [approval EXCEPT ![p].pc = pc, ![p].env = config.env]
      /\ approval[p].pc = "check"
  BY DEF CheckAwaiting
<1>2. /\ approval \in [Approvals -> ApprovalRequest] /\ config.env \in PolicyEnvelope
      /\ pc \in ApprovalPC /\ pc \in {"number", "refused"}
  BY DEF TypesInv, RowTypes, Config, ApprovalPC
<1> HIDE DEF pc
<1>3. r \in ApprovalRequest /\ r.pc = pc /\ r.exec = approval[p].exec
  BY <1>2 DEF ApprovalRequest
<1>4. approval' = [approval EXCEPT ![p] = r]
  BY <1>1, <1>2
<1> HIDE DEF r
<1>5. /\ approval' \in [Approvals -> ApprovalRequest] /\ approval'[p] = r
      /\ \A q \in Approvals : q # p => approval'[q] = approval[q]
  BY <1>3, <1>4, ApprovalSet
<1>6. ApprovalKnows(p)'
  BY <1>1, <1>2, <1>3, <1>5 DEF LogInv, ApprovalKnows, Laned, OwnsLog
<1>7. LogInv'
  BY <1>1, <1>5, <1>6, ApprovalMoves
<1> QED
  BY <1>1, <1>5, <1>7 DEF TypesInv, RowTypes

LEMMA NumberEventsKeeps ==
    ASSUME TypesInv, LogInv, NEW p \in Approvals, NumberEvents(p)
    PROVE  TypesInv' /\ LogInv'
<1> DEFINE n == LatestSeq + 1
           r == [approval[p] EXCEPT !.pc = "resolve", !.next = n]
<1>1. /\ UNCHANGED <<config, comp, log, runs, records, orders, start, client>>
      /\ approval' = [approval EXCEPT ![p].pc = "resolve", ![p].next = n]
      /\ approval[p].pc = "number"
  BY DEF NumberEvents
<1>2. approval \in [Approvals -> ApprovalRequest] /\ log \in Seq(CompetitionEvent)
  BY DEF TypesInv
<1>3. n = Len(log) /\ n \in Nat
  <2>1. log # <<>> /\ Len(log) \in Nat /\ Len(log) >= 1
    BY <1>1, <1>2 DEF LogInv, ApprovalKnows, Laned, OwnsLog
  <2>2. Seqs = 0..(Len(log) - 1)
    BY <1>2, SeqsOfLog DEF LogInv, LogIsOneRun
  <2>3. Max(0..(Len(log) - 1)) = Len(log) - 1
    <3> DEFINE S == 0..(Len(log) - 1)  m == Len(log) - 1
    <3>1. m \in S /\ \A y \in S : m >= y
      BY <2>1
    <3>2. \A z \in S : (\A y \in S : z >= y) => z = m
      BY <2>1
    <3> HIDE DEF S, m
    <3>3. Max(S) = m
      BY <3>1, <3>2 DEF Max
    <3> QED BY <3>3 DEF S, m
  <2> QED BY <2>1, <2>2, <2>3 DEF LatestSeq
<1> HIDE DEF n
<1>4. r \in ApprovalRequest /\ r.pc = "resolve" /\ r.exec = approval[p].exec /\ r.next = n
  BY <1>2, <1>3 DEF ApprovalRequest, ApprovalPC
<1>5. approval' = [approval EXCEPT ![p] = r]
  BY <1>1, <1>2
<1> HIDE DEF r
<1>6. /\ approval' \in [Approvals -> ApprovalRequest] /\ approval'[p] = r
      /\ \A q \in Approvals : q # p => approval'[q] = approval[q]
  BY <1>4, <1>5, ApprovalSet
<1>7. ApprovalKnows(p)'
  BY <1>1, <1>3, <1>4, <1>6 DEF LogInv, ApprovalKnows, Laned, OwnsLog
<1>8. LogInv'
  BY <1>1, <1>6, <1>7, ApprovalMoves
<1> QED
  BY <1>1, <1>6, <1>8 DEF TypesInv, RowTypes

\* A resolved approval: its record is put, an approved order is the approval's own, and its events
\* are numbered from the end of the log it saw.
LEMMA ResolveApprovalFacts ==
    ASSUME TypesInv, LogInv, NEW p \in Approvals, ResolveApproval(p)
    PROVE  /\ approval' \in [Approvals -> ApprovalRequest]
           /\ \A q \in Approvals : q # p => approval'[q] = approval[q]
           /\ ApprovalKnows(p)'
           /\ records' \in [Runs \X Agents -> ExecutionStatus \cup {None}]
           /\ \A y \in Runs \X Agents : records'[y] = records[y] \/ Laned(y[1])
           /\ \/ orders' = orders
              \/ \E o \in Order : o.by = p /\ orders' = Append(orders, o)
<1> DEFINE x == approval[p].exec
           failing == ApprovalGoto(p, "failed") /\ UNCHANGED <<records, orders>>
           decision == ApprovalDecision(Bet[x[2]], approval[p].env, config.mode, x[2] \in Eligible, FakeQuote)
           preDenied == PreQuoteReasons(PreQuoteContext(Bet[x[2]], approval[p].env, ClosedBreaker, 0,
                                        config.mode, x[2] \in Eligible), approval[p].env) # {}
           outcome == IF preDenied THEN "rejected" ELSE decision
           status == IF outcome = "approved" THEN SubmittedStatus("filled") ELSE "rejected"
           o == [run |-> x[1], agent |-> x[2], by |-> p, receipt |-> "filled"]
           ev == Batch(x[1], approval[p].next, ApprovalEvents(outcome), x)
           resolving == /\ PutRecord(x, status)
                        /\ orders' = IF outcome = "approved" THEN Append(orders, o) ELSE orders
                        /\ approval' = [approval EXCEPT ![p].pc = "append", ![p].events = ev]
<1>1. /\ approval[p].pc = "resolve" /\ (failing \/ resolving)
      /\ UNCHANGED <<log, runs, start>>
  BY DEF ResolveApproval
<1>2. /\ approval \in [Approvals -> ApprovalRequest] /\ log \in Seq(CompetitionEvent)
      /\ x \in Runs \X Agents /\ Laned(x[1]) /\ approval[p].next \in Nat
      /\ approval[p].next <= Len(log)
      /\ records \in [Runs \X Agents -> ExecutionStatus \cup {None}] /\ orders \in Seq(Order)
  BY <1>1 DEF TypesInv, ApprovalRequest, LogInv, ApprovalKnows
<1>3. CASE failing
  <2>1. ApprovalGoto(p, "failed") /\ "failed" \in ApprovalPC /\ UNCHANGED <<records, orders>>
    BY <1>3 DEF ApprovalPC
  <2>2. /\ approval' \in [Approvals -> ApprovalRequest] /\ approval'[p].pc = "failed"
        /\ \A q \in Approvals : q # p => approval'[q] = approval[q]
    BY <2>1, ApprovalGotoFacts
  <2>3. ApprovalKnows(p)'
    BY <2>2 DEF ApprovalKnows
  <2> QED BY <1>2, <2>1, <2>2, <2>3
<1>4. CASE resolving
  <2>1. ApprovalEvents(outcome) \in Seq(DerivedTypes)
    BY DEF ApprovalEvents, DerivedTypes
  <2>2. status \in ExecutionStatus
    <3>1. SubmittedStatus("filled") \in ExecutionStatus
      BY StatusFacts DEF TerminalAnswers
    <3>2. "rejected" \in ExecutionStatus
      BY DEF ExecutionStatus, NextExec
    <3> HIDE DEF outcome
    <3> QED BY <3>1, <3>2
  <2>3. o \in Order /\ o.by = p
    BY <1>2 DEF Order, TerminalAnswers
  <2> HIDE DEF outcome, status, o, x
  <2>4. x[1] \in Runs /\ x \in (Runs \X Agents) \cup {None}
    BY <1>2
  <2>5. ev \in Seq(CompetitionEvent) /\ Derived(ev, approval[p].next, x[1])
    <3> DEFINE types == ApprovalEvents(outcome)  base == approval[p].next
    <3>1. types \in Seq(DerivedTypes) /\ base \in Nat
      BY <1>2, <2>1
    <3> HIDE DEF types, base
    <3>2. Batch(x[1], base, types, x) \in Seq(CompetitionEvent) /\ Derived(Batch(x[1], base, types, x), base, x[1])
      BY <2>4, <3>1, BatchFacts
    <3> QED BY <3>2 DEF types, base
  <2> HIDE DEF ev
  <2> DEFINE r == [approval[p] EXCEPT !.pc = "append", !.events = ev]
  <2>6. r \in ApprovalRequest /\ r.pc = "append" /\ r.exec = x /\ r.next = approval[p].next /\ r.events = ev
    BY <1>2, <2>5 DEF ApprovalRequest, ApprovalPC, x
  <2>7. approval' = [approval EXCEPT ![p] = r]
    BY <1>2, <1>4
  <2> HIDE DEF r
  <2>8. /\ approval' \in [Approvals -> ApprovalRequest] /\ approval'[p] = r
        /\ \A q \in Approvals : q # p => approval'[q] = approval[q]
    BY <2>6, <2>7, ApprovalSet
  <2>9. ApprovalKnows(p)'
    BY <1>1, <1>2, <2>5, <2>6, <2>8 DEF ApprovalKnows, Laned, OwnsLog, Derived
  <2>10. /\ records' \in [Runs \X Agents -> ExecutionStatus \cup {None}]
         /\ \A y \in Runs \X Agents : records'[y] = records[y] \/ Laned(y[1])
    <3>1. records' = [records EXCEPT ![x] = status]
      BY <1>4 DEF PutRecord
    <3> QED BY <1>2, <2>2, <3>1
  <2>11. orders' = orders \/ orders' = Append(orders, o)
    BY <1>4
  <2> QED BY <2>3, <2>8, <2>9, <2>10, <2>11
<1> QED BY <1>1, <1>3, <1>4

LEMMA ResolveApprovalKeeps ==
    ASSUME TypesInv, LogInv, NEW p \in Approvals, ResolveApproval(p)
    PROVE  TypesInv' /\ LogInv'
<1>1. UNCHANGED <<config, comp, log, runs, start, client>>
  BY DEF ResolveApproval
<1>2. LogInv'
  BY <1>1, ResolveApprovalFacts, ApprovalMoves
<1>3. orders' \in Seq(Order)
  <2>1. CASE orders' = orders
    BY <2>1 DEF TypesInv
  <2>2. CASE \E o \in Order : orders' = Append(orders, o)
    BY <2>2 DEF TypesInv
  <2> QED BY <2>1, <2>2, ResolveApprovalFacts
<1> QED
  BY <1>1, <1>2, <1>3, ResolveApprovalFacts DEF TypesInv, RowTypes

LEMMA AppendApprovalKeeps ==
    ASSUME TypesInv, LogInv, NEW p \in Approvals, AppendApproval(p)
    PROVE  TypesInv' /\ LogInv'
<1> DEFINE b == approval[p].events
           r == approval[p].exec[1]
<1>0. /\ approval[p].pc = "append"
      /\ UNCHANGED <<config, comp, runs, records, orders, start, client>>
      /\ approval \in [Approvals -> ApprovalRequest] /\ log \in Seq(CompetitionEvent)
      /\ approval[p].next \in Nat /\ b \in Seq(CompetitionEvent)
  BY DEF AppendApproval, TypesInv, ApprovalRequest
<1>1. /\ r \in Runs /\ Laned(r) /\ approval[p].next <= Len(log) /\ Derived(b, approval[p].next, r)
      /\ approval[p].exec \in Runs \X Agents
  BY <1>0 DEF LogInv, ApprovalKnows
<1>2. CASE ~NoDuplicateSeq(b)
  <2>1. ApprovalGoto(p, "failed") /\ UNCHANGED log /\ "failed" \in ApprovalPC
    BY <1>2 DEF AppendApproval, ApprovalPC
  <2>2. /\ approval' \in [Approvals -> ApprovalRequest] /\ approval'[p].pc = "failed"
        /\ \A q \in Approvals : q # p => approval'[q] = approval[q]
    BY <2>1, ApprovalGotoFacts
  <2>3. ApprovalKnows(p)'
    BY <2>2 DEF ApprovalKnows
  <2>4. LogInv'
    BY <1>0, <2>1, <2>2, <2>3, ApprovalMoves
  <2> QED BY <1>0, <2>1, <2>2, <2>4 DEF TypesInv, RowTypes
<1>3. CASE NoDuplicateSeq(b)
  <2>1. log' = log \o b /\ ApprovalGoto(p, "cast") /\ "cast" \in ApprovalPC
    BY <1>3 DEF AppendApproval, AppendEvents, ApprovalPC
  <2>2. /\ approval' \in [Approvals -> ApprovalRequest] /\ approval'[p].pc = "cast"
        /\ approval'[p].events = b /\ approval'[p].exec = approval[p].exec
        /\ \A q \in Approvals : q # p => approval'[q] = approval[q]
    BY <2>1, ApprovalGotoFacts
  <2> HIDE DEF b, r
  <2>3. /\ Grows /\ LogIsOneRun'
        /\ \A i \in DOMAIN b : b[i].seq < Len(log') /\ log'[b[i].seq + 1].type \notin EvidenceTypes
    <3>1. OwnsLog(r)
      BY <1>1 DEF Laned
    <3> QED BY <1>0, <1>1, <1>3, <2>1, <3>1, DerivedGrows
  <2>4. \A q \in Starts : start[q].pc \notin Writing
    BY <1>1, OneWriter DEF Laned, OwnsLog
  <2>5. \A q \in Starts : start[q].pc \in Sealed => start'[q].pc \in Sealed
    BY <1>0
  <2>6. ApprovalKnows(p)'
    <3>1. PICK c \in Starts : c = r
      BY <1>1 DEF Laned
    <3>2. (Laned(c))'
      BY <1>1, <2>3, <2>5, <3>1, LanedStays
    <3>3. (Logged(approval[p].events))'
      BY <2>2, <2>3 DEF Logged
    <3>4. approval'[p].exec[1] = c
      BY <2>2, <3>1 DEF r
    <3> QED BY <1>1, <2>2, <3>2, <3>3, <3>4 DEF ApprovalKnows
  <2>7. LogInv'
    BY <1>0, <2>2, <2>3, <2>4, <2>5, <2>6, LogStep
  <2> QED BY <1>0, <2>2, <2>3, <2>7 DEF TypesInv, RowTypes, Grows
<1> QED BY <1>2, <1>3

LEMMA CastApprovalKeeps ==
    ASSUME TypesInv, LogInv, NEW p \in Approvals, CastApproval(p)
    PROVE  TypesInv' /\ LogInv'
<1> DEFINE b == approval[p].events
<1>0. /\ approval[p].pc = "cast" /\ UNCHANGED <<config, comp, log, runs, records, orders, start>>
      /\ approval \in [Approvals -> ApprovalRequest] /\ b \in Seq(CompetitionEvent)
      /\ client \in SpectatorState /\ Logged(b) /\ log \in Seq(CompetitionEvent)
      /\ approval[p].exec \in Runs \X Agents /\ Laned(approval[p].exec[1])
  BY DEF CastApproval, TypesInv, ApprovalRequest, LogInv, ApprovalKnows
<1>1. CASE b = <<>>
  <2>1. ApprovalGoto(p, "done") /\ UNCHANGED client /\ "done" \in ApprovalPC
    BY <1>1 DEF CastApproval, ApprovalPC
  <2>2. /\ approval' \in [Approvals -> ApprovalRequest] /\ approval'[p].pc = "done"
        /\ \A q \in Approvals : q # p => approval'[q] = approval[q]
    BY <2>1, ApprovalGotoFacts
  <2>3. ApprovalKnows(p)'
    BY <2>2 DEF ApprovalKnows
  <2>4. LogInv'
    BY <1>0, <2>2, <2>3, ApprovalMoves
  <2> QED BY <1>0, <2>1, <2>2, <2>4 DEF TypesInv, RowTypes
<1>2. CASE b # <<>>
  <2> DEFINE r == [approval[p] EXCEPT !.events = Tail(b)]
  <2>1. /\ Head(b) \in CompetitionEvent /\ Tail(b) \in Seq(CompetitionEvent)
        /\ \A i \in DOMAIN Tail(b) : i + 1 \in DOMAIN b /\ Tail(b)[i] = b[i + 1]
    BY <1>0, <1>2
  <2>2. Broadcast(Head(b)) /\ approval' = [approval EXCEPT ![p].events = Tail(@)]
    BY <1>2 DEF CastApproval
  <2>3. client' \in SpectatorState
    BY <1>0, <2>1, <2>2, BroadcastTypes
  <2>4. r \in ApprovalRequest /\ r.pc = "cast" /\ r.events = Tail(b) /\ r.exec = approval[p].exec
    BY <1>0, <2>1 DEF ApprovalRequest
  <2>5. approval' = [approval EXCEPT ![p] = r]
    BY <1>0, <2>2
  <2> HIDE DEF r, b
  <2>6. /\ approval' \in [Approvals -> ApprovalRequest] /\ approval'[p] = r
        /\ \A q \in Approvals : q # p => approval'[q] = approval[q]
    BY <2>4, <2>5, ApprovalSet
  <2>7. \A i \in DOMAIN Tail(b) : /\ Tail(b)[i].seq < Len(log)
                                  /\ log[Tail(b)[i].seq + 1].type \notin EvidenceTypes
    BY <1>0, <2>1 DEF Logged
  <2>8. ApprovalKnows(p)'
    BY <1>0, <2>4, <2>6, <2>7 DEF ApprovalKnows, Logged, Laned, OwnsLog
  <2>9. LogInv'
    BY <1>0, <2>6, <2>8, ApprovalMoves
  <2> QED BY <1>0, <2>3, <2>6, <2>9 DEF TypesInv, RowTypes
<1> QED BY <1>1, <1>2

LEMMA RegisterAgentKeeps ==
    ASSUME TypesInv, LogInv, NEW a \in Agents, RegisterAgent(a)
    PROVE  TypesInv' /\ LogInv'
<1>1. UNCHANGED <<config, log, runs, records, orders, start, approval, client>>
  BY DEF RegisterAgent
<1>2. comp' \in [status: CompetitionStatus, run_id: Runs \cup {None}, roster: SUBSET Agents]
  BY DEF RegisterAgent, TypesInv, RowTypes
<1> QED BY <1>1, <1>2, QuietLog DEF TypesInv, RowTypes

LEMMA KillSwitchKeeps ==
    ASSUME TypesInv, LogInv, KillSwitch
    PROVE  TypesInv' /\ LogInv'
<1>1. UNCHANGED <<comp, log, runs, records, orders, start, approval, client>>
  BY DEF KillSwitch
<1>2. config' \in Config
  <2> DEFINE e == [config.env EXCEPT !.kill_switch = TRUE]
  <2>1. config \in Config /\ config.env \in PolicyEnvelope
    BY DEF TypesInv, RowTypes, Config
  <2>2. e \in PolicyEnvelope
    BY <2>1, Zenon DEF PolicyEnvelope
  <2>3. config' = [config EXCEPT !.env = e]
    BY <2>1 DEF KillSwitch, Config
  <2> HIDE DEF e
  <2> QED BY <2>1, <2>2, <2>3 DEF Config
<1> QED BY <1>1, <1>2, QuietLog DEF TypesInv, RowTypes

\* What the spectator does touches the spectator only.
ClientStep == Connect \/ Replay \/ SendReplayed \/ ForwardLive \/ Disconnect

LEMMA PendingFacts ==
    ASSUME client \in SpectatorState
    PROVE  /\ Pending \in Seq(CompetitionEvent)
           /\ client.queue # None => client.queue \in Seq(CompetitionEvent)
BY DEF SpectatorState, Pending

\* Whatever the spectator asks for, it is sent events of the log.
LEMMA ListTypes ==
    ASSUME TypesInv, LogInv, NEW since
    PROVE  ListEvents(since) \in Seq(CompetitionEvent) /\ (log = <<>> => ListEvents(since) = <<>>)
<1> DEFINE S == {n \in Seqs : n > since}
           c == Cardinality(S)
           f == InOrder(S)
           l == ListEvents(since)
<1>1. log \in Seq(CompetitionEvent) /\ Seqs = 0..(Len(log) - 1) /\ Len(log) \in Nat
  BY SeqsOfLog DEF TypesInv, LogInv, LogIsOneRun
<1>2. IsFiniteSet(Seqs)
  <2> DEFINE m == Len(log) - 1
  <2>1. m \in Int /\ m >= 0 - 1 /\ 0 \in Int
    BY <1>1
  <2> HIDE DEF m
  <2>2. IsFiniteSet(0..m)
    BY <2>1, IntervalSize, Zenon
  <2> QED BY <1>1, <2>2 DEF m
<1>3. S \in SUBSET Seqs /\ S \in SUBSET Nat /\ (log = <<>> => S = {})
  BY <1>1
<1>4. l = [k \in DOMAIN f |-> CHOOSE e \in Range(log) : e.seq = f[k]]
  BY DEF ListEvents
<1> HIDE DEF S
<1>5. IsFiniteSet(S)
  BY <1>2, <1>3, FS_Subset
<1>6. c \in Nat /\ DOMAIN f = 1..c /\ \A k \in 1..c : f[k] \in S
  BY <1>3, <1>5, InOrderMembers
<1>7. S = {} => c = 0
  BY FS_EmptySet
<1> HIDE DEF c, f, l
<1>8. \A k \in 1..c : (CHOOSE e \in Range(log) : e.seq = f[k]) \in CompetitionEvent
  <2> TAKE k \in 1..c
  <2>1. f[k] \in Seqs
    BY <1>3, <1>6
  <2>2. \E e \in Range(log) : e.seq = f[k]
    BY <2>1 DEF Seqs
  <2>3. (CHOOSE e \in Range(log) : e.seq = f[k]) \in Range(log)
    BY <2>2
  <2>4. Range(log) \in SUBSET CompetitionEvent
    BY <1>1 DEF Range
  <2> QED BY <2>3, <2>4
<1> DEFINE g(k) == CHOOSE e \in Range(log) : e.seq = f[k]
<1>9. \A k \in 1..c : g(k) \in CompetitionEvent
  BY <1>8
<1>10. l = [k \in 1..c |-> g(k)]
  BY <1>4, <1>6
<1> HIDE DEF g
<1>11. l \in Seq(CompetitionEvent) /\ Len(l) = c
  BY <1>6, <1>9, <1>10
<1> QED BY <1>3, <1>7, <1>11 DEF l

LEMMA ClientStepTypes ==
    ASSUME TypesInv, LogInv, ClientStep
    PROVE  client' \in SpectatorState
<1>1. client \in SpectatorState /\ log \in Seq(CompetitionEvent)
  BY DEF TypesInv
<1>2. CASE Connect
  <2> DEFINE q == <<>>  c == client.connects + 1
  <2>1. q \in Seq(CompetitionEvent) /\ c \in Nat
    BY <1>1 DEF SpectatorState
  <2>2. client' = [client EXCEPT !.pc = "list", !.queue = q, !.backlog = q, !.connects = c]
    BY <1>1, <1>2 DEF Connect, SpectatorState
  <2> HIDE DEF q, c
  <2> QED BY <1>1, <2>1, <2>2 DEF SpectatorState
<1>3. CASE Replay
  <2> DEFINE l == ListEvents(client.last)
  <2>1. l \in Seq(CompetitionEvent)
    BY ListTypes
  <2>2. client' = [client EXCEPT !.pc = "replay", !.replay = l]
    BY <1>3 DEF Replay
  <2> HIDE DEF l
  <2> QED BY <1>1, <2>1, <2>2 DEF SpectatorState
<1>4. CASE SendReplayed
  <2> DEFINE l == client.replay  h == Head(l)  t == Tail(l)
  <2>1. l \in Seq(CompetitionEvent)
    BY <1>1 DEF SpectatorState
  <2>2. CASE l = <<>>
    BY <1>1, <1>4, <2>2 DEF SendReplayed, SpectatorState
  <2>3. CASE l # <<>>
    <3>1. h \in CompetitionEvent /\ t \in Seq(CompetitionEvent)
      BY <2>1, <2>3
    <3>2. h.seq \in Nat
      BY <3>1 DEF CompetitionEvent
    <3> DEFINE g == Append(client.got, h.seq)
    <3>3. client' = [client EXCEPT !.replay = t, !.last = h.seq, !.got = g]
      BY <1>1, <1>4, <2>3 DEF SendReplayed, SpectatorState
    <3> HIDE DEF h, t
    <3>4. g \in Seq(Nat)
      BY <1>1, <3>2 DEF SpectatorState
    <3> HIDE DEF g
    <3> QED BY <1>1, <3>1, <3>2, <3>3, <3>4 DEF SpectatorState
  <2> QED BY <2>2, <2>3
<1>5. CASE ForwardLive
  <2>1. DropHead \in SpectatorState
    <3>1. Pending \in Seq(CompetitionEvent) /\ Pending # <<>>
      BY <1>1, <1>5, PendingFacts DEF ForwardLive
    <3>2. Tail(Pending) \in Seq(CompetitionEvent)
      BY <3>1
    <3>3. CASE client.queue # None
      <4>1. DropHead = [client EXCEPT !.queue = Tail(Pending)]
        BY <1>1, <3>3 DEF DropHead, Pending, SpectatorState
      <4> QED BY <1>1, <3>2, <4>1 DEF SpectatorState
    <3>4. CASE client.queue = None
      <4>1. DropHead = [client EXCEPT !.backlog = Tail(Pending)]
        BY <1>1, <3>4 DEF DropHead, Pending, SpectatorState
      <4> QED BY <1>1, <3>2, <4>1 DEF SpectatorState
    <3> QED BY <3>3, <3>4
  <2> DEFINE h == Head(Pending)
  <2>2. h \in CompetitionEvent
    BY <1>1, <1>5, PendingFacts DEF ForwardLive
  <2>3. h.seq \in Nat
    BY <2>2 DEF CompetitionEvent
  <2>4. \/ client' = DropHead
        \/ client' = [DropHead EXCEPT !.last = h.seq, !.got = Append(DropHead.got, h.seq)]
    BY <1>5 DEF ForwardLive
  <2> HIDE DEF h
  <2>5. [DropHead EXCEPT !.last = h.seq, !.got = Append(DropHead.got, h.seq)] \in SpectatorState
    <3> DEFINE d == DropHead  g == Append(d.got, h.seq)
    <3>1. d \in SpectatorState
      BY <2>1
    <3> HIDE DEF d
    <3>2. g \in Seq(Nat)
      BY <2>3, <3>1 DEF SpectatorState
    <3> HIDE DEF g
    <3>3. [d EXCEPT !.last = h.seq, !.got = g] \in SpectatorState
      BY <2>3, <3>1, <3>2 DEF SpectatorState
    <3> QED BY <3>3 DEF d, g
  <2> QED BY <2>1, <2>4, <2>5
<1>6. CASE Disconnect
  <2>1. <<>> \in Seq(CompetitionEvent) /\ None \in Seq(CompetitionEvent) \cup {None}
    OBVIOUS
  <2> QED BY <1>1, <1>6, <2>1 DEF Disconnect, SpectatorState
<1> QED BY <1>2, <1>3, <1>4, <1>5, <1>6 DEF ClientStep

LEMMA ClientStepKeeps ==
    ASSUME TypesInv, LogInv, ClientStep
    PROVE  TypesInv' /\ LogInv'
<1>1. UNCHANGED <<config, comp, log, runs, records, orders, start, approval>>
  BY DEF ClientStep, Connect, Replay, SendReplayed, ForwardLive, Disconnect
<1> QED BY <1>1, ClientStepTypes, QuietLog DEF TypesInv, RowTypes

------------------------------------------------------------------------------
(* The log of a competition *)

LEMMA InitTypes == Init => TypesInv
<1> SUFFICES ASSUME Init PROVE TypesInv
  OBVIOUS
<1>1. RowTypes
  BY ScenariosAssumption DEF Init, RowTypes, Config, CompetitionStatus
<1>2. config.env \in PolicyEnvelope
  BY <1>1 DEF RowTypes, Config
<1>3. start \in [Starts -> StartRequest]
  <2> DEFINE q == <<>>
             r == [pc |-> "idle", agents |-> {}, env |-> config.env, emit |-> q, events |-> q,
                   todo |-> q, next |-> 0, lane |-> q, placed |-> 0, breaker |-> ClosedBreaker,
                   pending |-> None]
  <2>1. start = [s \in Starts |-> r]
    BY DEF Init, NewStart
  <2>2. ClosedBreaker \in Breaker
    BY DEF ClosedBreaker, Breaker, CircuitState
  <2>3. /\ q \in Seq(RunEvent) /\ q \in Seq(CompetitionEvent)
        /\ q \in Seq([type: {"decision"}, agent: Agents, bet: {TRUE}])
        /\ {} \in SUBSET Agents /\ 0 \in Nat /\ "idle" \in StartPC
        /\ None \in (Agents \X ExecutionStatus) \cup {None}
    BY DEF StartPC
  <2> HIDE DEF q
  <2>4. r \in StartRequest
    BY <1>2, <2>2, <2>3, Zenon DEF StartRequest
  <2> HIDE DEF r
  <2> QED BY <2>1, <2>4
<1>4. approval \in [Approvals -> ApprovalRequest]
  <2> DEFINE r == [pc |-> "idle", exec |-> None, status |-> None, env |-> config.env, next |-> 0,
                   events |-> <<>>]
  <2>1. approval = [p \in Approvals |-> r]
    BY DEF Init
  <2>2. r \in ApprovalRequest
    BY <1>2 DEF ApprovalRequest, ApprovalPC
  <2> HIDE DEF r
  <2> QED BY <2>1, <2>2
<1>5. client \in SpectatorState
  BY DEF Init, SpectatorState
<1>6. runs \in [Starts -> Seq(RunEvent) \cup {None}]
  BY DEF Init
<1>7. records \in [Runs \X Agents -> ExecutionStatus \cup {None}]
  BY DEF Init
<1>8. log \in Seq(CompetitionEvent) /\ orders \in Seq(Order)
  BY DEF Init
<1> QED BY <1>1, <1>3, <1>4, <1>5, <1>6, <1>7, <1>8 DEF TypesInv

LEMMA InitLog == Init => LogInv
<1> SUFFICES ASSUME Init PROVE LogInv
  OBVIOUS
<1>1. LogIsOneRun
  BY DEF Init, LogIsOneRun, Range
<1>2. ASSUME NEW s \in Starts PROVE StartKnows(s)
  <2>1. start[s].pc = "idle" /\ start[s].events = <<>> /\ start[s].lane = <<>> /\ runs[s] = None
    BY DEF Init, NewStart
  <2> QED BY <2>1 DEF StartKnows, Writing, Sealed
<1>3. RecordKnows
  BY DEF Init, RecordKnows
<1>4. ASSUME NEW p \in Approvals PROVE ApprovalKnows(p)
  <2>1. approval[p].pc = "idle"
    BY DEF Init
  <2> QED BY <2>1 DEF ApprovalKnows
<1> QED BY <1>1, <1>2, <1>3, <1>4 DEF LogInv

LEMMA LogStepKeeps ==
    ASSUME TypesInv, LogInv, [Next]_vars
    PROVE  TypesInv' /\ LogInv'
<1>1. ASSUME NEW s \in Starts, StartStep(s) \/ StoreError(s) \/ LaneRaises(s)
      PROVE  TypesInv' /\ LogInv'
  BY <1>1, ResolveStartKeeps, BeginKeeps, MarkRunningKeeps, BindRunKeeps, AppendStartedKeeps,
     EmitKeeps, CastEvidenceKeeps, DecideKeeps, SealKeeps, ParityKeeps, AppendTailKeeps,
     SelectRouteKeeps, LaneStepKeeps, RecordExecutionKeeps, AppendLaneKeeps, CastLaneKeeps,
     FinalizeKeeps, StoreErrorKeeps, LaneRaisesKeeps, Zenon DEF StartStep
<1>2. ASSUME NEW a \in Arenas, ArenaStep(a) PROVE TypesInv' /\ LogInv'
  BY <1>2, ArenaStepKeeps
<1>3. ASSUME NEW p \in Approvals, ApprovalStep(p) PROVE TypesInv' /\ LogInv'
  BY <1>3, ReadRecordKeeps, CheckAwaitingKeeps, NumberEventsKeeps, ResolveApprovalKeeps,
     AppendApprovalKeeps, CastApprovalKeeps, Zenon DEF ApprovalStep
<1>4. ASSUME NEW a \in Agents, RegisterAgent(a) PROVE TypesInv' /\ LogInv'
  BY <1>4, RegisterAgentKeeps
<1>5. CASE KillSwitch
  BY <1>5, KillSwitchKeeps
<1>6. CASE ClientStep
  BY <1>6, ClientStepKeeps
<1>7. CASE UNCHANGED vars
  BY <1>7, QuietLog DEF vars, TypesInv, RowTypes
<1> QED
  BY <1>1, <1>2, <1>3, <1>4, <1>5, <1>6, <1>7, Zenon DEF Next, ClientStep

\* Type correctness for every set of requests, roster, envelope and queue bound.
THEOREM CompTypeCorrect == Spec => []CompTypeOK
<1>1. Init => TypesInv /\ LogInv
  BY InitTypes, InitLog
<1>2. TypesInv /\ LogInv /\ [Next]_vars => (TypesInv /\ LogInv)'
  BY LogStepKeeps
<1>3. TypesInv => CompTypeOK
  <2> SUFFICES ASSUME TypesInv PROVE CompTypeOK
    OBVIOUS
  <2>1. \A s \in Starts : start[s].pc \in StartPC /\ start[s].breaker.state \in CircuitState
    BY DEF TypesInv, StartRequest, Breaker
  <2>2. \A e \in Range(log) : e \in CompetitionEvent
    BY DEF TypesInv, Range
  <2>3. \A e \in Range(log) : e.seq \in Nat /\ e.run \in Runs
    BY <2>2 DEF CompetitionEvent
  <2> QED BY <2>1, <2>3 DEF TypesInv, RowTypes, CompTypeOK, Config
<1> QED BY <1>1, <1>2, <1>3, PTL DEF Spec

\* The log of a competition has no gap and is about one run, whatever the requests do
\* (append_competition_events).
THEOREM LogSafe == Spec => []LogIsOneRun
<1>1. Init => TypesInv /\ LogInv
  BY InitTypes, InitLog
<1>2. TypesInv /\ LogInv /\ [Next]_vars => (TypesInv /\ LogInv)'
  BY LogStepKeeps
<1>3. LogInv => LogIsOneRun
  BY DEF LogInv
<1> QED BY <1>1, <1>2, <1>3, PTL DEF Spec

\* No run ends in an integrity error, and what a sealed run projects stays the start of the log
\* (_assert_prefix_parity).
THEOREM SealSafe == Spec => []SealedRunIsLogged
<1>1. Init => TypesInv /\ LogInv
  BY InitTypes, InitLog
<1>2. TypesInv /\ LogInv /\ [Next]_vars => (TypesInv /\ LogInv)'
  BY LogStepKeeps
<1>3. LogInv => SealedRunIsLogged
  BY DEF LogInv, StartKnows, SealedRunIsLogged
<1> QED BY <1>1, <1>2, <1>3, PTL DEF Spec

------------------------------------------------------------------------------
(* The limits of the lane *)

\* q is a lane, and os2 is os with order o at its end, at position n.
OneMore(q, os, o, n, os2) ==
  /\ q \in Starts /\ os \in Seq(Order) /\ o \in Order /\ os2 \in Seq(Order)
  /\ n = Len(os) + 1 /\ n \in Nat /\ Len(os2) = n /\ os2[n] = o
  /\ \A i \in 1..Len(os) : os2[i] = os[i]

LEMMA AppendIsOneMore ==
    ASSUME NEW q \in Starts, NEW os \in Seq(Order), NEW o \in Order
    PROVE  OneMore(q, os, o, Len(os) + 1, Append(os, o))
BY DEF OneMore

\* One more order: where the orders of a lane are then.
LEMMA OrderPositions ==
    ASSUME NEW q, NEW os, NEW o, NEW n, NEW os2, OneMore(q, os, o, n, os2)
    PROVE  /\ IsFiniteSet(LanePositions(os, q))
           /\ LanePositions(os, q) \in SUBSET (1..Len(os)) /\ n \notin LanePositions(os, q)
           /\ o.by = q => LanePositions(os2, q) = LanePositions(os, q) \cup {n}
           /\ o.by # q => LanePositions(os2, q) = LanePositions(os, q)
           /\ \A i \in LanePositions(os, q) : i < n /\ i \in Nat /\ os2[i] = os[i]
           /\ os2[n] = o /\ n \in Nat
<1> DEFINE P == LanePositions(os, q)  P2 == LanePositions(os2, q)
<1>1. /\ n \in Nat /\ n > 0 /\ os2[n] = o /\ \A i \in 1..Len(os) : os2[i] = os[i]
      /\ DOMAIN os = 1..Len(os) /\ DOMAIN os2 = 1..n /\ 1..n = (1..Len(os)) \cup {n}
      /\ Len(os) \in Nat /\ n \notin 1..Len(os) /\ \A i \in 1..Len(os) : i < n /\ i \in Nat
  BY DEF OneMore
<1>2. P \in SUBSET (1..Len(os)) /\ n \notin P
  BY <1>1 DEF LanePositions
<1>3. \A i \in 1..Len(os) : i \in P2 <=> i \in P
  BY <1>1 DEF LanePositions
<1>4. n \in P2 <=> o.by = q
  BY <1>1 DEF LanePositions
<1>5. P2 \in SUBSET ((1..Len(os)) \cup {n})
  BY <1>1 DEF LanePositions
<1>6. IsFiniteSet(1..Len(os))
  BY <1>1, IntervalSize, 1 \in Int, Len(os) \in Int, Len(os) >= 1 - 1
<1> HIDE DEF P, P2
<1>7. IsFiniteSet(P)
  BY <1>2, <1>6, FS_Subset
<1>8. (o.by = q => P2 = P \cup {n}) /\ (o.by # q => P2 = P)
  BY <1>2, <1>3, <1>4, <1>5
<1>9. \A i \in P : i < n /\ i \in Nat /\ os2[i] = os[i]
  BY <1>1, <1>2
<1> QED BY <1>1, <1>2, <1>7, <1>8, <1>9 DEF P, P2

\* Whose order it was changes nothing for what came before it.
LEMMA OrderPast ==
    ASSUME NEW q, NEW os, NEW o, NEW n, NEW os2, OneMore(q, os, o, n, os2),
           NEW k \in 1..n
    PROVE  FailedRow(os2, q, k) = FailedRow(os, q, k)
<1> DEFINE P == LanePositions(os, q)  P2 == LanePositions(os2, q)
<1>0. /\ o.by = q => P2 = P \cup {n}
      /\ o.by # q => P2 = P
      /\ \A i \in P : i < n /\ i \in Nat /\ os2[i] = os[i]
      /\ n \in Nat
  BY OrderPositions
<1>1. /\ P \in SUBSET P2 /\ P2 \in SUBSET (P \cup {n}) /\ n \in Nat
      /\ \A i \in P : os2[i] = os[i] /\ i \in Nat
  BY <1>0
<1>2. /\ FailedRow(os, q, k) =
           {i \in P : i < k /\ \A j \in P : i <= j /\ j < k => os[j].receipt \in FailureReceipts}
      /\ FailedRow(os2, q, k) =
           {i \in P2 : i < k /\ \A j \in P2 : i <= j /\ j < k => os2[j].receipt \in FailureReceipts}
  BY DEF FailedRow
<1> HIDE DEF P, P2
<1>3. \A i \in P2 : i < k => i \in P /\ os2[i] = os[i]
  BY <1>1
<1>4. ASSUME NEW i PROVE i \in FailedRow(os2, q, k) <=> i \in FailedRow(os, q, k)
  BY <1>1, <1>2, <1>3
<1> QED BY <1>4

\* An order of another lane, or of an approval.
LEMMA OrderElsewhere ==
    ASSUME NEW q, NEW os, NEW o, NEW n, NEW os2, OneMore(q, os, o, n, os2),
           o.by # q
    PROVE  LanePositions(os2, q) = LanePositions(os, q) /\ FailedRow(os2, q, n + 1) = FailedRow(os, q, n)
<1> DEFINE P == LanePositions(os, q)  P2 == LanePositions(os2, q)
<1>0. /\ P2 = P /\ n \in Nat /\ \A i \in P : i < n /\ i \in Nat /\ os2[i] = os[i]
  BY OrderPositions
<1>1. P2 = P /\ \A i \in P : i < n /\ i < n + 1 /\ os2[i] = os[i] /\ i \in Nat
  BY <1>0
<1>2. /\ FailedRow(os, q, n) =
           {i \in P : i < n /\ \A j \in P : i <= j /\ j < n => os[j].receipt \in FailureReceipts}
      /\ FailedRow(os2, q, n + 1) =
           {i \in P2 : i < n + 1 /\ \A j \in P2 : i <= j /\ j < n + 1 => os2[j].receipt \in FailureReceipts}
  BY DEF FailedRow
<1> HIDE DEF P, P2
<1>3. ASSUME NEW i PROVE i \in FailedRow(os2, q, n + 1) <=> i \in FailedRow(os, q, n)
  BY <1>1, <1>2
<1> QED BY <1>1, <1>3 DEF P, P2

\* A failed order of the lane lengthens its row of failures, another one ends it.
RowAfter(q, os, o, n) == IF o.receipt \in FailureReceipts THEN FailedRow(os, q, n) \cup {n} ELSE {}

LEMMA OrderHere ==
    ASSUME NEW os, NEW o, NEW n, NEW os2, OneMore(o.by, os, o, n, os2)
    PROVE  FailedRow(os2, o.by, n + 1) = RowAfter(o.by, os, o, n)
<1> DEFINE q == o.by  P == LanePositions(os, q)  P2 == LanePositions(os2, q)
<1>1. /\ P2 = P \cup {n} /\ n \in Nat /\ os2[n] = o
      /\ \A i \in P : i < n /\ i \in Nat /\ os2[i] = os[i]
  BY OrderPositions
<1>2. /\ FailedRow(os, q, n) =
           {i \in P : i < n /\ \A j \in P : i <= j /\ j < n => os[j].receipt \in FailureReceipts}
      /\ FailedRow(os2, q, n + 1) =
           {i \in P2 : i < n + 1 /\ \A j \in P2 : i <= j /\ j < n + 1 => os2[j].receipt \in FailureReceipts}
  BY DEF FailedRow
<1> HIDE DEF P, P2
<1>3. \A i \in P : i < n + 1 /\ i <= n /\ ~(n <= i)
  BY <1>1
<1>4. n < n + 1 /\ n <= n
  BY <1>1
<1>5. ASSUME o.receipt \in FailureReceipts
      PROVE  FailedRow(os2, q, n + 1) = FailedRow(os, q, n) \cup {n}
  <2>1. ASSUME NEW i \in P PROVE i \in FailedRow(os2, q, n + 1) <=> i \in FailedRow(os, q, n)
    BY <1>1, <1>2, <1>3, <1>4, <1>5
  <2>2. n \in FailedRow(os2, q, n + 1)
    BY <1>1, <1>2, <1>3, <1>4, <1>5
  <2>3. FailedRow(os2, q, n + 1) \in SUBSET P2 /\ FailedRow(os, q, n) \in SUBSET P
    BY <1>2
  <2> QED BY <1>1, <2>1, <2>2, <2>3
<1>6. ASSUME o.receipt \notin FailureReceipts PROVE FailedRow(os2, q, n + 1) = {}
  <2>1. \A i \in P2 : i <= n
    BY <1>1, <1>3, <1>4
  <2> QED BY <1>1, <1>2, <1>4, <1>6, <2>1
<1> QED BY <1>5, <1>6 DEF RowAfter

\* An order of somebody else.
LEMMA OtherOrder ==
    ASSUME NEW st, NEW os \in Seq(Order), NEW o \in Order, NEW mode, NEW q \in Starts, o.by # q,
           LaneFacts(st, os, mode, q)
    PROVE  LaneFacts(st, Append(os, o), mode, q)
<1> DEFINE os2 == Append(os, o)  n == Len(os) + 1
<1>0. OneMore(q, os, o, n, os2) /\ Len(os2) = n /\ LanePositions(os, q) \in SUBSET (1..n)
  BY AppendIsOneMore DEF LanePositions
<1> HIDE DEF os2, n
<1>1. LanePositions(os2, q) = LanePositions(os, q) /\ FailedRow(os2, q, n + 1) = FailedRow(os, q, n)
  BY <1>0, OrderElsewhere
<1>2. \A k \in 1..n : FailedRow(os2, q, k) = FailedRow(os, q, k)
  BY <1>0, OrderPast
<1>3. \A k \in LanePositions(os2, q) : FailedRow(os2, q, k) = FailedRow(os, q, k)
  BY <1>0, <1>1, <1>2
<1>4. LaneFacts(st, os2, mode, q)
  BY <1>0, <1>1, <1>3 DEF LaneFacts, n
<1> QED BY <1>4 DEF os2

\* An order of the lane itself, below its cap and let through by its breaker.
LEMMA OwnOrder ==
    ASSUME NEW st \in StartRequest, NEW st2 \in StartRequest, NEW os \in Seq(Order), NEW o \in Order,
           NEW mode, o.by \in Starts, LaneFacts(st, os, mode, o.by), st2.pc = "record", st2.env = st.env,
           st2.placed = st.placed + 1, st2.breaker = NextBreaker(st.breaker, st.env, mode, o.receipt),
           st.placed < st.env.max_orders_per_run, Allows(st.breaker)
    PROVE  LaneFacts(st2, Append(os, o), mode, o.by)
<1> DEFINE os2 == Append(os, o)  n == Len(os) + 1  q == o.by
           P == LanePositions(os, q)  F == FailedRow(os, q, n)
           b == st.breaker  t == st.env.circuit_breaker_threshold
<1>0. OneMore(q, os, o, n, os2) /\ Len(os2) = n /\ P \in SUBSET (1..n) /\ n \in 1..n /\ o.by = q
  BY AppendIsOneMore DEF LanePositions
<1>1. /\ IsFiniteSet(P) /\ n \notin P /\ LanePositions(os2, q) = P \cup {n}
      /\ o.receipt \in FailureReceipts => FailedRow(os2, q, n + 1) = F \cup {n}
      /\ o.receipt \notin FailureReceipts => FailedRow(os2, q, n + 1) = {}
      /\ \A k \in 1..n : FailedRow(os2, q, k) = FailedRow(os, q, k)
  <2> HIDE DEF os2, n
  <2>1. IsFiniteSet(P) /\ n \notin P /\ LanePositions(os2, q) = P \cup {n}
    BY <1>0, OrderPositions DEF P
  <2>2. FailedRow(os2, q, n + 1) = (IF o.receipt \in FailureReceipts THEN F \cup {n} ELSE {})
    <3>1. OneMore(q, os, o, n, os2) /\ o.by = q
      BY <1>0
    <3>2. FailedRow(os2, q, n + 1) = RowAfter(q, os, o, n)
      BY <3>1, OrderHere
    <3> QED BY <3>2 DEF F, RowAfter
  <2>3. \A k \in 1..n : FailedRow(os2, q, k) = FailedRow(os, q, k)
    BY <1>0, OrderPast
  <2> QED BY <1>0, <2>1, <2>2, <2>3
<1>2. Len(os2) = n /\ P \in SUBSET (1..n) /\ n \in 1..n
  BY <1>0
<1>3. F \in SUBSET P
  BY DEF FailedRow
<1>4. b \in Breaker /\ st.placed \in Nat /\ t \in Nat /\ st.env.max_orders_per_run \in Nat
  BY DEF StartRequest, PolicyEnvelope
<1> HIDE DEF os2, P, F
<1>5. /\ IsFiniteSet(F) /\ n \notin F /\ Cardinality(F) \in Nat /\ Cardinality(P) \in Nat
      /\ Cardinality(P \cup {n}) = Cardinality(P) + 1
      /\ Cardinality(F \cup {n}) = Cardinality(F) + 1
  <2>1. IsFiniteSet(F) /\ n \notin F
    BY <1>1, <1>3, FS_Subset
  <2> HIDE DEF n
  <2> QED BY <1>1, <2>1, FS_AddElement, FS_CardinalityType
<1>6. Cardinality({}) = 0
  BY FS_EmptySet
<1>7. /\ st.placed = Cardinality(P)
      /\ mode = "live_guarded" =>
           /\ b.consecutive_failures = Cardinality(F)
           /\ b.state # "half_open"
           /\ b.state = "closed" /\ t > 0 => b.consecutive_failures < t
           /\ t > 0 => \A k \in P : Cardinality(FailedRow(os, q, k)) < t
  BY DEF LaneFacts, P, F
<1>8. /\ st2.placed = Cardinality(LanePositions(os2, q))
      /\ st2.placed <= st2.env.max_orders_per_run
  BY <1>1, <1>4, <1>5, <1>7
<1>9. ASSUME mode = "live_guarded"
      PROVE  /\ st2.breaker.consecutive_failures = Cardinality(FailedRow(os2, q, n + 1))
             /\ st2.breaker.state # "half_open"
             /\ st2.breaker.state = "closed" /\ t > 0 => st2.breaker.consecutive_failures < t
             /\ t > 0 => \A k \in P \cup {n} : Cardinality(FailedRow(os2, q, k)) < t
  <2>1. b.state = "closed" /\ (t > 0 => Cardinality(F) < t)
    BY <1>7, <1>9 DEF Allows
  <2>2. t > 0 => \A k \in P \cup {n} : Cardinality(FailedRow(os2, q, k)) < t
    <3>1. \A k \in P \cup {n} : FailedRow(os2, q, k) = FailedRow(os, q, k)
      BY <1>1, <1>2
    <3>2. FailedRow(os, q, n) = F
      BY DEF F
    <3> HIDE DEF n
    <3> QED BY <1>7, <1>9, <2>1, <3>1, <3>2
  <2>3. CASE o.receipt \in FailureReceipts
    <3>1. st2.breaker = RecordFailure(b, t, 0)
      BY <1>9, <2>3 DEF NextBreaker
    <3>2. /\ st2.breaker.consecutive_failures = b.consecutive_failures + 1
          /\ st2.breaker.state # "half_open"
          /\ st2.breaker.state = "closed" /\ t > 0 => b.consecutive_failures + 1 < t
      BY <1>4, <2>1, <3>1 DEF RecordFailure, Opened, Breaker
    <3>3. FailedRow(os2, q, n + 1) = F \cup {n}
      BY <1>1, <2>3
    <3> QED BY <1>5, <1>7, <1>9, <2>2, <3>2, <3>3
  <2>4. CASE o.receipt \notin FailureReceipts
    <3>1. st2.breaker = [b EXCEPT !.consecutive_failures = 0]
      BY <1>9, <2>1, <2>4 DEF NextBreaker, RecordSuccess
    <3>2. st2.breaker.consecutive_failures = 0 /\ st2.breaker.state = "closed"
      BY <1>4, <2>1, <3>1 DEF Breaker
    <3>3. FailedRow(os2, q, n + 1) = {}
      BY <1>1, <2>4
    <3> QED BY <1>4, <1>6, <2>2, <3>2, <3>3
  <2> QED BY <2>3, <2>4
<1>10. LaneFacts(st2, os2, mode, q)
  BY <1>1, <1>2, <1>8, <1>9 DEF LaneFacts
<1> QED BY <1>10 DEF os2

\* What a request does outside its lane.
LEMMA SameLane ==
    ASSUME NEW st, NEW st2, NEW os, NEW mode, NEW q, LaneFacts(st, os, mode, q),
           st2.placed = st.placed, st2.env = st.env, st2.breaker = st.breaker,
           st2.pc \in {"idle", "begin"} => st.pc \in {"idle", "begin"}
    PROVE  LaneFacts(st2, os, mode, q)
BY DEF LaneFacts

LaneUntouched ==
  /\ orders' = orders
  /\ EffectiveMode' = EffectiveMode
  /\ \A q \in Starts :
       /\ start'[q].placed = start[q].placed /\ start'[q].env = start[q].env
       /\ start'[q].breaker = start[q].breaker
       /\ start'[q].pc \in {"idle", "begin"} => start[q].pc \in {"idle", "begin"}

LEMMA LaneStays ==
    ASSUME LaneInv, LaneUntouched
    PROVE  LaneInv'
<1> SUFFICES ASSUME NEW q \in Starts PROVE LaneFacts(start'[q], orders', EffectiveMode', q)
  BY DEF LaneInv
<1>1. LaneFacts(start[q], orders, EffectiveMode, q)
  BY DEF LaneInv
<1>2. LaneFacts(start'[q], orders, EffectiveMode, q)
  BY <1>1, SameLane DEF LaneUntouched
<1> QED BY <1>2 DEF LaneUntouched

\* The steps of a start that are not about its lane.
LEMMA StartStepLane ==
    ASSUME TypesInv, LaneInv, NEW s \in Starts, StartStep(s) \/ StoreError(s) \/ LaneRaises(s),
           ~Begin(s), ~LaneStep(s)
    PROVE  LaneInv'
<1>1. start \in [Starts -> StartRequest] /\ start[s] \in StartRequest
  BY DEF TypesInv
<1>2. UNCHANGED <<orders, config>>
  BY DEF StartStep, StoreError, LaneRaises, ResolveStart, MarkRunning, BindRun, AppendStarted, Emit,
         CastEvidence, Decide, Seal, Parity, AppendTail, SelectRoute, RecordExecution, AppendLane,
         CastLane, Finalize
<1>3. EffectiveMode' = EffectiveMode
  BY <1>2 DEF EffectiveMode
<1>4. SUFFICES /\ \A q \in Starts : q # s => start'[q] = start[q]
               /\ start'[s].placed = start[s].placed /\ start'[s].env = start[s].env
               /\ start'[s].breaker = start[s].breaker
               /\ start'[s].pc \in {"idle", "begin"} => start[s].pc \in {"idle", "begin"}
  BY <1>2, <1>3, LaneStays DEF LaneUntouched
<1>5. CASE \E pc \in StartPC \ {"idle", "begin"} : Goto(s, pc)
  <2>1. PICK pc \in StartPC \ {"idle", "begin"} : Goto(s, pc)
    BY <1>5
  <2> QED BY <2>1, GotoFacts
<1>6. CASE ResolveStart(s)
  BY <1>1, <1>6 DEF ResolveStart, StartRequest
<1>7. CASE AppendStarted(s)
  <2>1. CASE Goto(s, "failed")
    BY <1>5, <2>1 DEF StartPC
  <2>2. ASSUME NEW x, NEW y, NEW z, start' = [start EXCEPT ![s].pc = "emit", ![s].emit = x]
        PROVE  /\ \A q \in Starts : q # s => start'[q] = start[q]
               /\ start'[s].placed = start[s].placed /\ start'[s].env = start[s].env
               /\ start'[s].breaker = start[s].breaker
               /\ start'[s].pc \in {"idle", "begin"} => start[s].pc \in {"idle", "begin"}
    BY <1>1, <2>2 DEF StartRequest
  <2> QED BY <1>7, <2>1, <2>2 DEF AppendStarted
<1>8. CASE Emit(s)
  <2>1. CASE Goto(s, "failed")
    BY <1>5, <2>1 DEF StartPC
  <2>2. ASSUME NEW x, NEW y, NEW z, start' = [start EXCEPT ![s].pc = "cast", ![s].events = x, ![s].emit = y]
        PROVE  /\ \A q \in Starts : q # s => start'[q] = start[q]
               /\ start'[s].placed = start[s].placed /\ start'[s].env = start[s].env
               /\ start'[s].breaker = start[s].breaker
               /\ start'[s].pc \in {"idle", "begin"} => start[s].pc \in {"idle", "begin"}
    BY <1>1, <2>2 DEF StartRequest
  <2> DEFINE ev == Append(start[s].events, Head(start[s].emit))  em == Tail(start[s].emit)
  <2>3. Goto(s, "failed") \/ start' = [start EXCEPT ![s].pc = "cast", ![s].events = ev, ![s].emit = em]
    BY <1>1, <1>8 DEF Emit
  <2> HIDE DEF ev, em
  <2> QED BY <2>1, <2>2, <2>3
<1>9. CASE Decide(s)
  BY <1>1, <1>9 DEF Decide, StartRequest
<1>10. CASE AppendTail(s)
  <2>1. CASE Goto(s, "failed")
    BY <1>5, <2>1 DEF StartPC
  <2>2. ASSUME NEW x, NEW y, NEW z, x \notin {"idle", "begin"},
               start' = [start EXCEPT ![s].pc = x, ![s].todo = y, ![s].next = z]
        PROVE  /\ \A q \in Starts : q # s => start'[q] = start[q]
               /\ start'[s].placed = start[s].placed /\ start'[s].env = start[s].env
               /\ start'[s].breaker = start[s].breaker
               /\ start'[s].pc \in {"idle", "begin"} => start[s].pc \in {"idle", "begin"}
    BY <1>1, <2>2 DEF StartRequest
  <2> DEFINE pc == IF config.mode = "paper" THEN "finalize" ELSE "route"
             todo == Proposals(start[s].events)
             next == NextSeqOf(s)
  <2>3. Goto(s, "failed") \/ start' = [start EXCEPT ![s].pc = pc, ![s].todo = todo, ![s].next = next]
    BY <1>1, <1>10 DEF AppendTail
  <2>4. pc \notin {"idle", "begin"}
    OBVIOUS
  <2> HIDE DEF pc, todo, next
  <2> QED BY <2>1, <2>2, <2>3, <2>4
<1>11. CASE SelectRoute(s)
  <2>1. CASE Goto(s, "abort") \/ Goto(s, "lane")
    BY <1>5, <2>1 DEF StartPC
  <2>2. ASSUME NEW x, NEW y, NEW z, start' = [start EXCEPT ![s].pc = "lane", ![s].next = x]
        PROVE  /\ \A q \in Starts : q # s => start'[q] = start[q]
               /\ start'[s].placed = start[s].placed /\ start'[s].env = start[s].env
               /\ start'[s].breaker = start[s].breaker
               /\ start'[s].pc \in {"idle", "begin"} => start[s].pc \in {"idle", "begin"}
    BY <1>1, <2>2 DEF StartRequest
  <2> QED BY <1>11, <2>1, <2>2 DEF SelectRoute
<1>12. CASE RecordExecution(s)
  BY <1>1, <1>12 DEF RecordExecution, StartRequest
<1>13. CASE CastLane(s)
  <2>1. CASE Goto(s, "finalize")
    BY <1>5, <2>1 DEF StartPC
  <2>2. ASSUME NEW x, NEW y, NEW z, start' = [start EXCEPT ![s].lane = x]
        PROVE  /\ \A q \in Starts : q # s => start'[q] = start[q]
               /\ start'[s].placed = start[s].placed /\ start'[s].env = start[s].env
               /\ start'[s].breaker = start[s].breaker
               /\ start'[s].pc \in {"idle", "begin"} => start[s].pc \in {"idle", "begin"}
    BY <1>1, <2>2 DEF StartRequest
  <2> QED BY <1>13, <2>1, <2>2 DEF CastLane
<1>14. CASE \/ MarkRunning(s) \/ BindRun(s) \/ CastEvidence(s) \/ Seal(s) \/ Parity(s) \/ AppendLane(s)
            \/ Finalize(s) \/ StoreError(s) \/ LaneRaises(s)
  BY <1>5, <1>14 DEF MarkRunning, BindRun, CastEvidence, Seal, Parity, AppendLane, Finalize, StoreError,
                     LaneRaises, StartPC
<1> QED
  BY <1>6, <1>7, <1>8, <1>9, <1>10, <1>11, <1>12, <1>13, <1>14 DEF StartStep

LEMMA BeginLane ==
    ASSUME TypesInv, LaneInv, NEW s \in Starts, Begin(s)
    PROVE  LaneInv'
<1> DEFINE pc == IF comp.status = "draft" THEN "mark" ELSE "refused"
           st == start[s]
           st2 == [st EXCEPT !.pc = pc, !.env = config.env]
<1>1. /\ start \in [Starts -> StartRequest] /\ st \in StartRequest /\ config.env \in PolicyEnvelope
      /\ st.pc = "begin" /\ LaneFacts(st, orders, EffectiveMode, s)
  BY DEF TypesInv, RowTypes, Config, Begin, LaneInv
<1>2. start' = [start EXCEPT ![s] = st2] /\ UNCHANGED <<orders, config>>
  BY <1>1 DEF Begin
<1>3. /\ st2.pc \notin {"idle", "begin"} /\ st2.env = config.env /\ st2.placed = st.placed
      /\ st2.breaker = st.breaker
  BY <1>1 DEF StartRequest
<1> HIDE DEF st2
<1>4. st.placed = 0 /\ st.breaker = ClosedBreaker /\ Cardinality(LanePositions(orders, s)) = 0
  BY <1>1 DEF LaneFacts
<1>5. LanePositions(orders, s) = {}
  <2>1. LanePositions(orders, s) \in SUBSET (1..Len(orders)) /\ Len(orders) \in Nat
    BY DEF LanePositions, TypesInv
  <2>2. IsFiniteSet(1..Len(orders))
    BY <2>1, IntervalSize, 1 \in Int, Len(orders) \in Int, Len(orders) >= 1 - 1
  <2> QED BY <1>4, <2>1, <2>2, FS_Subset, FS_EmptySet
<1>6. /\ config.env.max_orders_per_run \in Nat /\ config.env.circuit_breaker_threshold \in Nat
  BY <1>1 DEF PolicyEnvelope
<1>7. LaneFacts(st2, orders, EffectiveMode, s)
  BY <1>1, <1>3, <1>4, <1>5, <1>6 DEF LaneFacts, ClosedBreaker
<1>8. EffectiveMode' = EffectiveMode
  BY <1>2 DEF EffectiveMode
<1> QED BY <1>1, <1>2, <1>7, <1>8 DEF LaneInv

LEMMA LaneStepLane ==
    ASSUME TypesInv, LogInv, LaneInv, NEW s \in Starts, LaneStep(s)
    PROVE  LaneInv'
<1>1. PICK a \in Agents, submit \in BOOLEAN, receipt \in TerminalAnswers \cup {"unresolved"} :
             /\ start' \in [Starts -> StartRequest]
             /\ \A q \in Starts : q # s => start'[q] = start[q]
             /\ start[s].pc = "lane" /\ start'[s].pc = "record"
             /\ start'[s].env = start[s].env
             /\ start'[s].placed = IF submit THEN start[s].placed + 1 ELSE start[s].placed
             /\ start'[s].breaker = IF submit
                                    THEN NextBreaker(start[s].breaker, start[s].env, EffectiveMode, receipt)
                                    ELSE start[s].breaker
             /\ submit => start[s].placed < start[s].env.max_orders_per_run /\ Allows(start[s].breaker)
             /\ orders' = IF submit
                          THEN Append(orders, [run |-> s, agent |-> a, by |-> s, receipt |-> receipt])
                          ELSE orders
  BY LaneStepFacts, Zenon
<1>2. EffectiveMode' = EffectiveMode
  BY DEF LaneStep, EffectiveMode
<1>3. CASE ~submit
  BY <1>1, <1>2, <1>3, LaneStays DEF LaneUntouched
<1>4. CASE submit
  <2> DEFINE o == [run |-> s, agent |-> a, by |-> s, receipt |-> receipt]
  <2>1. o \in Order /\ o.by = s /\ o.receipt = receipt
    BY DEF Order, Runs
  <2>2. orders' = Append(orders, o) /\ orders \in Seq(Order)
    BY <1>1, <1>4 DEF TypesInv
  <2> HIDE DEF o
  <2>3. ASSUME NEW q \in Starts, q # s PROVE LaneFacts(start'[q], orders', EffectiveMode', q)
    <3>1. LaneFacts(start[q], orders, EffectiveMode, q) /\ start'[q] = start[q] /\ o.by # q
      BY <1>1, <2>1, <2>3 DEF LaneInv
    <3> QED BY <1>2, <2>1, <2>2, <3>1, OtherOrder
  <2>4. LaneFacts(start'[s], orders', EffectiveMode', s)
    <3> DEFINE st == start[s]  st2 == start'[s]  m == EffectiveMode
    <3>1. /\ st \in StartRequest /\ st2 \in StartRequest /\ LaneFacts(st, orders, m, o.by)
          /\ st2.pc = "record" /\ st2.env = st.env /\ st2.placed = st.placed + 1 /\ o.by \in Starts
          /\ st2.breaker = NextBreaker(st.breaker, st.env, m, o.receipt)
          /\ st.placed < st.env.max_orders_per_run /\ Allows(st.breaker)
      BY <1>1, <1>4, <2>1 DEF LaneInv, TypesInv
    <3> HIDE DEF st, st2, m
    <3>2. LaneFacts(st2, Append(orders, o), m, o.by)
      BY <2>1, <2>2, <3>1, OwnOrder
    <3> QED BY <1>2, <2>1, <2>2, <3>2 DEF st2, m
  <2> QED BY <2>3, <2>4 DEF LaneInv
<1> QED BY <1>3, <1>4

LEMMA ApprovalLane ==
    ASSUME TypesInv, LogInv, LaneInv, NEW p \in Approvals, ApprovalStep(p)
    PROVE  LaneInv'
<1>1. UNCHANGED <<start, config>> /\ EffectiveMode' = EffectiveMode
  BY DEF ApprovalStep, ReadRecord, CheckAwaiting, NumberEvents, ResolveApproval, AppendApproval,
         CastApproval, EffectiveMode
<1>2. CASE orders' = orders
  BY <1>1, <1>2, LaneStays DEF LaneUntouched
<1>3. CASE orders' # orders
  <2>1. ResolveApproval(p)
    BY <1>3 DEF ApprovalStep, ReadRecord, CheckAwaiting, NumberEvents, AppendApproval, CastApproval
  <2>2. PICK o \in Order : o.by = p /\ orders' = Append(orders, o)
    BY <1>3, <2>1, ResolveApprovalFacts
  <2>3. ASSUME NEW q \in Starts PROVE LaneFacts(start'[q], orders', EffectiveMode', q)
    <3>1. LaneFacts(start[q], orders, EffectiveMode, q) /\ start'[q] = start[q] /\ orders \in Seq(Order)
      BY <1>1 DEF LaneInv, TypesInv
    <3>2. o.by # q
      BY <2>2, RequestsAssumption
    <3> QED BY <1>1, <2>2, <3>1, <3>2, OtherOrder
  <2> QED BY <2>3 DEF LaneInv
<1> QED BY <1>2, <1>3

LEMMA InitLane == Init => LaneInv
<1> SUFFICES ASSUME Init PROVE LaneInv
  OBVIOUS
<1>1. TypesInv
  BY InitTypes
<1> SUFFICES ASSUME NEW s \in Starts PROVE LaneFacts(start[s], orders, EffectiveMode, s)
  BY DEF LaneInv
<1>2. /\ start[s].placed = 0 /\ start[s].breaker = ClosedBreaker /\ orders = <<>>
      /\ start[s].env \in PolicyEnvelope
  BY <1>1 DEF Init, NewStart, TypesInv, StartRequest
<1>3. LanePositions(orders, s) = {} /\ \A k : FailedRow(orders, s, k) = {}
  BY <1>2 DEF LanePositions, FailedRow
<1>4. Cardinality({}) = 0
  BY FS_EmptySet
<1>5. start[s].env.max_orders_per_run \in Nat /\ start[s].env.circuit_breaker_threshold \in Nat
  BY <1>2 DEF PolicyEnvelope
<1>6. start[s].breaker.consecutive_failures = 0 /\ start[s].breaker.state = "closed"
  BY <1>2 DEF ClosedBreaker
<1>7. Cardinality(FailedRow(orders, s, Len(orders) + 1)) = 0 /\ Cardinality(LanePositions(orders, s)) = 0
  <2>1. FailedRow(orders, s, Len(orders) + 1) = {}
    BY <1>3, Zenon
  <2> QED BY <1>3, <1>4, <2>1, Zenon
<1>8. \A k : k \notin LanePositions(orders, s)
  BY <1>3
<1> QED BY <1>2, <1>5, <1>6, <1>7, <1>8 DEF LaneFacts

LEMMA LaneNext ==
    ASSUME TypesInv, LogInv, LaneInv, [Next]_vars
    PROVE  LaneInv'
<1>1. ASSUME NEW s \in Starts, StartStep(s) \/ StoreError(s) \/ LaneRaises(s) PROVE LaneInv'
  BY <1>1, StartStepLane, BeginLane, LaneStepLane
<1>2. ASSUME NEW a \in Arenas, ArenaStep(a) PROVE LaneInv'
  BY <1>2, LaneStays DEF LaneUntouched, EffectiveMode, ArenaStep, CheckArena, ClaimRun, VerifyClaimed,
                         AppendArena, FinalizeArena, Recover, ReleaseClaim
<1>3. ASSUME NEW p \in Approvals, ApprovalStep(p) PROVE LaneInv'
  BY <1>3, ApprovalLane
<1>4. ASSUME NEW a \in Agents, RegisterAgent(a) PROVE LaneInv'
  BY <1>4, LaneStays DEF LaneUntouched, EffectiveMode, RegisterAgent
<1>5. CASE KillSwitch
  <2>1. config'.mode = config.mode /\ config'.armed = config.armed /\ UNCHANGED <<orders, start>>
    BY <1>5 DEF KillSwitch, TypesInv, RowTypes, Config
  <2> QED BY <2>1, LaneStays DEF LaneUntouched, EffectiveMode
<1>6. CASE ClientStep
  BY <1>6, LaneStays DEF LaneUntouched, EffectiveMode, ClientStep, Connect, Replay, SendReplayed,
                         ForwardLive, Disconnect
<1>7. CASE UNCHANGED vars
  BY <1>7, LaneStays DEF LaneUntouched, EffectiveMode, vars
<1> QED
  BY <1>1, <1>2, <1>3, <1>4, <1>5, <1>6, <1>7, Zenon DEF Next, ClientStep

\* A lane sends at most max_orders_per_run orders and none after threshold failures in a row,
\* whatever approvals, kill switches and other lanes do meanwhile (run_execution_lane).
THEOREM LaneSafe == Spec => []LaneWithinLimits
<1>1. Init => TypesInv /\ LogInv /\ LaneInv
  BY InitTypes, InitLog, InitLane
<1>2. TypesInv /\ LogInv /\ LaneInv /\ [Next]_vars => (TypesInv /\ LogInv /\ LaneInv)'
  BY LogStepKeeps, LaneNext
<1>3. LaneInv => LaneWithinLimits
  <2>1. \A s \in Starts : LaneOrders(s) = LanePositions(orders, s)
    BY DEF LaneOrders, LanePositions
  <2>2. \A s \in Starts : \A k : FailedInARow(s, k) = FailedRow(orders, s, k)
    BY <2>1 DEF FailedInARow, FailedRow
  <2> SUFFICES ASSUME LaneInv, NEW s \in Starts
               PROVE  /\ Cardinality(LaneOrders(s)) <= start[s].env.max_orders_per_run
                      /\ EffectiveMode = "live_guarded" /\ start[s].env.circuit_breaker_threshold > 0 =>
                           \A k \in LaneOrders(s) :
                             Cardinality(FailedInARow(s, k)) < start[s].env.circuit_breaker_threshold
    BY DEF LaneWithinLimits
  <2>3. LaneFacts(start[s], orders, EffectiveMode, s)
    BY DEF LaneInv
  <2> QED BY <2>1, <2>2, <2>3 DEF LaneFacts
<1> QED BY <1>1, <1>2, <1>3, PTL DEF Spec

------------------------------------------------------------------------------
(* The spectator *)

LEMMA WaitingFacts ==
    ASSUME NEW c \in SpectatorState
    PROVE  /\ WaitingOf(c) \in Seq(CompetitionEvent)
           /\ \A i \in 1..Len(WaitingOf(c)) : WaitingOf(c)[i].seq \in Nat
           /\ c.got \in Seq(Nat) /\ c.last \in Nat /\ c.replay \in Seq(CompetitionEvent)
           /\ c.queue # None => c.queue \in Seq(CompetitionEvent)
<1>1. /\ c.got \in Seq(Nat) /\ c.last \in Nat /\ c.replay \in Seq(CompetitionEvent)
      /\ c.queue \in Seq(CompetitionEvent) \cup {None} /\ c.backlog \in Seq(CompetitionEvent)
  BY DEF SpectatorState
<1>2. WaitingOf(c) \in Seq(CompetitionEvent)
  BY <1>1 DEF WaitingOf
<1>3. ASSUME NEW i \in 1..Len(WaitingOf(c)) PROVE WaitingOf(c)[i].seq \in Nat
  <2>1. WaitingOf(c)[i] \in CompetitionEvent
    BY <1>2
  <2> QED BY <2>1 DEF CompetitionEvent
<1> QED BY <1>1, <1>2, <1>3

\* The log grows by events that are not evidence.
NoNewEvidence(lg, lg2) ==
  /\ lg \in Seq(CompetitionEvent) /\ lg2 \in Seq(CompetitionEvent) /\ Len(lg) <= Len(lg2)
  /\ \A n \in Nat : EvidenceIn(lg2, n) <=> EvidenceIn(lg, n)

LEMMA QuietGrowth ==
    ASSUME NEW c \in SpectatorState, NEW lg, NEW lg2, NoNewEvidence(lg, lg2), ClientFacts(c, lg, FALSE)
    PROVE  ClientFacts(c, lg2, FALSE)
<1> DEFINE w == WaitingOf(c)
<1>1. /\ w \in Seq(CompetitionEvent) /\ \A i \in 1..Len(w) : w[i].seq \in Nat
      /\ c.last \in Nat /\ c.got \in Seq(Nat) /\ c.replay \in Seq(CompetitionEvent)
  BY WaitingFacts
<1>2. /\ Len(lg) \in Nat /\ Len(lg2) \in Nat /\ Len(lg) <= Len(lg2)
      /\ \A n \in Nat : EvidenceIn(lg2, n) <=> EvidenceIn(lg, n)
  BY DEF NoNewEvidence
<1> HIDE DEF w
<1>3. GotFacts(c.got, c.last, lg2)
  <2>1. GotFacts(c.got, c.last, lg)
    BY DEF ClientFacts
  <2> QED BY <1>1, <1>2, <2>1 DEF GotFacts
<1>4. ReplayFacts(c.replay, c.last, lg2)
  <2>1. ReplayFacts(c.replay, c.last, lg) /\ Len(c.replay) \in Nat
    BY <1>1 DEF ClientFacts
  <2> QED BY <1>1, <1>2, <2>1 DEF ReplayFacts
<1>5. QueueFacts(w, lg2, FALSE)
  <2>1. QueueFacts(w, lg, FALSE)
    BY DEF ClientFacts, w
  <2>2. ASSUME NEW i \in 1..Len(w)
        PROVE  /\ w[i].seq < Len(lg) /\ w[i].seq < Len(lg2)
               /\ EvidenceIn(lg2, w[i].seq) => EvidenceIn(lg, w[i].seq)
    <3>1. w[i].seq \in Nat /\ w[i].seq < Len(lg)
      BY <1>1, <2>1 DEF QueueFacts
    <3> QED BY <1>2, <3>1
  <2>3. ASSUME NEW i \in 1..Len(w), NEW j \in 1..Len(w), i < j, EvidenceIn(lg2, w[j].seq)
        PROVE  w[i].seq < w[j].seq
    BY <2>1, <2>2, <2>3 DEF QueueFacts
  <2> QED BY <2>2, <2>3 DEF QueueFacts, Uncast
<1>6. c.pc \in {"replay", "live"} => Covered(w, c.queue # None, c.last + Len(c.replay), lg2, FALSE)
  <2>1. c.pc \in {"replay", "live"} => Covered(w, c.queue # None, c.last + Len(c.replay), lg, FALSE)
    BY DEF ClientFacts, w
  <2> QED BY <1>2, <2>1 DEF Covered, Uncast
<1> QED BY <1>3, <1>4, <1>5, <1>6 DEF ClientFacts, w

\* Evidence is persisted.
LEMMA FreshEvidence ==
    ASSUME NEW c \in SpectatorState, NEW lg \in Seq(CompetitionEvent), lg # <<>>,
           NEW lg2 \in Seq(CompetitionEvent), Len(lg2) = Len(lg) + 1,
           \A i \in 1..Len(lg) : lg2[i] = lg[i], ClientFacts(c, lg, FALSE)
    PROVE  ClientFacts(c, lg2, TRUE)
<1> DEFINE w == WaitingOf(c)
<1>1. /\ w \in Seq(CompetitionEvent) /\ \A i \in 1..Len(w) : w[i].seq \in Nat
      /\ c.last \in Nat /\ c.got \in Seq(Nat) /\ c.replay \in Seq(CompetitionEvent)
  BY WaitingFacts
<1>2. /\ Len(lg) \in Nat /\ Len(lg) > 0 /\ Len(lg2) = Len(lg) + 1
      /\ \A n \in Nat : EvidenceIn(lg2, n) => EvidenceIn(lg, n) \/ n = Len(lg)
      /\ \A n \in Nat : EvidenceIn(lg2, n) /\ n < Len(lg) => EvidenceIn(lg, n)
  BY DEF EvidenceIn
<1> HIDE DEF w
<1>3. GotFacts(c.got, c.last, lg2)
  <2>1. GotFacts(c.got, c.last, lg)
    BY DEF ClientFacts
  <2>2. c.last < Len(lg)
    BY <1>2, <2>1 DEF GotFacts
  <2> QED BY <1>1, <1>2, <2>1, <2>2 DEF GotFacts
<1>4. ReplayFacts(c.replay, c.last, lg2)
  <2>1. ReplayFacts(c.replay, c.last, lg) /\ Len(c.replay) \in Nat
    BY <1>1 DEF ClientFacts
  <2> QED BY <1>1, <1>2, <2>1 DEF ReplayFacts
<1>5. QueueFacts(w, lg, FALSE) /\ QueueFacts(w, lg2, TRUE)
  <2>1. QueueFacts(w, lg, FALSE)
    BY DEF ClientFacts, w
  <2>2. ASSUME NEW i \in 1..Len(w)
        PROVE  /\ w[i].seq < Len(lg) /\ w[i].seq < Len(lg2)
               /\ EvidenceIn(lg2, w[i].seq) => EvidenceIn(lg, w[i].seq)
    <3>1. w[i].seq \in Nat /\ w[i].seq < Len(lg)
      BY <1>1, <2>1 DEF QueueFacts
    <3> QED BY <1>2, <3>1
  <2>3. ASSUME NEW i \in 1..Len(w), NEW j \in 1..Len(w), i < j, EvidenceIn(lg2, w[j].seq)
        PROVE  w[i].seq < w[j].seq
    BY <2>1, <2>2, <2>3 DEF QueueFacts
  <2>4. \A i \in 1..Len(w) : ~Uncast(lg2, TRUE, w[i].seq)
    BY <1>2, <2>2 DEF Uncast
  <2>5. QueueFacts(w, lg2, TRUE)
    BY <2>2, <2>3, <2>4 DEF QueueFacts
  <2> QED BY <2>1, <2>5
<1>6. c.pc \in {"replay", "live"} => Covered(w, c.queue # None, c.last + Len(c.replay), lg2, TRUE)
  <2>1. c.pc \in {"replay", "live"} => Covered(w, c.queue # None, c.last + Len(c.replay), lg, FALSE)
    BY DEF ClientFacts, w
  <2>2. \A i \in 1..Len(w) : w[i].seq < Len(lg)
    BY <1>5 DEF QueueFacts
  <2>3. Uncast(lg2, TRUE, Len(lg))
    BY <1>2 DEF Uncast
  <2> QED BY <1>2, <2>1, <2>2, <2>3 DEF Covered, Uncast
<1> QED BY <1>3, <1>4, <1>5, <1>6 DEF ClientFacts, w

\* What a broadcast makes of the spectator.
CastTo(c, e) ==
  IF c.queue = None THEN c
  ELSE IF Len(c.queue) < QueueMax THEN [c EXCEPT !.queue = Append(@, e)]
       ELSE [c EXCEPT !.backlog = c.queue, !.queue = None]

LEMMA CastShape ==
    ASSUME NEW c \in SpectatorState, NEW e \in CompetitionEvent, NEW d, d = CastTo(c, e)
    PROVE  /\ d.pc = c.pc /\ d.last = c.last /\ d.got = c.got /\ d.replay = c.replay
           /\ \/ d = c /\ c.queue = None
              \/ c.queue # None /\ d.queue # None /\ WaitingOf(d) = Append(WaitingOf(c), e)
              \/ c.queue # None /\ d.queue = None /\ WaitingOf(d) = WaitingOf(c)
<1>1. CASE c.queue = None
  BY <1>1 DEF CastTo
<1>2. CASE c.queue # None /\ Len(c.queue) < QueueMax
  <2>1. c.queue \in Seq(CompetitionEvent)
    BY <1>2 DEF SpectatorState
  <2>2. Append(c.queue, e) # None
    BY <2>1, QueueAssumption
  <2>3. d = [c EXCEPT !.queue = Append(c.queue, e)]
    BY <1>2 DEF CastTo, SpectatorState
  <2> QED BY <1>2, <2>2, <2>3 DEF SpectatorState, WaitingOf
<1>3. CASE c.queue # None /\ ~(Len(c.queue) < QueueMax)
  <2>1. d = [c EXCEPT !.backlog = c.queue, !.queue = None]
    BY <1>3 DEF CastTo
  <2> QED BY <1>3, <2>1 DEF SpectatorState, WaitingOf
<1> QED BY <1>1, <1>2, <1>3

\* The queue after an event is put at its end.
LEMMA QueueLonger ==
    ASSUME NEW w \in Seq(CompetitionEvent), NEW e \in CompetitionEvent, NEW lg \in Seq(CompetitionEvent),
           NEW casting \in BOOLEAN, QueueFacts(w, lg, casting), e.seq < Len(lg),
           \/ ~EvidenceIn(lg, e.seq)
           \/ \A i \in 1..Len(w) : w[i].seq < e.seq
    PROVE  QueueFacts(Append(w, e), lg, FALSE)
<1> DEFINE w2 == Append(w, e)
<1>1. /\ w2 \in Seq(CompetitionEvent) /\ Len(w2) = Len(w) + 1 /\ w2[Len(w) + 1] = e /\ Len(w) \in Nat
      /\ \A i \in 1..Len(w) : w2[i] = w[i]
  OBVIOUS
<1> HIDE DEF w2
<1>2. ASSUME NEW i \in 1..Len(w2) PROVE w2[i].seq < Len(lg)
  BY <1>1 DEF QueueFacts
<1>3. ASSUME NEW i \in 1..Len(w2), NEW j \in 1..Len(w2), i < j, EvidenceIn(lg, w2[j].seq)
      PROVE  w2[i].seq < w2[j].seq
  <2>1. i \in 1..Len(w) /\ w2[i] = w[i]
    BY <1>1, <1>3
  <2>2. CASE j \in 1..Len(w)
    BY <1>1, <1>3, <2>1, <2>2 DEF QueueFacts
  <2>3. CASE j = Len(w) + 1
    BY <1>1, <1>3, <2>1, <2>3
  <2> QED BY <1>1, <2>2, <2>3
<1> QED BY <1>2, <1>3 DEF QueueFacts, Uncast, w2

\* A broadcast of an event of the log: of the evidence that was just persisted, or of an event
\* that is no evidence.
LEMMA CastKeeps ==
    ASSUME NEW c \in SpectatorState, NEW e \in CompetitionEvent, NEW lg \in Seq(CompetitionEvent),
           NEW casting \in BOOLEAN, ClientFacts(c, lg, casting), e.seq < Len(lg),
           casting => e.seq = Len(lg) - 1,
           ~casting => ~EvidenceIn(lg, e.seq)
    PROVE  ClientFacts(CastTo(c, e), lg, FALSE)
<1> DEFINE w == WaitingOf(c)  d == CastTo(c, e)  v == WaitingOf(d)  h == c.last + Len(c.replay)
<1>1. /\ w \in Seq(CompetitionEvent) /\ \A i \in 1..Len(w) : w[i].seq \in Nat
      /\ c.last \in Nat /\ e.seq \in Nat /\ Len(lg) \in Nat
  BY WaitingFacts DEF CompetitionEvent
<1>2. /\ d.pc = c.pc /\ d.last = c.last /\ d.got = c.got /\ d.replay = c.replay
      /\ \/ d = c /\ c.queue = None
         \/ c.queue # None /\ d.queue # None /\ v = Append(w, e)
         \/ c.queue # None /\ d.queue = None /\ v = w
  BY CastShape
<1>3. /\ GotFacts(c.got, c.last, lg) /\ ReplayFacts(c.replay, c.last, lg) /\ QueueFacts(w, lg, casting)
      /\ c.pc # "replay" => c.replay = <<>>
      /\ c.pc = "away" => c.queue = None /\ c.backlog = <<>>
      /\ c.pc \in {"replay", "live"} => Covered(w, c.queue # None, h, lg, casting)
  BY DEF ClientFacts
<1> HIDE DEF w, v, d, h
<1>4. casting => \A i \in 1..Len(w) : w[i].seq < e.seq
  BY <1>1, <1>3 DEF QueueFacts, Uncast
<1>5. QueueFacts(w, lg, FALSE)
  BY <1>3 DEF QueueFacts, Uncast
<1>6. QueueFacts(Append(w, e), lg, FALSE)
  BY <1>1, <1>3, <1>4, QueueLonger
<1>7. CASE d = c /\ c.queue = None
  <2>1. v = w
    BY <1>7 DEF v, w
  <2>2. c.pc \in {"replay", "live"} => Covered(v, d.queue # None, h, lg, FALSE)
    BY <1>3, <1>7, <2>1 DEF Covered, Uncast
  <2> QED BY <1>2, <1>3, <1>5, <1>7, <2>1, <2>2 DEF ClientFacts, v, h, d
<1>8. CASE c.queue # None /\ d.queue # None /\ v = Append(w, e)
  <2>1. /\ Len(v) = Len(w) + 1 /\ v[Len(w) + 1] = e /\ Len(w) \in Nat
        /\ \A i \in 1..Len(w) : v[i] = w[i]
    BY <1>1, <1>8
  <2>2. c.pc \in {"replay", "live"} => Covered(v, TRUE, h, lg, FALSE)
    <3> SUFFICES ASSUME c.pc \in {"replay", "live"}, NEW n \in Nat, EvidenceIn(lg, n), n > h
                 PROVE  \E i \in 1..Len(v) : v[i].seq = n
      BY DEF Covered
    <3>1. (\E i \in 1..Len(w) : w[i].seq = n) \/ Uncast(lg, casting, n)
      BY <1>3, <1>8 DEF Covered
    <3>2. CASE \E i \in 1..Len(w) : w[i].seq = n
      BY <2>1, <3>2
    <3>3. CASE Uncast(lg, casting, n)
      <4>1. e.seq = n /\ Len(w) + 1 \in 1..Len(v)
        BY <2>1, <3>3 DEF Uncast
      <4> QED BY <2>1, <4>1
    <3> QED BY <3>1, <3>2, <3>3
  <2>3. (d.queue # None) = TRUE
    BY <1>8
  <2> QED BY <1>2, <1>3, <1>6, <1>8, <2>2, <2>3 DEF ClientFacts, v, h, d
<1>9. CASE c.queue # None /\ d.queue = None /\ v = w
  <2>1. c.pc \in {"replay", "live"} => Covered(v, FALSE, h, lg, FALSE)
    <3> SUFFICES ASSUME c.pc \in {"replay", "live"}, NEW n \in Nat, EvidenceIn(lg, n), n > h
                 PROVE  (\E i \in 1..Len(w) : w[i].seq = n) \/ (\A i \in 1..Len(w) : w[i].seq < n)
      BY <1>9 DEF Covered
    <3>1. (\E i \in 1..Len(w) : w[i].seq = n) \/ Uncast(lg, casting, n)
      BY <1>3, <1>9 DEF Covered
    <3> QED BY <1>4, <3>1 DEF Uncast
  <2>2. (d.queue # None) = FALSE /\ c.pc # "away"
    BY <1>3, <1>9
  <2> QED BY <1>2, <1>3, <1>5, <1>9, <2>1, <2>2 DEF ClientFacts, v, h, d
<1> QED BY <1>2, <1>7, <1>8, <1>9 DEF d

\* The spectator connects or leaves: it keeps what it got.
LEMMA ConnectClient ==
    ASSUME TypesInv, ClientInv, Connect \/ Disconnect
    PROVE  ClientInv'
<1>1. client \in SpectatorState /\ log \in Seq(CompetitionEvent) /\ UNCHANGED <<log, start>>
  BY DEF TypesInv, Connect, Disconnect
<1>2. /\ client'.got = client.got /\ client'.last = client.last /\ client'.pc \in {"away", "list"}
      /\ client'.replay = <<>> /\ client'.backlog = <<>> /\ client'.queue \in {<<>>, None}
      /\ client'.pc = "away" => client'.queue = None
  BY <1>1 DEF Connect, Disconnect, SpectatorState, ClientInv, ClientFacts
<1>3. WaitingOf(client') = <<>>
  BY <1>2 DEF WaitingOf
<1>4. GotFacts(client.got, client.last, log)
  BY DEF ClientInv, ClientFacts
<1>5. ReplayFacts(<<>>, client.last, log) /\ QueueFacts(<<>>, log, Casting)
  BY DEF ReplayFacts, QueueFacts
<1>6. ClientFacts(client', log, Casting)
  BY <1>2, <1>3, <1>4, <1>5 DEF ClientFacts
<1> QED BY <1>1, <1>6 DEF ClientInv, Casting

\* The replay reaches the end of the log as it is when it is read.
LEMMA ReplayClient ==
    ASSUME TypesInv, LogInv, ClientInv, Replay
    PROVE  ClientInv'
<1> DEFINE l == ListEvents(client.last)
<1>1. client \in SpectatorState /\ log \in Seq(CompetitionEvent) /\ UNCHANGED <<log, start>>
      /\ client.last \in Nat /\ Len(log) \in Nat
  BY DEF TypesInv, Replay, SpectatorState
<1>2. client' = [client EXCEPT !.pc = "replay", !.replay = l]
  BY DEF Replay
<1>3. GotFacts(client.got, client.last, log) /\ QueueFacts(WaitingOf(client), log, Casting)
  BY DEF ClientInv, ClientFacts
<1>4. /\ l \in Seq(CompetitionEvent) /\ ReplayFacts(l, client.last, log)
      /\ \A n \in Nat : EvidenceIn(log, n) => n <= client.last + Len(l)
  <2>1. l \in Seq(CompetitionEvent)
    BY ListTypes
  <2>2. CASE client.last < Len(log)
    <3>1. client.last \in Int /\ client.last >= -1 /\ \A i \in DOMAIN log : log[i].seq = i - 1
      BY <1>1 DEF LogInv, LogIsOneRun
    <3>2. l = [k \in 1..(Len(log) - 1 - client.last) |-> log[client.last + 1 + k]]
      BY <1>1, <2>2, <3>1, ListFacts
    <3>3. Len(log) - 1 - client.last \in Nat
      BY <1>1, <2>2
    <3>4. /\ Len(l) = Len(log) - 1 - client.last
          /\ \A k \in 1..Len(l) : l[k] = log[client.last + 1 + k]
      BY <3>2, <3>3
    <3> HIDE DEF l
    <3>5. ASSUME NEW k \in 1..Len(l) PROVE l[k].seq = client.last + k
      <4>1. client.last + 1 + k \in DOMAIN log /\ (client.last + 1 + k) - 1 = client.last + k
        BY <1>1, <3>4
      <4> QED BY <3>1, <3>4, <4>1
    <3>6. client.last + Len(l) = Len(log) - 1
      BY <1>1, <3>4
    <3>7. ReplayFacts(l, client.last, log)
      BY <1>1, <3>5, <3>6 DEF ReplayFacts
    <3>8. \A n \in Nat : EvidenceIn(log, n) => n <= client.last + Len(l)
      BY <1>1, <3>6 DEF EvidenceIn
    <3> QED BY <2>1, <3>7, <3>8
  <2>3. CASE ~(client.last < Len(log)) /\ log # <<>>
    <3>1. client.last = 0 /\ Len(log) > 0
      BY <1>1, <1>3, <2>3 DEF GotFacts
    <3> QED BY <2>3, <3>1
  <2>4. CASE log = <<>>
    <3>1. l = <<>>
      BY <2>4, ListTypes
    <3>2. \A n \in Nat : ~EvidenceIn(log, n)
      BY <2>4 DEF EvidenceIn
    <3> QED BY <3>1, <3>2 DEF ReplayFacts
  <2> QED BY <2>2, <2>3, <2>4
<1> HIDE DEF l
<1>5. /\ client'.pc = "replay" /\ client'.replay = l /\ client'.got = client.got
      /\ client'.last = client.last /\ WaitingOf(client') = WaitingOf(client)
  BY <1>1, <1>2 DEF SpectatorState, WaitingOf
<1>6. Covered(WaitingOf(client), client'.queue # None, client.last + Len(l), log, Casting)
  <2>1. client.last + Len(l) \in Nat
    BY <1>1, <1>4
  <2> QED BY <1>4, <2>1 DEF Covered
<1>7. ClientFacts(client', log, Casting)
  BY <1>3, <1>4, <1>5, <1>6 DEF ClientFacts
<1> QED BY <1>1, <1>7 DEF ClientInv, Casting

\* One more event reaches the spectator, the first evidence among those it does not have yet.
LEMMA GotOneMore ==
    ASSUME NEW got \in Seq(Nat), NEW last \in Nat, NEW lg \in Seq(CompetitionEvent), NEW n \in Nat,
           GotFacts(got, last, lg), n > last, n < Len(lg),
           \A k \in Nat : EvidenceIn(lg, k) /\ k <= n => k <= last \/ k = n
    PROVE  GotFacts(Append(got, n), n, lg)
<1> DEFINE g == Append(got, n)
<1>1. /\ Len(g) = Len(got) + 1 /\ Len(got) \in Nat /\ g[Len(got) + 1] = n
      /\ \A i \in 1..Len(got) : g[i] = got[i] /\ g[i] \in Nat
  OBVIOUS
<1> HIDE DEF g
<1>2. \A i \in 1..(Len(g) - 1) : g[i] < g[i + 1]
  <2> TAKE i \in 1..(Len(g) - 1)
  <2>1. i \in 1..Len(got) /\ g[i] = got[i] /\ got[i] <= last
    BY <1>1 DEF GotFacts
  <2>2. CASE i = Len(got)
    BY <1>1, <2>1, <2>2
  <2>3. CASE i # Len(got)
    <3>1. i + 1 \in 1..Len(got) /\ i \in 1..(Len(got) - 1)
      BY <1>1, <2>1, <2>3
    <3> QED BY <1>1, <2>1, <3>1 DEF GotFacts
  <2> QED BY <2>2, <2>3
<1>3. \A i \in 1..Len(g) : g[i] <= n
  <2> TAKE i \in 1..Len(g)
  <2>1. CASE i \in 1..Len(got)
    <3>1. g[i] = got[i] /\ got[i] \in Nat /\ got[i] <= last
      BY <1>1, <2>1 DEF GotFacts
    <3> QED BY <3>1
  <2>2. CASE i = Len(got) + 1
    BY <1>1, <2>2
  <2> QED BY <1>1, <2>1, <2>2
<1>4. ASSUME NEW k \in Nat, EvidenceIn(lg, k), k <= n PROVE \E i \in 1..Len(g) : g[i] = k
  <2>1. CASE k <= last
    <3>1. PICK i \in 1..Len(got) : got[i] = k
      BY <1>4, <2>1 DEF GotFacts
    <3>2. i \in 1..Len(g) /\ g[i] = k
      BY <1>1, <3>1
    <3> QED BY <3>2
  <2>2. CASE k = n
    <3>1. Len(got) + 1 \in 1..Len(g)
      BY <1>1
    <3> QED BY <1>1, <2>2, <3>1
  <2> QED BY <1>4, <2>1, <2>2
<1> QED BY <1>2, <1>3, <1>4 DEF GotFacts, g

LEMMA SendReplayedClient ==
    ASSUME TypesInv, ClientInv, SendReplayed
    PROVE  ClientInv'
<1> DEFINE l == client.replay  n == Head(l).seq  t == Tail(l)
<1>1. /\ client \in SpectatorState /\ log \in Seq(CompetitionEvent) /\ UNCHANGED <<log, start>>
      /\ client.last \in Nat /\ Len(log) \in Nat /\ l \in Seq(CompetitionEvent)
      /\ client.got \in Seq(Nat) /\ client.pc = "replay"
  BY DEF TypesInv, SendReplayed, SpectatorState
<1>2. /\ GotFacts(client.got, client.last, log) /\ QueueFacts(WaitingOf(client), log, Casting)
      /\ ReplayFacts(l, client.last, log)
      /\ Covered(WaitingOf(client), client.queue # None, client.last + Len(l), log, Casting)
  BY <1>1 DEF ClientInv, ClientFacts
<1>3. CASE l = <<>>
  <2>1. /\ client'.pc = "live" /\ client'.replay = l /\ client'.got = client.got
        /\ client'.last = client.last /\ WaitingOf(client') = WaitingOf(client)
        /\ client'.queue = client.queue
    BY <1>1, <1>3 DEF SendReplayed, SpectatorState, WaitingOf
  <2>2. ClientFacts(client', log, Casting)
    BY <1>2, <1>3, <2>1 DEF ClientFacts
  <2> QED BY <1>1, <2>2 DEF ClientInv, Casting
<1>4. CASE l # <<>>
  <2>1. /\ t \in Seq(CompetitionEvent) /\ Len(l) \in Nat /\ Len(l) > 0 /\ Len(t) = Len(l) - 1
        /\ 1 \in 1..Len(l) /\ Head(l) = l[1]
        /\ \A i \in 1..Len(t) : t[i] = l[i + 1] /\ i + 1 \in 1..Len(l) /\ i \in Nat
    BY <1>1, <1>4
  <2>2. n = client.last + 1 /\ client.last + Len(l) < Len(log)
    BY <1>2, <1>4, <2>1 DEF ReplayFacts
  <2>3. /\ client'.pc = "replay" /\ client'.replay = t /\ client'.got = Append(client.got, n)
        /\ client'.last = n /\ WaitingOf(client') = WaitingOf(client)
        /\ client'.queue = client.queue
    BY <1>1, <1>4 DEF SendReplayed, SpectatorState, WaitingOf
  <2> HIDE DEF l, n, t
  <2>4. GotFacts(Append(client.got, n), n, log)
    <3>1. /\ n \in Nat /\ n > client.last /\ n < Len(log)
          /\ \A k \in Nat : EvidenceIn(log, k) /\ k <= n => k <= client.last \/ k = n
      BY <1>1, <2>1, <2>2
    <3> QED BY <1>1, <1>2, <3>1, GotOneMore
  <2>5. ReplayFacts(t, n, log)
    <3>1. ASSUME NEW i \in 1..Len(t) PROVE t[i].seq = n + i
      <4>1. t[i] = l[i + 1] /\ i + 1 \in 1..Len(l) /\ i \in Nat
        BY <2>1
      <4>2. l[i + 1].seq = client.last + (i + 1)
        BY <1>2, <4>1 DEF ReplayFacts
      <4>3. \A a, b \in Nat : (a + 1) + b = a + (b + 1)
        OBVIOUS
      <4>4. (client.last + 1) + i = client.last + (i + 1) /\ n = client.last + 1
        BY <1>1, <2>2, <4>1, <4>3, Zenon
      <4> QED BY <4>1, <4>2, <4>4
    <3>2. n + Len(t) < Len(log)
      BY <1>1, <2>1, <2>2
    <3> QED BY <3>1, <3>2 DEF ReplayFacts
  <2>6. n + Len(t) = client.last + Len(l)
    BY <1>1, <2>1, <2>2
  <2>7. ClientFacts(client', log, Casting)
    BY <1>2, <2>3, <2>4, <2>5, <2>6 DEF ClientFacts
  <2> QED BY <1>1, <2>7 DEF ClientInv, Casting
<1> QED BY <1>3, <1>4


\* The first that waits is taken away.
LEMMA WaitingShorter ==
    ASSUME NEW w \in Seq(CompetitionEvent), w # <<>>, NEW lg \in Seq(CompetitionEvent),
           NEW casting \in BOOLEAN, QueueFacts(w, lg, casting)
    PROVE  QueueFacts(Tail(w), lg, casting)
<1> DEFINE v == Tail(w)
<1>1. /\ Len(w) \in Nat /\ Len(v) = Len(w) - 1 /\ Len(v) \in Nat
      /\ \A i \in 1..Len(v) : v[i] = w[i + 1] /\ i + 1 \in 1..Len(w) /\ i \in Nat
  OBVIOUS
<1> HIDE DEF v
<1>2. \A i \in 1..Len(v) : v[i].seq < Len(lg) /\ ~Uncast(lg, casting, v[i].seq)
  BY <1>1 DEF QueueFacts
<1>3. ASSUME NEW i \in 1..Len(v), NEW j \in 1..Len(v), i < j, EvidenceIn(lg, v[j].seq)
      PROVE  v[i].seq < v[j].seq
  <2>1. /\ v[i] = w[i + 1] /\ i + 1 \in 1..Len(w) /\ v[j] = w[j + 1] /\ j + 1 \in 1..Len(w)
        /\ i + 1 < j + 1
    BY <1>1, <1>3
  <2> QED BY <1>3, <2>1 DEF QueueFacts
<1> QED BY <1>2, <1>3 DEF QueueFacts, v

\* No evidence that the spectator does not have is before the first event that waits; once this
\* one is taken the rest is still covered.
LEMMA FirstWaiting ==
    ASSUME NEW w \in Seq(CompetitionEvent), w # <<>>, NEW lg \in Seq(CompetitionEvent),
           NEW casting \in BOOLEAN, NEW registered \in BOOLEAN, NEW last \in Nat,
           QueueFacts(w, lg, casting), Covered(w, registered, last, lg, casting)
    PROVE  /\ w[1].seq \in Nat /\ w[1].seq < Len(lg)
           /\ \A k \in Nat : EvidenceIn(lg, k) /\ k > last => k >= w[1].seq
           /\ \A h \in Nat : h >= last /\ h >= w[1].seq => Covered(Tail(w), registered, h, lg, casting)
<1> DEFINE v == Tail(w)  m == w[1].seq
<1>1. /\ Len(w) \in Nat /\ 1 \in 1..Len(w) /\ Len(v) = Len(w) - 1 /\ Len(v) \in Nat
      /\ \A i \in 1..Len(v) : v[i] = w[i + 1] /\ i + 1 \in 1..Len(w)
      /\ \A i \in 2..Len(w) : v[i - 1] = w[i] /\ i - 1 \in 1..Len(v)
  OBVIOUS
<1>2. m \in Nat /\ m < Len(lg) /\ ~Uncast(lg, casting, m) /\ Len(lg) \in Nat
  <2>1. w[1] \in CompetitionEvent
    BY <1>1
  <2> QED BY <1>1, <2>1 DEF QueueFacts, CompetitionEvent
<1> HIDE DEF v, m
<1>3. ASSUME NEW k \in Nat, EvidenceIn(lg, k), k > last
      PROVE  /\ k >= m
             /\ \/ k = m
                \/ \E i \in 1..Len(v) : v[i].seq = k
                \/ registered /\ Uncast(lg, casting, k)
                \/ ~registered /\ \A i \in 1..Len(v) : v[i].seq < k
  <2>1. \/ \E i \in 1..Len(w) : w[i].seq = k
        \/ registered /\ Uncast(lg, casting, k)
        \/ ~registered /\ \A i \in 1..Len(w) : w[i].seq < k
    BY <1>3 DEF Covered
  <2>2. ASSUME NEW i \in 1..Len(w), w[i].seq = k
        PROVE  k >= m /\ (k = m \/ \E j \in 1..Len(v) : v[j].seq = k)
    <3>1. CASE i = 1
      BY <1>2, <2>2, <3>1 DEF m
    <3>2. CASE i # 1
      <4>1. i \in 2..Len(w) /\ 1 < i
        BY <1>1, <3>2
      <4>2. v[i - 1] = w[i] /\ i - 1 \in 1..Len(v)
        BY <1>1, <4>1
      <4>3. m < k
        BY <1>1, <1>3, <2>2, <4>1 DEF QueueFacts, m
      <4> QED BY <1>2, <2>2, <4>2, <4>3
    <3> QED BY <3>1, <3>2
  <2>3. CASE registered /\ Uncast(lg, casting, k)
    <3>1. k = Len(lg) - 1
      BY <2>3 DEF Uncast
    <3>2. k >= m
      BY <1>2, <3>1
    <3> QED BY <2>3, <3>2, Zenon
  <2>4. CASE ~registered /\ \A i \in 1..Len(w) : w[i].seq < k
    <3>1. m < k
      BY <1>1, <2>4 DEF m
    <3>2. \A i \in 1..Len(v) : v[i].seq < k
      BY <1>1, <2>4
    <3> QED BY <1>2, <2>4, <3>1, <3>2
  <2>5. CASE \E i \in 1..Len(w) : w[i].seq = k
    BY <2>2, <2>5, Zenon
  <2> QED BY <2>1, <2>3, <2>4, <2>5, Zenon
<1>4. ASSUME NEW h \in Nat, h >= last, h >= m PROVE Covered(v, registered, h, lg, casting)
  <2> SUFFICES ASSUME NEW k \in Nat, EvidenceIn(lg, k), k > h
               PROVE  \/ \E i \in 1..Len(v) : v[i].seq = k
                      \/ registered /\ Uncast(lg, casting, k)
                      \/ ~registered /\ \A i \in 1..Len(v) : v[i].seq < k
    BY DEF Covered
  <2>1. k > last /\ k # m
    BY <1>2, <1>4
  <2> QED BY <1>3, <2>1
<1> QED BY <1>2, <1>3, <1>4 DEF v, m

LEMMA ForwardLiveClient ==
    ASSUME TypesInv, ClientInv, ForwardLive
    PROVE  ClientInv'
<1> DEFINE w == WaitingOf(client)  n == w[1].seq  t == Tail(w)
<1>1. /\ client \in SpectatorState /\ log \in Seq(CompetitionEvent) /\ UNCHANGED <<log, start>>
      /\ client.last \in Nat /\ Len(log) \in Nat /\ client.got \in Seq(Nat) /\ client.pc = "live"
      /\ w \in Seq(CompetitionEvent)
      /\ client.queue # None => client.queue \in Seq(CompetitionEvent)
  BY WaitingFacts DEF TypesInv, ForwardLive, SpectatorState
<1>2. w = Pending /\ w # <<>> /\ Head(w) = w[1]
  BY <1>1 DEF ForwardLive, Pending, WaitingOf
<1>3. /\ GotFacts(client.got, client.last, log) /\ QueueFacts(w, log, Casting)
      /\ client.replay = <<>> /\ client.last + Len(client.replay) = client.last
      /\ Covered(w, client.queue # None, client.last, log, Casting)
  <2>1. client.replay = <<>> /\ client.last + Len(client.replay) = client.last
    BY <1>1 DEF ClientInv, ClientFacts
  <2> QED BY <1>1, <2>1 DEF ClientInv, ClientFacts
<1>10. t \in Seq(CompetitionEvent)
  <2> HIDE DEF w
  <2> QED BY <1>1, <1>2
<1> HIDE DEF t, w
<1>4. /\ DropHead.pc = "live" /\ DropHead.replay = client.replay /\ DropHead.got = client.got
      /\ DropHead.last = client.last /\ WaitingOf(DropHead) = t
      /\ (DropHead.queue # None) = (client.queue # None)
      /\ DropHead \in SpectatorState
  <2>1. CASE client.queue # None
    <3>1. w = client.queue /\ w \in Seq(CompetitionEvent) /\ t \in Seq(CompetitionEvent) /\ t # None
      BY <1>1, <1>10, <2>1, QueueAssumption DEF WaitingOf, w
    <3>2. DropHead = [client EXCEPT !.queue = t]
      BY <2>1, <3>1 DEF DropHead, t
    <3> QED BY <1>1, <2>1, <3>1, <3>2 DEF SpectatorState, WaitingOf
  <2>2. CASE client.queue = None
    <3>1. w = client.backlog /\ t \in Seq(CompetitionEvent)
      BY <1>1, <1>10, <2>2 DEF WaitingOf, w
    <3>2. DropHead = [client EXCEPT !.backlog = t]
      BY <2>2, <3>1 DEF DropHead, t
    <3> QED BY <1>1, <2>2, <3>1, <3>2 DEF SpectatorState, WaitingOf
  <2> QED BY <2>1, <2>2
<1>5. Casting \in BOOLEAN /\ (client.queue # None) \in BOOLEAN
  BY DEF Casting
<1>6. QueueFacts(t, log, Casting)
  <2> DEFINE casting == Casting
  <2>1. casting \in BOOLEAN /\ QueueFacts(w, log, casting)
    BY <1>3, <1>5
  <2> HIDE DEF casting
  <2>2. QueueFacts(Tail(w), log, casting)
    BY <1>1, <1>2, <2>1, WaitingShorter
  <2> QED BY <2>2 DEF t, casting
<1>7. /\ n \in Nat /\ n < Len(log)
      /\ \A k \in Nat : EvidenceIn(log, k) /\ k > client.last => k >= n
      /\ \A h \in Nat : h >= client.last /\ h >= n => Covered(t, client.queue # None, h, log, Casting)
  <2> DEFINE casting == Casting  registered == client.queue # None  last == client.last
  <2>1. /\ casting \in BOOLEAN /\ QueueFacts(w, log, casting) /\ registered \in BOOLEAN /\ last \in Nat
        /\ Covered(w, registered, last, log, casting)
    BY <1>1, <1>3, <1>5
  <2> HIDE DEF casting, registered, last
  <2>2. /\ w[1].seq \in Nat /\ w[1].seq < Len(log)
        /\ \A k \in Nat : EvidenceIn(log, k) /\ k > last => k >= w[1].seq
        /\ \A h \in Nat : h >= last /\ h >= w[1].seq => Covered(Tail(w), registered, h, log, casting)
    BY <1>1, <1>2, <2>1, FirstWaiting
  <2> QED BY <2>2 DEF t, casting, registered, last
<1>8. CASE n <= client.last
  <2>1. client' = DropHead
    BY <1>2, <1>8 DEF ForwardLive
  <2>2. Covered(t, client.queue # None, client.last, log, Casting)
    BY <1>1, <1>7, <1>8
  <2> HIDE DEF t, n, w
  <2>3. ReplayFacts(<<>>, client.last, log)
    BY DEF ReplayFacts
  <2>4. ClientFacts(client', log, Casting)
    BY <1>3, <1>4, <1>6, <2>1, <2>2, <2>3 DEF ClientFacts
  <2> QED BY <1>1, <2>4 DEF ClientInv, Casting
<1>9. CASE ~(n <= client.last)
  <2>1. client' = [DropHead EXCEPT !.last = n, !.got = Append(client.got, n)]
    <3>1. client' = [DropHead EXCEPT !.last = n, !.got = Append(@, n)]
      BY <1>2, <1>9 DEF ForwardLive
    <3> QED BY <1>4, <3>1
  <2> HIDE DEF t, n, w
  <2>2. /\ client'.pc = "live" /\ client'.replay = <<>> /\ client'.got = Append(client.got, n)
        /\ client'.last = n /\ WaitingOf(client') = t
        /\ (client'.queue # None) = (client.queue # None)
    <3>1. client'.queue = DropHead.queue /\ client'.backlog = DropHead.backlog
      BY <1>4, <2>1 DEF SpectatorState
    <3> QED BY <1>3, <1>4, <2>1, <3>1 DEF SpectatorState, WaitingOf
  <2>3. Covered(t, client.queue # None, n, log, Casting)
    BY <1>1, <1>7, <1>9
  <2>4. GotFacts(Append(client.got, n), n, log)
    <3>1. /\ n > client.last
          /\ \A k \in Nat : EvidenceIn(log, k) /\ k <= n => k <= client.last \/ k = n
      BY <1>1, <1>7, <1>9
    <3> QED BY <1>1, <1>3, <1>7, <3>1, GotOneMore
  <2>5. ReplayFacts(<<>>, n, log) /\ n + Len(<<>>) = n
    BY <1>7 DEF ReplayFacts
  <2>6. ClientFacts(client', log, Casting)
    BY <1>6, <2>2, <2>3, <2>4, <2>5 DEF ClientFacts
  <2> QED BY <1>1, <2>6 DEF ClientInv, Casting
<1> QED BY <1>8, <1>9


\* Nobody is between the append and the broadcast of evidence when the log is empty or its owner
\* is elsewhere.
LEMMA NotCasting ==
    ASSUME TypesInv, LogInv, log = <<>> \/ \E r : OwnsLog(r) /\ (r \in Starts => start[r].pc # "cast")
    PROVE  ~Casting
<1> SUFFICES ASSUME NEW q \in Starts, start[q].pc = "cast" PROVE FALSE
  BY DEF Casting
<1>1. log # <<>> /\ OwnsLog(q)
  BY OneWriter DEF Writing
<1> QED BY <1>1 DEF OwnsLog

LEMMA CastingMoves ==
    ASSUME NEW s \in Starts, \A q \in Starts : q # s => start'[q] = start[q],
           start'[s].pc # "cast", start[s].pc # "cast"
    PROVE  Casting' = Casting
BY DEF Casting

\* Steps that touch neither the log nor the spectator, nor the evidence that is to be broadcast.
LEMMA QuietClient ==
    ASSUME ClientInv, log' = log, client' = client, Casting' = Casting
    PROVE  ClientInv'
BY DEF ClientInv

\* Derived events are appended.
LEMMA DerivedClient ==
    ASSUME TypesInv, ClientInv, Grows, ~Casting,
           \A n \in (Len(log) + 1)..Len(log') : log'[n].type \notin EvidenceTypes
    PROVE  ClientFacts(client, log', FALSE)
<1> DEFINE lg == log  lg2 == log'
<1>1. /\ client \in SpectatorState /\ lg \in Seq(CompetitionEvent) /\ Len(lg) \in Nat
      /\ lg2 \in Seq(CompetitionEvent) /\ Len(lg2) \in Nat /\ Len(lg) <= Len(lg2)
      /\ \A i \in 1..Len(lg) : lg2[i] = lg[i]
      /\ \A n \in (Len(lg) + 1)..Len(lg2) : lg2[n].type \notin EvidenceTypes
  BY DEF TypesInv, Grows
<1>2. ClientFacts(client, lg, FALSE)
  <2>1. Casting = FALSE
    BY DEF Casting
  <2> QED BY <2>1 DEF ClientInv
<1> HIDE DEF lg, lg2
<1>3. ASSUME NEW n \in Nat PROVE EvidenceIn(lg2, n) <=> EvidenceIn(lg, n)
  <2>1. CASE n < Len(lg)
    BY <1>1, <2>1 DEF EvidenceIn
  <2>2. CASE ~(n < Len(lg)) /\ n < Len(lg2)
    <3>1. n + 1 \in (Len(lg) + 1)..Len(lg2)
      BY <1>1, <2>2
    <3> QED BY <1>1, <2>2, <3>1 DEF EvidenceIn
  <2>3. CASE ~(n < Len(lg2))
    BY <1>1, <2>3 DEF EvidenceIn
  <2> QED BY <2>1, <2>2, <2>3
<1>4. NoNewEvidence(lg, lg2)
  BY <1>1, <1>3 DEF NoNewEvidence
<1>5. ClientFacts(client, lg2, FALSE)
  BY <1>1, <1>2, <1>4, QuietGrowth
<1> QED BY <1>5 DEF lg2

\* The same for a batch of the owner of the log.
LEMMA BatchClient ==
    ASSUME TypesInv, LogInv, ClientInv, NEW r \in Runs, NEW batch \in Seq(CompetitionEvent),
           NEW base \in Nat, base <= Len(log), Derived(batch, base, r), OwnsLog(r),
           r \in Starts => start[r].pc # "cast", NoDuplicateSeq(batch), log' = log \o batch
    PROVE  ~Casting /\ ClientFacts(client, log', FALSE)
<1>1. /\ Grows /\ Len(log') = Len(log) + Len(batch)
      /\ \A i \in 1..Len(batch) : log'[Len(log) + i] = batch[i]
  BY DerivedGrows
<1>2. Len(log) \in Nat /\ Len(batch) \in Nat
  BY DEF TypesInv
<1>3. ASSUME NEW n \in (Len(log) + 1)..Len(log') PROVE log'[n].type \notin EvidenceTypes
  <2>1. n - Len(log) \in 1..Len(batch) /\ Len(log) + (n - Len(log)) = n
    BY <1>1, <1>2
  <2>2. log'[n] = batch[n - Len(log)]
    BY <1>1, <2>1
  <2>3. n - Len(log) \in DOMAIN batch
    BY <2>1
  <2> QED BY <2>2, <2>3 DEF Derived
<1>4. ~Casting
  BY NotCasting
<1> QED BY <1>1, <1>3, <1>4, DerivedClient

\* The steps of a start that write no event and send none.
LEMMA StartStepClient ==
    ASSUME TypesInv, LogInv, ClientInv, NEW s \in Starts,
           \/ ResolveStart(s) \/ Begin(s) \/ MarkRunning(s) \/ BindRun(s) \/ Decide(s) \/ Seal(s)
           \/ Parity(s) \/ LaneStep(s) \/ RecordExecution(s) \/ Finalize(s) \/ StoreError(s)
           \/ LaneRaises(s)
    PROVE  ClientInv'
<1>1. start \in [Starts -> StartRequest] /\ start[s] \in StartRequest
  BY DEF TypesInv
<1>2. log' = log /\ client' = client /\ start[s].pc # "cast"
  BY DEF ResolveStart, Begin, MarkRunning, BindRun, Decide, Seal, Parity, LaneStep, RecordExecution,
         Finalize, StoreError, LaneRaises
<1>3. (\A q \in Starts : q # s => start'[q] = start[q]) /\ start'[s].pc # "cast"
  <2>1. CASE \E pc \in StartPC \ {"cast"} : Goto(s, pc)
    BY <2>1, GotoFacts
  <2>2. CASE ResolveStart(s) \/ RecordExecution(s)
    BY <1>1, <2>2 DEF ResolveStart, RecordExecution, StartRequest
  <2>3. CASE Begin(s)
    <3> DEFINE pc == IF comp.status = "draft" THEN "mark" ELSE "refused"
    <3>1. start' = [start EXCEPT ![s].pc = pc, ![s].env = config.env] /\ pc # "cast"
      BY <2>3 DEF Begin
    <3> HIDE DEF pc
    <3> QED BY <1>1, <3>1 DEF StartRequest
  <2>4. CASE Decide(s)
    BY <1>1, <1>2, <2>4 DEF Decide, StartRequest
  <2>5. CASE LaneStep(s)
    BY <2>5, LaneStepFacts
  <2>6. CASE \/ MarkRunning(s) \/ BindRun(s) \/ Seal(s) \/ Parity(s) \/ Finalize(s) \/ StoreError(s)
             \/ LaneRaises(s)
    BY <2>1, <2>6 DEF MarkRunning, BindRun, Seal, Parity, Finalize, StoreError, LaneRaises, StartPC
  <2> QED BY <2>2, <2>3, <2>4, <2>5, <2>6
<1> QED BY <1>2, <1>3, CastingMoves, QuietClient


\* A start goes on and leaves no evidence to be broadcast.
LEMMA SettledClient ==
    ASSUME NEW s \in Starts, \A q \in Starts : q # s => start'[q] = start[q], start'[s].pc # "cast",
           \A q \in Starts : q # s => start[q].pc # "cast", ClientFacts(client', log', FALSE)
    PROVE  ClientInv'
<1>1. Casting' = FALSE
  BY DEF Casting
<1> QED BY <1>1 DEF ClientInv

\* A start gives up.
LEMMA GiveUpClient ==
    ASSUME TypesInv, ClientInv, NEW s \in Starts, start[s].pc # "cast",
           NEW pc \in StartPC \ {"cast"}, Goto(s, pc), log' = log, client' = client
    PROVE  ClientInv'
<1>1. (\A q \in Starts : q # s => start'[q] = start[q]) /\ start'[s].pc # "cast"
  BY GotoFacts
<1> QED BY <1>1, CastingMoves, QuietClient

LEMMA AppendStartedClient ==
    ASSUME TypesInv, LogInv, ClientInv, NEW s \in Starts, AppendStarted(s)
    PROVE  ClientInv'
<1> DEFINE b == <<StartedEvent(s)>>
<1>0. /\ start[s].pc = "started" /\ s \in Runs /\ client' = client
      /\ log \in Seq(CompetitionEvent) /\ start \in [Starts -> StartRequest]
      /\ start[s] \in StartRequest
  BY DEF AppendStarted, Runs, TypesInv
<1>1. CASE ~NoDuplicateSeq(b)
  <2>1. Goto(s, "failed") /\ log' = log /\ "failed" \in StartPC \ {"cast"}
    BY <1>1 DEF AppendStarted, StartPC
  <2> QED BY <1>0, <2>1, GiveUpClient
<1>2. CASE NoDuplicateSeq(b)
  <2> DEFINE emit == <<[type |-> "tick", agent |-> None, bet |-> FALSE]>>
  <2>1. log' = log \o b /\ start' = [start EXCEPT ![s].pc = "emit", ![s].emit = emit]
    BY <1>2 DEF AppendStarted, AppendEvents
  <2>2. /\ b \in Seq(CompetitionEvent) /\ Len(b) = 1 /\ b # <<>> /\ b[1] = StartedEvent(s)
        /\ \A i \in DOMAIN b : b[i].seq = 0 + i - 1 /\ b[i].run = s
        /\ b[1].type \notin EvidenceTypes
    BY <1>0 DEF StartedEvent, Event, CompetitionEvent, DerivedTypes, EvidenceTypes
  <2>3. log = <<>>
    <3>1. 0 \in {e.seq : e \in Range(b)}
      BY <2>2 DEF Range, StartedEvent, Event
    <3>2. Seqs = 0..(Len(log) - 1)
      BY <1>0, SeqsOfLog DEF LogInv, LogIsOneRun
    <3> HIDE DEF b
    <3>3. 0 \notin Seqs
      BY <1>2, <3>1 DEF NoDuplicateSeq
    <3> QED BY <1>0, <3>2, <3>3
  <2> HIDE DEF b, emit
  <2>4. (\A q \in Starts : q # s => start'[q] = start[q]) /\ start'[s].pc # "cast"
    BY <1>0, <2>1 DEF StartRequest
  <2>5. log' = b /\ Grows
    <3>1. log' = b /\ Len(log) = 0
      BY <2>1, <2>2, <2>3
    <3>2. b \in Seq(CompetitionEvent) /\ Len(b) \in Nat
      BY <2>1, <2>2, <2>3
    <3>3. Len(log) <= Len(log') /\ \A i \in 1..Len(log) : log'[i] = log[i]
      BY <3>1, <3>2
    <3> QED BY <3>1, <3>2, <3>3 DEF Grows
  <2>6. \A n \in (Len(log) + 1)..Len(log') : log'[n].type \notin EvidenceTypes
    <3>1. Len(log) = 0 /\ Len(log') = 1
      BY <2>2, <2>3, <2>5
    <3> SUFFICES log'[1].type \notin EvidenceTypes
      BY <3>1
    <3> QED BY <2>2, <2>5
  <2>7. ~Casting
    BY <2>3, NotCasting
  <2>8. ClientFacts(client, log', FALSE)
    BY <2>5, <2>6, <2>7, DerivedClient
  <2> QED BY <1>0, <2>4, <2>7, <2>8, SettledClient DEF Casting
<1> QED BY <1>1, <1>2

LEMMA AppendTailClient ==
    ASSUME TypesInv, LogInv, ClientInv, NEW s \in Starts, AppendTail(s)
    PROVE  ClientInv'
<1> DEFINE ev == start[s].events
           b == DerivedTail(s)
<1>0. /\ start[s].pc = "tail" /\ s \in Runs /\ client' = client
      /\ log \in Seq(CompetitionEvent) /\ start \in [Starts -> StartRequest]
      /\ ev \in Seq(RunEvent) /\ start[s] \in StartRequest
  BY DEF AppendTail, Runs, TypesInv, StartRequest
<1>1. OwnsLog(s) /\ Len(log) = Len(ev) + 1 /\ Len(ev) + 1 \in Nat /\ Len(log) <= Len(log)
  BY <1>0, OneWriter DEF Writing
<1>2. CASE ~NoDuplicateSeq(b)
  <2>1. Goto(s, "failed") /\ log' = log /\ "failed" \in StartPC \ {"cast"}
    BY <1>2 DEF AppendTail, StartPC
  <2> QED BY <1>0, <2>1, GiveUpClient
<1>3. CASE NoDuplicateSeq(b)
  <2> DEFINE pc == IF config.mode = "paper" THEN "finalize" ELSE "route"
             todo == Proposals(ev)
             next == NextSeqOf(s)
  <2>1. log' = log \o b /\ start' = [start EXCEPT ![s].pc = pc, ![s].todo = todo, ![s].next = next]
    BY <1>3 DEF AppendTail, AppendEvents
  <2>2. TailTypes(ev) \in Seq(DerivedTypes)
    BY <1>0, TailFacts
  <2>3. b \in Seq(CompetitionEvent) /\ Derived(b, Len(log), s)
    BY <1>0, <1>1, <2>2, BatchFacts DEF DerivedTail
  <2>4. pc # "cast"
    OBVIOUS
  <2> HIDE DEF pc, todo, next, b
  <2>5. (\A q \in Starts : q # s => start'[q] = start[q]) /\ start'[s].pc # "cast"
    BY <1>0, <2>1, <2>4 DEF StartRequest
  <2>6. ~Casting /\ ClientFacts(client, log', FALSE)
    BY <1>0, <1>1, <1>3, <2>1, <2>3, BatchClient
  <2> QED BY <1>0, <2>5, <2>6, SettledClient DEF Casting
<1> QED BY <1>2, <1>3

LEMMA AppendLaneClient ==
    ASSUME TypesInv, LogInv, ClientInv, NEW s \in Starts, AppendLane(s)
    PROVE  ClientInv'
<1> DEFINE b == start[s].lane
<1>0. /\ start[s].pc = "lane" /\ s \in Runs /\ client' = client
      /\ log \in Seq(CompetitionEvent) /\ start \in [Starts -> StartRequest]
      /\ start[s].next \in Nat /\ b \in Seq(CompetitionEvent)
  BY DEF AppendLane, Runs, TypesInv, StartRequest
<1>1. OwnsLog(s) /\ start[s].next <= Len(log) /\ Derived(b, start[s].next, s)
  BY <1>0 DEF LogInv, StartKnows
<1>2. CASE ~NoDuplicateSeq(b)
  <2>1. Goto(s, "abort") /\ log' = log /\ "abort" \in StartPC \ {"cast"}
    BY <1>2 DEF AppendLane, StartPC
  <2> QED BY <1>0, <2>1, GiveUpClient
<1>3. CASE NoDuplicateSeq(b)
  <2>1. log' = log \o b /\ Goto(s, "cast_lane") /\ "cast_lane" \in StartPC
    BY <1>3 DEF AppendLane, AppendEvents, StartPC
  <2>2. (\A q \in Starts : q # s => start'[q] = start[q]) /\ start'[s].pc # "cast"
    BY <2>1, GotoFacts
  <2> HIDE DEF b
  <2>3. ~Casting /\ ClientFacts(client, log', FALSE)
    BY <1>0, <1>1, <1>3, <2>1, BatchClient
  <2> QED BY <1>0, <2>2, <2>3, SettledClient DEF Casting
<1> QED BY <1>2, <1>3

LEMMA AppendArenaClient ==
    ASSUME TypesInv, LogInv, ClientInv, NEW a \in Arenas, AppendArena(a)
    PROVE  ClientInv'
<1> DEFINE b == ArenaEvents(a)
<1>0. /\ start' = start /\ client' = client /\ a \in Runs /\ log \in Seq(CompetitionEvent)
      /\ Casting' = Casting
  BY DEF AppendArena, Runs, TypesInv, Casting
<1>1. CASE log' = log
  BY <1>0, <1>1, QuietClient
<1>2. CASE NoDuplicateSeq(b) /\ log' = log \o b
  <2>1. /\ b \in Seq(CompetitionEvent) /\ Len(b) = 2 /\ b # <<>> /\ b[1].seq = 0
        /\ \A i \in DOMAIN b : b[i].type \notin EvidenceTypes
    BY <1>0 DEF ArenaEvents, StartedEvent, Event, CompetitionEvent, DerivedTypes, EvidenceTypes
  <2> HIDE DEF b
  <2>2. log = <<>>
    <3>1. 0 \in {e.seq : e \in Range(b)}
      BY <2>1 DEF Range
    <3>2. Seqs = 0..(Len(log) - 1)
      BY <1>0, SeqsOfLog DEF LogInv, LogIsOneRun
    <3>3. 0 \notin Seqs
      BY <1>2, <3>1 DEF NoDuplicateSeq
    <3> QED BY <1>0, <3>2, <3>3
  <2>3. log' = b /\ Grows
    <3>1. log' = b /\ Len(log) = 0
      BY <1>2, <2>1, <2>2
    <3>2. b \in Seq(CompetitionEvent) /\ Len(b) \in Nat
      BY <1>2, <2>1, <2>2
    <3>3. Len(log) <= Len(log') /\ \A i \in 1..Len(log) : log'[i] = log[i]
      BY <3>1, <3>2
    <3> QED BY <3>1, <3>2, <3>3 DEF Grows
  <2>4. \A n \in (Len(log) + 1)..Len(log') : log'[n].type \notin EvidenceTypes
    <3>1. Len(log) = 0 /\ Len(log') = Len(b) /\ DOMAIN b = 1..Len(b) /\ Len(b) \in Nat
      BY <2>1, <2>2, <2>3
    <3>2. ASSUME NEW n \in (Len(log) + 1)..Len(log') PROVE n \in DOMAIN b /\ log'[n] = b[n]
      BY <2>3, <3>1
    <3> QED BY <2>1, <3>2
  <2>5. ~Casting
    BY <2>2, NotCasting
  <2>6. ClientFacts(client, log', FALSE)
    BY <2>3, <2>4, <2>5, DerivedClient
  <2>7. Casting' = FALSE
    BY <1>0, <2>5 DEF Casting
  <2> QED BY <1>0, <2>6, <2>7 DEF ClientInv
<1> QED
  BY <1>1, <1>2 DEF AppendArena, AppendEvents


\* An event that is no evidence, sent when no evidence is to be broadcast.
LEMMA CastDerived ==
    ASSUME NEW c \in SpectatorState, NEW e \in CompetitionEvent, NEW lg \in Seq(CompetitionEvent),
           ClientFacts(c, lg, FALSE), e.seq < Len(lg), lg[e.seq + 1].type \notin EvidenceTypes
    PROVE  ClientFacts(CastTo(c, e), lg, FALSE)
<1>1. ~EvidenceIn(lg, e.seq)
  BY DEF EvidenceIn
<1> QED BY <1>1, CastKeeps

LEMMA BroadcastIsCast ==
    ASSUME NEW e, Broadcast(e)
    PROVE  client' = CastTo(client, e)
BY DEF Broadcast, CastTo

LEMMA SelectRouteClient ==
    ASSUME TypesInv, LogInv, ClientInv, NEW s \in Starts, SelectRoute(s)
    PROVE  ClientInv'
<1> DEFINE b == Batch(s, start[s].next, <<"execution_route">>, None)
<1>0. /\ start[s].pc = "route" /\ s \in Runs /\ start[s] \in StartRequest
      /\ log \in Seq(CompetitionEvent) /\ start \in [Starts -> StartRequest]
      /\ start[s].next \in Nat /\ client \in SpectatorState
  BY DEF SelectRoute, Runs, TypesInv, StartRequest
<1>1. OwnsLog(s) /\ start[s].next <= Len(log)
  BY <1>0 DEF LogInv, StartKnows
<1>2. \/ Goto(s, "abort") /\ UNCHANGED <<log, client>>
      \/ Goto(s, "lane") /\ UNCHANGED <<log, client>>
      \/ /\ NoDuplicateSeq(b) /\ log' = log \o b /\ Broadcast(b[1])
         /\ start' = [start EXCEPT ![s].pc = "lane", ![s].next = @ + 1]
  BY DEF SelectRoute, AppendEvents
<1>3. CASE (Goto(s, "abort") \/ Goto(s, "lane")) /\ UNCHANGED <<log, client>>
  <2>1. {"abort", "lane"} \subseteq StartPC \ {"cast"} /\ log' = log /\ client' = client
    BY <1>3 DEF StartPC
  <2> QED BY <1>0, <1>3, <2>1, GiveUpClient
<1>4. CASE /\ NoDuplicateSeq(b) /\ log' = log \o b /\ Broadcast(b[1])
           /\ start' = [start EXCEPT ![s].pc = "lane", ![s].next = @ + 1]
  <2> DEFINE types == <<"execution_route">>
  <2>1. types \in Seq(DerivedTypes) /\ Len(types) = 1
    BY DEF DerivedTypes
  <2> HIDE DEF types
  <2>2. b \in Seq(CompetitionEvent) /\ Len(b) = 1 /\ Derived(b, start[s].next, s)
    BY <1>0, <2>1, BatchFacts DEF types
  <2> HIDE DEF b
  <2>3. (\A q \in Starts : q # s => start'[q] = start[q]) /\ start'[s].pc # "cast"
    BY <1>0, <1>4 DEF StartRequest
  <2>4. ~Casting /\ ClientFacts(client, log', FALSE)
    BY <1>0, <1>1, <1>4, <2>2, BatchClient
  <2>5. /\ Grows
        /\ \A i \in DOMAIN b : b[i].seq < Len(log') /\ log'[b[i].seq + 1].type \notin EvidenceTypes
    BY <1>0, <1>1, <1>4, <2>2, DerivedGrows
  <2> DEFINE e == b[1]  lg == log'
  <2>6. /\ e \in CompetitionEvent /\ lg \in Seq(CompetitionEvent) /\ e.seq < Len(lg)
        /\ lg[e.seq + 1].type \notin EvidenceTypes
    <3>1. 1 \in DOMAIN b /\ b[1] \in CompetitionEvent
      BY <2>2
    <3>2. b[1].seq < Len(log') /\ log'[b[1].seq + 1].type \notin EvidenceTypes
      BY <2>5, <3>1
    <3>3. log' \in Seq(CompetitionEvent)
      BY <2>5 DEF Grows
    <3> QED BY <3>1, <3>2, <3>3
  <2>7. client' = CastTo(client, e) /\ ClientFacts(client, lg, FALSE)
    BY <1>4, <2>4, BroadcastIsCast
  <2> HIDE DEF e, lg
  <2>8. ClientFacts(CastTo(client, e), lg, FALSE)
    BY <1>0, <2>6, <2>7, CastDerived
  <2>9. ClientFacts(client', log', FALSE)
    BY <2>7, <2>8 DEF lg
  <2> QED BY <2>3, <2>4, <2>9, SettledClient DEF Casting
<1> QED BY <1>2, <1>3, <1>4

LEMMA EmitClient ==
    ASSUME TypesInv, LogInv, ClientInv, NEW s \in Starts, Emit(s)
    PROVE  ClientInv'
<1> DEFINE ev == start[s].events
           h == Head(start[s].emit)
           e == EvidenceEvent(s, Len(ev), h)
           b == <<e>>
<1>0. /\ start[s].pc = "emit" /\ s \in Runs /\ client' = client /\ client \in SpectatorState
      /\ log \in Seq(CompetitionEvent) /\ start \in [Starts -> StartRequest]
      /\ ev \in Seq(RunEvent) /\ start[s] \in StartRequest
  BY DEF Emit, Runs, TypesInv, StartRequest
<1>1. CASE ~NoDuplicateSeq(b)
  <2>1. Goto(s, "failed") /\ log' = log /\ "failed" \in StartPC \ {"cast"}
    BY <1>1 DEF Emit, StartPC
  <2> QED BY <1>0, <2>1, GiveUpClient
<1>2. CASE NoDuplicateSeq(b)
  <2>1. log # <<>> /\ OwnsLog(s)
    BY <1>0, OneWriter DEF Writing
  <2>2. ~Casting
    BY <1>0, <2>1, NotCasting
  <2>3. ClientFacts(client, log, FALSE)
    <3>1. Casting = FALSE
      BY <2>2 DEF Casting
    <3> QED BY <3>1 DEF ClientInv
  <2>4. log' = log \o b
    BY <1>2 DEF Emit, AppendEvents
  <2>5. b \in Seq(CompetitionEvent) /\ Len(b) = 1
    BY <1>0 DEF EvidenceEvent, EvidenceType, Event, CompetitionEvent, EvidenceTypes
  <2>6. start'[s].pc = "cast"
    <3> DEFINE a == Append(ev, h)  t == Tail(start[s].emit)
    <3>1. start' = [start EXCEPT ![s].pc = "cast", ![s].events = a, ![s].emit = t]
      BY <1>0, <1>2 DEF Emit
    <3> HIDE DEF a, t
    <3> QED BY <1>0, <3>1 DEF StartRequest
  <2> DEFINE lg == log'
  <2> HIDE DEF b, e
  <2>7. lg \in Seq(CompetitionEvent) /\ Len(lg) = Len(log) + 1 /\ \A i \in 1..Len(log) : lg[i] = log[i]
    <3>1. ASSUME NEW x \in Seq(CompetitionEvent), NEW y \in Seq(CompetitionEvent)
          PROVE  /\ x \o y \in Seq(CompetitionEvent) /\ Len(x \o y) = Len(x) + Len(y)
                 /\ \A i \in 1..Len(x) : (x \o y)[i] = x[i]
      OBVIOUS
    <3>2. /\ log \o b \in Seq(CompetitionEvent) /\ Len(log \o b) = Len(log) + Len(b)
          /\ \A i \in 1..Len(log) : (log \o b)[i] = log[i]
      BY <1>0, <2>5, <3>1, Zenon
    <3> QED BY <2>4, <2>5, <3>2
  <2> HIDE DEF lg
  <2>8. ClientFacts(client, lg, TRUE)
    BY <1>0, <2>1, <2>3, <2>7, FreshEvidence
  <2>9. Casting' = TRUE
    BY <2>6 DEF Casting
  <2> QED BY <1>0, <2>8, <2>9 DEF ClientInv, lg
<1> QED BY <1>1, <1>2

LEMMA CastEvidenceClient ==
    ASSUME TypesInv, LogInv, ClientInv, NEW s \in Starts, CastEvidence(s)
    PROVE  ClientInv'
<1> DEFINE n == Len(start[s].events) - 1
           e == EvidenceEvent(s, n, start[s].events[n + 1])
<1>1. /\ start[s].pc = "cast" /\ start[s].events \in Seq(RunEvent) /\ s \in Runs
      /\ start[s].events # <<>> /\ log \in Seq(CompetitionEvent) /\ client \in SpectatorState
  BY DEF CastEvidence, TypesInv, StartRequest, LogInv, StartKnows, Runs
<1>2. n \in Nat /\ n + 1 = Len(start[s].events)
  BY <1>1
<1>3. OwnsLog(s) /\ Len(log) = n + 2
  <2>1. OwnsLog(s) /\ Len(log) = Len(start[s].events) + 1
    BY <1>1, OneWriter DEF Writing
  <2> QED BY <1>2, <2>1
<1>4. /\ Goto(s, "emit") /\ "emit" \in StartPC /\ log' = log /\ Broadcast(e)
  BY DEF CastEvidence, StartPC
<1>5. e \in CompetitionEvent /\ e.seq = n + 1
  BY <1>1, <1>2 DEF EvidenceEvent, EvidenceType, Event, CompetitionEvent, EvidenceTypes
<1> HIDE DEF e, n
<1>6. e.seq < Len(log) /\ e.seq = Len(log) - 1
  BY <1>2, <1>3, <1>5
<1>7. ASSUME NEW q \in Starts, q # s PROVE start[q].pc # "cast"
  <2> SUFFICES ASSUME start[q].pc = "cast" PROVE FALSE
    OBVIOUS
  <2>1. OwnsLog(q)
    BY OneWriter DEF Writing
  <2> QED BY <1>3, <1>7, <2>1 DEF OwnsLog
<1>8. ClientFacts(client, log, TRUE)
  <2>1. Casting = TRUE
    BY <1>1 DEF Casting
  <2> QED BY <2>1 DEF ClientInv
<1>9. ClientFacts(CastTo(client, e), log, FALSE)
  BY <1>1, <1>5, <1>6, <1>8, CastKeeps
<1>10. (\A q \in Starts : q # s => start'[q] = start[q]) /\ start'[s].pc # "cast"
  BY <1>4, GotoFacts
<1>11. ClientFacts(client', log', FALSE)
  BY <1>4, <1>9, BroadcastIsCast
<1> QED BY <1>7, <1>10, <1>11, SettledClient

LEMMA CastLaneClient ==
    ASSUME TypesInv, LogInv, ClientInv, NEW s \in Starts, CastLane(s)
    PROVE  ClientInv'
<1> DEFINE b == start[s].lane
<1>0. /\ start[s].pc = "cast_lane" /\ log' = log /\ s \in Runs /\ start[s] \in StartRequest
      /\ start \in [Starts -> StartRequest] /\ b \in Seq(CompetitionEvent)
      /\ client \in SpectatorState /\ Logged(b) /\ OwnsLog(s) /\ log \in Seq(CompetitionEvent)
  BY DEF CastLane, Runs, TypesInv, StartRequest, LogInv, StartKnows
<1>1. CASE b = <<>>
  <2>1. Goto(s, "finalize") /\ client' = client /\ "finalize" \in StartPC \ {"cast"}
    BY <1>1 DEF CastLane, StartPC
  <2> QED BY <1>0, <2>1, GiveUpClient
<1>2. CASE b # <<>>
  <2> DEFINE e == Head(b)  t == Tail(b)
  <2>1. e \in CompetitionEvent /\ 1 \in DOMAIN b /\ e = b[1]
    BY <1>0, <1>2
  <2>2. Broadcast(e) /\ start' = [start EXCEPT ![s].lane = t]
    BY <1>2 DEF CastLane
  <2> HIDE DEF e, t
  <2>3. (\A q \in Starts : q # s => start'[q] = start[q]) /\ start'[s].pc # "cast"
    BY <1>0, <2>2 DEF StartRequest
  <2>4. e.seq < Len(log) /\ log[e.seq + 1].type \notin EvidenceTypes
    BY <1>0, <2>1 DEF Logged
  <2>5. ~Casting
    BY <1>0, NotCasting
  <2>6. ClientFacts(client, log, FALSE)
    <3>1. Casting = FALSE
      BY <2>5 DEF Casting
    <3> QED BY <3>1 DEF ClientInv
  <2>7. ClientFacts(CastTo(client, e), log, FALSE)
    BY <1>0, <2>1, <2>4, <2>6, CastDerived
  <2>8. ClientFacts(client', log', FALSE)
    BY <1>0, <2>2, <2>7, BroadcastIsCast
  <2> QED BY <2>3, <2>5, <2>8, SettledClient DEF Casting
<1> QED BY <1>1, <1>2


LEMMA AppendApprovalClient ==
    ASSUME TypesInv, LogInv, ClientInv, NEW p \in Approvals, AppendApproval(p)
    PROVE  ClientInv'
<1> DEFINE b == approval[p].events
           r == approval[p].exec[1]
<1>0. /\ approval[p].pc = "append" /\ client' = client /\ Casting' = Casting
      /\ approval[p].next \in Nat /\ b \in Seq(CompetitionEvent)
  BY DEF AppendApproval, TypesInv, ApprovalRequest, Casting
<1>1. /\ r \in Runs /\ Laned(r) /\ approval[p].next <= Len(log) /\ Derived(b, approval[p].next, r)
  BY <1>0 DEF LogInv, ApprovalKnows
<1>2. CASE log' = log
  BY <1>0, <1>2, QuietClient
<1>3. CASE NoDuplicateSeq(b) /\ log' = log \o b
  <2> HIDE DEF b, r
  <2>1. OwnsLog(r) /\ (r \in Starts => start[r].pc # "cast")
    BY <1>1 DEF Laned, Sealed
  <2>2. ~Casting /\ ClientFacts(client, log', FALSE)
    BY <1>0, <1>1, <1>3, <2>1, BatchClient
  <2>3. Casting' = FALSE
    BY <1>0, <2>2 DEF Casting
  <2> QED BY <1>0, <2>2, <2>3 DEF ClientInv
<1> QED BY <1>2, <1>3 DEF AppendApproval, AppendEvents

LEMMA CastApprovalClient ==
    ASSUME TypesInv, LogInv, ClientInv, NEW p \in Approvals, CastApproval(p)
    PROVE  ClientInv'
<1> DEFINE b == approval[p].events
<1>0. /\ approval[p].pc = "cast" /\ log' = log /\ Casting' = Casting
      /\ b \in Seq(CompetitionEvent) /\ client \in SpectatorState /\ Logged(b)
      /\ log \in Seq(CompetitionEvent) /\ Laned(approval[p].exec[1])
  BY DEF CastApproval, TypesInv, ApprovalRequest, LogInv, ApprovalKnows, Casting
<1>1. CASE b = <<>>
  <2>1. client' = client
    BY <1>1 DEF CastApproval
  <2> QED BY <1>0, <2>1, QuietClient
<1>2. CASE b # <<>>
  <2> DEFINE e == Head(b)
  <2>1. e \in CompetitionEvent /\ 1 \in DOMAIN b /\ e = b[1]
    BY <1>0, <1>2
  <2>2. Broadcast(e)
    BY <1>2 DEF CastApproval
  <2> HIDE DEF e
  <2>3. e.seq < Len(log) /\ log[e.seq + 1].type \notin EvidenceTypes
    BY <1>0, <2>1 DEF Logged
  <2>4. ~Casting
    BY <1>0, NotCasting DEF Laned, Sealed
  <2>5. Casting = FALSE
    BY <2>4 DEF Casting
  <2>6. ClientFacts(client, log, FALSE)
    BY <2>5 DEF ClientInv
  <2>7. ClientFacts(CastTo(client, e), log, FALSE)
    BY <1>0, <2>1, <2>3, <2>6, CastDerived
  <2>8. ClientFacts(client', log', FALSE)
    BY <1>0, <2>2, <2>7, BroadcastIsCast
  <2> QED BY <1>0, <2>5, <2>8 DEF ClientInv
<1> QED BY <1>1, <1>2

LEMMA InitClient == Init => ClientInv
<1> SUFFICES ASSUME Init PROVE ClientInv
  OBVIOUS
<1>1. /\ client.pc = "away" /\ client.queue = None /\ client.backlog = <<>> /\ client.replay = <<>>
      /\ client.last = 0 /\ client.got = <<>> /\ log = <<>>
  BY DEF Init
<1>2. GotFacts(<<>>, 0, <<>>) /\ ReplayFacts(<<>>, 0, <<>>) /\ QueueFacts(<<>>, <<>>, Casting)
  BY DEF GotFacts, ReplayFacts, QueueFacts, EvidenceIn
<1>3. WaitingOf(client) = <<>>
  BY <1>1 DEF WaitingOf
<1> QED BY <1>1, <1>2, <1>3 DEF ClientInv, ClientFacts

LEMMA ClientNext ==
    ASSUME TypesInv, LogInv, ClientInv, [Next]_vars
    PROVE  ClientInv'
<1>1. ASSUME NEW s \in Starts, StartStep(s) \/ StoreError(s) \/ LaneRaises(s) PROVE ClientInv'
  BY <1>1, StartStepClient, AppendStartedClient, EmitClient, CastEvidenceClient, AppendTailClient,
     SelectRouteClient, AppendLaneClient, CastLaneClient, Zenon DEF StartStep
<1>2. ASSUME NEW a \in Arenas, ArenaStep(a) PROVE ClientInv'
  <2>1. CASE AppendArena(a)
    BY <2>1, AppendArenaClient
  <2>2. CASE ~AppendArena(a)
    <3>1. log' = log /\ client' = client /\ start' = start
      BY <1>2, <2>2 DEF ArenaStep, CheckArena, ClaimRun, VerifyClaimed, FinalizeArena, Recover, ReleaseClaim
    <3>2. Casting' = Casting
      BY <3>1 DEF Casting
    <3> QED BY <3>1, <3>2, QuietClient
  <2> QED BY <2>1, <2>2
<1>3. ASSUME NEW p \in Approvals, ApprovalStep(p) PROVE ClientInv'
  <2>1. CASE AppendApproval(p) \/ CastApproval(p)
    BY <2>1, AppendApprovalClient, CastApprovalClient
  <2>2. CASE ReadRecord(p) \/ CheckAwaiting(p) \/ NumberEvents(p) \/ ResolveApproval(p)
    <3>1. log' = log /\ client' = client /\ start' = start
      BY <2>2 DEF ReadRecord, CheckAwaiting, NumberEvents, ResolveApproval
    <3>2. Casting' = Casting
      BY <3>1 DEF Casting
    <3> QED BY <3>1, <3>2, QuietClient
  <2> QED BY <1>3, <2>1, <2>2 DEF ApprovalStep
<1>4. ASSUME log' = log, client' = client, start' = start PROVE ClientInv'
  <2>1. Casting' = Casting
    BY <1>4 DEF Casting
  <2> QED BY <1>4, <2>1, QuietClient
<1>5. ASSUME NEW a \in Agents, RegisterAgent(a) PROVE ClientInv'
  BY <1>4, <1>5 DEF RegisterAgent
<1>6. CASE KillSwitch \/ UNCHANGED vars
  BY <1>4, <1>6 DEF KillSwitch, vars
<1>7. CASE ClientStep
  BY <1>7, ConnectClient, ReplayClient, SendReplayedClient, ForwardLiveClient DEF ClientStep
<1> QED
  BY <1>1, <1>2, <1>3, <1>5, <1>6, <1>7, Zenon DEF Next, ClientStep

\* A spectator sees events in order, each once, and misses no evidence before the last one it saw,
\* whatever it loses to a full queue and whenever it connects again (arena_ws, api/ws.py).
THEOREM SpectatorSafe == Spec => []EvidenceGapless
<1>1. Init => TypesInv /\ LogInv /\ ClientInv
  BY InitTypes, InitLog, InitClient
<1>2. TypesInv /\ LogInv /\ ClientInv /\ [Next]_vars => (TypesInv /\ LogInv /\ ClientInv)'
  BY LogStepKeeps, ClientNext
<1>3. TypesInv /\ LogInv /\ ClientInv => EvidenceGapless
  <2> SUFFICES ASSUME TypesInv, LogInv, ClientInv PROVE EvidenceGapless
    OBVIOUS
  <2>1. GotFacts(client.got, client.last, log) /\ client.got \in Seq(Nat) /\ log \in Seq(CompetitionEvent)
    BY DEF ClientInv, ClientFacts, TypesInv, SpectatorState
  <2>2. ASSUME NEW e \in Range(log), e.type \in EvidenceTypes, e.seq <= client.last
        PROVE  e.seq \in Range(client.got)
    <3>1. PICK i \in DOMAIN log : e = log[i]
      BY DEF Range
    <3>2. e.seq = i - 1 /\ i \in 1..Len(log) /\ Len(log) \in Nat
      BY <2>1, <3>1 DEF LogInv, LogIsOneRun
    <3>3. EvidenceIn(log, e.seq) /\ e.seq \in Nat
      BY <2>2, <3>1, <3>2 DEF EvidenceIn
    <3>4. PICK j \in 1..Len(client.got) : client.got[j] = e.seq
      BY <2>1, <2>2, <3>3 DEF GotFacts
    <3>5. j \in DOMAIN client.got
      BY <2>1, <3>4
    <3> QED BY <3>4, <3>5 DEF Range
  <2> QED BY <2>1, <2>2 DEF EvidenceGapless, GotFacts
<1> QED BY <1>1, <1>2, <1>3, PTL DEF Spec
=============================================================================
