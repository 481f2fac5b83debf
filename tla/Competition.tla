----------------------------- MODULE Competition -----------------------------
(***************************************************************************)
(* One competition: its row in the store, its event log, the requests that *)
(* run it (POST /start and POST /arena), the execution lane that follows a *)
(* run, the operator's approvals and kill switch, and one spectator on the *)
(* arena websocket.  Every step between two awaits is an action; a request *)
(* is the identifier of the run it starts (the uuid it draws).             *)
(***************************************************************************)
EXTENDS ExecutionLane, SequencesExt

CONSTANTS
  Starts,         \* POST /competitions/{id}/start requests
  Arenas,         \* POST /competitions/{id}/arena requests
  Approvals,      \* POST /executions/{id}/approve requests
  Agents,         \* agents that may be on the roster: the arena's contract is all of them
  Eligible,       \* agents whose entry has execution_eligibility
  Bet,            \* the proposal a bet of an agent becomes
  Scenarios,      \* bound: [requests, config, roster] that are explored, config being
                  \* [mode, armed, env]
  Quotes,         \* quotes of a live venue
  Spectator,      \* GET /competitions/{id}/arena, the websocket
  QueueMax,       \* _CLIENT_QUEUE_MAXSIZE
  MaxConnects,    \* bound: connections the spectator makes
  None

Runs == Starts \cup Arenas

\* competition/models.py CompetitionStatus; OPEN is a status no endpoint sets.
CompetitionStatus == {"draft", "running", "finalized"}

\* competition/events.py: the event types that are sealed evidence, and those derived from it.
EvidenceTypes == {"market_tick", "agent_action"}
DerivedTypes ==
  {"competition_started", "law_result", "score_update", "proof_anchor", "competition_finalized",
   "execution_route", "policy_result", "execution_submitted", "execution_receipt", "approval_audit"}

\* An event of the log; exec names the execution it is about.
CompetitionEvent ==
  [seq: Nat, run: Runs, type: EvidenceTypes \cup DerivedTypes, exec: (Runs \X Agents) \cup {None}]

\* Requests are told apart; the roster and the envelope of a competition are well formed; no
\* queue of events is None.
ASSUME RequestsAssumption == Starts \cap Approvals = {}
ASSUME AgentsAssumption == IsFiniteSet(Agents)
ASSUME ScenariosAssumption ==
  \A sc \in Scenarios :
    /\ sc.config \in [mode: {"paper", "dry_run", "live_guarded"}, armed: BOOLEAN, env: PolicyEnvelope]
    /\ sc.roster \in SUBSET Agents
ASSUME QueueAssumption == QueueMax \in Nat /\ None \notin Seq(CompetitionEvent)

VARIABLES
  requests, \* the requests of this behaviour, chosen once
  config,   \* the competition's configuration (its envelope holds the kill switch)
  comp,     \* its row: status, run_id, roster
  log,      \* its persisted events, in the order they were appended
  runs,     \* sealed runs: the run events of a run, None before it is persisted
  records,  \* execution records by <<run, agent>>, None before they are appended
  orders,   \* what reached a venue or the dry-run, in order
  start,    \* the start requests
  arena,    \* the arena requests
  approval, \* the approval requests
  client    \* the spectator and its connection

vars == <<requests, config, comp, log, runs, records, orders, start, arena, approval, client>>

Event(seq, run, type, exec) == [seq |-> seq, run |-> run, type |-> type, exec |-> exec]

Seqs == {e.seq : e \in Range(log)}
LatestSeq == IF log = <<>> THEN -1 ELSE Max(Seqs)

------------------------------------------------------------------------------
(* The store. *)

\* Mutant: a store without the uniqueness of (competition_id, seq).
AcceptsAnySeq(batch) == TRUE

\* append_competition_events refuses a batch that repeats a seq, and then writes none of it.
NoDuplicateSeq(batch) == {e.seq : e \in Range(batch)} \cap Seqs = {}

AppendEvents(batch) == log' = log \o batch

\* The members of a finite set of numbers in ascending order.
InOrder(S) == [k \in 1..Cardinality(S) |-> CHOOSE n \in S : Cardinality({m \in S : m < n}) = k - 1]

\* list_competition_events(since_seq), ordered by seq.
ListEvents(since) ==
  LET seqs == InOrder({n \in Seqs : n > since})
  IN  [k \in DOMAIN seqs |-> CHOOSE e \in Range(log) : e.seq = seqs[k]]

SetStatus(status) == comp' = [comp EXCEPT !.status = status]

\* append_execution_record is an upsert: it does not look at what is there.
PutRecord(exec, status) == records' = [records EXCEPT ![exec] = status]

------------------------------------------------------------------------------
(* api/ws.py: the broadcaster and the spectator. *)

\* Mutant: an event for a full queue is dropped and the client stays.
BroadcastDrops(e) ==
  client' = IF client.queue = None \/ Len(client.queue) >= QueueMax THEN client
            ELSE [client EXCEPT !.queue = Append(@, e)]

\* put_nowait; a full queue disconnects the client, whose route then closes the socket.
Broadcast(e) ==
  client' = IF client.queue = None THEN client
            ELSE IF Len(client.queue) < QueueMax
                 THEN [client EXCEPT !.queue = Append(@, e)]
                 ELSE [client EXCEPT !.backlog = client.queue, !.queue = None]

\* What the forwarder still drains after the queue left the registry.
Pending == IF client.queue # None THEN client.queue ELSE client.backlog

DropHead ==
  IF client.queue # None THEN [client EXCEPT !.queue = Tail(@)]
                         ELSE [client EXCEPT !.backlog = Tail(@)]

\* The queue is registered before the store is read.  The spectator asks for what follows
\* the last seq it saw.
Connect ==
  /\ client.pc = "away"
  /\ client.connects < MaxConnects
  /\ client' = [client EXCEPT !.pc = "list", !.queue = <<>>, !.backlog = <<>>,
                              !.connects = @ + 1]
  /\ UNCHANGED <<requests, config, comp, log, runs, records, orders, start, arena, approval>>

Replay ==
  /\ client.pc = "list"
  /\ client' = [client EXCEPT !.pc = "replay", !.replay = ListEvents(client.last)]
  /\ UNCHANGED <<requests, config, comp, log, runs, records, orders, start, arena, approval>>

SendReplayed ==
  /\ client.pc = "replay"
  /\ client' = IF client.replay = <<>> THEN [client EXCEPT !.pc = "live"]
               ELSE [client EXCEPT !.replay = Tail(@), !.last = Head(client.replay).seq,
                                   !.got = Append(@, Head(client.replay).seq)]
  /\ UNCHANGED <<requests, config, comp, log, runs, records, orders, start, arena, approval>>

\* _forward_live: an event the replay already covered is dropped.
ForwardLive ==
  /\ client.pc = "live"
  /\ Pending # <<>>
  /\ LET e == Head(Pending)
     IN  client' = IF e.seq <= client.last THEN DropHead
                   ELSE [DropHead EXCEPT !.last = e.seq, !.got = Append(@, e.seq)]
  /\ UNCHANGED <<requests, config, comp, log, runs, records, orders, start, arena, approval>>

\* The client leaves, or _close_on_overflow closes a client that was too slow; either way
\* the queue is deregistered and what it held is gone.
Disconnect ==
  /\ client.pc \in {"list", "replay", "live"}
  /\ client' = [client EXCEPT !.pc = "away", !.queue = None, !.backlog = <<>>, !.replay = <<>>]
  /\ UNCHANGED <<requests, config, comp, log, runs, records, orders, start, arena, approval>>

------------------------------------------------------------------------------
(* Roster and kill switch. *)

\* register_agent, admitted by the store only while the roster is mutable.
RegisterAgent(a) ==
  /\ comp.status = "draft"
  /\ a \notin comp.roster
  /\ comp' = [comp EXCEPT !.roster = @ \cup {a}]
  /\ UNCHANGED <<requests, config, log, runs, records, orders, start, arena, approval, client>>

\* kill_switch_endpoint: no endpoint ever clears it (re-arm always answers 409).
KillSwitch ==
  /\ ~config.env.kill_switch
  /\ config' = [config EXCEPT !.env.kill_switch = TRUE]
  /\ UNCHANGED <<requests, comp, log, runs, records, orders, start, arena, approval, client>>

------------------------------------------------------------------------------
(* POST /start: api/router.py, competition/service.py, runtime/orchestrator.py *)

Goto(s, pc) == start' = [start EXCEPT ![s].pc = pc]

\* The endpoint's own read of the competition: the agents are built from this roster.
ResolveStart(s) ==
  /\ start[s].pc = "idle"
  /\ start' = [start EXCEPT ![s].pc = "begin", ![s].agents = comp.roster]
  /\ UNCHANGED <<requests, config, comp, log, runs, records, orders, arena, approval, client>>

\* start_competition reads it again; this read carries the status gate and the envelope.
Begin(s) ==
  /\ start[s].pc = "begin"
  /\ start' = [start EXCEPT ![s].pc = IF comp.status = "draft" THEN "mark" ELSE "refused",
                            ![s].env = config.env]
  /\ UNCHANGED <<requests, config, comp, log, runs, records, orders, arena, approval, client>>

\* Mutant: the run is announced with the status no endpoint ever leaves.
MarkOpen(s) ==
  /\ start[s].pc = "mark"
  /\ SetStatus("open")
  /\ Goto(s, "bind")
  /\ UNCHANGED <<requests, config, log, runs, records, orders, arena, approval, client>>

\* Status and run id are two unconditional writes.
MarkRunning(s) ==
  /\ start[s].pc = "mark"
  /\ SetStatus("running")
  /\ Goto(s, "bind")
  /\ UNCHANGED <<requests, config, log, runs, records, orders, arena, approval, client>>

BindRun(s) ==
  /\ start[s].pc = "bind"
  /\ comp' = [comp EXCEPT !.run_id = s]
  /\ Goto(s, "started")
  /\ UNCHANGED <<requests, config, log, runs, records, orders, arena, approval, client>>

StartedEvent(run) == Event(0, run, "competition_started", None)

\* The started event is persisted and not broadcast; when seq 0 is taken the request fails and
\* the competition stays as it is.
AppendStarted(s) ==
  /\ start[s].pc = "started"
  /\ IF NoDuplicateSeq(<<StartedEvent(s)>>)
     THEN /\ AppendEvents(<<StartedEvent(s)>>)
          /\ start' = [start EXCEPT ![s].pc = "emit",
                                    ![s].emit = <<[type |-> "tick", agent |-> None, bet |-> FALSE]>>]
     ELSE Goto(s, "failed") /\ UNCHANGED log
  /\ UNCHANGED <<requests, config, comp, runs, records, orders, arena, approval, client>>

EvidenceType(run_event) == IF run_event.type = "tick" THEN "market_tick" ELSE "agent_action"

\* build_evidence_event: run event n of the run is seq n + 1 of the log.
EvidenceEvent(run, n, run_event) == Event(n + 1, run, EvidenceType(run_event), None)

\* CompetitionRun._emit through the sink: the next run event is persisted ...
Emit(s) ==
  /\ start[s].pc = "emit"
  /\ start[s].emit # <<>>
  /\ LET e == EvidenceEvent(s, Len(start[s].events), Head(start[s].emit))
     IN  IF NoDuplicateSeq(<<e>>)
         THEN /\ AppendEvents(<<e>>)
              /\ start' = [start EXCEPT ![s].pc = "cast", ![s].events = Append(@, Head(start[s].emit)),
                                        ![s].emit = Tail(@)]
         ELSE Goto(s, "failed") /\ UNCHANGED log
  /\ UNCHANGED <<requests, config, comp, runs, records, orders, arena, approval, client>>

\* ... and then broadcast.
CastEvidence(s) ==
  /\ start[s].pc = "cast"
  /\ LET n == Len(start[s].events) - 1
     IN  Broadcast(EvidenceEvent(s, n, start[s].events[n + 1]))
  /\ Goto(s, "emit")
  /\ UNCHANGED <<requests, config, comp, log, runs, records, orders, arena, approval>>

\* feed: after the tick every agent decides under its timeout; a late or raising agent
\* becomes an error event.  One tick is fed.
Decide(s) ==
  /\ start[s].pc = "emit"
  /\ start[s].emit = <<>>
  /\ Len(start[s].events) = 1
  /\ start[s].agents # {}
  /\ \E outcome \in [start[s].agents -> {"bet", "wait", "error"}] :
       start' = [start EXCEPT ![s].emit =
                   LET as == SetToSeq(start[s].agents)
                   IN  [i \in DOMAIN as |->
                          [type |-> IF outcome[as[i]] = "error" THEN "error" ELSE "decision",
                           agent |-> as[i], bet |-> outcome[as[i]] = "bet"]]]
  /\ UNCHANGED <<requests, config, comp, log, runs, records, orders, arena, approval, client>>

\* Mutant: the closing snapshot is sealed as a run event that never went through the sink.
SealWithClosing(s) ==
  /\ start[s].pc = "emit"
  /\ start[s].emit = <<>>
  /\ Len(start[s].events) > 1 \/ start[s].agents = {}
  /\ runs' = [runs EXCEPT ![s] = Append(start[s].events, start[s].events[1])]
  /\ Goto(s, "parity")
  /\ UNCHANGED <<requests, config, comp, log, records, orders, arena, approval, client>>

\* finalize: the run is sealed and persisted.
Seal(s) ==
  /\ start[s].pc = "emit"
  /\ start[s].emit = <<>>
  /\ Len(start[s].events) > 1 \/ start[s].agents = {}
  /\ runs' = [runs EXCEPT ![s] = start[s].events]
  /\ Goto(s, "parity")
  /\ UNCHANGED <<requests, config, comp, log, records, orders, arena, approval, client>>

\* A store error anywhere in the run leaves the competition RUNNING.
StoreError(s) ==
  /\ start[s].pc \in {"bind", "started", "emit", "parity", "tail"}
  /\ Goto(s, "failed")
  /\ UNCHANGED <<requests, config, comp, log, runs, records, orders, arena, approval, client>>

\* build_event_log: started, evidence, then the derived tail.
ProjectionPrefix(run, events) ==
  <<StartedEvent(run)>> \o [n \in DOMAIN events |-> EvidenceEvent(run, n - 1, events[n])]

Decisions(events) == {n \in DOMAIN events : events[n].type = "decision"}

\* One law result per score row, one score update per scored agent, anchor and finalized.
TailTypes(events) ==
  LET rows == 1..Cardinality(Decisions(events))
  IN  [i \in rows |-> "law_result"] \o [i \in rows |-> "score_update"]
        \o <<"proof_anchor", "competition_finalized">>

\* Events of the given types from seq base on.
Batch(run, base, types, exec) ==
  [i \in DOMAIN types |-> Event(base + i - 1, run, types[i], exec)]

\* _assert_prefix_parity: what was persisted live is what the sealed run projects.
Parity(s) ==
  /\ start[s].pc = "parity"
  /\ Goto(s, IF ListEvents(-1) = ProjectionPrefix(s, start[s].events) THEN "tail" ELSE "integrity_error")
  /\ UNCHANGED <<requests, config, comp, log, runs, records, orders, arena, approval, client>>

DerivedTail(s) == Batch(s, Len(start[s].events) + 1, TailTypes(start[s].events), None)

NextSeqOf(s) == Len(start[s].events) + 1 + Len(TailTypes(start[s].events))

\* The bets of a run in the order of their decisions.
Proposals(events) ==
  LET bets == InOrder({n \in Decisions(events) : events[n].bet})
  IN  [k \in DOMAIN bets |-> events[bets[k]]]

\* _select_execution_route: a live run that is not armed degrades to a dry run.
EffectiveMode == IF config.mode = "live_guarded" /\ config.armed THEN "live_guarded" ELSE "dry_run"

\* The tail is appended and not broadcast; a paper competition is finalized next.
AppendTail(s) ==
  /\ start[s].pc = "tail"
  /\ IF NoDuplicateSeq(DerivedTail(s))
     THEN /\ AppendEvents(DerivedTail(s))
          /\ start' = [start EXCEPT ![s].pc = IF config.mode = "paper" THEN "finalize" ELSE "route",
                                    ![s].todo = Proposals(start[s].events),
                                    ![s].next = NextSeqOf(s)]
     ELSE Goto(s, "failed") /\ UNCHANGED log
  /\ UNCHANGED <<requests, config, comp, runs, records, orders, arena, approval, client>>

\* _run_execution_block: the degrade is put on the record before the lane runs.
SelectRoute(s) ==
  /\ start[s].pc = "route"
  /\ LET degraded == config.mode = "live_guarded" /\ EffectiveMode # "live_guarded"
         route    == Batch(s, start[s].next, <<"execution_route">>, None)
     IN  IF degraded
         THEN IF NoDuplicateSeq(route)
              THEN /\ AppendEvents(route)
                   /\ Broadcast(route[1])
                   /\ start' = [start EXCEPT ![s].pc = "lane", ![s].next = @ + 1]
              ELSE Goto(s, "abort") /\ UNCHANGED <<log, client>>
         ELSE /\ Goto(s, "lane")
              /\ UNCHANGED <<log, client>>
  /\ UNCHANGED <<requests, config, comp, runs, records, orders, arena, approval>>

FakeQuote == [price |-> 205, size |-> 500, age |-> 0]

AnswersOf(mode) == IF mode = "dry_run" THEN {"filled"} ELSE VenueAnswers
QuotesOf(mode) == IF mode = "dry_run" THEN {FakeQuote} ELSE Quotes

\* run_execution_lane, one proposal: gates, quote, submission; the events stay with the lane.
LaneStep(s) ==
  /\ start[s].pc = "lane"
  /\ start[s].todo # <<>>
  /\ \E quote \in QuotesOf(EffectiveMode), answer \in AnswersOf(EffectiveMode) :
       LET a == Head(start[s].todo).agent
           d == LaneDecision(Bet[a], start[s].env, start[s].breaker, start[s].placed,
                             EffectiveMode, a \in Eligible, quote)
           receipt == ReceiptStatus(answer)
           status  == IF d.submit THEN SubmittedStatus(receipt) ELSE d.status
       IN  /\ d.submit \/ answer = "filled"
           /\ start' = [start EXCEPT
                ![s].pc = "record", ![s].todo = Tail(@), ![s].pending = <<a, status>>,
                ![s].lane = @ \o Batch(s, start[s].next + Len(@), LaneEvents(d.submit), <<s, a>>),
                ![s].placed = IF d.submit THEN @ + 1 ELSE @,
                ![s].breaker = IF d.submit THEN NextBreaker(@, start[s].env, EffectiveMode, receipt)
                                           ELSE @]
           /\ orders' = IF d.submit
                        THEN Append(orders, [run |-> s, agent |-> a, by |-> s, receipt |-> receipt])
                        ELSE orders
  /\ UNCHANGED <<requests, config, comp, log, runs, records, arena, approval, client>>

RecordExecution(s) ==
  /\ start[s].pc = "record"
  /\ PutRecord(<<s, start[s].pending[1]>>, start[s].pending[2])
  /\ start' = [start EXCEPT ![s].pc = "lane", ![s].pending = None]
  /\ UNCHANGED <<requests, config, comp, log, runs, orders, arena, approval, client>>

\* The lane's events are appended together once every proposal is through; when an approval
\* took their first seq in the meantime none of them is kept.
AppendLane(s) ==
  /\ start[s].pc = "lane"
  /\ start[s].todo = <<>>
  /\ IF NoDuplicateSeq(start[s].lane)
     THEN AppendEvents(start[s].lane) /\ Goto(s, "cast_lane")
     ELSE Goto(s, "abort") /\ UNCHANGED log
  /\ UNCHANGED <<requests, config, comp, runs, records, orders, arena, approval, client>>

CastLane(s) ==
  /\ start[s].pc = "cast_lane"
  /\ IF start[s].lane = <<>> THEN Goto(s, "finalize") /\ UNCHANGED client
     ELSE /\ Broadcast(Head(start[s].lane))
          /\ start' = [start EXCEPT ![s].lane = Tail(@)]
  /\ UNCHANGED <<requests, config, comp, log, runs, records, orders, arena, approval>>

\* A venue call or the store raises inside the execution block.
LaneRaises(s) ==
  /\ start[s].pc \in {"route", "lane", "record"}
  /\ EffectiveMode = "live_guarded"
  /\ Goto(s, "abort")
  /\ UNCHANGED <<requests, config, comp, log, runs, records, orders, arena, approval, client>>

\* Either way the competition ends FINALIZED: the run itself is sealed.
Finalize(s) ==
  /\ start[s].pc \in {"finalize", "abort"}
  /\ SetStatus("finalized")
  /\ Goto(s, IF start[s].pc = "abort" THEN "failed" ELSE "done")
  /\ UNCHANGED <<requests, config, log, runs, records, orders, arena, approval, client>>

------------------------------------------------------------------------------
(* POST /arena: api/router.py *)

ArenaGoto(a, pc) == arena' = [arena EXCEPT ![a] = pc]

\* _verify_intrinsic_arena_roster
ArenaRoster == comp.roster = Agents

CheckArena(a) ==
  /\ arena[a] = "idle"
  /\ ArenaGoto(a, IF comp.status = "draft" /\ ArenaRoster THEN "claim" ELSE "refused")
  /\ UNCHANGED <<requests, config, comp, log, runs, records, orders, start, approval, client>>

\* claim_competition_run: compare-and-set on DRAFT.
ClaimRun(a) ==
  /\ arena[a] = "claim"
  /\ IF comp.status = "draft"
     THEN /\ comp' = [comp EXCEPT !.status = "running", !.run_id = a]
          /\ ArenaGoto(a, "verify")
     ELSE ArenaGoto(a, "refused") /\ UNCHANGED comp
  /\ UNCHANGED <<requests, config, log, runs, records, orders, start, approval, client>>

\* The roster is verified again under the claim.
VerifyClaimed(a) ==
  /\ arena[a] = "verify"
  /\ ArenaGoto(a, IF ArenaRoster THEN "append" ELSE "recover")
  /\ UNCHANGED <<requests, config, comp, log, runs, records, orders, start, approval, client>>

ArenaEvents(a) == <<StartedEvent(a), Event(1, a, "competition_finalized", None)>>

\* The comparison may fail, and so may the append of its two events.
AppendArena(a) ==
  /\ arena[a] = "append"
  /\ \/ /\ NoDuplicateSeq(ArenaEvents(a))
        /\ AppendEvents(ArenaEvents(a))
        /\ ArenaGoto(a, "finalize")
     \/ ArenaGoto(a, "recover") /\ UNCHANGED log
  /\ UNCHANGED <<requests, config, comp, runs, records, orders, start, approval, client>>

FinalizeArena(a) ==
  /\ arena[a] = "finalize"
  /\ SetStatus("finalized")
  /\ ArenaGoto(a, "done")
  /\ UNCHANGED <<requests, config, log, runs, records, orders, start, approval, client>>

\* _recover_arena_claim reads the log; a read that fails counts as an empty log ...
Recover(a) ==
  /\ arena[a] = "recover"
  /\ \/ ArenaGoto(a, IF log = <<>> THEN "release" ELSE "seal")
     \/ ArenaGoto(a, "release")
  /\ UNCHANGED <<requests, config, comp, log, runs, records, orders, start, approval, client>>

\* ... and the claim is released from RUNNING only, or the partial log is sealed.
ReleaseClaim(a) ==
  /\ arena[a] \in {"release", "seal"}
  /\ IF arena[a] = "seal" THEN SetStatus("finalized")
     ELSE IF comp.status = "running"
          THEN comp' = [comp EXCEPT !.status = "draft", !.run_id = None]
          ELSE UNCHANGED comp
  /\ ArenaGoto(a, "failed")
  /\ UNCHANGED <<requests, config, log, runs, records, orders, start, approval, client>>

------------------------------------------------------------------------------
(* POST /executions/{id}/approve: api/router.py, execution/runner.py *)

ApprovalGoto(p, pc) == approval' = [approval EXCEPT ![p].pc = pc]

ReadRecord(p) ==
  /\ approval[p].pc = "idle"
  /\ \E x \in Runs \X Agents :
       /\ records[x] # None
       /\ approval' = [approval EXCEPT ![p].pc = "check", ![p].exec = x, ![p].status = records[x]]
  /\ UNCHANGED <<requests, config, comp, log, runs, records, orders, start, arena, client>>

\* The competition is read, the status of the record as it was read is checked, the run loaded.
CheckAwaiting(p) ==
  /\ approval[p].pc = "check"
  /\ approval' = [approval EXCEPT
       ![p].pc = IF approval[p].status = "awaiting_human" /\ runs[approval[p].exec[1]] # None
                 THEN "number" ELSE "refused",
       ![p].env = config.env]
  /\ UNCHANGED <<requests, config, comp, log, runs, records, orders, start, arena, client>>

\* The seq of the approval's events is taken from the log before anything is resolved.
NumberEvents(p) ==
  /\ approval[p].pc = "number"
  /\ approval' = [approval EXCEPT ![p].pc = "resolve", ![p].next = LatestSeq + 1]
  /\ UNCHANGED <<requests, config, comp, log, runs, records, orders, start, arena, client>>

\* resolve_approval.  Outside a dry run the venue is the SX Bet stub, which raises on a quote.
ResolveApproval(p) ==
  LET x == approval[p].exec
      a == x[2]
      env == approval[p].env
      decision == ApprovalDecision(Bet[a], env, config.mode, a \in Eligible, FakeQuote)
      preDenied == PreQuoteReasons(PreQuoteContext(Bet[a], env, ClosedBreaker, 0, config.mode,
                                                   a \in Eligible), env) # {}
      outcome == IF preDenied THEN "rejected" ELSE decision
  IN  /\ approval[p].pc = "resolve"
      /\ IF config.mode # "dry_run" /\ ~preDenied
         THEN ApprovalGoto(p, "failed") /\ UNCHANGED <<records, orders>>
         ELSE /\ PutRecord(x, IF outcome = "approved" THEN SubmittedStatus("filled") ELSE "rejected")
              /\ orders' = IF outcome = "approved"
                           THEN Append(orders, [run |-> x[1], agent |-> a, by |-> p, receipt |-> "filled"])
                           ELSE orders
              /\ approval' = [approval EXCEPT ![p].pc = "append",
                   ![p].events = Batch(x[1], approval[p].next, ApprovalEvents(outcome), x)]
      /\ UNCHANGED <<requests, config, comp, log, runs, start, arena, client>>

\* When another writer took the seq the record is resolved and its events are lost.
AppendApproval(p) ==
  /\ approval[p].pc = "append"
  /\ IF NoDuplicateSeq(approval[p].events)
     THEN AppendEvents(approval[p].events) /\ ApprovalGoto(p, "cast")
     ELSE ApprovalGoto(p, "failed") /\ UNCHANGED log
  /\ UNCHANGED <<requests, config, comp, runs, records, orders, start, arena, client>>

CastApproval(p) ==
  /\ approval[p].pc = "cast"
  /\ IF approval[p].events = <<>> THEN ApprovalGoto(p, "done") /\ UNCHANGED client
     ELSE /\ Broadcast(Head(approval[p].events))
          /\ approval' = [approval EXCEPT ![p].events = Tail(@)]
  /\ UNCHANGED <<requests, config, comp, log, runs, records, orders, start, arena>>

------------------------------------------------------------------------------

NewStart(env) ==
  [pc |-> "idle", agents |-> {}, env |-> env, emit |-> <<>>, events |-> <<>>, todo |-> <<>>,
   next |-> 0, lane |-> <<>>, placed |-> 0, breaker |-> ClosedBreaker, pending |-> None]

\* create_competition: a DRAFT with an empty roster; here some agents have registered.
Init ==
  /\ \E sc \in Scenarios :
       /\ requests = sc.requests
       /\ config = sc.config
       /\ comp = [status |-> "draft", run_id |-> None, roster |-> sc.roster]
  /\ log = <<>>
  /\ runs = [r \in Starts |-> None]
  /\ records = [x \in Runs \X Agents |-> None]
  /\ orders = <<>>
  /\ start = [s \in Starts |-> NewStart(config.env)]
  /\ arena = [a \in Arenas |-> "idle"]
  /\ approval = [p \in Approvals |-> [pc |-> "idle", exec |-> None, status |-> None,
                                      env |-> config.env, next |-> 0, events |-> <<>>]]
  /\ client = [pc |-> "away", queue |-> None, backlog |-> <<>>, replay |-> <<>>, last |-> 0,
               got |-> <<>>, connects |-> 0]

StartStep(s) ==
  \/ ResolveStart(s) \/ Begin(s) \/ MarkRunning(s) \/ BindRun(s) \/ AppendStarted(s)
  \/ Emit(s) \/ CastEvidence(s) \/ Decide(s) \/ Seal(s) \/ Parity(s) \/ AppendTail(s)
  \/ SelectRoute(s) \/ LaneStep(s) \/ RecordExecution(s) \/ AppendLane(s) \/ CastLane(s)
  \/ Finalize(s)

ArenaStep(a) ==
  \/ CheckArena(a) \/ ClaimRun(a) \/ VerifyClaimed(a) \/ AppendArena(a) \/ FinalizeArena(a)
  \/ Recover(a) \/ ReleaseClaim(a)

ApprovalStep(p) ==
  \/ ReadRecord(p) \/ CheckAwaiting(p) \/ NumberEvents(p) \/ ResolveApproval(p)
  \/ AppendApproval(p) \/ CastApproval(p)

Next ==
  \/ \E s \in Starts \cap requests : StartStep(s) \/ StoreError(s) \/ LaneRaises(s)
  \/ \E a \in Arenas \cap requests : ArenaStep(a)
  \/ \E p \in Approvals \cap requests : ApprovalStep(p)
  \/ \E a \in Agents : RegisterAgent(a)
  \/ KillSwitch
  \/ Spectator \in requests /\ Connect
  \/ Replay \/ SendReplayed \/ ForwardLive \/ Disconnect

Spec == Init /\ [][Next]_vars

------------------------------------------------------------------------------
(* Properties *)

StartPC == {"idle", "begin", "mark", "bind", "started", "emit", "cast", "parity", "tail", "route",
            "lane", "record", "cast_lane", "finalize", "abort", "done", "failed", "refused",
            "integrity_error"}

\* Type correctness of the competition row, the records and the requests.
CompTypeOK ==
  /\ config \in [mode: {"paper", "dry_run", "live_guarded"}, armed: BOOLEAN, env: PolicyEnvelope]
  /\ comp \in [status: CompetitionStatus, run_id: Runs \cup {None}, roster: SUBSET Agents]
  /\ \A x \in Runs \X Agents : records[x] \in ExecutionStatus \cup {None}
  /\ \A s \in Starts : start[s].pc \in StartPC /\ start[s].breaker.state \in CircuitState
  /\ \A e \in Range(log) : e.seq \in Nat /\ e.run \in Runs

\* However start, arena and approval requests interleave, the log of a competition has no gap
\* and every event of it belongs to one run (append_competition_events, store.py:2774).
LogIsOneRun ==
  /\ \A i \in DOMAIN log : log[i].seq = i - 1
  /\ \A d, e \in Range(log) : d.run = e.run

\* The live evidence never diverges from the projection of the sealed run: the integrity error
\* of _assert_prefix_parity is unreachable, and the log keeps the prefix of a sealed run.
SealedRunIsLogged ==
  \A s \in Starts : /\ start[s].pc # "integrity_error"
                    /\ runs[s] # None => IsPrefix(ProjectionPrefix(s, runs[s]), log)

\* Where the orders of the lane of run s are among all orders.
LaneOrders(s) == {i \in DOMAIN orders : orders[i].by = s}

\* The orders of the lane that failed in a row, the last of them its last order before k.
FailedInARow(s, k) ==
  {i \in LaneOrders(s) :
     i < k /\ \A j \in LaneOrders(s) : i <= j /\ j < k => orders[j].receipt \in FailureReceipts}

\* A lane never sends more orders than max_orders_per_run, and once threshold consecutive live
\* orders failed it sends no further one (run_execution_lane, execution/runner.py:297).
LaneWithinLimits ==
  \A s \in Starts :
    LET t == start[s].env.circuit_breaker_threshold
    IN  /\ Cardinality(LaneOrders(s)) <= start[s].env.max_orders_per_run
        /\ EffectiveMode = "live_guarded" /\ t > 0 =>
             \A k \in LaneOrders(s) : Cardinality(FailedInARow(s, k)) < t

\* A spectator sees events in order, each once, and across replay, live stream, overflow and
\* reconnect it misses no evidence event before the last one it saw (api/ws.py:187).
EvidenceGapless ==
  /\ \A i \in 1..(Len(client.got) - 1) : client.got[i] < client.got[i + 1]
  /\ \A e \in Range(log) : e.type \in EvidenceTypes /\ e.seq <= client.last => e.seq \in Range(client.got)

==============================================================================
