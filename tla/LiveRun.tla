---- MODULE LiveRun ----
(* One windowed live run: ingest/live_client.py feeds runtime/live_runner.py, which drives     *)
(* CompetitionRun of runtime/orchestrator.py, seals the window, anchors and verifies it.       *)
(* The provider publishes odds records; a record may miss the stream, and the stream may end   *)
(* or break at any record.  Agents, event sink, provider, store and anchor may fail.           *)
EXTENDS RunVerifier, DirectionalStrategies

CONSTANTS
  Windows,     \* the windows a run may be asked for
  OwnFixture,  \* window.fixture_id
  Allowlist,   \* the markets whose key starts with an allowlisted prefix
  Records,     \* the odds records without their time: [fixture, market, pct, in_running]
  Agents,      \* run order: a sequence of agent numbers; the first is the baseline
  Signatures,  \* what the anchor may return; None when the run is not to be anchored
  Replies,     \* what a model may respond with: an action, allowed or not, or None for a timeout or an error
  MaxRecords,  \* bound on the records the provider publishes
  MaxTime      \* bound on the clock, in half seconds

EndRules == {"pre_match", "fixed_duration", "manual_stop"}

ASSUME LiveRunAssumption ==
  /\ \A w \in Windows :
       /\ {"end_rule", "duration_s", "min_clv_horizon_s", "started_ts"} \subseteq DOMAIN w
       /\ _validate_duration(w) /\ w.end_rule \in EndRules
  /\ MaxRecords \in Nat /\ MaxTime \in Nat

\* None is not one of the numbers and words it is told from.
ASSUME AbsentAssumption ==
  /\ None \notin Int /\ None \notin EndRules
  /\ \A k \in 1 .. 3 : None \notin {EntryReasons[k], ClosingReasons[k]}

\* A run starts with one agent, a roster refuses an agent it has.
ASSUME AgentsAssumption ==
  /\ Agents \in Seq(Nat)
  /\ \A i, j \in DOMAIN Agents : Agents[i] = Agents[j] => i = j

VARIABLES
  pc,       \* streaming, closing, finalize, anchor, done, or failed: an exception left the runner
  window,   \* the RunWindow
  now,      \* the provider's clock
  stop,     \* stop_event
  history,  \* what the provider has published, in order
  told,     \* what it had published when the close was fetched
  seqs,     \* tick_seqs of the stream, by fixture
  run,      \* the CompetitionRun
  loop,     \* the locals of run_live_window
  feed,     \* the LiveFeedStatus
  result,   \* the sealed RunResult, None before finalize
  card      \* the proof card and the verify report, None before them

vars == <<pc, window, now, stop, history, told, seqs, run, loop, feed, result, card>>

------------------------------------------------------------------------------
(* ingest/txline_normalize.py, txline_client.py *)

\* A message without a parseable percentage is a suspended market.
MarketOf(r) ==
  LET sides == IF r.pct = None THEN {} ELSE {1}
  IN  [stable_prob_bps |-> [s \in sides |-> 100 * r.pct],
       stable_price |-> [s \in sides |-> 100000 \div r.pct],
       suspended |-> r.pct = None]

\* Messages of one fixture: the last one of a market counts; milliseconds become seconds.
marketstate_from_txline_odds(messages, tick_seq) ==
  LET keys == { messages[i].market : i \in DOMAIN messages }
      LatestOf(m) == messages[CHOOSE i \in DOMAIN messages :
                              /\ messages[i].market = m
                              /\ \A j \in DOMAIN messages : messages[j].market = m => j <= i]
      latest == CHOOSE t \in { messages[i].Ts : i \in DOMAIN messages } :
                  \A i \in DOMAIN messages : messages[i].Ts <= t
  IN  [fixture_id |-> messages[1].fixture, tick_seq |-> tick_seq, ts |-> latest \div 1000,
       phase |-> IF \E i \in DOMAIN messages : messages[i].in_running THEN 1 ELSE 0,
       markets |-> [m \in keys |-> MarketOf(LatestOf(m))]]

PreMatch(updates) == Picked(updates, Listed({ i \in DOMAIN updates : ~updates[i].in_running }))

reconstruct_closing(updates) == IF PreMatch(updates) = <<>> THEN None ELSE Last(PreMatch(updates))

\* None: nothing parseable after the retries, which raises.  Older updates may be out of retention.
FetchResults(fixture) ==
  LET own == { i \in DOMAIN history : history[i].fixture = fixture }
  IN  {None} \cup { Picked(history, Listed({ i \in own : i >= k })) : k \in own }

------------------------------------------------------------------------------
(* ingest/feed_health.py *)

derive_feed_state(connecting, connected, odds, heartbeats, last_frame_ts, now_ts, stale_after) ==
  CASE ~connected -> IF connecting THEN "connecting" ELSE "disconnected"
    [] connected /\ last_frame_ts # None /\ now_ts - last_frame_ts > stale_after -> "stale"
    [] OTHER -> IF odds > 0 THEN "live" ELSE IF heartbeats > 0 THEN "heartbeat_only" ELSE "connecting"

derive_live_feed_state(mode, connected, connecting, odds_ts, heartbeat_ts, now_ts, stale_after) ==
  LET Fresh(ts) == ts # None /\ now_ts - ts <= stale_after
  IN  CASE mode = "replay" -> "recorded_replay"
        [] mode # "replay" /\ ~connected -> IF connecting THEN "connecting" ELSE "disconnected"
        [] OTHER -> IF Fresh(odds_ts) THEN "live"
                    ELSE IF Fresh(heartbeat_ts) THEN "heartbeat_only"
                    ELSE IF odds_ts # None \/ heartbeat_ts # None THEN "stale" ELSE "connecting"

\* What the status holds before a connection.
LiveFeedStatus ==
  [connecting |-> FALSE, connected |-> FALSE, last_odds_ts |-> None, last_heartbeat_ts |-> None,
   odds_records_seen |-> 0, fixture_id |-> None]

mark_connecting(f) == [f EXCEPT !.connecting = TRUE, !.connected = FALSE]
mark_connected(f) == [f EXCEPT !.connected = TRUE, !.connecting = FALSE]
mark_disconnected(f) == [f EXCEPT !.connected = FALSE, !.connecting = FALSE]

record_odds_record(f, ts, fixture) ==
  [f EXCEPT !.last_odds_ts = ts, !.odds_records_seen = @ + 1, !.fixture_id = fixture]

last_frame_ts(f) ==
  CASE f.last_odds_ts = None -> f.last_heartbeat_ts
    [] f.last_odds_ts # None /\ f.last_heartbeat_ts = None -> f.last_odds_ts
    [] OTHER -> IF f.last_odds_ts > f.last_heartbeat_ts THEN f.last_odds_ts ELSE f.last_heartbeat_ts

feed_health(f, mode, now_ts, stale_after) ==
  LET last == last_frame_ts(f)
  IN  [source_mode |-> mode, connected |-> f.connected, ticks_seen |-> f.odds_records_seen,
       staleness_s |-> IF last = None THEN None ELSE now_ts - last,
       stale |-> last # None /\ now_ts - last > stale_after]

------------------------------------------------------------------------------
(* runtime/baseline.py, runtime/orchestrator.py *)

FLAG_THRESHOLD_BPS == 5000

\* The most probable open side, if it is probable enough; ties by market, then by side.
deterministic_baseline_action(state) ==
  LET open == { m \in DOMAIN state.markets : ~state.markets[m].suspended }
      candidates == UNION { { <<state.markets[m].stable_prob_bps[s], m, s>> :
                                s \in DOMAIN state.markets[m].stable_prob_bps } : m \in open }
      best == BestOf(candidates)
  IN  IF candidates = {} THEN NoAction
      ELSE IF best[1] < FLAG_THRESHOLD_BPS THEN NoAction
      ELSE [type |-> "FLAG_VALUE", market_key |-> best[2], side |-> best[3], confidence |-> None]

\* What each agent answers a snapshot with, gathered in agent order: the baseline its own action,
\* a model agent what its model's reply is admitted as.
Answers(snapshot) ==
  LET baseline == deterministic_baseline_action(snapshot)
      admitted == { emit_agent_action(snapshot, model) : model \in [{build_decision_prompt(snapshot)} -> Replies] }
  IN  { a \in [DOMAIN Agents -> admitted \cup {baseline}] :
          a[1] = baseline /\ \A i \in DOMAIN Agents \ {1} : a[i] \in admitted }

DecisionEvent(seq, agent, answer) ==
  IF answer = None THEN Event(seq, "error", None, None, agent)
                   ELSE Event(seq, "decision", None, answer, agent)

\* feed: the tick, then one event for every agent.  An event is recorded before the sink sees
\* it and numbered on after the sink returned; a sink that raises at the cut-th event ends the feed.
FeedRun(r, snapshot, answers, cut) ==
  LET n == 1 + Len(Agents)
      batch == [i \in 1 .. n |->
                  IF i = 1 THEN Event(r.sequence_no, "tick", snapshot, None, None)
                  ELSE DecisionEvent(r.sequence_no + i - 1, Agents[i - 1], answers[i - 1])]
      sent == IF cut = None THEN n ELSE cut
      counted == IF cut = None THEN n ELSE cut - 1
      answered == Listed({ i \in 1 .. counted - 1 : answers[i] # None })
  IN  [events |-> r.events \o SubSeq(batch, 1, sent),
       decisions |-> r.decisions \o [i \in DOMAIN answered |->
                       [agent |-> Agents[answered[i]], action |-> answers[answered[i]], state |-> snapshot]],
       snapshots |-> Append(r.snapshots, snapshot),
       sequence_no |-> r.sequence_no + counted]

FeedClosingRun(r, snapshot) ==
  [r EXCEPT !.events = Append(@, Event(r.sequence_no, "tick", snapshot, None, None)),
            !.snapshots = Append(@, snapshot), !.sequence_no = @ + 1]

ProofMode(agent) == IF agent = Agents[1] THEN "reproducible" ELSE "LLM/evidence-verified"

\* The score row of a decision, relabelled by the window; rule is None without a window.
ScoreRow(d, r, mode, end_ts, rule, horizon) ==
  LET redo == recompute(d.state, d.action, ClosingOf(_closing_snapshots(r.snapshots), d.action.market_key), mode)
      row == [agent_id |-> d.agent, tick_seq |-> d.state.tick_seq, proof_mode |-> ProofMode(d.agent),
              clv_bps |-> redo.clv_bps, window_clv_bps |-> None, valid |-> redo.valid,
              reason |-> redo.reason, kelly_fraction |-> redo.kelly_fraction, action |-> d.action]
  IN  IF rule = None \/ ~is_scored(row) THEN row
      ELSE IF is_pending_horizon(d.state.ts, end_ts, horizon)
           THEN [row EXCEPT !.reason = "pending_horizon", !.clv_bps = PENDING]
      ELSE IF ~TrueClv(rule) THEN [row EXCEPT !.window_clv_bps = row.clv_bps, !.clv_bps = None]
      ELSE row

\* finalize, given the window it is called with: the configuration event, the hash, the rows.
FinalizeRun(r, mode, rule, horizon) ==
  LET end_ts == IF r.snapshots = <<>> THEN None ELSE Last(r.snapshots).ts
      config == [end_rule |-> rule, min_clv_horizon_s |-> horizon, window_end_ts |-> end_ts]
      events == IF rule = None \/ r.snapshots = <<>> THEN r.events
                ELSE Append(r.events, Event(r.sequence_no, "window_config", None, None, config))
      hash == compute_evidence_hash(events)
  IN  IF hash = None THEN None
      ELSE [run_id |-> "run", source_mode |-> mode, agent_ids |-> Agents, run_events |-> events,
            score_rows |-> [i \in DOMAIN r.decisions |->
                              ScoreRow(r.decisions[i], r, mode, end_ts, rule, horizon)],
            evidence_hash |-> hash, proof_mode_map |-> [a \in Range(Agents) |-> ProofMode(a)]]

EmptyRun == [events |-> <<>>, decisions |-> <<>>, snapshots |-> <<>>, sequence_no |-> 0]

\* A recorded sequence of states, the i-th answered by answers[i].
run_competition(marketstates, answers, mode) ==
  FinalizeRun(FoldLeft(LAMBDA r, i : FeedRun(r, marketstates[i], answers[i], None), EmptyRun,
                       [i \in DOMAIN marketstates |-> i]),
              mode, None, None)

AnchorBlock(signature) ==
  [status |-> IF signature = None THEN "not_anchored" ELSE "anchored", signature |-> signature]

\* veridex_agent/run.py: the manifest of a standalone replay has no root forest.
_seal_replay(sealed, signature) ==
  LET scores == score_run(sealed)
      manifest == manifest_from_run(sealed, fixture_or_window_id_from_events(sealed.run_events),
                                    recompute_score_root(scores))
  IN  [checks |-> build_check_results(scores, sealed, manifest, manifest, AnchorBlock(signature), <<>>, "replay"),
       report |-> verify_run(sealed, None), anchored |-> manifest]

\* runtime/competition.py: the manifest of an arena run has it.
run_demo_competition(sealed, fixture, signature) ==
  LET scores == score_run(sealed)
      manifest == [root_forest |-> root_forest_for_run(sealed, scores)] @@
                  manifest_from_run(sealed, fixture, recompute_score_root(scores))
      Tagged(m) == m @@ [anchor_status |-> AnchorBlock(signature).status, source_mode |-> sealed.source_mode]
  IN  [checks |-> build_check_results(scores, sealed, manifest, manifest, AnchorBlock(signature), <<>>, "replay"),
       report |-> verify_run(sealed, None), anchored |-> manifest,
       card |-> proof_card_from_run_result(sealed, None, AnchorBlock(signature), build_performance_metrics(scores)),
       leaderboard |-> leaderboard([i \in DOMAIN scores |-> Tagged(scores[i])])]

------------------------------------------------------------------------------
(* runtime/live_runner.py *)

_filter_markets(state, allowlist) ==
  [state EXCEPT !.markets = [m \in DOMAIN state.markets \cap allowlist |-> state.markets[m]]]

\* Mutant: the close reuses the number of the last tick.
SameTickSeq(last) == last
ClosingTickSeq(last) == last + 1

_reconstruct_closing_state(updates, allowlist, tick_seq) ==
  IF reconstruct_closing(updates) = None THEN None
  ELSE _filter_markets(marketstate_from_txline_odds(PreMatch(updates), tick_seq), allowlist)

Init ==
  /\ pc = "streaming" /\ window \in Windows /\ now = 0 /\ stop = FALSE
  /\ history = <<>> /\ told = <<>>
  /\ seqs = [f \in { r.fixture : r \in Records } |-> 0]
  /\ run = EmptyRun
  /\ loop = [started_ts |-> None, last_tick_seq |-> -1, fed_any |-> FALSE, seen_markets |-> {},
             interrupted |-> FALSE, end_rule |-> window.end_rule]
  /\ feed = mark_connecting(LiveFeedStatus)
  /\ result = None /\ card = None

Advance ==
  /\ now < MaxTime
  /\ now' = now + 1
  /\ UNCHANGED <<pc, window, stop, history, told, seqs, run, loop, feed, result, card>>

\* Only a manual_stop window is given the event to look at.
RequestStop ==
  /\ pc = "streaming" /\ ~stop /\ window.end_rule = "manual_stop"
  /\ stop' = TRUE
  /\ UNCHANGED <<pc, window, now, history, told, seqs, run, loop, feed, result, card>>

Publishable(r) == Len(history) < MaxRecords
Stamped(r) == [fixture |-> r.fixture, market |-> r.market, pct |-> r.pct, in_running |-> r.in_running,
               Ts |-> 500 * now]

\* A record of the fixture that the stream does not deliver; the provider's history still has it.
\* The provider goes on whatever the runner does: a stream that ended early leaves more to come.
Miss(r) ==
  /\ Publishable(r) /\ r.fixture = OwnFixture
  /\ history' = Append(history, Stamped(r))
  /\ UNCHANGED <<pc, window, now, stop, told, seqs, run, loop, feed, result, card>>

\* The event wins over a tick that is ready as well.
Stopped == window.end_rule = "manual_stop" /\ stop

TickOf(r) == marketstate_from_txline_odds(<<Stamped(r)>>, seqs[r.fixture])

PastWindow(tick) ==
  \/ window.end_rule = "pre_match" /\ tick.phase = 1
  \/ /\ window.end_rule = "fixed_duration" /\ loop.started_ts # None
     /\ tick.ts > loop.started_ts + window.duration_s

\* The stream turns a record (a batch of one) into the next tick of its fixture.
Deliver(r) ==
  /\ pc = "streaming" /\ Publishable(r) /\ ~Stopped
  /\ history' = Append(history, Stamped(r))
  /\ seqs' = [seqs EXCEPT ![r.fixture] = @ + 1]
  /\ UNCHANGED <<window, now, stop, told, result, card>>

OtherFixture(r) ==
  /\ Deliver(r) /\ r.fixture # OwnFixture
  /\ feed' = mark_connected(feed)
  /\ UNCHANGED <<pc, run, loop>>

EndsWindow(r) ==
  /\ Deliver(r) /\ r.fixture = OwnFixture /\ PastWindow(TickOf(r))
  /\ pc' = "closing"
  /\ feed' = mark_disconnected(feed)
  /\ UNCHANGED <<run, loop>>

Feed(r) ==
  /\ Deliver(r) /\ r.fixture = OwnFixture /\ ~PastWindow(TickOf(r))
  /\ LET tick == _filter_markets(TickOf(r), Allowlist)
     IN  \E answers \in Answers(tick) :
           /\ run' = FeedRun(run, tick, answers, None)
           /\ loop' = [loop EXCEPT !.started_ts = IF @ = None THEN tick.ts ELSE @, !.fed_any = TRUE,
                                   !.last_tick_seq = tick.tick_seq,
                                   !.seen_markets = @ \cup DOMAIN tick.markets]
           /\ feed' = record_odds_record(mark_connected(feed), now, OwnFixture)
           /\ pc' = pc

\* A sink that raises leaves the loop like a broken stream does.
SinkFails(r) ==
  /\ Deliver(r) /\ r.fixture = OwnFixture /\ ~PastWindow(TickOf(r))
  /\ LET tick == _filter_markets(TickOf(r), Allowlist)
     IN  \E answers \in Answers(tick), cut \in 1 .. 1 + Len(Agents) :
           run' = FeedRun(run, tick, answers, cut)
  /\ feed' = mark_disconnected(feed)
  /\ loop' = [loop EXCEPT !.interrupted = loop.fed_any]
  /\ pc' = IF loop.fed_any THEN "closing" ELSE "failed"

Break(interrupted) ==
  /\ pc = "streaming"
  /\ feed' = mark_disconnected(feed)
  /\ loop' = [loop EXCEPT !.interrupted = interrupted /\ loop.fed_any]
  /\ pc' = IF interrupted /\ ~loop.fed_any THEN "failed" ELSE "closing"
  /\ UNCHANGED <<window, now, stop, history, told, seqs, run, result, card>>

StreamEnds == ~Stopped /\ Break(FALSE)
StreamBreaks == ~Stopped /\ Break(TRUE)
HonourStop == Stopped /\ Break(FALSE)

\* What follows the stream when no close is wanted.
NoClose ==
  /\ pc = "closing"
  /\ loop.interrupted \/ window.end_rule # "pre_match" \/ ~loop.fed_any
  /\ loop' = [loop EXCEPT !.end_rule = IF loop.interrupted /\ @ = "pre_match" THEN "manual_stop" ELSE @]
  /\ pc' = "finalize"
  /\ UNCHANGED <<window, now, stop, history, told, seqs, run, feed, result, card>>

\* Mutant: a close that misses a market is taken for the close.
AnyClose(closing) == closing # None

\* The close must cover every market the window saw.
CompleteClose(closing) ==
  IF closing = None THEN FALSE ELSE loop.seen_markets \subseteq DOMAIN closing.markets

FetchClose ==
  /\ pc = "closing" /\ ~loop.interrupted /\ window.end_rule = "pre_match" /\ loop.fed_any
  /\ \E updates \in FetchResults(OwnFixture) :
       LET closing == IF updates = None THEN None
                      ELSE _reconstruct_closing_state(updates, Allowlist, ClosingTickSeq(loop.last_tick_seq))
       IN  /\ run' = IF closing = None THEN run ELSE FeedClosingRun(run, closing)
           /\ loop' = [loop EXCEPT !.end_rule = IF CompleteClose(closing) THEN @ ELSE "manual_stop"]
  /\ pc' = "finalize"
  /\ told' = history
  /\ UNCHANGED <<window, now, stop, history, seqs, feed, result, card>>

\* Sealed and persisted, if there is a store.
Finalize ==
  /\ pc = "finalize"
  /\ result' = FinalizeRun(run, "live", loop.end_rule, window.min_clv_horizon_s)
  /\ result' # None
  /\ window' = [window EXCEPT !.started_ts = IF @ = None /\ run.snapshots # <<>> THEN run.snapshots[1].ts ELSE @]
  /\ pc' = "anchor"
  /\ UNCHANGED <<now, stop, history, told, seqs, run, loop, feed, card>>

\* The numbers repeat, the sink raises at the close or the configuration, or the store does.
FinalizeFails ==
  /\ pc = "finalize"
  /\ pc' = "failed"
  /\ UNCHANGED <<window, now, stop, history, told, seqs, run, loop, feed, result, card>>

\* Scores, manifest, anchor, checks and card; standalone_run then verifies the sealed run.
Certify(signature) ==
  /\ pc = "anchor"
  /\ LET scores == score_run(result)
         manifest == manifest_from_run(result, "window", recompute_score_root(scores))
     IN  card' = [checks |-> build_check_results(scores, result, manifest, manifest,
                                                 AnchorBlock(signature), <<>>, "live"),
                  report |-> verify_run(result, "window"), anchored |-> manifest]
  /\ pc' = "done"
  /\ UNCHANGED <<window, now, stop, history, told, seqs, run, loop, feed, result>>

\* The anchor raises: the run is in the store, without a card.
AnchorFails ==
  /\ pc = "anchor"
  /\ pc' = "failed"
  /\ UNCHANGED <<window, now, stop, history, told, seqs, run, loop, feed, result, card>>

Next ==
  \/ Advance \/ RequestStop
  \/ \E r \in Records : Miss(r) \/ OtherFixture(r) \/ EndsWindow(r) \/ Feed(r) \/ SinkFails(r)
  \/ StreamEnds \/ StreamBreaks \/ HonourStop
  \/ NoClose \/ FetchClose
  \/ Finalize \/ FinalizeFails
  \/ \E signature \in Signatures : Certify(signature)
  \/ AnchorFails

Spec == Init /\ [][Next]_vars

------------------------------------------------------------------------------

(* Whatever broke on the way, a run that is sealed passes its own checks: the hash, every CLV  *)
(* and the ranking follow from the sealed events alone, which the verifier orders by tick and  *)
(* the runner by arrival.                                                                      *)
ProofCardHolds ==
  card # None =>
    /\ \A check \in DOMAIN card.checks : card.checks[check] # "fail"
    /\ card.report.verified
    /\ card.report.score_rows = score_run(result)

\* What the provider had last said of a market before it went in running, when the close was fetched.
ProviderClose(market) ==
  LET said == { i \in DOMAIN told : /\ told[i].fixture = OwnFixture
                                    /\ told[i].market = market
                                    /\ ~told[i].in_running }
  IN  IF said = {} THEN None ELSE told[CHOOSE i \in said : \A j \in said : j <= i].pct

(* A row that is ranked on CLV is measured against the last pre-match update of its market the *)
(* provider had at the fetch, never against a tick of the stream: no missed record, broken     *)
(* stream, failed fetch, partial close or other end rule makes one pass for the other.         *)
(* Not claimed: that this update is the line at kick-off.  A stream that ends cleanly before   *)
(* it leaves pre-match updates to come after the fetch, and they do not count.                 *)
TrueClvIsTheClose ==
  result # None =>
    \A i \in DOMAIN result.score_rows :
      LET row == result.score_rows[i]
          entries == { s \in Range(run.snapshots) : s.tick_seq = row.tick_seq }
          entry == CHOOSE s \in entries : row.action.market_key \in DOMAIN s.markets
      IN  is_scored(row) =>
            /\ window.end_rule = "pre_match"
            /\ ProviderClose(row.action.market_key) # None
            /\ row.clv_bps = Bps(100 * ProviderClose(row.action.market_key)
                                   - entry.markets[row.action.market_key].stable_prob_bps[row.action.side])
====
