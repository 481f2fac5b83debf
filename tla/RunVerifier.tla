---- MODULE RunVerifier ----
(* What a sealed run is checked against: runtime/evidence.py, chain/anchor.py, chain/merkle.py, *)
(* checks/build.py, verifier/recompute.py and verifier/proof_card.py.                           *)
(* A hash is the value it is taken of.  Errors of the Python code are None.                     *)
EXTENDS ScoringLaw

\* A sealed event; the fields an event type does not use are None.
Event(seq, type, snapshot, action, result) ==
  [sequence_no |-> seq, event_type |-> type, snapshot |-> snapshot, action |-> action, result |-> result]

InOrder(events) == SortSeq(events, LAMBDA d, e : d.sequence_no < e.sequence_no)

\* Raises on a repeated sequence number.
compute_evidence_hash(events) ==
  IF \E i, j \in DOMAIN events : i # j /\ events[i].sequence_no = events[j].sequence_no THEN None
  ELSE InOrder(events)

build_raw_prescore_record(evidence_hash, action, agent, config_hash, tick_seq, proof_mode) ==
  [evidence_hash |-> evidence_hash, raw_action |-> action, agent_id |-> agent,
   model_prompt_config_hash |-> config_hash, tick_seq |-> tick_seq, proof_mode |-> proof_mode]

------------------------------------------------------------------------------
(* chain/merkle.py *)

\* One level: pairs from the left, an odd last leaf paired with itself.
PairLevel(level) ==
  IF Len(level) <= 1 THEN level
  ELSE [i \in 1 .. (Len(level) + 1) \div 2 |->
          <<level[2 * i - 1], IF 2 * i <= Len(level) THEN level[2 * i] ELSE level[2 * i - 1]>>]

merkle_root(leaves) ==
  LET level[k \in 0 .. Len(leaves)] == IF k = 0 THEN leaves ELSE PairLevel(level[k - 1])
  IN  IF leaves = <<>> THEN "EMPTY_ROOT" ELSE level[Len(leaves)][1]

domain_root(records) == merkle_root(records)

build_root_forest(event_log, score_rows, receipts, policy_results, competition) ==
  [event_log |-> domain_root(event_log), score |-> domain_root(score_rows),
   receipt |-> domain_root(receipts), policy |-> domain_root(policy_results),
   competition |-> domain_root(competition), payout_reserved |-> domain_root(<<>>)]

root_forest_for_run(run, scores) ==
  build_root_forest(run.run_events, scores, <<>>, <<>>, <<[run_id |-> run.run_id, mode |-> run.source_mode]>>)

------------------------------------------------------------------------------
(* chain/anchor.py, verifier/recompute.py *)

DEFAULT_SCHEMA_VERSIONS == [action_schema |-> "sports_v0", verifier |-> "v0"]

run_manifest(run_id, fixture_or_window_id, agent_ids, evidence_root, score_root, proof_mode_map, versions) ==
  [run_id |-> run_id, fixture_or_window_id |-> fixture_or_window_id, agent_ids |-> agent_ids,
   action_evidence_root |-> evidence_root, score_root |-> score_root,
   proof_mode_map |-> proof_mode_map, code_prompt_schema_versions |-> versions]

manifest_from_run(run, fixture_or_window_id, score_root) ==
  run_manifest(run.run_id, fixture_or_window_id, run.agent_ids, run.evidence_hash, score_root,
               run.proof_mode_map, DEFAULT_SCHEMA_VERSIONS)

recompute_score_root(scores) == scores

\* The fixture of the first event that carries a snapshot.
fixture_or_window_id_from_events(events) ==
  LET ticks == SelectSeq(InOrder(events), LAMBDA e : e.snapshot # None)
  IN  IF ticks = <<>> THEN None ELSE ticks[1].snapshot.fixture_id

\* The rebuilt manifest always carries the root forest.
verify_run(run, window_id) ==
  LET recomputed == compute_evidence_hash(run.run_events)
      scores == score_run(run)
      manifest == manifest_from_run(run, IF window_id # None THEN window_id
                                         ELSE fixture_or_window_id_from_events(run.run_events),
                                    recompute_score_root(scores))
  IN  IF recomputed = None
      THEN [evidence_match |-> FALSE, score_rows |-> <<>>, manifest_hash |-> None, verified |-> FALSE]
      ELSE [evidence_match |-> recomputed = run.evidence_hash, score_rows |-> scores,
            manifest_hash |-> [root_forest |-> root_forest_for_run(run, scores)] @@ manifest,
            verified |-> recomputed = run.evidence_hash]

------------------------------------------------------------------------------
(* checks/build.py *)

Verdict(holds) == IF holds THEN "pass" ELSE "fail"

_evidence_integrity(run) ==
  Verdict(LET h == compute_evidence_hash(run.run_events) IN h # None /\ h = run.evidence_hash)

\* The lines in the order of their rank, equal ranks in the order they stand in.
Sooner(rank, i, j) == rank[i] < rank[j] \/ (rank[i] = rank[j] /\ i < j)
Arranged(lines, rank) ==
  [k \in 1 .. Cardinality(lines) |->
     CHOOSE i \in lines : Cardinality({ j \in lines : Sooner(rank, j, i) }) = k - 1]

Listed(lines) == Arranged(lines, [i \in lines |-> i])
Picked(s, places) == [k \in DOMAIN places |-> s[places[k]]]

_marketstates_from_events(events) ==
  LET ticks == { i \in DOMAIN events : events[i].event_type = "tick" }
      order == Arranged(ticks, [i \in ticks |-> events[i].snapshot.tick_seq])
  IN  [k \in DOMAIN order |-> events[order[k]].snapshot]

\* Read in the order of their numbers, each decision belongs to the tick event that precedes it.
\* A later one of the same tick and agent replaces an earlier one.
_actions_from_events(events) ==
  LET number == [i \in DOMAIN events |-> events[i].sequence_no]
      Newest(lines) == CHOOSE i \in lines : \A j \in lines \ {i} : Sooner(number, j, i)
      ticks == { i \in DOMAIN events : events[i].event_type = "tick" }
      decided == { i \in DOMAIN events : events[i].event_type = "decision" }
      TickOf(i) == events[Newest({ j \in ticks : Sooner(number, j, i) })].snapshot.tick_seq
      KeyOf(i) == <<TickOf(i), events[i].result>>
  IN  [k \in { KeyOf(i) : i \in decided } |-> events[Newest({ i \in decided : KeyOf(i) = k })].action]

\* The configuration of the first such event, if there is one.
_window_config_from_events(events) ==
  LET found == { i \in DOMAIN events : events[i].event_type = "window_config" }
  IN  { events[i].result : i \in { j \in found : \A k \in found : j <= k } }

\* A score row against the sealed events alone.
RowAgrees(row, states, closings, actions, configs, mode) ==
  LET entries == { i \in DOMAIN states : states[i].tick_seq = row.tick_seq }
      entry == states[CHOOSE i \in entries : \A j \in entries : j <= i]
      key == <<row.tick_seq, row.agent_id>>
      redo == recompute(entry, actions[key], ClosingOf(closings, actions[key].market_key), mode)
      displayed == IF row.window_clv_bps # None THEN row.window_clv_bps ELSE row.clv_bps
  IN  /\ entries # {}
      /\ key \in DOMAIN actions
      /\ IF row.reason = "pending_horizon" /\ row.clv_bps = PENDING
         THEN \E c \in configs : is_pending_horizon(entry.ts, c.window_end_ts, c.min_clv_horizon_s)
         ELSE redo.clv_bps = displayed

_metrics_recomputed(scores, run) ==
  LET states == _marketstates_from_events(run.run_events)
      closings == _closing_snapshots(states)
      actions == _actions_from_events(run.run_events)
      configs == _window_config_from_events(run.run_events)
      mode == IF run.source_mode = "live" THEN "live" ELSE "replay"
  IN  IF run.score_rows = <<>> THEN "not_applicable"
      ELSE Verdict(/\ \A i \in DOMAIN run.score_rows :
                        RowAgrees(run.score_rows[i], states, closings, actions, configs, mode)
                   /\ score_run(run) = scores)

_manifest_bound(scores, run, manifest, manifest_hash) ==
  IF manifest = None THEN "not_applicable"
  ELSE Verdict(/\ manifest.run_id = run.run_id
               /\ manifest.action_evidence_root = run.evidence_hash
               /\ manifest.score_root = recompute_score_root(scores)
               /\ manifest.proof_mode_map = run.proof_mode_map
               /\ manifest_hash # None => manifest = manifest_hash)

_anchor(anchor, mode) ==
  IF anchor # None /\ anchor.status = "anchored" /\ anchor.signature # None THEN "pass"
  ELSE IF anchor # None /\ anchor.status = "pending" THEN "pending"
  ELSE IF mode = "replay" THEN "not_applicable" ELSE "pending"

\* No execution that policy denied was submitted.  The events are competition events.
_policy_obeyed(events) ==
  LET Of(type) == { i \in DOMAIN events : events[i].event_type = type }
      denied == { events[i].execution_id : i \in { j \in Of("policy_result") : events[j].decision = "denied" } }
      submitted == { events[i].execution_id : i \in Of("execution_submitted") }
  IN  IF Of("policy_result") = {} THEN "not_applicable"
      ELSE Verdict((denied \cap submitted) \ {None} = {})

_EXEC_EVENT_TYPES == {"policy_result", "execution_submitted", "execution_receipt", "approval_audit"}

_receipt_separation(events) ==
  LET lane == { i \in DOMAIN events : events[i].event_type \in _EXEC_EVENT_TYPES }
  IN  IF lane = {} THEN "not_applicable" ELSE Verdict(\A i \in lane : ~events[i].evidence)

build_check_results(scores, run, manifest, manifest_hash, anchor, events, mode) ==
  [evidence_integrity |-> _evidence_integrity(run),
   metrics_recomputed |-> _metrics_recomputed(scores, run),
   manifest_bound     |-> _manifest_bound(scores, run, manifest, manifest_hash),
   policy_obeyed      |-> _policy_obeyed(events),
   receipt_separation |-> _receipt_separation(events),
   anchor             |-> _anchor(anchor, mode)]

\* The share of ranked agents whose average beat the close.
_hit_rate(scores) ==
  LET scored == SelectSeq(scores, LAMBDA m : m.avg_clv_bps # None)
      wins == SelectSeq(scored, LAMBDA m : m.avg_clv_bps[1] > 0)
  IN  IF scored = <<>> THEN None ELSE <<Len(wins), Len(scored)>>

build_performance_metrics(scores) ==
  [clv |-> IF scores = <<>> THEN None ELSE scores[1].avg_clv_bps,
   window_clv |-> IF scores = <<>> THEN None ELSE scores[1].avg_window_clv_bps,
   hit_rate |-> _hit_rate(scores),
   scored_actions |-> TotalOf([i \in DOMAIN scores |-> scores[i].action_count])]

\* verifier/proof_card.py
proof_card_from_run_result(run, checks, anchor, metrics) ==
  [run_id |-> run.run_id, source_mode |-> run.source_mode, evidence_hash |-> run.evidence_hash,
   run_event_count |-> Len(run.run_events), proof_mode_map |-> run.proof_mode_map,
   checks |-> checks, anchor |-> anchor, metrics |-> metrics]
====
