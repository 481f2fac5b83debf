---- MODULE ScoringLaw ----
(* The closing-line law and what is ranked on it: law/recompute.py, runtime/window.py,        *)
(* scoring.py, leaderboard.py, rank_guards.py and public_projection.py.                       *)
(* Probabilities are basis points and prices thousandths.  A CLV is <<n>> or PENDING; an      *)
(* average is the pair <<sum, count>> and averages are compared by cross multiplication.      *)
EXTENDS Absent, Integers, Sequences, FiniteSets, SequencesExt

PENDING == <<>>
Bps(n) == <<n>>

\* Candidates are <<score, market, side>>; markets and sides are numbers in the order of their
\* names.  The best has the highest score, then the first market, then the first side.
BestOf(candidates) ==
  CHOOSE c \in candidates : \A d \in candidates :
    \/ c[1] > d[1]
    \/ c[1] = d[1] /\ (c[2] < d[2] \/ (c[2] = d[2] /\ c[3] <= d[3]))

Clamp(x, lo, hi) == IF x < lo THEN lo ELSE IF x > hi THEN hi ELSE x

\* The Kelly fraction of a side in basis points; 0 without a decimal price above 1.
_kelly_fraction(market, side) ==
  LET p == market.stable_prob_bps[side]
      b == market.stable_price[side] - 1000
  IN  IF side \notin DOMAIN market.stable_price \/ b <= 0 THEN 0
      ELSE Clamp((b * p - 1000 * (10000 - p)) \div b, 0, 10000)

Outcome(clv, kelly, valid, reason) ==
  [edge_bps |-> IF clv = PENDING THEN 0 ELSE clv[1], clv_bps |-> clv,
   kelly_fraction |-> kelly, valid |-> valid, reason |-> reason]

_invalid(reason, kelly) == Outcome(Bps(0), kelly, FALSE, reason)

\* None when the side is priced in the state.
_validate_market(state, market, side, reasons) ==
  IF market \notin DOMAIN state.markets THEN reasons[1]
  ELSE IF state.markets[market].suspended THEN reasons[2]
  ELSE IF side \notin DOMAIN state.markets[market].stable_prob_bps THEN reasons[3]
  ELSE None

EntryReasons == <<"entry_market_absent", "entry_suspended", "entry_side_missing">>
ClosingReasons == <<"closing_market_absent", "closing_suspended", "closing_side_missing">>

\* The claimed edge of the action is never read: only recorded in the text of the check.
compute_clv_check(edge) == IF edge > 0 THEN "clv_pass" ELSE "clv_fail"

recompute(entry, action, closing, mode) ==
  LET refused == _validate_market(entry, action.market_key, action.side, EntryReasons)
      kelly == _kelly_fraction(entry.markets[action.market_key], action.side)
      unclosed == _validate_market(closing, action.market_key, action.side, ClosingReasons)
      clv == closing.markets[action.market_key].stable_prob_bps[action.side]
               - entry.markets[action.market_key].stable_prob_bps[action.side]
  IN  CASE action.type = "WAIT" -> Outcome(PENDING, 0, TRUE, "wait_unscored")
        [] action.type # "WAIT" /\ action.market_key = None -> _invalid("market_key_missing", 0)
        [] action.type # "WAIT" /\ action.market_key # None /\ action.side = None -> _invalid("side_missing", 0)
        [] OTHER ->
             IF refused # None THEN _invalid(refused, 0)
             ELSE IF closing = None
                  THEN IF mode = "live" THEN Outcome(PENDING, kelly, TRUE, "pending_closing")
                                        ELSE _invalid("closing_missing", kelly)
             ELSE IF unclosed # None THEN _invalid(unclosed, kelly)
             ELSE Outcome(Bps(clv), kelly, TRUE, compute_clv_check(clv))

\* The last fed snapshot that carries the market.
_closing_snapshots(snapshots) ==
  [m \in UNION { DOMAIN snapshots[i].markets : i \in DOMAIN snapshots } |->
     snapshots[CHOOSE i \in DOMAIN snapshots :
                 /\ m \in DOMAIN snapshots[i].markets
                 /\ \A j \in DOMAIN snapshots :
                      m \in DOMAIN snapshots[j].markets => j <= i]]

ClosingOf(closings, market) == IF market # None /\ market \in DOMAIN closings THEN closings[market] ELSE None

------------------------------------------------------------------------------
(* runtime/window.py *)

\* What RunWindow accepts: a duration belongs to fixed_duration and to nothing else.
_validate_duration(window) == (window.end_rule = "fixed_duration") <=> (window.duration_s # None)

TrueClv(end_rule) == end_rule = "pre_match"

is_pending_horizon(entry_ts, window_end_ts, horizon) == window_end_ts - entry_ts < horizon

------------------------------------------------------------------------------
(* scoring.py *)

is_scored(row) == row.valid /\ row.clv_bps \notin {None, PENDING}

is_window_scored(row) == row.window_clv_bps \notin {None, PENDING}

\* A confidence outside [0, 1] (here 0 .. 100) is not one.
_confidence(row) ==
  LET c == row.action.confidence IN IF c = None THEN None ELSE IF c \in 0 .. 100 THEN c ELSE None

TotalOf(numbers) == FoldLeft(LAMBDA a, b : a + b, 0, numbers)

_max_drawdown(clvs) ==
  FoldLeft(LAMBDA acc, clv :
             LET sum == acc.sum + clv
                 peak == IF sum > acc.peak THEN sum ELSE acc.peak
             IN  [sum |-> sum, peak |-> peak,
                  worst |-> IF sum - peak < acc.worst THEN sum - peak ELSE acc.worst],
           [sum |-> 0, peak |-> 0, worst |-> 0], clvs).worst

_brier(rows) ==
  LET told == SelectSeq(rows, LAMBDA r : _confidence(r) # None)
      Error(r) == LET d == _confidence(r) - (IF r.clv_bps[1] > 0 THEN 100 ELSE 0) IN d * d
  IN  IF told = <<>> THEN None
      ELSE <<TotalOf([i \in DOMAIN told |-> Error(told[i])]), Len(told)>>

Average(numbers) == IF numbers = <<>> THEN None ELSE <<TotalOf(numbers), Len(numbers)>>

_agent_metrics(agent, proof_mode, rows) ==
  LET scored == SortSeq(SelectSeq(rows, is_scored), LAMBDA r, s : r.tick_seq < s.tick_seq)
      clvs == [i \in DOMAIN scored |-> scored[i].clv_bps[1]]
      windowed == SelectSeq(rows, is_window_scored)
      windowClvs == [i \in DOMAIN windowed |-> windowed[i].window_clv_bps[1]]
      valid == Len(SelectSeq(rows, LAMBDA r : r.valid))
  IN  [agent_id |-> agent, proof_mode |-> proof_mode,
       avg_clv_bps |-> Average(clvs), total_clv_bps |-> TotalOf(clvs), sim_pnl |-> TotalOf(clvs),
       brier |-> _brier(scored), max_drawdown |-> _max_drawdown(clvs), action_count |-> Len(clvs),
       valid_count |-> valid, valid_pct |-> IF rows = <<>> THEN 0 ELSE (valid * 100) \div Len(rows),
       avg_window_clv_bps |-> Average(windowClvs), total_window_clv_bps |-> TotalOf(windowClvs),
       window_action_count |-> Len(windowClvs)]

\* Fields of the execution and strategy lanes, which may never be ranked on.
R3_R4_RANK_DENYLIST ==
  {"own_fill", "filled_size", "fill_price", "realized_pnl", "inventory", "real_fill_reconciliation",
   "post_trade_markout", "fill_size", "net_inventory", "markout_bps", "reconciled_fill_size",
   "realized_loss_session", "realized_loss_daily", "canceled", "ack_status", "status",
   "reconciled_state", "fill_ts", "reference_price"} \cup
  {"matched_opportunity_markout", "exposure_normalized_adverse_selection", "per_fill_markout",
   "fill_count", "abstention_count", "capital_at_risk", "arm_id", "decision_reason_codes"} \cup
  {"queue_ahead_size", "outbid_within_ms", "stepped_ahead_count", "executability",
   "available_size_at_price", "cumulative_size_to_clear", "cost_clearing_threshold",
   "fee_stress_multiplier"}

assert_no_r3r4_in_rank(metrics) == R3_R4_RANK_DENYLIST \cap DOMAIN metrics = {}

Before(q, r) == q[1] * r[2] < r[1] * q[2]    \* q and r are pairs <<sum, count>>

\* The rank key, as the strict order it sorts by: no average last, then the higher average, the
\* higher total, the lower Brier score, the shallower drawdown, more actions, and the id.
_rank_key(m, n) ==
  LET Lower(a, b) == IF a = None THEN FALSE ELSE IF b = None THEN TRUE ELSE Before(a, b)
      Cheaper == << Lower(m.brier, n.brier), Lower(n.brier, m.brier) >>
      Sharper == << IF m.avg_clv_bps = None THEN FALSE
                    ELSE IF n.avg_clv_bps = None THEN TRUE ELSE Before(n.avg_clv_bps, m.avg_clv_bps),
                    IF n.avg_clv_bps = None THEN FALSE
                    ELSE IF m.avg_clv_bps = None THEN TRUE ELSE Before(m.avg_clv_bps, n.avg_clv_bps) >>
      Tiers == << Sharper,
                  <<m.total_clv_bps > n.total_clv_bps, n.total_clv_bps > m.total_clv_bps>>,
                  Cheaper,
                  <<m.max_drawdown > n.max_drawdown, n.max_drawdown > m.max_drawdown>>,
                  <<m.action_count > n.action_count, n.action_count > m.action_count>>,
                  <<m.agent_id < n.agent_id, n.agent_id < m.agent_id>> >>
  IN  \E i \in DOMAIN Tiers :
        Tiers[i][1] /\ \A j \in 1 .. i - 1 : ~Tiers[j][1] /\ ~Tiers[j][2]

Ranked(rows) ==
  LET sorted == SortSeq(rows, _rank_key) IN [i \in DOMAIN sorted |-> [rank |-> i] @@ sorted[i]]

\* One metrics row for every agent of the run, in rank order.  Agent ids are numbers.
score_run(run) ==
  Ranked([i \in DOMAIN run.agent_ids |->
            _agent_metrics(run.agent_ids[i], run.proof_mode_map[run.agent_ids[i]],
                           SelectSeq(run.score_rows, LAMBDA r : r.agent_id = run.agent_ids[i]))])

------------------------------------------------------------------------------
(* leaderboard.py, clv_confidence.py *)

Anchored(rows) == Len(SelectSeq(rows, LAMBDA r : r.anchor_status = "anchored"))

_eligibility_badge(rows) ==
  IF Anchored(rows) = Len(rows) /\ rows # <<>> THEN "fully-proven"
  ELSE IF Anchored(rows) > 0 THEN "partially-proven" ELSE "unproven"

_summarize_anchor_status(rows) ==
  IF Anchored(rows) = Len(rows) /\ rows # <<>> THEN "all-anchored"
  ELSE IF Anchored(rows) > 0 THEN "some-pending" ELSE "none-anchored"

_summarize_source_mode(rows) ==
  LET modes == { rows[i].source_mode : i \in DOMAIN rows } \ {None}
  IN  CASE modes = {} -> "unknown" [] modes = {"replay"} -> "all-replay"
        [] modes = {"live"} -> "all-live" [] OTHER -> "mixed"

_summarize_proof_mode(rows) ==
  LET modes == { rows[i].proof_mode : i \in DOMAIN rows }
  IN  IF Cardinality(modes) = 1 THEN rows[1].proof_mode ELSE "mixed"

clv_confidence(count) == IF count <= 9 THEN "low" ELSE IF count <= 29 THEN "medium" ELSE "high"

_aggregate(agent, rows) ==
  LET Sum(Field(_)) == TotalOf([i \in DOMAIN rows |-> Field(rows[i])])
      actions == Sum(LAMBDA r : r.action_count)
      windows == Sum(LAMBDA r : r.window_action_count)
      total == Sum(LAMBDA r : r.total_clv_bps)
      windowTotal == Sum(LAMBDA r : r.total_window_clv_bps)
      briers == SelectSeq(rows, LAMBDA r : r.brier # None)
  IN  [agent_id |-> agent, runs |-> Len(rows),
       avg_clv_bps |-> IF actions > 0 THEN <<total, actions>> ELSE None,
       total_clv_bps |-> total, sim_pnl |-> Sum(LAMBDA r : r.sim_pnl), action_count |-> actions,
       valid_count |-> Sum(LAMBDA r : r.valid_count),
       avg_window_clv_bps |-> IF windows > 0 THEN <<windowTotal, windows>> ELSE None,
       total_window_clv_bps |-> windowTotal, window_action_count |-> windows,
       max_drawdown |-> FoldLeft(LAMBDA a, r : IF r.max_drawdown < a THEN r.max_drawdown ELSE a,
                                 rows[1].max_drawdown, rows),
       valid_pct |-> Sum(LAMBDA r : r.valid_pct) \div Len(rows),
       brier |-> IF briers = <<>> THEN None   \* the mean of the runs' means, in whole numbers
                 ELSE <<TotalOf([i \in DOMAIN briers |-> briers[i].brier[1] \div briers[i].brier[2]]),
                        Len(briers)>>,
       proof_mode |-> _summarize_proof_mode(rows), eligibility_badge |-> _eligibility_badge(rows),
       anchor_status |-> _summarize_anchor_status(rows), source_mode |-> _summarize_source_mode(rows),
       confidence |-> clv_confidence(actions)]

leaderboard(records) ==
  LET agents == { records[i].agent_id : i \in DOMAIN records }
      order == SetToSortSeq(agents, LAMBDA a, b : a < b)
  IN  Ranked([i \in DOMAIN order |->
                _aggregate(order[i], SelectSeq(records, LAMBDA r : r.agent_id = order[i]))])

------------------------------------------------------------------------------
(* public_agent.py, public_projection.py *)

\* None when a sealed row has no public binding: nothing of the run is projected.
project_public_rows(sealed, bindings, run_id, mode) ==
  IF \E i \in DOMAIN sealed : sealed[i].agent_id \notin DOMAIN bindings THEN None
  ELSE [i \in DOMAIN sealed |->
          [sealed[i] EXCEPT !.agent_id = bindings[sealed[i].agent_id]] @@
          [public_agent_id |-> bindings[sealed[i].agent_id], runtime_agent_id |-> sealed[i].agent_id,
           run_id |-> run_id, source_mode |-> mode]]

\* Only public agents are shown, and only official ones on the benchmark.
directional_board(rows, agents, board) ==
  LET Shown(r) ==
        /\ r.public_agent_id \in DOMAIN agents
        /\ agents[r.public_agent_id].visibility = "public"
        /\ board = "official_benchmark" => agents[r.public_agent_id].operator_class = "official"
  IN  leaderboard(SelectSeq(rows, Shown))

\* A brand, a wallet found in the owner reference, or a dash; the reference itself never shows.
owner_public_label(agent) ==
  IF agent.operator_class = "official" THEN "Veridex Labs"
  ELSE IF agent.owner_ref = None \/ agent.wallet = None THEN "dash"
  ELSE IF agent.wallet.length > 11 THEN <<agent.wallet.prefix, agent.wallet.suffix>> ELSE agent.wallet.text
====
