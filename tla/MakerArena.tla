---- MODULE MakerArena ----
(* The maker arena: two quoting agents scored on the pinned tape by the markout of their quotes *)
(* against later fair values, the trade artifact that only diagnoses them, and the declared     *)
(* fill overlay that is never ranked (veridex/maker/). Prices are in units of 1e-5, markouts in *)
(* basis points, probabilities of a fill in percent; a hash is the value it is taken of; what   *)
(* Python raises is None or a record [void |-> reason]; a random generator's draws are inputs.  *)
EXTENDS DirectionalStrategies

One == 100000
Native(x) == x \in 0 .. One

\* Python's round of n / d: to the nearest, and halfway to the even one.
RoundEven(n, d) ==
  LET q == n \div d
      r == n % d
  IN  IF 2 * r > d \/ (2 * r = d /\ q % 2 = 1) THEN q + 1 ELSE q
RoundPrice(x) == 10 * RoundEven(x, 10)

------------------------------------------------------------------------------
(* state_machine.py, agents.py, timeline.py: what an agent quotes *)

classify_state(ctx) ==
  IF ctx.suspended \/ ctx.staleness_s > ctx.freshness_s \/ ctx.event_cooldown_active THEN "NO_QUOTE"
  ELSE IF Magnitude(ctx.inventory) >= ctx.inventory_extreme THEN "ONE_SIDED_REDUCE"
  ELSE IF ctx.fair_vol_bps >= ctx.fair_vol_widen_bps THEN "WIDEN" ELSE "MAKER_SAFE"

QuoteSet(clock, regime, quotes) == [ts |-> clock, regime |-> regime, quotes |-> quotes]
Bid(anchor, half) == [side |-> "BID", price |-> RoundPrice(anchor - half)]
Ask(anchor, half) == [side |-> "ASK", price |-> RoundPrice(anchor + half)]
_settlement_abstains(anchor, half) == anchor - half <= 0 \/ anchor + half >= One

HalfSpread == 2000

NaivePropose(mid, clock) ==
  IF _settlement_abstains(mid, HalfSpread) THEN QuoteSet(clock, "NO_QUOTE", <<>>)
  ELSE QuoteSet(clock, "QUIET", <<Bid(mid, HalfSpread), Ask(mid, HalfSpread)>>)

\* The gate context carries the defaults of the parameters the caller left out.
TxLineFairPropose(fv, ctx, widen_percent, clock) ==
  LET state == classify_state(ctx)
      half == IF state = "WIDEN" THEN (HalfSpread * widen_percent) \div 100 ELSE HalfSpread
  IN  IF fv = None \/ state = "NO_QUOTE" \/ _settlement_abstains(fv, half)
      THEN QuoteSet(clock, "NO_QUOTE", <<>>)
      ELSE QuoteSet(clock, state, IF state # "ONE_SIDED_REDUCE" THEN <<Bid(fv, half), Ask(fv, half)>>
                                  ELSE IF ctx.inventory > 0 THEN <<Ask(fv, half)>> ELSE <<Bid(fv, half)>>)

ArenaContext ==
  [suspended |-> FALSE, staleness_s |-> 0, freshness_s |-> 120, event_cooldown_active |-> FALSE, fair_vol_bps |-> 0,
   fair_vol_widen_bps |-> 300, inventory |-> 0, inventory_extreme |-> 50]

build_event_gate_timeline(quote_sets) ==
  [i \in DOMAIN quote_sets |->
    LET regime == quote_sets[i].regime
        prior_quoted == i > 1 /\ quote_sets[i - 1].quotes # <<>>
    IN  [ts |-> quote_sets[i].ts, regime |-> regime,
         action |-> IF regime = "NO_QUOTE" THEN (IF prior_quoted THEN "suspend_cancel" ELSE "wait")
                    ELSE IF regime = "WIDEN" THEN "widen" ELSE "quote"]]

------------------------------------------------------------------------------
(* markout.py, scorer.py, falsification.py, leaderboard.py: what the quotes were worth *)

\* None where Python raises.
forward_markout_bps(side, quote_price, ref_now, ref_future) ==
  IF ~(Native(quote_price) /\ Native(ref_now) /\ Native(ref_future)) \/ ref_now = 0 THEN None
  ELSE RoundEven((IF side = "BID" THEN 1 ELSE -1) * (ref_future - quote_price) * 10000, ref_now)

\* bisect_right: how many entries of an ascending series are not after ts.
BisectRight(series, ts) == Cardinality({ i \in DOMAIN series : series[i].ts <= ts })
_group_ref_at(series, ts) ==
  LET pos == BisectRight(series, ts) IN IF pos = 0 THEN None ELSE series[pos].fv
_group_fv_at(series, ts) == _group_ref_at(series, ts)

\* Every pair of a quote and a horizon, in the order of the loops.
QuotePairs(quote_sets, horizons) ==
  FlattenSeq([i \in DOMAIN quote_sets |->
    FlattenSeq([j \in DOMAIN quote_sets[i].quotes |->
      [k \in DOMAIN horizons |-> [ts |-> quote_sets[i].ts, quote |-> quote_sets[i].quotes[j], h |-> horizons[k]]]])])

score_r1_markout(quote_sets, series, horizons) ==
  LET pairs == QuotePairs(quote_sets, horizons)
      Now(p) == _group_ref_at(series, p.ts)
      Future(p) == _group_ref_at(series, p.ts + p.h)
      scored == SelectSeq(pairs, LAMBDA p : Now(p) # None /\ Future(p) # None)
      marks == [i \in DOMAIN scored |-> forward_markout_bps(scored[i].quote.side, scored[i].quote.price,
                                                            Now(scored[i]), Future(scored[i]))]
  IN  [marks |-> marks, scored |-> Len(scored), abstained |-> Len(pairs) - Len(scored)]

ToxicityQuality(marks) == [i \in DOMAIN marks |-> -Larger(0, -marks[i])]
Losses(marks) == [i \in DOMAIN marks |-> Larger(0, -marks[i])]

MeanRounded(s) == IF s = <<>> THEN None ELSE RoundEven(TotalOf(s), Len(s))

aggregate_agent_metrics(agent_id, marks, scored, abstained) ==
  [agent_id |-> agent_id, avg_markout_bps |-> MeanRounded(marks), avg_toxicity_loss_bps |-> MeanRounded(Losses(marks)),
   quote_count |-> Len(marks), scored |-> scored, abstained |-> abstained, real_executable_edge_bps |-> None]

\* The bootstrap: draws[i] says which entries of each list the i-th resample takes. Means are
\* compared over their common denominator.
_percentile(sorted, permille) == sorted[1 + ((permille * (Len(sorted) - 1)) \div 1000)]
falsify(naive, candidate, draws) ==
  IF naive = <<>> \/ candidate = <<>> THEN None
  ELSE LET common == Len(naive) * Len(candidate)
           Delta(n, c) == TotalOf(c) * Len(naive) - TotalOf(n) * Len(candidate)
           deltas == [i \in DOMAIN draws |-> Delta([j \in DOMAIN naive |-> naive[draws[i].naive[j]]],
                                                   [j \in DOMAIN candidate |-> candidate[draws[i].candidate[j]]])]
           sorted == SortSeq(deltas, <)
           low == _percentile(sorted, 25)
           high == _percentile(sorted, 975)
       IN  [delta_bps |-> RoundEven(Delta(naive, candidate), common), ci_low_bps |-> RoundEven(low, common),
            ci_high_bps |-> RoundEven(high, common),
            verdict |-> IF low > 0 THEN "SEPARATED" ELSE IF high < 0 THEN "INVERTED" ELSE "INCONCLUSIVE"]

Inconclusive == [delta_bps |-> 0, ci_low_bps |-> 0, ci_high_bps |-> 0, verdict |-> "INCONCLUSIVE"]
Headline(result) == IF result.verdict = "SEPARATED" THEN "SEPARATED_QUOTE_QUALITY" ELSE "INCONCLUSIVE"

_toxicity_quality(quote_sets, series, horizons) == ToxicityQuality(score_r1_markout(quote_sets, series, horizons).marks)
run_falsification_arena(naive_sets, candidate_sets, series, horizons, draws) ==
  LET result == falsify(_toxicity_quality(naive_sets, series, horizons),
                        _toxicity_quality(candidate_sets, series, horizons), draws)
  IN  IF result = None THEN None ELSE [falsification |-> result, headline |-> Headline(result)]

R2_BRACKET_KEYS ==
  { "bracket", "sensitivity", "r2", "r2_bracket", "simulated_expected_inventory_path", "simulated_expected_exposure",
    "simulated_spread_capture_range", "simulated_adverse_selection_haircut", "assumption_sensitivity", "realized_pnl",
    "fill_proof", "uses_real_orderbook", "uses_own_fills", "queue_modeled", "ranked", "fill_rule_source",
    "forbidden_trigger_assertion", "label", "protection_on", "protection_off", "event_gate_cost", "delta_note",
    "protection_on_off_ablation" }
assert_bracket_not_ranked(rows) == \A i \in DOMAIN rows : R2_BRACKET_KEYS \cap DOMAIN rows[i] = {}

\* Agents are numbered in the order of their ids.
maker_rank_key(m, n) ==
  LET Missing(r) == IF r.avg_toxicity_loss_bps = None THEN 1 ELSE 0
      Loss(r) == IF r.avg_toxicity_loss_bps = None THEN 0 ELSE r.avg_toxicity_loss_bps
      Key(r) == <<Missing(r), Loss(r), r.abstained, -r.quote_count, r.agent_id>>
  IN  \E i \in 1 .. 5 : Key(m)[i] < Key(n)[i] /\ \A j \in 1 .. i - 1 : Key(m)[j] = Key(n)[j]

rank_makers(rows) ==
  IF (\E i \in DOMAIN rows : ~assert_no_r3r4_in_rank(rows[i])) \/ ~assert_bracket_not_ranked(rows) THEN None
  ELSE LET sorted == SortSeq(rows, maker_rank_key) IN [i \in DOMAIN sorted |-> [maker_rank |-> i] @@ sorted[i]]

window_clv_analog(avg_markout_bps, scored) ==
  [window_markout_bps |-> avg_markout_bps, window_action_count |-> scored]

------------------------------------------------------------------------------
(* mapping.py, tape.py: the tape, one row per tick and resolved side *)

VenueSide == [part1 |-> "home", draw |-> "draw", part2 |-> "away"]
TXLINE_1X2_SIDES == <<"part1", "draw", "part2">>
SideOrder == [away |-> 1, draw |-> 2, home |-> 3]

recompute_records_hash(records) ==
  SortSeq(records, LAMBDA a, b : a.fixture_id < b.fixture_id
                                 \/ (a.fixture_id = b.fixture_id /\ SideOrder[a.side] < SideOrder[b.side]))

\* The last record of a coordinate wins; None without one.
RecordAt(records, Matches(_)) ==
  LET hits == { i \in DOMAIN records : Matches(records[i]) } IN IF hits = {} THEN None ELSE records[Max(hits)]

_load_frame_index(frames) == SortSeq(frames, LAMBDA a, b : a.ts < b.ts)

_aligned_mid(index, tick_ts, freshness_s) ==
  LET pos == BisectRight(index, tick_ts)
      usable == IF pos = 0 THEN FALSE ELSE tick_ts - index[pos].ts <= freshness_s
  IN  [mid |-> IF usable THEN index[pos].price ELSE None, staleness_s |-> IF usable THEN tick_ts - index[pos].ts ELSE None]

\* packs[f]: the states of a fixture's pack, in order, each with its probabilities or None;
\* frames[file]: the recorded venue prices.
build_cp1_maker_tape(records, packs, frames, freshness_s) ==
  LET Rows(f, state) ==
        LET sides == SelectSeq(TXLINE_1X2_SIDES, LAMBDA s :
                       /\ state.bps # None
                       /\ state.bps[s] # None
                       /\ RecordAt(records, LAMBDA r : r.fixture_id = f /\ r.side = VenueSide[s]) # None)
        IN  [i \in DOMAIN sides |->
              LET record == RecordAt(records, LAMBDA r : r.fixture_id = f /\ r.side = VenueSide[sides[i]])
                  aligned == _aligned_mid(_load_frame_index(frames[record.file]), state.ts, freshness_s)
              IN  [fixture_id |-> f, ts |-> state.ts, market_ref |-> VenueSide[sides[i]], fv |-> 10 * state.bps[sides[i]],
                   mid |-> aligned.mid, staleness_s |-> aligned.staleness_s]]
      fixtures == SetToSortSeq({ records[i].fixture_id : i \in DOMAIN records }, <)
  IN  FlattenSeq([i \in DOMAIN fixtures |->
        FlattenSeq([j \in DOMAIN packs[fixtures[i]] |-> Rows(fixtures[i], packs[fixtures[i]][j])])])

ByTime(rows) == SortSeq(rows, LAMBDA a, b : a.ts < b.ts)
GroupsOf(tape) == { <<tape[i].fixture_id, tape[i].market_ref>> : i \in DOMAIN tape }
RowsOf(tape, key) == SelectSeq(tape, LAMBDA row : <<row.fixture_id, row.market_ref>> = key)

------------------------------------------------------------------------------
(* trade_artifact.py, capture.py, trades.py: prints of other people's trades *)

EventKey(row) == <<row.tx_hash, row.log_index>>

\* The hash does not see the order of the rows, only how many times each occurs.
recompute_artifact_hash(rows) == [r \in ToSet(rows) |-> Cardinality({ i \in DOMAIN rows : rows[i] = r })]

dedup_normalized_rows(rows) ==
  LET Repeats(i) == \E j \in 1 .. i - 1 : EventKey(rows[j]) = EventKey(rows[i])
      kept == SelectSeq([i \in DOMAIN rows |-> i], LAMBDA i : ~Repeats(i))
  IN  [unique |-> [i \in DOMAIN kept |-> rows[kept[i]]], dropped |-> Len(rows) - Len(kept)]

PINNED == [source |-> "orderfilled", chain_id |-> 137, contract_address |-> "ctf-exchange-v2", event_signature |-> "OrderFilled",
           token_supplied_externally |-> TRUE, fixture_count |-> 18, side_count |-> 54, cleanroom_attestation |-> "clean-room, no gpl",
           mapping_content_hash |-> "pinned"]

_validate_provenance(a) ==
  /\ \A field \in DOMAIN PINNED : a[field] = PINNED[field]
  /\ Cardinality({ EventKey(a.rows[i]) : i \in DOMAIN a.rows }) = Len(a.rows)
  /\ a.artifact_hash = recompute_artifact_hash(a.rows)
  /\ a.rows_decoded = a.rows_matched_cp1 + a.rows_unmatched + a.rows_malformed + a.rows_duplicate_dropped
load_trade_artifact(raw) == IF raw # None /\ _validate_provenance(raw) THEN raw ELSE None

\* Asset 0 is the collateral, amounts are in its smallest unit; a price is usdc / shares.
decode_order_filled(log) ==
  LET maker_is_collateral == log.maker_asset = 0
      usdc == IF maker_is_collateral THEN log.maker_amount ELSE log.taker_amount
      shares == IF maker_is_collateral THEN log.taker_amount ELSE log.maker_amount
  IN  IF \/ maker_is_collateral = (log.taker_asset = 0)
         \/ shares = 0
         \/ usdc > shares
         \/ log.side # None /\ (log.side = 0) # maker_is_collateral
      THEN None
      ELSE [ts |-> log.ts, price |-> (usdc * One) \div shares, size |-> shares,
            aggressor_side |-> IF maker_is_collateral THEN "sell" ELSE "buy", condition_id |-> log.condition_id,
            token_id |-> IF maker_is_collateral THEN log.taker_asset ELSE log.maker_asset, tx_hash |-> log.tx_hash,
            log_index |-> log.log_index]

build_trade_artifact(rows, records) ==
  LET dedup == dedup_normalized_rows(rows)
      RecordOf(row) == RecordAt(records, LAMBDA r : r.token_id = row.token_id)
      Named(row) == IF RecordOf(row) = None THEN row ELSE [row EXCEPT !.condition_id = RecordOf(row).condition_id]
      unique == [i \in DOMAIN dedup.unique |-> Named(dedup.unique[i])]
      matched == SelectSeq(unique, LAMBDA row : RecordOf(row) # None)
      manifest == PINNED @@ [artifact_hash |-> recompute_artifact_hash(unique), rows_decoded |-> Len(rows),
                             rows_matched_cp1 |-> Len(matched), rows_unmatched |-> Len(unique) - Len(matched),
                             rows_malformed |-> 0, rows_duplicate_dropped |-> dedup.dropped, rows |-> unique]
  IN  IF _validate_provenance(manifest) THEN manifest ELSE None

\* No client, or one log that does not decode, and nothing is written.
capture_order_filled_artifact(logs, records) ==
  IF logs = None THEN None
  ELSE IF \E i \in DOMAIN logs : decode_order_filled(logs[i]) = None THEN None
  ELSE build_trade_artifact([i \in DOMAIN logs |-> decode_order_filled(logs[i])], records)

\* The market of a trade in a fixture, None when the fixture's records do not name its token.
TradeMarket(trade, records, fixture) ==
  LET record == RecordAt(records, LAMBDA r :
                  r.fixture_id = fixture /\ r.condition_id = trade.condition_id /\ r.token_id = trade.token_id)
  IN  IF record = None THEN None ELSE record.side
join_trades_to_fixture_with_accounting(trades, records, fixture) ==
  [joined |-> SelectSeq(trades, LAMBDA t : TradeMarket(t, records, fixture) # None),
   unmatched |-> Len(SelectSeq(trades, LAMBDA t : TradeMarket(t, records, fixture) = None))]

------------------------------------------------------------------------------
(* basis.py, diagnostic.py: what the trades say of the quotes *)

\* A gap is in tenths of a basis point.
decompose_gap(txline_fv, venue_native) ==
  LET gaps == [i \in DOMAIN txline_fv |-> txline_fv[i] - venue_native[i]]
      basis == RoundEven(MedianTwice(gaps), 20)
  IN  [basis_bps |-> basis, residual_gap_bps |-> [i \in DOMAIN gaps |-> RoundEven(gaps[i], 10) - basis], n |-> Len(gaps)]

\* A share is <<part, whole>>.
reach_from_residual(residual) ==
  IF Len(residual) < 2 THEN None
  ELSE <<Cardinality({ i \in 1 .. Len(residual) - 1 : Magnitude(residual[i + 1]) < Magnitude(residual[i]) }), Len(residual) - 1>>

build_convergence_reach(txline_fv, venue_native, horizon) ==
  LET d == decompose_gap(txline_fv, venue_native)
  IN  [basis_bps |-> d.basis_bps, residual_reach_fraction |-> reach_from_residual(d.residual_gap_bps),
       reach_horizon_s |-> horizon, n |-> d.n]

gather_near_trade_signals(trades, series, quote_price) ==
  LET near == SelectSeq(trades, LAMBDA t : Magnitude(t.price - quote_price) <= 10000)
      Now(t) == _group_fv_at(series, t.ts)
      After(t) == _group_fv_at(series, t.ts + 120)
      seen == SelectSeq(near, LAMBDA t : Now(t) # None /\ After(t) # None)
      signs == [i \in DOMAIN seen |-> IF seen[i].aggressor_side = "buy" THEN 1 ELSE -1]
  IN  [signs |-> signs, contributions |-> [i \in DOMAIN seen |-> signs[i] * (After(seen[i]) - Now(seen[i]))],
       near |-> Len(near), total |-> Len(trades)]

assemble_adverse_selection_report(s, candidate_loss, naive_loss, verdict) ==
  LET toxic == Len(SelectSeq(s.contributions, LAMBDA c : c > 0))
      n == Len(s.contributions)
      markout == IF n = 0 THEN None ELSE RoundEven(TotalOf(s.contributions), 10 * n)
  IN  [toxic_vs_benign |-> IF n = 0 THEN None ELSE <<toxic, Larger(1, n - toxic)>>,
       trades_near_quote_count |-> s.near,
       near_quote_trade_rate |-> IF s.total = 0 THEN None ELSE <<s.near, s.total>>,
       signed_flow_pressure_bps |-> IF s.signs = <<>> THEN None ELSE RoundEven(10000 * TotalOf(s.signs), Len(s.signs)),
       post_trade_fv_markout_bps |-> markout,
       picked_off_pressure |-> IF n = 0 THEN None ELSE <<toxic, n>>,
       toxicity_delta_bps |-> IF candidate_loss = None \/ naive_loss = None THEN None ELSE candidate_loss - naive_loss,
       independent_reference_verdict |->
         IF n = 0 THEN "INSUFFICIENT_DATA" ELSE IF markout > 0 /\ verdict = "SEPARATED" THEN "SEPARATED" ELSE "INCONCLUSIVE",
       real_executable_edge_bps |-> None]

compute_trade_aware_diagnostic(trades, series, quote_price, candidate_loss, naive_loss, verdict) ==
  assemble_adverse_selection_report(gather_near_trade_signals(trades, series, quote_price), candidate_loss, naive_loss, verdict)

UpperMedian(s) == SortSeq(s, <)[1 + (Len(s) \div 2)]
MidRows(rows) == SelectSeq(rows, LAMBDA row : row.mid # None)
_market_quote_price(rows) ==
  IF MidRows(rows) # <<>> THEN UpperMedian([i \in DOMAIN MidRows(rows) |-> MidRows(rows)[i].mid])
  ELSE IF rows # <<>> THEN UpperMedian([i \in DOMAIN rows |-> rows[i].fv]) ELSE One \div 2

\* A trade goes to the first fixture of the configuration whose records name it, and leaves the rest.
FixtureOf(trade, records, fixture_ids) ==
  LET hits == { i \in DOMAIN fixture_ids : TradeMarket(trade, records, fixture_ids[i]) # None }
  IN  IF hits = {} THEN None ELSE fixture_ids[Min(hits)]

_build_trade_aware_diagnostic(rows, records, fixture_ids, horizons, tape, marks, verdict) ==
  LET Joined(t) == FixtureOf(t, records, fixture_ids) # None
      matched == SelectSeq(rows, Joined)
      KeyOf(t) == <<FixtureOf(t, records, fixture_ids), TradeMarket(t, records, FixtureOf(t, records, fixture_ids))>>
      keys == SetToSeq({ KeyOf(matched[i]) : i \in DOMAIN matched })
      pooled == [i \in DOMAIN keys |-> gather_near_trade_signals(SelectSeq(matched, LAMBDA t : KeyOf(t) = keys[i]),
                                         ByTime(RowsOf(tape, keys[i])), _market_quote_price(RowsOf(tape, keys[i])))]
      signals == [signs |-> FlattenSeq([i \in DOMAIN keys |-> pooled[i].signs]),
                  contributions |-> FlattenSeq([i \in DOMAIN keys |-> pooled[i].contributions]),
                  near |-> TotalOf([i \in DOMAIN keys |-> pooled[i].near]),
                  total |-> TotalOf([i \in DOMAIN keys |-> pooled[i].total])]
      mids == MidRows(ByTime(tape))
  IN  [data_state |-> IF matched # <<>> THEN "REAL_TRADES" ELSE "INSUFFICIENT_DATA",
       rows_total |-> Len(rows), rows_matched |-> Len(matched),
       rows_unmatched |-> Len(SelectSeq(rows, LAMBDA t : ~Joined(t))),
       report |-> assemble_adverse_selection_report(signals, MeanRounded(Losses(marks[2])), MeanRounded(Losses(marks[1])), verdict),
       convergence |-> IF mids = <<>> THEN None
                       ELSE build_convergence_reach([i \in DOMAIN mids |-> mids[i].fv], [i \in DOMAIN mids |-> mids[i].mid],
                                                    IF horizons = <<>> THEN 60 ELSE horizons[1])]
_accounting_reconciles(d) == d.rows_total = d.rows_matched + d.rows_unmatched

------------------------------------------------------------------------------
(* r2_bracket.py, r2_suite.py: a declared overlay, computed from the configuration alone *)

ALLOWED_FILL_RULES == {"static_fill_prob", "static_touch_prob"}
ALLOWED_EX_ANTE_FIELDS ==
  {"quote_price", "quote_size", "quoted_half_spread", "half_spread", "ref_now", "ref_price", "latency_ms", "near_band"}

\* The allowlists leave nothing to the list of forbidden triggers except the free text of the model id.
FillAssumptionConfig(c) ==
  /\ ~c.queue_modeled
  /\ c.fill_probability_rule \in ALLOWED_FILL_RULES
  /\ c.ex_ante_fields \subseteq ALLOWED_EX_ANTE_FIELDS
  /\ c.rule_param_keys \subseteq {"p"}
  /\ c.cross_rule = "mid"
  /\ c.partial_fill_policy = "none"
  /\ ~c.model_id_names_trigger
_require_pinned_seed_and_paths(c) ==
  c.draw_mode = "SEEDED_STOCHASTIC" => c.seed # None /\ IF c.n_paths = None THEN FALSE ELSE c.n_paths > 0

_pinned_fill_probability(c) == IF "p" \in c.rule_param_keys THEN Smaller(Larger(c.p, 0), 100) ELSE 50

render_sensitivity_bracket(markouts) ==
  IF markouts = <<>> THEN None
  ELSE [pessimistic |-> Min(ToSet(markouts)), neutral |-> MeanRounded(markouts), optimistic |-> Max(ToSet(markouts)),
        queue_modeled |-> FALSE, ranked |-> FALSE]

\* Inventory is in units of 1e-4: a percentage of a basis point over a hundred.
_scenario(markout, c) ==
  LET p == _pinned_fill_probability(c)
  IN  [simulated_expected_inventory |-> p * markout, simulated_expected_exposure |-> Magnitude(p * markout),
       simulated_spread_capture_bps |-> RoundEven(p * markout, 100),
       simulated_adverse_selection_haircut_bps |-> RoundEven((100 - p) * markout, 100)]

Walk(steps) == [i \in DOMAIN steps |-> TotalOf(SubSeq(steps, 1, i))]

_deterministic_inventory_path(markouts, c) ==
  LET path == Walk([i \in DOMAIN markouts |-> _pinned_fill_probability(c) * markouts[i]])
  IN  [path |-> path, final |-> Last(path), paths |-> 1]

\* The interpolated percentile of ten times the sorted values.
InterpolatedPercentile(sorted, tenths) ==
  LET k == (Len(sorted) - 1) * tenths
      lo == k \div 10
  IN  IF k % 10 = 0 THEN 10 * sorted[lo + 1] ELSE sorted[lo + 1] * (10 - (k % 10)) + sorted[lo + 2] * (k % 10)

\* fills[i][j]: whether path i draws a fill at step j. Sums over the paths stand for their means.
_seeded_inventory_distribution(markouts, fills) ==
  LET walks == [i \in DOMAIN fills |-> Walk([j \in DOMAIN markouts |-> IF fills[i][j] THEN 100 * markouts[j] ELSE 0])]
      finals == SortSeq([i \in DOMAIN fills |-> Last(walks[i])], <)
      sums == [j \in DOMAIN markouts |-> TotalOf([i \in DOMAIN fills |-> walks[i][j]])]
  IN  [path |-> sums, final |-> Last(sums), paths |-> Len(fills),
       p10 |-> InterpolatedPercentile(finals, 1), p50 |-> InterpolatedPercentile(finals, 5),
       p90 |-> InterpolatedPercentile(finals, 9)]

render_r2_suite(markouts, c, fills) ==
  LET inventory == IF c.draw_mode = "SEEDED_STOCHASTIC" THEN _seeded_inventory_distribution(markouts, fills)
                   ELSE _deterministic_inventory_path(markouts, c)
      bracket == render_sensitivity_bracket(markouts)
      neutral == _scenario(bracket.neutral, c)
  IN  IF markouts = <<>> THEN None
      ELSE [simulated_expected_inventory_path |-> inventory,
            simulated_expected_exposure |-> Max({ Magnitude(inventory.path[i]) : i \in DOMAIN inventory.path }),
            simulated_spread_capture_range |-> <<_scenario(bracket.pessimistic, c).simulated_spread_capture_bps,
                                                 neutral.simulated_spread_capture_bps,
                                                 _scenario(bracket.optimistic, c).simulated_spread_capture_bps>>,
            simulated_adverse_selection_haircut |-> neutral.simulated_adverse_selection_haircut_bps,
            assumption_sensitivity |-> c,
            realized_pnl |-> None, real_executable_edge_bps |-> None, fill_proof |-> FALSE, ranked |-> FALSE]

\* The difference of two final inventories, over the product of their numbers of paths.
render_protection_ablation(markouts, on, off, fills) ==
  LET p == render_r2_suite(markouts, on, fills)
      q == render_r2_suite(markouts, off, fills)
      a == p.simulated_expected_inventory_path
      b == q.simulated_expected_inventory_path
  IN  [protection_on |-> p, protection_off |-> q, event_gate_cost |-> b.final * a.paths - a.final * b.paths]

------------------------------------------------------------------------------
(* rung_gate.py, config.py, runner.py, result.py: a run, or the reason it is void *)

assign_rung(has_mids, has_trades) == IF ~has_mids THEN None ELSE IF has_trades THEN "MM-R1.5" ELSE "MM-R1"

build_maker_run_config(fixture_ids, records, horizons, fill, artifact, universe_n) ==
  IF Len(fixture_ids) # universe_n THEN None
  ELSE [fixture_ids |-> fixture_ids, mapping_content_hash |-> recompute_records_hash(records), horizons |-> horizons,
        fill_assumption_hash |-> fill, trade_artifact_hash |-> IF artifact = None THEN None ELSE artifact.artifact_hash]

verify_pinned(cfg, expected) == cfg = expected
Void(reason) == [void |-> reason]

\* The first guard that fails, None when the run goes on.
VoidReason(cfg, expected, world, artifact, fill) ==
  LET loaded == load_trade_artifact(artifact)
  IN  IF ~verify_pinned(cfg, expected) THEN "config"
      ELSE IF recompute_records_hash(world.records) # cfg.mapping_content_hash THEN "mapping"
      ELSE IF ToSet(cfg.fixture_ids) # { world.records[i].fixture_id : i \in DOMAIN world.records } THEN "fixtures"
      ELSE IF cfg.trade_artifact_hash # None /\ loaded = None THEN "artifact"
      ELSE IF cfg.trade_artifact_hash # None /\ recompute_artifact_hash(loaded.rows) # cfg.trade_artifact_hash THEN "artifact hash"
      ELSE IF fill # None /\ fill # cfg.fill_assumption_hash THEN "fill assumption"
      ELSE None

\* The rows with a fresh mid are quoted; every row of the group serves as a reference.
_score_group(agent, rows, series, horizons) ==
  score_r1_markout([i \in DOMAIN rows |-> IF agent = 1 THEN NaivePropose(rows[i].mid, rows[i].ts)
                                          ELSE TxLineFairPropose(rows[i].fv, ArenaContext, 100, rows[i].ts)],
                   series, horizons)

ScoreTape(tape, horizons) ==
  LET keys == SetToSeq({ key \in GroupsOf(tape) : MidRows(RowsOf(tape, key)) # <<>> })
      Scored(agent) == [i \in DOMAIN keys |-> _score_group(agent, MidRows(ByTime(RowsOf(tape, keys[i]))),
                                                           ByTime(RowsOf(tape, keys[i])), horizons)]
  IN  [agent \in 1 .. 2 |->
        [marks |-> FlattenSeq([i \in DOMAIN keys |-> Scored(agent)[i].marks]),
         scored |-> TotalOf([i \in DOMAIN keys |-> Scored(agent)[i].scored]),
         abstained |-> TotalOf([i \in DOMAIN keys |-> Scored(agent)[i].abstained])]]

run_maker_arena(cfg, expected, world, artifact, fill, draws, fills) ==
  LET reason == VoidReason(cfg, expected, world, artifact, fill)
      tape == build_cp1_maker_tape(world.records, world.packs, world.frames, 120)
      by == ScoreTape(tape, cfg.horizons)
      raised == \E agent \in 1 .. 2 : None \in ToSet(by[agent].marks)
      verdict == IF by[1].marks = <<>> \/ by[2].marks = <<>> THEN Inconclusive
                 ELSE falsify(ToxicityQuality(by[1].marks), ToxicityQuality(by[2].marks), draws)
      per_agent == [agent \in 1 .. 2 |-> aggregate_agent_metrics(agent, by[agent].marks, by[agent].scored, by[agent].abstained)]
      board == rank_makers(per_agent)
      diagnostic == IF cfg.trade_artifact_hash = None THEN None
                    ELSE _build_trade_aware_diagnostic(artifact.rows, world.records, cfg.fixture_ids, cfg.horizons, tape,
                                                       [agent \in 1 .. 2 |-> by[agent].marks], verdict.verdict)
      markouts == by[1].marks \o by[2].marks
  IN  IF reason # None THEN Void(reason) ELSE IF raised THEN Void("markout")
      ELSE [config_hash |-> cfg, rung |-> assign_rung(TRUE, IF diagnostic = None THEN FALSE ELSE diagnostic.rows_matched > 0),
            per_agent |-> per_agent, maker_leaderboard |-> board, falsification |-> verdict, headline |-> Headline(verdict),
            trade_aware_diagnostic |-> diagnostic,
            window_clv_analog |-> window_clv_analog(board[1].avg_markout_bps, board[1].scored),
            real_executable_edge_bps |-> None,
            fixture_universe_n |-> Cardinality({ tape[i].fixture_id : i \in DOMAIN tape }),
            r2_bracket |-> IF fill = None \/ markouts = <<>> THEN None ELSE render_r2_suite(markouts, fill, fills)]

render_proof_card(result) ==
  [rung |-> result.rung, uncalibrated |-> result.r2_bracket # None, headline |-> result.headline,
   n_fixtures |-> result.fixture_universe_n, trades_not_fills_caveat |-> result.rung = "MM-R1.5",
   trade_aware_diagnostic_note |-> result.rung = "MM-R1.5" /\ result.trade_aware_diagnostic = None,
   r2_overlay_label |-> result.r2_bracket # None]
==============================================================================
