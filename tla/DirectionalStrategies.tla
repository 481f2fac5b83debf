---- MODULE DirectionalStrategies ----
(* The deterministic directional agents: strategies/momentum.py, sharp_stats.py, drift.py,     *)
(* drift_features.py, value_vs_venue.py, market_quality.py, law/edge.py, and the prompt and    *)
(* answer of the model agent, runtime/agent.py.                                                *)
(* A log-odds level is represented by the probability in basis points, which orders it, and    *)
(* the thresholds are in that unit; factors are per cent.  A strategy is a record of its       *)
(* memory; a decision is a pair of the new memory and the action.                              *)
EXTENDS ScoringLaw

NoAction == [type |-> "WAIT", market_key |-> None, side |-> None, confidence |-> None]
Follow(c) == [type |-> "FOLLOW_MOMENTUM", market_key |-> c[2], side |-> c[3], confidence |-> None]

Open(state) == { m \in DOMAIN state.markets : ~state.markets[m].suspended }
Sides(state, m) == DOMAIN state.markets[m].stable_prob_bps
Level(state, k) == state.markets[k[1]].stable_prob_bps[k[2]]
Keys(state, markets) == UNION { { <<m, s>> : s \in Sides(state, m) } : m \in markets }

At(f, k, default) == IF k \in DOMAIN f THEN f[k] ELSE default
Put(f, k, v) == (k :> v) @@ f
LastOf(s, n) == IF Len(s) <= n THEN s ELSE SubSeq(s, Len(s) - n + 1, Len(s))

\* One action from the eligible candidates, whose market then cools down.
Fire(memory, candidates, cooldown) ==
  LET eligible == { c \in candidates : ~(c[2] \in DOMAIN memory.last_fire_tick
                                          /\ memory.tick - memory.last_fire_tick[c[2]] <= cooldown) }
      best == BestOf(eligible)
  IN  IF eligible = {} THEN <<memory, NoAction>>
      ELSE <<[memory EXCEPT !.last_fire_tick = Put(@, best[2], memory.tick)], Follow(best)>>

------------------------------------------------------------------------------
(* momentum.py: the baseline *)

\* Markets without an observed side keep their history as it is.
MomentumObserve(history, state, lookback) ==
  LET seen == { m \in Open(state) : Sides(state, m) # {} }
  IN  [m \in DOMAIN history \cup seen |->
         IF m \in seen THEN LastOf(Append(At(history, m, <<>>), state.markets[m].stable_prob_bps), lookback)
         ELSE history[m]]

prob_momentum(history, side) ==
  LET series == SelectSeq(history, LAMBDA obs : side \in DOMAIN obs)
  IN  IF Len(series) < 2 THEN 0 ELSE Last(series)[side] - Head(series)[side]

select_momentum_action(history, min_momentum) ==
  LET sides(m) == UNION { DOMAIN history[m][i] : i \in DOMAIN history[m] }
      candidates == { c \in UNION { { <<prob_momentum(history[m], s), m, s>> : s \in sides(m) } : m \in DOMAIN history } :
                        c[1] >= min_momentum }
  IN  IF candidates = {} THEN NoAction ELSE Follow(BestOf(candidates))

MomentumDecide(history, state, config) ==
  LET observed == MomentumObserve(history, state, config.lookback)
  IN  <<observed, select_momentum_action(observed, config.min_momentum_bps)>>

------------------------------------------------------------------------------
(* sharp_stats.py *)

Magnitude(x) == IF x < 0 THEN -x ELSE x
Larger(a, b) == IF a > b THEN a ELSE b
Smaller(a, b) == IF a < b THEN a ELSE b

\* Twice the median of a non-empty sequence, which keeps it a whole number.
MedianTwice(s) ==
  LET sorted == SortSeq(s, LAMBDA a, b : a < b)
      n == Len(s)
  IN  IF n % 2 = 1 THEN 2 * sorted[(n + 1) \div 2] ELSE sorted[n \div 2] + sorted[n \div 2 + 1]

ewma(values, alpha) ==
  FoldLeft(LAMBDA acc, v : (alpha * v + (100 - alpha) * acc) \div 100, Head(values), Tail(values))

\* The newest movement against the spread of the others, in hundredths.
robust_z(series, scale_floor) ==
  LET reference == Front(series)
      med == MedianTwice(reference)
      mad == MedianTwice([i \in DOMAIN reference |-> Magnitude(2 * reference[i] - med)])
      scale == Larger((148 * mad) \div 400, scale_floor)
  IN  IF Len(series) < 2 \/ scale = 0 THEN 0 ELSE (100 * (2 * Last(series) - med)) \div (2 * scale)

NewPageHinkley == [n |-> 0, mean |-> 0, m_hi |-> 0, min_hi |-> 0, m_lo |-> 0, max_lo |-> 0]

\* The cumulated deviations from the running mean, above and below.
PageHinkleyUpdate(ph, x, delta) ==
  LET mean == ph.mean + (x - ph.mean) \div (ph.n + 1)
      m_hi == ph.m_hi + x - mean - delta
      m_lo == ph.m_lo + x - mean + delta
  IN  [n |-> ph.n + 1, mean |-> mean, m_hi |-> m_hi, min_hi |-> Smaller(ph.min_hi, m_hi),
       m_lo |-> m_lo, max_lo |-> Larger(ph.max_lo, m_lo)]

PageHinkleyDirection(ph, lambda) ==
  LET up == ph.m_hi - ph.min_hi
      down == ph.max_lo - ph.m_lo
  IN  IF up > lambda /\ down > lambda THEN IF up >= down THEN "up" ELSE "down"
      ELSE IF up > lambda THEN "up" ELSE IF down > lambda THEN "down" ELSE None

------------------------------------------------------------------------------
(* momentum.py: sharp momentum *)

NewSharp == [smoothed |-> << >>, movements |-> << >>, ph |-> << >>, last_fire_tick |-> << >>, tick |-> -1]

_persists_up(window, minimum) ==
  LET recent == LastOf(window, 3)
  IN  /\ Len(recent) = 3
      /\ Cardinality({ i \in 1 .. 3 : recent[i] > 0 }) >= 2
      /\ TotalOf(recent) > minimum

\* The first level of a side seeds the smoother and the detector; later ones move them.
SharpObserve(memory, k, level, c) ==
  LET prev == memory.smoothed[k]
      smoothed == (c.alpha * level + (100 - c.alpha) * prev) \div 100
  IN  IF k \notin DOMAIN memory.smoothed
      THEN [memory EXCEPT !.smoothed = Put(@, k, level),
                          !.ph = Put(@, k, PageHinkleyUpdate(NewPageHinkley, level, c.ph_delta))]
      ELSE [memory EXCEPT !.smoothed = Put(@, k, smoothed),
                          !.movements = Put(@, k, LastOf(Append(At(memory.movements, k, <<>>), smoothed - prev),
                                                         c.lookback)),
                          !.ph = Put(@, k, PageHinkleyUpdate(memory.ph[k], smoothed, c.ph_delta))]

\* None, or the score of a side that passes every gate.
SharpScore(memory, k, seeded, c) ==
  LET window == At(memory.movements, k, <<>>)
      z == robust_z(window, c.scale_floor)
  IN  IF /\ ~seeded /\ memory.tick >= c.warmup_ticks /\ Len(window) >= c.min_movements
         /\ Last(window) > 0 /\ z >= c.z_threshold
         /\ PageHinkleyDirection(memory.ph[k], c.ph_lambda) = "up"
         /\ _persists_up(window, c.persistence_logit)
      THEN z ELSE None

\* Only the families with a clean close are looked at.
SharpDecide(memory, state, c) ==
  LET ticked == [memory EXCEPT !.tick = @ + 1]
      keys == Keys(state, Open(state) \cap c.clean_markets)
      observed == FoldFunction(LAMBDA k, mem : SharpObserve(mem, k, Level(state, k), c), ticked, [k \in keys |-> k])
      Score(k) == SharpScore(observed, k, k \notin DOMAIN memory.smoothed, c)
  IN  Fire(observed, { <<Score(k), k[1], k[2]>> : k \in { j \in keys : Score(j) # None } }, c.cooldown_ticks)

------------------------------------------------------------------------------
(* drift_features.py, drift.py *)

_direction(delta) == IF delta > 0 THEN 100 ELSE IF delta < 0 THEN -100 ELSE 0

drift_features(series, ts_first, ts, alpha) ==
  LET moves == [i \in 1 .. Len(series) - 1 |-> _direction(series[i + 1] - series[i])]
  IN  [cum_logit_drift |-> Last(series) - Head(series),
       trend_strength |-> IF moves = <<>> THEN 0 ELSE ewma(moves, alpha),
       tick_count |-> Len(series), horizon_s |-> ts - ts_first,
       market_quality |-> Last(series) \in 500 .. 9500, evidence_hash |-> <<series, ts_first, ts>>]

NewDrift == [logits |-> << >>, ts_first |-> << >>, last_fire_tick |-> << >>, tick |-> -1]

DriftObserve(memory, state, keys) ==
  [memory EXCEPT !.logits = [k \in keys |-> Append(At(memory.logits, k, <<>>), Level(state, k))] @@ @,
                 !.ts_first = @ @@ [k \in keys |-> state.ts]]

DriftOf(memory, state, k, c) == drift_features(memory.logits[k], memory.ts_first[k], state.ts, c.ewma_slope_alpha)

DriftGates(snap, c) ==
  /\ snap.tick_count >= Larger(c.min_tick_count, 2)
  /\ snap.horizon_s >= c.min_horizon_s
  /\ snap.cum_logit_drift >= c.cum_drift_logit_min
  /\ snap.trend_strength >= c.trend_strength_min

DriftKeys(state, c) == Keys(state, IF c.close_quality_required THEN Open(state) ELSE DOMAIN state.markets)

DriftDecide(memory, state, c) ==
  LET keys == DriftKeys(state, c)
      observed == DriftObserve([memory EXCEPT !.tick = @ + 1], state, keys)
      passing == { k \in keys : DriftGates(DriftOf(observed, state, k, c), c) }
  IN  Fire(observed, { <<DriftOf(observed, state, k, c).cum_logit_drift, k[1], k[2]>> : k \in passing }, c.cooldown_ticks)

------------------------------------------------------------------------------
(* value_vs_venue.py, law/edge.py, execution/legibility.py, venue_price_source.py: decimal     *)
(* prices in thousandths *)

executable_edge_bps(prob_bps, price) == IF price <= 0 THEN 0 ELSE (prob_bps * price) \div 1000 - 10000
venue_implied_prob_bps(price) == IF price <= 0 THEN 0 ELSE 10000000 \div price
mispricing_gap_bps(prob_bps, price) == prob_bps - venue_implied_prob_bps(price)

vvv_signal(prob_bps, price, min_edge) ==
  IF price = None THEN [gap_bps |-> None, estimated_executable_edge_bps |-> None, fired |-> FALSE]
  ELSE [gap_bps |-> mispricing_gap_bps(prob_bps, price),
        estimated_executable_edge_bps |-> executable_edge_bps(prob_bps, price),
        fired |-> executable_edge_bps(prob_bps, price) >= min_edge]

\* The last frame at or before ts, unless it is too old.  Frames are in time order.
VenueQuote(frames, ts, freshness) ==
  LET past == SelectSeq(frames, LAMBDA f : f.ts <= ts)
  IN  IF past = <<>> THEN None ELSE IF ts - Last(past).ts > freshness THEN None ELSE Last(past).price

\* The first mapped side in market and side order whose edge clears the minimum.
ValueVsVenueDecide(state, frames, c) ==
  LET Signal(k) == vvv_signal(Level(state, k), VenueQuote(At(frames, k, <<>>), state.ts, c.freshness_s), c.min_edge_bps)
      fired == { k \in Keys(state, Open(state)) : k \in c.mapped /\ Signal(k).fired }
  IN  IF fired = {} THEN NoAction ELSE Follow(BestOf({ <<0, k[1], k[2]>> : k \in fired }))

------------------------------------------------------------------------------
(* market_quality.py *)

evaluate_market_quality(prob_bps, tick_count, horizon_s, mapping_valid, close_quality, c) ==
  LET reasons == (IF prob_bps < c.band_lo \/ prob_bps > c.band_hi THEN {"near_certain"} ELSE {})
                 \cup (IF tick_count < c.min_tick_count THEN {"insufficient_ticks"} ELSE {})
                 \cup (IF horizon_s < c.min_horizon_s THEN {"insufficient_horizon"} ELSE {})
                 \cup (IF mapping_valid THEN {} ELSE {"unmapped"})
                 \cup (CASE close_quality = "suspended" -> {"close_suspended"}
                         [] close_quality = "priced" -> {} [] OTHER -> {"close_missing"})
  IN  [eligible |-> reasons = {}, reasons |-> reasons]

------------------------------------------------------------------------------
(* runtime/agent.py: a model that sees one snapshot and has no tools *)

build_decision_prompt(state) == [template |-> "snapshot", state |-> state]

ALLOWED_ACTION_TYPES == {"WAIT", "FLAG_VALUE", "FOLLOW_MOMENTUM", "FADE", "WIDEN_OR_SUSPEND"}

\* Text that is not an action of an allowed type raises: None.
parse_agent_action_json(content) ==
  IF content = None THEN None ELSE IF content.type \in ALLOWED_ACTION_TYPES THEN content ELSE None

\* model[prompt] is the content of the model's response.
emit_agent_action(state, model) == parse_agent_action_json(model[build_decision_prompt(state)])
====
