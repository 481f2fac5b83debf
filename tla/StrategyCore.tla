---- MODULE StrategyCore ----
(***************************************************************************)
(* The pure market-making core: mm_strategy/core.py, basis.py and          *)
(* config.py.  decide maps an observation, the carried state and the       *)
(* configuration to a decision and the next state; nothing else is read.   *)
(*                                                                         *)
(* Prices, spreads and sizes are whole units (a price unit is a thousandth *)
(* of a dollar, so One = 1000), ratios are whole percents, times are whole *)
(* clock units.  Books whose two touches add up to an odd number of units  *)
(* are not used, so that a mid is a whole unit.  The exponential decay of  *)
(* the half-life estimators is a table of the configuration (percent kept  *)
(* after dt), and their result is rounded down to a unit.                  *)
(***************************************************************************)
EXTENDS Absent, Integers, Sequences, FiniteSets, SequencesExt

CONSTANT One        \* the price 1.0 in price units
CONSTANT MsPerS     \* clock units in a second (1000 in the code)

ASSUME UnitsAssumption == One \in Nat \ {0} /\ MsPerS \in Nat \ {0}

Abs(x) == IF x < 0 THEN -x ELSE x
MinOf(x, y) == IF x <= y THEN x ELSE y
MaxOf(x, y) == IF x >= y THEN x ELSE y
LastN(s, n) == IF Len(s) <= n THEN s ELSE SubSeq(s, Len(s) - n + 1, Len(s))

----
(* config.py: the configuration and its zone validator. *)
Positive == Nat \ {0}
StrategyConfig ==
  [guard_enabled : BOOLEAN, residual_band : Positive, extreme_multiple : Positive,
   basis_estimator : {"rolling_median", "halflife_ewma"}, basis_window : Positive,
   basis_min_samples : Positive, decay : Seq(Nat),
   fv_freshness_ms : Positive, fv_source_lag_s : Nat, book_freshness_ms : Positive,
   max_leg_skew_ms : Nat, half_spread : Positive,
   boundary_zone : Nat \X Nat, two_sided_band : Nat \X Nat,
   min_top_depth : Positive, min_level_count : Positive, depth_collapse_ratio : Positive,
   ref_min_samples : Positive, book_state_dwell_before_quote_ms : Nat,
   mid_jump_threshold : Positive, spread_blowout_multiple : Positive,
   inventory_soft_limit : Positive, price_epsilon : Positive,
   event_smoother : {"ema_alpha", "halflife_ewma"}, event_smoother_param : Positive,
   market_status_max_age_ms : Positive,
   rolling_spread_window : Positive, rolling_depth_window : Positive]

ValidateZones(c) ==
  /\ 0 < c.boundary_zone[1] /\ c.boundary_zone[1] < c.boundary_zone[2] /\ c.boundary_zone[2] < One
  /\ c.two_sided_band[1] < c.two_sided_band[2]
  /\ c.boundary_zone[1] <= c.two_sided_band[1] /\ c.two_sided_band[2] <= c.boundary_zone[2]

(* basis.py. *)
RollingMedian(s) ==
  LET o == SortSeq(s, <)
      n == Len(s)
  IN  IF n % 2 = 1 THEN o[(n + 1) \div 2] ELSE (o[n \div 2] + o[n \div 2 + 1]) \div 2

HalflifeEwma(prev, value, dt, c) ==
  LET kept == c.decay[MinOf(dt, Len(c.decay) - 1) + 1]
  IN  (kept * prev + (100 - kept) * value) \div 100

BasisFromState(s, c) ==
  IF c.basis_estimator = "halflife_ewma"
  THEN s.basis_ewma_value
  ELSE RollingMedian([i \in DOMAIN LastN(s.basis_samples, c.basis_window) |->
                        LastN(s.basis_samples, c.basis_window)[i][2]])

FloorToTick(price, tick) == (price \div tick) * tick
CeilToTick(price, tick) == ((price + tick - 1) \div tick) * tick

EventSmootherUpdate(prev, value, c, dt) ==
  IF c.event_smoother = "ema_alpha"
  THEN ((100 - c.event_smoother_param) * prev + c.event_smoother_param * value) \div 100
  ELSE HalflifeEwma(prev, value, dt, c)

RollingSpreadReference(s, c) == RollingMedian(LastN(s, c.rolling_spread_window))
RollingDepthReference(s, c) == RollingMedian(LastN(s, c.rolling_depth_window))
ReferenceIsWarm(count, c) == count >= c.ref_min_samples

----
(* contracts.py: the carried state and its reset form. *)
FreshState ==
  [last_observation_sequence |-> None, last_book_source_epoch |-> None, last_as_of_ts |-> None,
   last_market_status_epoch |-> None, last_market_status_recv_ts |-> None,
   guard_watermark |-> None, last_phase |-> None, last_suspended |-> None, last_book_in_gap |-> None,
   basis_samples |-> <<>>, basis_ewma_value |-> None, basis_ewma_ts |-> None, basis_sample_count |-> 0,
   smoother_mid |-> None, smoother_mid_ts |-> None,
   spread_ref_samples |-> <<>>, depth_ref_samples |-> <<>>, event_cooldown_until_ts |-> None]

Decision(kind, reasons, plan) == [kind |-> kind, reason_codes |-> reasons, intent_plan |-> plan]
Hold(reasons) == Decision("HOLD", reasons, <<>>)
Decide_(kind, reasons) == Decision(kind, reasons, <<>>)

(* The market status as the core believes it. *)
StatusIsStale(o, c) ==
  o.market_status_recv_ts # None /\ o.as_of_ts - o.market_status_recv_ts > c.market_status_max_age_ms

StatusRegressed(o, s) ==
  /\ o.market_status_epoch # None /\ o.market_status_recv_ts # None
  /\ \/ s.last_market_status_epoch # None /\ o.market_status_epoch < s.last_market_status_epoch
     \/ s.last_market_status_recv_ts # None /\ o.market_status_recv_ts < s.last_market_status_recv_ts

EffectiveMarketStatus(o, s, c) ==
  IF o.market_status = "UNKNOWN" \/ StatusIsStale(o, c) \/ StatusRegressed(o, s)
  THEN "UNKNOWN" ELSE o.market_status

StatusWatermark(o, s, c) ==
  IF EffectiveMarketStatus(o, s, c) = "UNKNOWN"
  THEN <<s.last_market_status_epoch, s.last_market_status_recv_ts>>
  ELSE <<o.market_status_epoch, o.market_status_recv_ts>>

GuardWatermark(o, s, c) ==
  IF ~c.guard_enabled THEN None
  ELSE IF o.guard_fv # None THEN o.guard_fv.fv_source_epoch ELSE s.guard_watermark

ClearBasis(s) ==
  [s EXCEPT !.basis_samples = <<>>, !.basis_ewma_value = None, !.basis_ewma_ts = None,
            !.basis_sample_count = 0]

ClearVenue(s, mid, ts) ==
  [s EXCEPT !.smoother_mid = mid, !.smoother_mid_ts = ts,
            !.spread_ref_samples = <<>>, !.depth_ref_samples = <<>>]

InGap(o) == o.book_status \in {"gap", "excluded"}

(* Advance the watermarks of an accepted observation. *)
Accept(o, s, c, full_reset, basis_reset) ==
  LET mark == StatusWatermark(o, s, c)
      t == [s EXCEPT !.last_observation_sequence = o.observation_sequence,
                     !.last_book_source_epoch = o.book_source_epoch,
                     !.last_as_of_ts = o.as_of_ts,
                     !.last_market_status_epoch = mark[1],
                     !.last_market_status_recv_ts = mark[2],
                     !.guard_watermark = GuardWatermark(o, s, c),
                     !.last_phase = o.phase,
                     !.last_suspended = o.suspended,
                     !.last_book_in_gap = InGap(o)]
  IN  IF full_reset THEN ClearVenue(ClearBasis(t), None, None)
      ELSE IF basis_reset THEN ClearBasis(t) ELSE t

GuardEpochDelta(o, s, c) ==
  IF ~(c.guard_enabled /\ o.guard_fv # None /\ s.guard_watermark # None) THEN 0
  ELSE o.guard_fv.fv_source_epoch - s.guard_watermark

----
(* What the observation says of the book. *)
BothTouches(o) == o.bid # None /\ o.ask # None
Mid(o) == IF BothTouches(o) THEN (o.bid + o.ask) \div 2 ELSE None
Spread(o) == IF BothTouches(o) THEN o.ask - o.bid ELSE None
TopDepth(o) == IF o.bid_size # None /\ o.ask_size # None THEN MinOf(o.bid_size, o.ask_size) ELSE None
BookIsStale(o, c) == o.as_of_ts - o.book_recv_ts > c.book_freshness_ms
LegIsSkewed(o, c) == Abs(o.book_recv_ts - o.match_state_recv_ts) > c.max_leg_skew_ms

CooldownActive(o, s) == s.event_cooldown_until_ts # None /\ o.as_of_ts < s.event_cooldown_until_ts

ReferencesWarm(s, c) ==
  /\ s.smoother_mid # None
  /\ ReferenceIsWarm(Len(s.spread_ref_samples), c)
  /\ ReferenceIsWarm(Len(s.depth_ref_samples), c)

PhaseTransition(o, s) == s.last_phase # None /\ o.phase # s.last_phase
SuspensionReopen(o, s) == s.last_suspended = TRUE /\ ~o.suspended
GapEpisodeEnd(o, s) == s.last_book_in_gap = TRUE /\ ~InGap(o)

ResetReason(o, s) ==
  CASE o.tick_regime_changed -> "tick_regime_changed"
    [] ~o.tick_regime_changed /\ PhaseTransition(o, s) -> "phase_transition"
    [] OTHER -> "event_ref_warmup"

(* The venue-book events that only warm references can show; None if there is none. *)
VenueEventReason(o, s, c) ==
  LET depth == TopDepth(o)
      depthVanished == depth # None /\
        \/ depth < c.min_top_depth
        \/ 100 * depth < c.depth_collapse_ratio * RollingDepthReference(s.depth_ref_samples, c)
      spreadBlown == Spread(o) # None /\
        100 * Spread(o) > c.spread_blowout_multiple * RollingSpreadReference(s.spread_ref_samples, c)
      midJumped == Mid(o) # None /\ s.smoother_mid # None /\
        Abs(Mid(o) - s.smoother_mid) > c.mid_jump_threshold
  IN  IF depthVanished \/ spreadBlown \/ midJumped THEN "book_thin"
      ELSE IF o.level_count_in_band < c.min_level_count THEN "level_count_low" ELSE None

(* Exactly one row for an accepted observation; an earlier row pre-empts a later one. *)
ClassifyRow(o, s, c) ==
  IF o.tick_regime_changed \/ PhaseTransition(o, s) \/ SuspensionReopen(o, s) \/ GapEpisodeEnd(o, s)
  THEN "R"
  ELSE IF InGap(o) THEN "E"
  ELSE IF ReferencesWarm(s, c) /\ VenueEventReason(o, s, c) # None THEN "E"
  ELSE IF BookIsStale(o, c) \/ LegIsSkewed(o, c) THEN "D"
  ELSE IF CooldownActive(o, s) THEN "C"
  ELSE IF GuardEpochDelta(o, s, c) > 0 THEN "F"
  ELSE IF ~ReferencesWarm(s, c) THEN "W" ELSE "H"

----
(* Reasons that block a quote and nothing else; None when there is none. *)
StatusStreamReason(o, s, c) ==
  LET effective == EffectiveMarketStatus(o, s, c)
  IN  CASE effective = "UNKNOWN" -> "market_status_unknown"
        [] effective = "HALTED" -> "market_halted"
        [] effective = "CLOSED" -> "market_closed"
        [] effective = "ACTIVE" /\ ~o.order_stream_ok -> "stream_degraded"
        [] effective = "ACTIVE" /\ o.order_stream_ok /\ ~o.projection_fresh -> "projection_stale"
        [] OTHER -> None

TokenMappingReason(o) == IF o.token_id = "" THEN "token_mapping_missing" ELSE None
SuspendedBlockReason(o) == IF o.suspended THEN "txline_suspended" ELSE None

(* Training of the venue references by an admitted observation. *)
AdmitVenueUpdates(o, base, c) ==
  LET mid == Mid(o)
      dt == IF base.smoother_mid_ts = None THEN 0 ELSE o.as_of_ts - base.smoother_mid_ts
  IN  [base EXCEPT
        !.smoother_mid = IF mid = None THEN @
                         ELSE IF @ = None THEN mid ELSE EventSmootherUpdate(@, mid, c, dt),
        !.smoother_mid_ts = IF mid = None THEN @ ELSE o.as_of_ts,
        !.spread_ref_samples =
            IF Spread(o) = None THEN @ ELSE LastN(Append(@, Spread(o)), c.rolling_spread_window),
        !.depth_ref_samples =
            IF TopDepth(o) = None THEN @ ELSE LastN(Append(@, TopDepth(o)), c.rolling_depth_window)]

FvIsStale(g, o, c) ==
  \/ o.as_of_ts - g.fv_recv_ts > c.fv_freshness_ms
  \/ g.fv_recv_ts - MsPerS * g.fv_source_ts > MsPerS * c.fv_source_lag_s

GuardFvBlockReason(o, c) ==
  IF o.guard_fv = None THEN "txline_missing"
  ELSE IF FvIsStale(o.guard_fv, o, c) THEN "txline_stale"
  ELSE IF o.suspended THEN "txline_suspended" ELSE None

(* Training of the basis between fair value and mid. *)
AdmitBasisUpdates(o, base, t, c) ==
  IF ~c.guard_enabled \/ GuardFvBlockReason(o, c) # None \/ Mid(o) = None THEN t
  ELSE LET raw_gap == o.guard_fv.fv - Mid(o)
           counted == [t EXCEPT !.basis_sample_count = base.basis_sample_count + 1]
       IN  IF c.basis_estimator = "halflife_ewma"
           THEN [counted EXCEPT
                  !.basis_ewma_value = IF base.basis_ewma_value = None \/ base.basis_ewma_ts = None
                                       THEN raw_gap
                                       ELSE HalflifeEwma(base.basis_ewma_value, raw_gap,
                                                         o.as_of_ts - base.basis_ewma_ts, c),
                  !.basis_ewma_ts = o.as_of_ts]
           ELSE [counted EXCEPT
                  !.basis_samples = LastN(Append(@, <<o.as_of_ts, raw_gap>>), c.basis_window)]

CooldownDeadline(o, c) == o.as_of_ts + c.book_state_dwell_before_quote_ms

----
(* Rows R, E, D and C: no quote, and what each does to the state. *)
(* Mutant: a reset that starts no cooldown. *)
ApplyResetWithoutCooldown(o, base, c, reason) ==
  LET mid == IF o.book_status = "ok" THEN Mid(o) ELSE None
      ts == IF mid # None THEN o.as_of_ts ELSE None
  IN  [decision |-> Decide_("NO_QUOTE", <<reason>>), state |-> ClearVenue(ClearBasis(base), mid, ts)]

ApplyReset(o, base, c, reason) ==
  LET mid == IF o.book_status = "ok" THEN Mid(o) ELSE None
      ts == IF mid # None THEN o.as_of_ts ELSE None
  IN  [decision |-> Decide_("NO_QUOTE", <<reason>>),
       state |-> [ClearVenue(ClearBasis(base), mid, ts) EXCEPT
                    !.event_cooldown_until_ts = CooldownDeadline(o, c)]]

ApplyEvent(o, base, c) ==
  LET reason == CASE o.book_status = "gap" -> "book_gap"
                  [] o.book_status = "excluded" -> "book_excluded"
                  [] OTHER -> VenueEventReason(o, base, c)
  IN  [decision |-> Decide_("NO_QUOTE", <<IF reason = None THEN "book_thin" ELSE reason>>),
       state |-> [base EXCEPT !.event_cooldown_until_ts = CooldownDeadline(o, c)]]

ApplyDataDegraded(o, base, c) ==
  [decision |-> Decide_("NO_QUOTE", (IF BookIsStale(o, c) THEN <<"book_stale">> ELSE <<>>)
                                    \o (IF LegIsSkewed(o, c) THEN <<"leg_skew">> ELSE <<>>)),
   state |-> base]

ApplyCooldown(base) ==
  [decision |-> Decide_("NO_QUOTE", <<"event_cooldown">>), state |-> base]

----
(* The quote itself. *)
VenueAnchor(o, c) ==
  IF \/ o.book_status # "ok" \/ Mid(o) = None \/ TopDepth(o) = None
     \/ TopDepth(o) < c.min_top_depth \/ o.level_count_in_band < c.min_level_count
  THEN None ELSE Mid(o)

NoAnchorReason(o, c) ==
  IF o.book_status # "ok" \/ Mid(o) = None \/ TopDepth(o) = None \/ TopDepth(o) < c.min_top_depth
  THEN "book_thin" ELSE "level_count_low"

BasisIsWarm(s, c) == s.basis_sample_count >= c.basis_min_samples

ReducingLeg(net_position) == IF net_position > 0 THEN "ask" ELSE "bid"

GuardResidual(o, base, c, anchor) ==
  IF ~c.guard_enabled \/ GuardFvBlockReason(o, c) # None \/ ~BasisIsWarm(base, c) THEN None
  ELSE (o.guard_fv.fv - anchor) - BasisFromState(base, c)

ResidualSide(residual, c) ==
  IF residual > c.residual_band THEN "ask"
  ELSE IF residual < -c.residual_band THEN "bid" ELSE None

ToxicLeg(o, base, c, anchor) ==
  LET residual == GuardResidual(o, base, c, anchor)
  IN  IF residual = None THEN None ELSE ResidualSide(residual, c)

BidLegPrice(anchor, best_bid, tick, c) == FloorToTick(MinOf(anchor - c.half_spread, best_bid), tick)
AskLegPrice(anchor, best_ask, tick, c) == CeilToTick(MaxOf(anchor + c.half_spread, best_ask), tick)
OnTick(price, tick) == price % tick = 0

LegInZone(price, tick, c) ==
  /\ 0 < price /\ price < One
  /\ c.boundary_zone[1] <= price /\ price <= c.boundary_zone[2]
  /\ OnTick(price, tick)

PlaceLeg(role, price) == [kind |-> "place_quote", leg_role |-> role, price |-> price]

LegPrice(o, c, anchor, role) ==
  IF role = "bid" THEN BidLegPrice(anchor, o.bid, o.tick_size, c)
  ELSE AskLegPrice(anchor, o.ask, o.tick_size, c)

OneLeg(o, c, anchor, role, kind, reason) ==
  LET price == LegPrice(o, c, anchor, role)
  IN  IF LegInZone(price, o.tick_size, c)
      THEN Decision(kind, <<reason>>, <<PlaceLeg(role, price)>>)
      ELSE Decide_("NO_QUOTE", <<"leg_out_of_zone">>)

InventoryReduce(o, base, c, anchor, net_position) ==
  LET reducing == ReducingLeg(net_position)
  IN  IF reducing = ToxicLeg(o, base, c, anchor)
      THEN Decide_("NO_QUOTE", <<"reduce_conflict">>)
      ELSE OneLeg(o, c, anchor, reducing, "ONE_SIDED_REDUCE", "inventory_reduce")

TwoSidedQuote(o, c, anchor) ==
  LET InZone(role) == LegInZone(LegPrice(o, c, anchor, role), o.tick_size, c)
      leg(role) == PlaceLeg(role, LegPrice(o, c, anchor, role))
  IN  CASE InZone("bid") /\ InZone("ask") -> Decision("QUOTE_TWO_SIDED", <<>>, <<leg("bid"), leg("ask")>>)
        [] InZone("bid") /\ ~InZone("ask") -> Decision("QUOTE_ONE_SIDED", <<"leg_out_of_zone">>, <<leg("bid")>>)
        [] ~InZone("bid") /\ InZone("ask") -> Decision("QUOTE_ONE_SIDED", <<"leg_out_of_zone">>, <<leg("ask")>>)
        [] OTHER -> Decide_("NO_QUOTE", <<"leg_out_of_zone">>)

(* Mutant: the surviving leg is priced around the shifted fair value. *)
ResidualPullSkewed(o, c, anchor, toxic) ==
  IF toxic = "ask"
  THEN OneLeg(o, c, anchor + c.residual_band, "bid", "QUOTE_ONE_SIDED", "residual_pull_ask")
  ELSE OneLeg(o, c, anchor - c.residual_band, "ask", "QUOTE_ONE_SIDED", "residual_pull_bid")

ResidualPullQuote(o, c, anchor, toxic) ==
  IF toxic = "ask"
  THEN OneLeg(o, c, anchor, "bid", "QUOTE_ONE_SIDED", "residual_pull_ask")
  ELSE OneLeg(o, c, anchor, "ask", "QUOTE_ONE_SIDED", "residual_pull_bid")

(* The guard's veto or pull, None when the guard leaves the quote alone. *)
GuardDisposition(o, base, c, anchor) ==
  LET fv_block == GuardFvBlockReason(o, c)
      residual == GuardResidual(o, base, c, anchor)
  IN  IF fv_block # None THEN Decide_("NO_QUOTE", <<fv_block>>)
      ELSE IF o.phase = 0 /\ Abs(BasisFromState(base, c)) >= Spread(o)
           THEN Decide_("NO_QUOTE", <<"prematch_basis_exceeds_spread">>)
      ELSE IF residual = None THEN None
      ELSE IF 100 * Abs(residual) >= c.extreme_multiple * c.residual_band
           THEN Decide_("NO_QUOTE", <<"residual_extreme">>)
      ELSE IF ResidualSide(residual, c) # None
           THEN ResidualPullQuote(o, c, anchor, ResidualSide(residual, c))
      ELSE None

QuoteDisposition(o, base, c) ==
  LET anchor == VenueAnchor(o, c)
      net == o.inventory.net_position
      guard == IF c.guard_enabled /\ BasisIsWarm(base, c)
               THEN GuardDisposition(o, base, c, anchor) ELSE None
  IN  IF anchor = None THEN Decide_("NO_QUOTE", <<NoAnchorReason(o, c)>>)
      ELSE IF ~(c.boundary_zone[1] <= anchor /\ anchor <= c.boundary_zone[2])
           THEN Decide_("NO_QUOTE", <<"boundary_zone">>)
      ELSE IF Abs(net) >= c.inventory_soft_limit THEN InventoryReduce(o, base, c, anchor, net)
      ELSE IF ~(c.two_sided_band[1] <= anchor /\ anchor <= c.two_sided_band[2])
           THEN IF net # 0 THEN InventoryReduce(o, base, c, anchor, net)
                ELSE Decide_("NO_QUOTE", <<"two_sided_zone_exit">>)
      ELSE IF guard # None THEN guard ELSE TwoSidedQuote(o, c, anchor)

(* The wanted legs are the resting orders, each matched once within epsilon.  A plan has at
   most one leg a side, so the greedy matching of the code is the existence of one. *)
TargetIsUnchanged(d, o, c) ==
  LET resting == o.inventory.resting
  IN  /\ d.intent_plan # <<>>
      /\ Len(d.intent_plan) = Len(resting)
      /\ \E match \in [DOMAIN d.intent_plan -> DOMAIN resting] :
           /\ \A i, j \in DOMAIN d.intent_plan : i # j => match[i] # match[j]
           /\ \A i \in DOMAIN d.intent_plan :
                /\ resting[match[i]].side = d.intent_plan[i].leg_role
                /\ Abs(d.intent_plan[i].price - resting[match[i]].price) <= c.price_epsilon

(* Rows F, W and H: train, then quote if nothing blocks it. *)
ApplyHealthy(o, base, c, row) ==
  LET next == [AdmitBasisUpdates(o, base, AdmitVenueUpdates(o, base, c), c) EXCEPT
                 !.event_cooldown_until_ts = None]
      blocker == IF TokenMappingReason(o) # None THEN TokenMappingReason(o)
                 ELSE IF StatusStreamReason(o, base, c) # None THEN StatusStreamReason(o, base, c)
                 ELSE SuspendedBlockReason(o)
      disposition == QuoteDisposition(o, base, c)
      decision == IF row = "W" \/ (row = "F" /\ ~ReferencesWarm(base, c))
                  THEN Decide_("NO_QUOTE", <<"event_ref_warmup">>)
                  ELSE IF blocker # None THEN Decide_("NO_QUOTE", <<blocker>>)
                  ELSE IF TargetIsUnchanged(disposition, o, c) THEN Hold(<<"hold_unchanged">>)
                  ELSE disposition
  IN  [decision |-> decision, state |-> next]

(* A refusal to quote that leaves orders on the book becomes a sweep. *)
CancelExposurePlan ==
  << [kind |-> "cancel_all_orders", leg_role |-> None, price |-> None],
     [kind |-> "abstain", leg_role |-> None, price |-> None] >>

FunnelCancelOnExposure(d, o) ==
  IF d.kind # "NO_QUOTE" \/ o.inventory.resting = <<>> THEN d
  ELSE [d EXCEPT !.reason_codes = Append(@, "cancel_exposure_first"),
                 !.intent_plan = CancelExposurePlan]

(* A digest is the tuple it digests: equal digests are equal contents. *)
DecisionId(o, s, c, session_id) == <<c, session_id, o, s>>
ClientOrderId(id, role) == <<id, role>>
StampIdentity(d, o, s, c, session_id) ==
  [decision_id |-> DecisionId(o, s, c, session_id),
   client_order_ids |-> [i \in DOMAIN d.intent_plan |->
      IF d.intent_plan[i].leg_role = None THEN None
      ELSE ClientOrderId(DecisionId(o, s, c, session_id), d.intent_plan[i].leg_role)]]

(* The watermark layer, then the row. *)
DecideRaw(o, s, c) ==
  LET guard_delta == GuardEpochDelta(o, s, c)
      base == Accept(o, s, c, FALSE, guard_delta > 0)
      row == ClassifyRow(o, s, c)
  IN  IF s.last_book_source_epoch = None
      THEN [decision |-> Hold(<<>>), state |-> Accept(o, s, c, TRUE, FALSE)]
      ELSE IF s.last_as_of_ts # None /\ o.as_of_ts < s.last_as_of_ts
      THEN [decision |-> Hold(<<"clock_regression">>), state |-> s]
      ELSE IF o.book_source_epoch < s.last_book_source_epoch \/ guard_delta < 0
      THEN [decision |-> Hold(<<"epoch_regression">>), state |-> s]
      ELSE IF o.book_source_epoch > s.last_book_source_epoch
      THEN ApplyReset(o, Accept(o, s, c, TRUE, FALSE), c, "event_ref_warmup")
      ELSE IF s.last_observation_sequence # None /\ o.observation_sequence <= s.last_observation_sequence
      THEN [decision |-> Hold(<<"stale_observation">>), state |-> s]
      ELSE CASE row = "R" -> ApplyReset(o, base, c, ResetReason(o, s))
             [] row = "E" -> ApplyEvent(o, base, c)
             [] row = "D" -> ApplyDataDegraded(o, base, c)
             [] row = "C" -> ApplyCooldown(base)
             [] OTHER -> ApplyHealthy(o, base, c, row)

Decide(o, s, c) ==
  LET raw == DecideRaw(o, s, c)
  IN  [decision |-> FunnelCancelOnExposure(raw.decision, o), state |-> raw.state]

(* The gate of a session that has no fresh inventory projection yet. *)
ProjectionStartupGate(inventory) ==
  IF inventory = None THEN Decide_("NO_QUOTE", <<"projection_stale">>)
  ELSE IF ~inventory.fresh THEN Decide_("NO_QUOTE", <<"projection_stale">>) ELSE None
====
