---- MODULE MCQuoteLoop ----
EXTENDS QuoteLoop, MakerSession, MCRiskArming, MCBookSource

MCConfig ==
  [guard_enabled |-> TRUE, residual_band |-> 20, extreme_multiple |-> 300,
   basis_estimator |-> "rolling_median", basis_window |-> 2, basis_min_samples |-> 1,
   decay |-> <<100, 50, 25, 12>>,
   fv_freshness_ms |-> 3, fv_source_lag_s |-> 2, book_freshness_ms |-> 1, max_leg_skew_ms |-> 1,
   half_spread |-> 20, boundary_zone |-> <<40, 960>>, two_sided_band |-> <<300, 700>>,
   min_top_depth |-> 50, min_level_count |-> 3, depth_collapse_ratio |-> 25, ref_min_samples |-> 1,
   book_state_dwell_before_quote_ms |-> 3, mid_jump_threshold |-> 20, spread_blowout_multiple |-> 300,
   inventory_soft_limit |-> 5, price_epsilon |-> 5, event_smoother |-> "ema_alpha",
   event_smoother_param |-> 50, market_status_max_age_ms |-> 20,
   rolling_spread_window |-> 1, rolling_depth_window |-> 1]

MCPlain ==
  [bid |-> 490, ask |-> 510, bid_size |-> 100, ask_size |-> 100, level_count |-> 4, tick_size |-> 10,
   tick_regime_changed |-> FALSE, age |-> 0, book_status |-> "ok", phase |-> 1, suspended |-> FALSE,
   net_position |-> 0, resting |-> <<>>]

MCShapes ==
  { [MCPlain EXCEPT !.book_status = "gap"],
    [MCPlain EXCEPT !.suspended = TRUE],
    [MCPlain EXCEPT !.phase = 0],
    [MCPlain EXCEPT !.tick_regime_changed = TRUE],
    [MCPlain EXCEPT !.resting = <<[side |-> "bid", price |-> 483]>>],
    [MCPlain EXCEPT !.age = 2],
    [MCPlain EXCEPT !.bid = 540, !.ask = 560],
    [MCPlain EXCEPT !.net_position = 5, !.resting = <<[side |-> "ask", price |-> 520]>>],
    [MCPlain EXCEPT !.resting = <<[side |-> "bid", price |-> 480], [side |-> "ask", price |-> 520]>>] }

MCArrivals ==
  { [value |-> 500, lag |-> 0, identity |-> "A"],
    [value |-> 530, lag |-> 0, identity |-> "A"],
    [value |-> 530, lag |-> 1, identity |-> "A"],
    [value |-> 590, lag |-> 0, identity |-> "B"] }

----
(* Pure parts, checked on every small input. *)

(* A priced leg never crosses or improves the touch it joins, and sits on the tick grid. *)
ASSUME LegsArePassive ==
  \A anchor \in { 60 + 5 * i : i \in 0 .. 6 }, half \in {0, 5, 15}, tick \in {5, 10} :
    LET c == [MCConfig EXCEPT !.half_spread = 20]
    IN  /\ BidLegPrice(anchor, anchor - half, tick, c) <= anchor - half
        /\ AskLegPrice(anchor, anchor + half, tick, c) >= anchor + half
        /\ OnTick(BidLegPrice(anchor, anchor - half, tick, c), tick)
        /\ OnTick(AskLegPrice(anchor, anchor + half, tick, c), tick)

Points == [source_ts : 1 .. 2, recv_ts : 1 .. 2, sequence_no : 1 .. 3]
PointSets == { ps \in SUBSET Points : Cardinality(ps) <= 3 /\
                 \A p, q \in ps : p # q => p.sequence_no # q.sequence_no }

(* Alignment never looks ahead, and on an append-ordered history the pair rule never sees more
   than the receive-time rule. *)
ASSUME AlignmentNeverLooksAhead ==
  \A ps \in PointSets, t \in 0 .. 2, s \in 1 .. 4 :
    /\ EligibleFv(ps, t) # None => EligibleFv(ps, t).recv_ts <= t
    /\ EligibleFvPair(ps, t, s) # None =>
         /\ EligibleFvPair(ps, t, s).recv_ts <= t
         /\ EligibleFv(ps, t) # None
         /\ EligibleFvPair(ps, t, s).source_ts <= EligibleFv(ps, t).source_ts

(* A sorted history stays sorted, with one point a source time. *)
ASSUME InsortKeepsOrder ==
  \A a, b, c \in { p \in Points : p.recv_ts = 1 } :
    LET h == InsortFv(InsortFv(InsortFv(<<>>, a), b), c)
    IN  \A i \in 1 .. Len(h) - 1 : h[i].source_ts < h[i + 1].source_ts

(* A change pair never spans a recorder gap. *)
ASSUME ChangesStayClear ==
  \A t1, t2, g1, g2 \in 1 .. 4 :
    LET events == << [key |-> "k", recv_ts |-> t1, sequence_no |-> 1],
                     [key |-> "k", recv_ts |-> t2, sequence_no |-> 2] >>
        gaps == << [from_ts |-> g1, recv_ts |-> g2] >>
    IN  \A pair \in IterChangeSeries(events, gaps, "k") :
          ~\E t \in g1 .. g2 : pair[1].recv_ts <= t /\ t <= pair[2].recv_ts

(* The tape is in receive order, and a tick sees the fair value of its own instant. *)
ASSUME TapeIsOrdered ==
  \A t1, t2, t3 \in 1 .. 3 :
    LET fvs == LoadFvArrivals(<< [recv_ts |-> MinOf(t1, t2), ts |-> 1, value |-> 40],
                                 [recv_ts |-> MaxOf(t1, t2), ts |-> 1, value |-> 50] >>, 10)
        tape == BuildTapeEvents(fvs, << [recv_ts |-> t3, bid |-> 1, ask |-> 2],
                                        [recv_ts |-> 9, bid |-> None, ask |-> 2] >>)
    IN  /\ Len(tape) = 3
        /\ \A i \in 1 .. 2 : tape[i].recv_ts <= tape[i + 1].recv_ts
        /\ \A i, j \in 1 .. 3 : tape[i].kind = "book" /\ tape[j].kind = "fv" /\ j > i
                                  => tape[j].recv_ts > tape[i].recv_ts
        /\ Len(LoadFvArrivals(<< [recv_ts |-> 1, ts |-> 1, value |-> 41],
                                 [recv_ts |-> 2, ts |-> 1, value |-> 42] >>, 10)) = 1

DemoRow(fv, seen) == [recv_ts |-> 5, bid |-> 1, ask |-> 2, fv |-> fv, fv_recv_ts |-> seen]
ASSUME DemoTapeNeverLooksAhead ==
  \A seen \in {None, 3} :
    LET tape == BuildDemoTapeEvents(<<DemoRow(7, seen), DemoRow(None, seen)>>)
    IN  Len(tape) = 2 /\ tape[1].recv_ts < tape[2].recv_ts /\ tape[1].source_ts < tape[2].recv_ts

----
Submitted == [max_stake |-> 10, venue_allowlist |-> <<"v">>, market_allowlist |-> <<"m">>, duration_s |-> 0]
Maker == [max_orders_per_run |-> 1, max_orders_per_session |-> 2, max_orders_per_day |-> 3,
          max_session_loss |-> 4, max_daily_loss |-> 5, guard_enabled |-> TRUE, tape_ref |-> "tape"]
BookTick(price) == [kind |-> "book", recv_ts |-> 1, build |-> price]
Catalog(pinned, price) ==
  [ref \in {"tape"} |-> [events |-> <<BookTick(price)>>,
                         content_hash |-> ComputeTapeContentHash(<<BookTick(pinned)>>)]]
Instance(mode, max_stake) ==
  [run_id |-> "r", operator_id |-> "did", source_mode |-> "replay", execution_mode |-> mode,
   effective_config |-> Maker, submitted_config |-> [Submitted EXCEPT !.max_stake = max_stake],
   config_hash |-> [Submitted EXCEPT !.max_stake = max_stake],
   policy_hash |-> BuildMakerPolicyEnvelope(Submitted, Maker)]
Ctx(run_id, owner) == [run_id |-> run_id, owner_did |-> owner, session_id |-> "s"]

(* A session is rebuilt only for its own run and owner, in a replay mode and under the pinned
   policy; every request it makes carries the rebuilt hashes and dry_run. *)
ASSUME SessionIsPinned ==
  \A run_id \in {"r", "x"}, owner \in {"did", "y"}, mode \in {"paper", "dry_run", "live_guarded"}, stake \in {10, 11} :
    LET s == ReconstructMmSession(Instance(mode, stake), Ctx(run_id, owner), Catalog(1, 1), MCConfig, 0)
    IN  /\ (s.error = None) <=> run_id = "r" /\ owner = "did" /\ mode # "live_guarded" /\ stake = 10
        /\ s.error = None => s.request_config.mode = "dry_run" /\ s.manifest.mode = "dry_run"
                             /\ s.envelope.human_approval_threshold > s.envelope.max_stake

(* The tape's content hash does not see the book: a tape with other prices passes the pin. *)
ASSUME TapeHashIgnoresBook ==
  ReconstructMmSession(Instance("paper", 10), Ctx("r", "did"), Catalog(1, 2), MCConfig, 0).error = None

----
Obs(shape, i, g) ==
  [observation_sequence |-> i, guard_fv |-> g, as_of_ts |-> i, token_id |-> "t",
   tick_size |-> shape.tick_size, tick_regime_changed |-> FALSE, book_source_epoch |-> 1,
   book_recv_ts |-> i - shape.age, book_status |-> shape.book_status, bid |-> shape.bid,
   ask |-> shape.ask, bid_size |-> shape.bid_size, ask_size |-> shape.ask_size,
   level_count_in_band |-> shape.level_count, phase |-> shape.phase, suspended |-> shape.suspended,
   match_state_recv_ts |-> i - shape.age, market_status |-> "ACTIVE", market_status_recv_ts |-> i,
   market_status_epoch |-> 1, order_stream_ok |-> TRUE, projection_fresh |-> TRUE,
   inventory |-> [SyntheticInventory EXCEPT !.net_position = shape.net_position, !.resting = shape.resting]]
Fv(value, i) == [fv |-> value, fv_source_ts |-> i, fv_recv_ts |-> i, fv_source_epoch |-> 1]
Streams3 == { <<Obs(MCPlain, 1, None), Obs(MCPlain, 2, g2), Obs(s, 3, g3)>> :
                s \in MCShapes \cup {MCPlain}, g2, g3 \in {None, Fv(500, 2), Fv(530, 2), Fv(590, 2)} }

(* Without fair values the arms agree on every frame; every divergent frame has one in view. *)
ASSUME AblationNeedsFairValue ==
  \A stream \in Streams3 :
    LET result == RunGuardAblation(stream, MCConfig)
    IN  \A i \in result.divergent : \E j \in 1 .. i : stream[j].guard_fv # None

(* The two legs of a plan have two client order ids, and the same decision in the same state
   repeats its ids. *)
ASSUME LegIdsAreDistinct ==
  \A stream \in Streams3 :
    LET s == Decide(stream[2], Decide(stream[1], FreshState, MCConfig).state, MCConfig).state
        d == Decide(stream[3], s, MCConfig).decision
        stamp == StampIdentity(d, stream[3], s, MCConfig, "session")
    IN  \A i, j \in DOMAIN d.intent_plan :
          i # j /\ stamp.client_order_ids[i] # None => stamp.client_order_ids[i] # stamp.client_order_ids[j]

(* Every leg of a decision makes a request for the observed token, and none of another decision. *)
ASSUME RequestsAreBound ==
  \A stream \in Streams3 :
    LET s == Decide(stream[2], Decide(stream[1], FreshState, MCConfig).state, MCConfig).state
        d == Decide(stream[3], s, MCConfig).decision
        config == [mode |-> "dry_run", policy_hash |-> 1, manifest_hash |-> 2, strategy_config_hash |-> 3]
    IN  \A leg \in Range(d.intent_plan) :
          LET r == BuildR4ARequest(leg, config, stream[3], d, stream[3])
          IN  /\ r # None
              /\ leg.kind = "place_quote" => r.params.token_id = "t" /\ r.params.side # None
              /\ OfflineRecordingProposer(r).execution_status = "ABSTAINED"
              /\ BuildR4ARequest(leg, config, stream[3], d, stream[2]) = None

ASSUME StartupIsGated ==
  /\ ProjectionStartupGate(None) # None
  /\ ProjectionStartupGate(SyntheticInventory) = None
  /\ ProjectionStartupGate([SyntheticInventory EXCEPT !.fresh = FALSE]) # None
====
