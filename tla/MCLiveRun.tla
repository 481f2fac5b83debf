---- MODULE MCLiveRun ----
EXTENDS LiveRun, ReplayPacks, DriftAgents, MakerArena

(* Market 1 is a result market, 2 a totals market, 3 a handicap; each has one side. *)
MCWindows ==
  { [end_rule |-> "pre_match", duration_s |-> None, min_clv_horizon_s |-> 1, started_ts |-> None],
    [end_rule |-> "fixed_duration", duration_s |-> 0, min_clv_horizon_s |-> 0, started_ts |-> None],
    [end_rule |-> "manual_stop", duration_s |-> None, min_clv_horizon_s |-> 0, started_ts |-> None] }

Quote(market, pct) == [fixture |-> 1, market |-> market, pct |-> pct, in_running |-> FALSE]

MCRecords ==
  { Quote(1, 60), Quote(1, 40), Quote(2, None),
    [fixture |-> 1, market |-> 3, pct |-> 80, in_running |-> TRUE],
    [fixture |-> 2, market |-> 1, pct |-> 50, in_running |-> FALSE] }

MCAllowlist == {1, 2}
MCAgents == <<1, 2>>
MCReplies ==
  { None, [type |-> "FADE", market_key |-> 1, side |-> 1, confidence |-> 80],
    [type |-> "PLACE_ORDER", market_key |-> 1, side |-> 1, confidence |-> 80] }

----
(* Pure parts, checked on every small input. *)

OneMarket(m, pct) == m :> MarketOf([market |-> m, pct |-> pct])
State(seq, pct) ==
  [fixture_id |-> 1, tick_seq |-> seq, ts |-> seq, phase |-> 0, markets |-> OneMarket(1, pct)]
Fade(confidence) == [type |-> "FADE", market_key |-> 1, side |-> 1, confidence |-> confidence]
Answer(state, reply) == <<deterministic_baseline_action(state), reply>>
Tapes == { <<State(0, p), State(1, q), State(2, r)>> : p \in {40, 60}, q \in {None, 55}, r \in {None, 50, 70} }

ReplayOf(tape, reply) ==
  run_competition(tape, [i \in DOMAIN tape |-> Answer(tape[i], reply)], "replay")

(* A replay passes its own checks, and only the arena anchors the manifest that verify_run     *)
(* rebuilds: the standalone one lacks the root forest that verifier/recompute.py adds.         *)
ASSUME ReplaysVerify ==
  \A tape \in Tapes, reply \in {None, NoAction, Fade(80)} :
    LET sealed == ReplayOf(tape, reply)
        arena == run_demo_competition(sealed, 1, "sig")
        alone == _seal_replay(sealed, None)
    IN  /\ \A check \in DOMAIN arena.checks : arena.checks[check] # "fail"
        /\ \A check \in DOMAIN alone.checks : alone.checks[check] # "fail"
        /\ arena.report.verified /\ alone.report.verified
        /\ arena.report.manifest_hash = arena.anchored
        /\ alone.report.manifest_hash # alone.anchored
        /\ \A i, j \in DOMAIN arena.leaderboard :
             i < j => arena.leaderboard[i].rank < arena.leaderboard[j].rank

(* A changed answer, price or label of a sealed run fails a check. *)
ASSUME TamperingShows ==
  \A tape \in Tapes :
    LET sealed == ReplayOf(tape, Fade(80))
        priced == [sealed EXCEPT !.run_events[1].snapshot.markets[1].stable_prob_bps[1] = 1]
        relabelled == [sealed EXCEPT !.score_rows[1].reason = "pending_horizon", !.score_rows[1].clv_bps = PENDING]
        gained == [sealed EXCEPT !.score_rows[1].clv_bps = Bps(999)]
    IN  /\ _evidence_integrity(priced) = "fail"
        /\ ~verify_run(priced, None).verified
        /\ _metrics_recomputed(score_run(relabelled), relabelled) = "fail"
        /\ _metrics_recomputed(score_run(gained), gained) = "fail"

(* The claimed confidence moves neither the CLV nor the total, only the Brier tie break. *)
ASSUME ClaimsAreNotScored ==
  \A tape \in Tapes, c \in {0, 100, 101} :
    LET claimed == score_run(ReplayOf(tape, Fade(c)))
        silent == score_run(ReplayOf(tape, Fade(None)))
    IN  { <<m.agent_id, m.total_clv_bps, m.avg_clv_bps>> : m \in Range(claimed) } =
        { <<m.agent_id, m.total_clv_bps, m.avg_clv_bps>> : m \in Range(silent) }

Metric(agent, clvs, brier) ==
  [agent_id |-> agent, avg_clv_bps |-> Average(clvs), total_clv_bps |-> TotalOf(clvs), brier |-> brier,
   max_drawdown |-> _max_drawdown(clvs), action_count |-> Len(clvs)]
ClvSeqs == UNION { [1 .. n -> {-1, 0, 2}] : n \in 0 .. 2 }
Metrics == { Metric(a, clvs, brier) : a \in 1 .. 2, clvs \in ClvSeqs, brier \in {None, <<1, 2>>, <<1, 1>>} }

(* The rank key is a strict order on rows of distinct agents, whoever is listed first. *)
ASSUME RankIsStrict ==
  \A m, n \in Metrics :
    /\ ~(_rank_key(m, n) /\ _rank_key(n, m))
    /\ m.agent_id # n.agent_id => _rank_key(m, n) \/ _rank_key(n, m)
    /\ m.avg_clv_bps # None /\ n.avg_clv_bps = None => _rank_key(m, n)
    /\ assert_no_r3r4_in_rank(m)

(* The drawdown is the worst fall from an earlier peak, with the start as one. *)
ASSUME DrawdownIsWorstFall ==
  \A clvs \in UNION { [1 .. n -> {-2, 1, 2}] : n \in 0 .. 4 } :
    LET Sum(i) == TotalOf(SubSeq(clvs, 1, i))
        falls == { Sum(j) - Sum(i) : <<i, j>> \in { <<a, b>> \in (0 .. Len(clvs)) \X (0 .. Len(clvs)) : a <= b } }
    IN  \A f \in falls : _max_drawdown(clvs) <= f /\ _max_drawdown(clvs) \in falls

(* Two logs with one root: an odd last leaf repeated.  No two logs of one length share a root. *)
ASSUME MerkleBinds ==
  /\ merkle_root(<<"a", "b", "c">>) = merkle_root(<<"a", "b", "c", "c">>)
  /\ \A n \in 1 .. 4 : \A x, y \in [1 .. n -> {"a", "b"}] : merkle_root(x) = merkle_root(y) => x = y

(* Both derivations of the feed state agree while odds are all the stream has sent. *)
ASSUME FeedStatesAgree ==
  \A connecting, connected \in BOOLEAN, odds_ts \in {None, 0, 3}, t \in 3 .. 6 :
    LET f == [connecting |-> connecting, connected |-> connected, last_odds_ts |-> odds_ts,
              last_heartbeat_ts |-> None, odds_records_seen |-> IF odds_ts = None THEN 0 ELSE 1,
              fixture_id |-> None]
    IN  /\ derive_feed_state(connecting, connected, f.odds_records_seen, 0, last_frame_ts(f), t, 2) =
             derive_live_feed_state("live", connected, connecting, odds_ts, None, t, 2)
        /\ feed_health(f, "live", t, 2).stale =>
             derive_live_feed_state("live", TRUE, FALSE, odds_ts, None, t, 2) = "stale"
        /\ derive_live_feed_state("replay", connected, connecting, odds_ts, None, t, 2) = "recorded_replay"

(* One unproven run takes the badge; a public board shows public agents only. *)
BoardRow(agent, status) ==
  _agent_metrics(agent, "reproducible", <<>>) @@
  [anchor_status |-> status, source_mode |-> "live", public_agent_id |-> agent]
ASSUME BoardIsHonest ==
  /\ \A s, t \in {"anchored", "not_anchored", None} :
       (_eligibility_badge(<<BoardRow(1, s), BoardRow(1, t)>>) = "fully-proven") <=> (s = "anchored" /\ t = "anchored")
  /\ \A v \in {"private", "public"}, c \in {"official", "user"}, b \in {"official_benchmark", "public_agents"} :
       (directional_board(<<BoardRow(1, "anchored")>>, (1 :> [visibility |-> v, operator_class |-> c]), b) # <<>>)
         <=> (v = "public" /\ (b = "public_agents" \/ c = "official"))
  /\ project_public_rows(<<BoardRow(1, None)>>, (2 :> 7), "run", "live") = None

(* Denied and submitted is a bypass; an execution event is never evidence. *)
LaneEvent(type, decision, evidence) ==
  [event_type |-> type, execution_id |-> 1, decision |-> decision, evidence |-> evidence]
ASSUME LaneChecks ==
  \A d \in {"denied", "approved"}, evidence \in BOOLEAN :
    LET events == <<LaneEvent("policy_result", d, FALSE), LaneEvent("execution_submitted", None, evidence)>>
    IN  /\ (_policy_obeyed(events) = "fail") <=> (d = "denied")
        /\ (_receipt_separation(events) = "fail") <=> evidence

------------------------------------------------------------------------------
(* Packs and catalogs on every short history. *)

Odds(fixture, price) == [fixture |-> fixture, price |-> price]
RecordLine(fixture, price) == [kind |-> "record", record |-> Odds(fixture, price), received_ts |-> 1]
Meta == [started_ts |-> 0, ended_ts |-> None, fixture_ids |-> {}, record_counts |-> << >>]
SessionOf(lines) == [meta |-> Meta, lines |-> lines]
NoUpdates == [f \in {1, 2, None} |-> None]
WithUpdates == [f \in {1, 2, None} |-> IF f = None THEN None ELSE <<Odds(f, 9)>>]
PackOf(price, authority) ==
  pack_from_session(SessionOf(<<RecordLine(1, price), RecordLine(2, price)>>), authority, WithUpdates)
Live == PackOf(5, _genuine_live_sse_authority)
Relisted(pack) ==
  [pack EXCEPT !.manifest.fixtures = <<[@[1] EXCEPT !.records = pack.manifest.fixtures[2].records],
                                       [@[2] EXCEPT !.records = pack.manifest.fixtures[1].records]>>]

(* Nothing but a closed producer gives a genuine pack, and a genuine pack does not survive a   *)
(* change of a price, of a marker or of the format version. *)
ASSUME GenuineIsMinted ==
  /\ \A p \in {"genuine-txline", "synthetic-illustrative"}, r \in GenuineRungs \cup {"synthetic"},
        c \in GenuineMethods \cup {"synthetic-tape"}, t, s \in BOOLEAN :
       LET authority == PackAuthority(Authority(p, t, s, r, c), FALSE)
       IN  authority # None => ~is_genuine_pack(PackOf(5, authority))
  /\ is_genuine_pack(Live) /\ is_genuine_pack(PackOf(5, _genuine_backfill_authority))
  /\ \A a \in {synthetic_authority, test_fake_authority, None} : ~is_genuine_pack(PackOf(5, a))
  /\ LET priced == [Live EXCEPT !.files[<<"odds", 1>>] = <<Odds(1, 6)>>]
         cleaned == [PackOf(5, test_fake_authority) EXCEPT !.manifest.capture = Live.manifest.capture]
         downgraded == [Live EXCEPT !.manifest.pack_version = 1]
     IN  \A pack \in {priced, cleaned, downgraded} : ~verify_content_hash(pack) /\ ~is_genuine_pack(pack)

Frames == { [kind |-> "record", record |-> Odds(1, 5), ts |-> 3], [kind |-> "record", record |-> Odds(2, 5), ts |-> 4],
            [kind |-> "heartbeat", record |-> None, ts |-> 5], [kind |-> "comment", record |-> None, ts |-> 6] }

(* A capture banks what it counted and stops at its target; without one odds record there is no *)
(* pack to mistake for a recording. *)
ASSUME CaptureIsBanked ==
  \A frames \in UNION { [1 .. n -> Frames] : n \in 0 .. 3 }, target \in 1 .. 2, at \in 1 .. 3 :
    LET capture == run_capture_chain("live", SessionOf(<<>>), frames, target, at, NoUpdates)
    IN  /\ capture.odds_records <= target
        /\ (capture.pack = None) <=> (capture.odds_records = 0)
        /\ capture.pack # None =>
             /\ is_genuine_pack(capture.pack)
             /\ \A f \in DOMAIN capture.session.meta.record_counts :
                  Len(load_pack_marketstates(capture.pack, f).states) = capture.session.meta.record_counts[f]

(* A torn last line costs one record, but a capture that goes on in the same session buries it *)
(* and the session cannot be read; a record without a fixture takes the whole pack with it. *)
ASSUME TornTailIsBuried ==
  LET torn == SessionOf(<<RecordLine(1, 5), Torn>>)
      Resumed(n) == run_capture_chain("live", torn, [i \in 1 .. n |-> [kind |-> "record", record |-> Odds(1, 6), ts |-> 7]],
                                      n, n, NoUpdates)
      nameless == run_capture_chain("live", SessionOf(<<>>), <<[kind |-> "record", record |-> Odds(None, 6), ts |-> 7]>>,
                                    1, 1, NoUpdates)
  IN  /\ Len(read_session(torn).records) = 1
      /\ Resumed(2).odds_records = 2 /\ Resumed(2).pack = None
      /\ Resumed(1).odds_records = 1 /\ Len(load_pack_marketstates(Resumed(1).pack, 1).states) = 1
      /\ nameless.odds_records = 1 /\ nameless.pack = None

------------------------------------------------------------------------------
Curated == <<"curated", "a">>
CapturedA == <<"capture", "a">>
CapturedB == <<"capture", "b">>
Escaped == <<"elsewhere", "b">>
Dirs == {Curated, CapturedA, CapturedB, Escaped}
Fake == PackOf(7, test_fake_authority)
Contents == { Live, Fake, Relisted(Live), [Live EXCEPT !.files = << >>], None }
StartDisk == (Curated :> Live) @@ (CapturedA :> Fake) @@ (CapturedB :> Fake) @@ (Escaped :> Live)
Started == build_catalog(StartDisk, <<Curated>>, <<CapturedA, CapturedB, Escaped>>, TRUE)

\* What a copy can find while old is being replaced by new: each file, and the manifest, of either.
TornCopies(old, new) ==
  IF old = None \/ new = None THEN {None}
  ELSE LET names == DOMAIN old.files \cup DOMAIN new.files
       IN  { [manifest |-> man,
              files |-> [n \in names |-> IF n \in DOMAIN new.files /\ (n \in fresh \/ n \notin DOMAIN old.files)
                                         THEN new.files[n] ELSE old.files[n]]]
             : man \in {old.manifest, new.manifest}, fresh \in SUBSET names }

Ops == [kind : {"write"}, dir : Dirs, pack : Contents] \cup [kind : {"register"}, dir : Dirs]
Apply(world, op) ==
  IF op.kind = "write" THEN [world EXCEPT !.disk[op.dir] = op.pack]
  ELSE register_pack(world, op.dir, world.disk[op.dir]).world
Bindings(world) == { b \in { resolve_replay_source(world, p, f) : p \in {None, "a", "b"}, f \in {None, 1, 2} } :
                       "raised" \notin DOMAIN b }

(* A frozen binding replays what it would have replayed when it was frozen or is refused,      *)
(* whatever is written to a directory or registered in between; a captured pack never takes    *)
(* the place of a curated one, and only a copy of a pack in the capture root is added. *)
ASSUME BindingsAreFrozen ==
  \A first, second, third \in Ops :
    LET before == Apply(Started, first)
        after == Apply(Apply(before, second), third)
    IN  /\ \A b \in Bindings(before) :
             LET frozen == load_resolved_marketstates(before, b)
                 later == load_resolved_marketstates(after, b)
             IN  "states" \in DOMAIN later /\ "states" \in DOMAIN frozen => later = frozen
        /\ after.entries["a"] = Started.entries["a"]
        /\ \A p \in DOMAIN after.entries : after.entries[p].pack_dir[1] \in {"curated", "owned"}

(* A copy made while the pack was being rewritten is refused unless all it lists is of one     *)
(* version. *)
ASSUME TornCopiesAreRefused ==
  \A old, new \in Contents :
    \A copied \in TornCopies(old, new) :
      LET registered == register_pack(Started, CapturedB, copied)
      IN  registered.raised = None =>
            \E whole \in {old, new} :
              /\ whole.manifest = copied.manifest
              /\ \A n \in _manifest_filenames(copied.manifest.fixtures) :
                   n \in DOMAIN whole.files => whole.files[n] = copied.files[n]

(* Files listed for each other's fixture pass the hash and are refused by the bound load only. *)
ASSUME RelistedIsRefused ==
  /\ verify_content_hash(Relisted(Live))
  /\ "states" \in DOMAIN load_pack_marketstates(Relisted(Live), 1)
  /\ load_pack_fixture_states_bound(Relisted(Live), 1, Live.manifest.content_hash) = Raised("fixture_mapping_mismatch")

(* The four classes partition the answers. *)
ASSUME ProofsAreCounted ==
  \A responses \in [1 .. 2 -> {None} \cup [error : BOOLEAN, not_found : BOOLEAN, main : {<<>>, <<1>>}, sub : {<<>>, <<1>>}]] :
    LET s == summarize_odds_proofs(responses)
    IN  /\ s.n_proven + s.n_boundary + s.n_absent + s.n_error = s.n_total
        /\ s.n_proven = 2 => \A i \in 1 .. 2 : responses[i].main # <<>> /\ responses[i].sub # <<>>

------------------------------------------------------------------------------
(* The directional agents on every small tape and every small script of model answers. *)

DriftMarket(level, suspended) == [suspended |-> suspended, stable_prob_bps |-> (1 :> level), stable_price |-> (1 :> 1500)]
DriftTick(i, levels, suspended) ==
  [fixture_id |-> 1, tick_seq |-> i, ts |-> i, phase |-> 0,
   markets |-> [m \in DOMAIN levels |-> DriftMarket(levels[m], suspended)]]
TapeOf(levels) == [i \in DOMAIN levels |-> DriftTick(i, (1 :> levels[i]), FALSE)]
PriceSeqs(n) == [1 .. n -> {4000, 5000, 6000}]

DriftConfig ==
  [min_tick_count |-> 2, min_horizon_s |-> 1, cum_drift_logit_min |-> 1000, trend_strength_min |-> 50,
   cooldown_ticks |-> 2, close_quality_required |-> TRUE, ewma_slope_alpha |-> 50]
SharpConfig ==
  [alpha |-> 50, lookback |-> 4, min_movements |-> 2, scale_floor |-> 10, z_threshold |-> 100, ph_delta |-> 1,
   ph_lambda |-> 100, persistence_logit |-> 1, warmup_ticks |-> 2, cooldown_ticks |-> 1, clean_markets |-> {1}]

SharpRun(tape) ==
  FoldLeft(LAMBDA d, state : LET step == SharpDecide(d.memory, state, SharpConfig)
                             IN  [memory |-> step[1], actions |-> Append(d.actions, step[2])],
           [memory |-> NewSharp, actions |-> <<>>], tape).actions

Fires(actions) == { i \in DOMAIN actions : actions[i].type # "WAIT" }

(* A strategy fires on a rise only, warmed up, and then holds its peace for the cooldown; some *)
(* tape makes each of them fire. *)
ASSUME FiresOnRises ==
  /\ \A levels \in PriceSeqs(6) :
       LET sharp == Fires(SharpRun(TapeOf(levels)))
           drift == Fires(DriveDrift(TapeOf(levels), DriftConfig))
       IN  /\ \A i \in sharp : i > SharpConfig.warmup_ticks /\ levels[i] > 4000
           /\ \A i, j \in sharp : i < j => j - i > SharpConfig.cooldown_ticks
           /\ \A i \in drift : levels[i] >= levels[1] + DriftConfig.cum_drift_logit_min
           /\ \A i, j \in drift : i < j => j - i > DriftConfig.cooldown_ticks
  /\ \E levels \in PriceSeqs(6) : Cardinality(Fires(SharpRun(TapeOf(levels)))) > 0
  /\ \E levels \in PriceSeqs(6) : Cardinality(Fires(DriveDrift(TapeOf(levels), DriftConfig))) = 2

(* A suspended tick leaves no trace in what a strategy remembers of prices. *)
ASSUME SuspensionIsUnseen ==
  \A levels \in PriceSeqs(2), level \in {4000, 6000} :
    LET tape == TapeOf(levels)
        halted == DriftTick(3, (1 :> level), TRUE)
        seen == FoldLeft(LAMBDA h, s : MomentumObserve(h, s, 3), << >>, tape)
        drift == FoldLeft(LAMBDA d, s : DriftDecide(d, s, DriftConfig)[1], NewDrift, tape)
        sharp == FoldLeft(LAMBDA d, s : SharpDecide(d, s, SharpConfig)[1], NewSharp, tape)
    IN  /\ MomentumObserve(seen, halted, 3) = seen
        /\ DriftDecide(drift, halted, DriftConfig)[1].logits = drift.logits
        /\ SharpDecide(sharp, halted, SharpConfig)[1].ph = sharp.ph
        /\ MomentumDecide(seen, halted, [lookback |-> 3, min_momentum_bps |-> 500])[2] =
             select_momentum_action(seen, 500)

(* The change detector never reports a rise of a series that never rises, nor a fall of one    *)
(* that never falls. *)
ASSUME PageHinkleyIsOneSided ==
  \A xs \in [1 .. 5 -> {-3, 0, 4}], lambda \in {0, 2}, delta \in {0, 1} :
    LET ph == FoldLeft(LAMBDA p, x : PageHinkleyUpdate(p, x, delta), NewPageHinkley, xs)
    IN  /\ (\A i \in 1 .. 4 : xs[i + 1] <= xs[i]) => PageHinkleyDirection(ph, lambda) # "up"
        /\ (\A i \in 1 .. 4 : xs[i + 1] >= xs[i]) => PageHinkleyDirection(ph, lambda) # "down"

(* An order is only worth its price when the venue's probability is below ours, and an old     *)
(* quote is no quote. *)
ASSUME EdgeNeedsGap ==
  /\ \A prob \in {1, 3333, 5000, 9999}, price \in {0, 1000, 1001, 2000, 2999, 3001} :
       vvv_signal(prob, price, 1).fired => vvv_signal(prob, price, 1).gap_bps > 0
  /\ \A age \in 0 .. 4 :
       LET state == DriftTick(5, (1 :> 9000), FALSE)
           frames == (<<1, 1>> :> <<[ts |-> 5 - age, price |-> 2000], [ts |-> 6, price |-> 1]>>)
           action == ValueVsVenueDecide(state, frames, [freshness_s |-> 2, min_edge_bps |-> 100, mapped |-> {<<1, 1>>}])
       IN  (action.type # "WAIT") <=> (age <= 2)

(* A market is eligible exactly when nothing speaks against it. *)
ASSUME QualityIsReasons ==
  \A prob \in {400, 500, 9501}, ticks \in 1 .. 3, close \in {"priced", "suspended", "missing"}, mapped \in BOOLEAN :
    LET q == evaluate_market_quality(prob, ticks, 10, mapped, close,
                                     [band_lo |-> 500, band_hi |-> 9500, min_tick_count |-> 2, min_horizon_s |-> 10])
    IN  q.eligible <=> (prob = 500 /\ ticks >= 2 /\ close = "priced" /\ mapped)

------------------------------------------------------------------------------
Handle(left, cancel_left, ends, raw) == [left |-> left, cancel_left |-> cancel_left, ends |-> ends, raw |-> raw]
Scripted ==
  { Handle(1, 1, "answer", Follow(<<0, 1, 1>>)), Handle(2, 1, "answer", Follow(<<0, 1, 1>>)),
    Handle(3, 2, "answer", Follow(<<0, 1, 1>>)), Handle(1, 1, "answer", None), Handle(1, 1, "error", None),
    Handle(1, 1, "cancelled", None), Handle(99, 99, "answer", NoAction), None }
ShortScripts == { <<a, b, a, a, a, a>> : a, b \in Scripted }
Policy(cadence, limit, delta) ==
  [cadence_s |-> cadence, evidence_age_limit_s |-> limit, feature_delta_threshold |-> delta]
Policies == { Policy(c, l, d) : c \in {1, 3}, l \in {1, 2}, d \in {None, 1000} }
DriftTapes == { TapeOf(levels) : levels \in { <<4000, 5000, 5000, 6000, 6000>>, <<5000, 4000, 6000, 4000, 5000, 5000>> } }
ArenaOf(tape, calls, p, q) == run_arena_comparison(tape, calls, p, q, DriftConfig, 4)
ByModel(a, kind) == { i \in DOMAIN a.events : a.events[i].contestant = LLM_DRIFT_CONTESTANT /\ a.events[i].kind = kind }

(* Whatever the model does, every decision of it answers a call launched before on the same    *)
(* evidence and no longer ago than the limit, no call is answered twice, and a new call waits  *)
(* for the end of the last. *)
ASSUME AnswersAreFresh ==
  \A tape \in DriftTapes, calls \in ShortScripts, p \in Policies :
    LET a == ArenaOf(tape, calls, p, p)
    IN  /\ \A i \in ByModel(a, "decision") :
             LET asked == { j \in ByModel(a, "launched") : j < i /\ a.events[j].evidence_hash = a.events[i].evidence_hash }
             IN  /\ \E j \in asked : a.events[i].checkpoint_ts - a.events[j].checkpoint_ts <= p.evidence_age_limit_s
                 /\ \A k \in ByModel(a, "decision") : k < i => \E j \in ByModel(a, "launched") : k < j /\ j < i
        /\ a.drained <=> (\A h \in Range(SubSeq(calls, 1, a.model.at)) : h = None \/ h.left < 99)
        /\ report(a).contestants[LLM_DRIFT_CONTESTANT].actions <= report(a).contestants[LLM_DRIFT_CONTESTANT].eligible_checkpoints

(* With one policy both contestants meet the same opportunities, however slow the model is;    *)
(* with two they need not. *)
ASSUME SameOpportunities ==
  /\ \A tape \in DriftTapes, calls \in ShortScripts, p \in Policies :
       report(ArenaOf(tape, calls, p, p)).identical_opportunities
  /\ \E tape \in DriftTapes, calls \in ShortScripts, p, q \in Policies :
       ~report(ArenaOf(tape, calls, p, q)).identical_opportunities

Hosted(tape, calls, p) == _directional_driver(calls, tape, p, DriftConfig, Len(tape))
AnswersAtOnce(h) == IF h = None THEN FALSE ELSE h.left = 1 /\ h.ends = "answer"

(* A hosted run replays from its transcript when each call is answered by the next tick and    *)
(* none is open at the end.  A slower answer replays a tick early, unnoticed when the cadence   *)
(* is longer than the call, and a call without an answer has no entry: such runs do not         *)
(* reproduce. *)
ASSUME PromptRunsReplay ==
  /\ \A tape \in DriftTapes, calls \in ShortScripts, p \in Policies :
       LET hosted == Hosted(tape, calls, p)
       IN  (\A h \in Range(calls) : AnswersAtOnce(h)) /\ ~hosted.open
             => ReplayHosted(tape, hosted.sealed_transcript, p, DriftConfig) = hosted.actions
  /\ \E tape \in DriftTapes, calls \in ShortScripts, p \in Policies :
       LET hosted == Hosted(tape, calls, p)
       IN  /\ \A h \in Range(calls) : AnswersAtOnce(h)
           /\ ~hosted.open /\ hosted.scored_actions # <<>>
  /\ \E tape \in DriftTapes, calls \in ShortScripts, p \in Policies :
       LET hosted == Hosted(tape, calls, p)
           again == ReplayHosted(tape, hosted.sealed_transcript, p, DriftConfig)
       IN  again # None /\ again # hosted.actions
  /\ \E tape \in DriftTapes, calls \in ShortScripts, p \in Policies :
       /\ Hosted(tape, calls, p).sealed_transcript # <<>>
       /\ ReplayHosted(tape, Hosted(tape, calls, p).sealed_transcript, p, DriftConfig) = None

------------------------------------------------------------------------------
(* The maker arena on every short tape of one or two fixtures. *)

Contexts ==
  { [ArenaContext EXCEPT !.suspended = s, !.staleness_s = a, !.event_cooldown_active = c, !.fair_vol_bps = v, !.inventory = i] :
      s, c \in BOOLEAN, a \in {120, 121}, v \in {299, 300}, i \in {-50, -49, 0, 50} }
Anchors == { 1000 * k : k \in 0 .. 100 } \cup {2010, 4000, 97990}

(* A whole basis point anchor never gives a quote outside (0, 1), a crossed pair or a quote that *)
(* adds to an extreme inventory, and a gate that says no has no quote. The rounding of the price *)
(* comes after the check of the bounds (agents.py:63-70): an anchor between two basis points can *)
(* still be quoted at 0 or 1, which forward_markout_bps accepts. *)
ASSUME QuotesAreInside ==
  /\ \A fv \in Anchors, ctx \in Contexts, widen \in {100, 150, 200} :
       LET set == TxLineFairPropose(fv, ctx, widen, 0)
       IN  /\ \A i \in DOMAIN set.quotes :
                /\ set.quotes[i].price \in 1 .. One - 1
                /\ IF set.quotes[i].side = "BID" THEN set.quotes[i].price < fv ELSE set.quotes[i].price > fv
                /\ Magnitude(ctx.inventory) >= 50 => (set.quotes[i].side = "ASK" <=> ctx.inventory > 0)
           /\ (set.quotes = <<>>) <=> (set.regime = "NO_QUOTE")
           /\ classify_state(ctx) = "NO_QUOTE" => set.quotes = <<>>
  /\ NaivePropose(2004, 0).quotes[1].price = 0
  /\ forward_markout_bps("BID", 0, One \div 2, One \div 2) = 10000

(* A cancellation is on the timeline exactly where quotes stood before the gate closed. *)
ASSUME TimelineCancelsWhatStood ==
  \A fvs \in [1 .. 3 -> {None, 1000, 50000}], contexts \in [1 .. 3 -> {ArenaContext, [ArenaContext EXCEPT !.suspended = TRUE]}] :
    LET sets == [i \in 1 .. 3 |-> TxLineFairPropose(fvs[i], contexts[i], 100, i)]
        line == build_event_gate_timeline(sets)
    IN  \A i \in 1 .. 3 : (line[i].action = "suspend_cancel") <=>
          (sets[i].quotes = <<>> /\ i > 1 /\ sets[Larger(i - 1, 1)].quotes # <<>>)

------------------------------------------------------------------------------
Row(ts, fv, mid) == [fixture_id |-> 1, ts |-> ts, market_ref |-> "home", fv |-> fv, mid |-> mid, staleness_s |-> 0]
FairValues == {0, 30000, 60000}
Mids == {None, 1000, 50000}
ArenaTapes == { <<Row(0, a, m), Row(30, b, n), Row(70, c, o)>> : a, b, c \in FairValues, m, n, o \in Mids }
Horizons == <<30, 60>>

(* Every quote is counted once per horizon, and none is ever left out for want of a future: a    *)
(* horizon that ends after the tape is scored against the last fair value (runner.py:119-122),   *)
(* where scorer.py:85 says "never impute the missing future reference". A fair value of zero     *)
(* under a quote raises and takes the whole run with it (markout.py:75). *)
ASSUME EveryQuoteIsScored ==
  \A tape \in ArenaTapes :
    LET by == ScoreTape(tape, Horizons)
        live == { i \in DOMAIN tape : tape[i].mid # None }
    IN  /\ \A agent \in 1 .. 2 : by[agent].abstained = 0 /\ by[agent].scored = Len(by[agent].marks)
        /\ by[1].scored = 4 * Cardinality({ i \in live : tape[i].mid = 50000 })
        /\ by[2].scored = 4 * Cardinality({ i \in live : tape[i].fv # 0 })
        /\ (None \in ToSet(by[1].marks)) <=> (\E i \in live : tape[i].mid = 50000 /\ tape[i].fv = 0)
        /\ None \notin ToSet(by[2].marks)
        /\ tape[3].mid = 50000 /\ tape[3].fv # 0 =>
             by[1].marks[by[1].scored] = forward_markout_bps("ASK", 52000, tape[3].fv, tape[3].fv)

(* A mark looks no further ahead than its horizon: what the tape says later does not change the  *)
(* marks of the quotes whose horizon has passed. *)
ASSUME NoLookAhead ==
  \A tape \in ArenaTapes, later \in FairValues, mid \in Mids :
    LET other == [tape EXCEPT ![3] = Row(70, later, mid)]
        FirstMarks(t) == _score_group(2, <<t[1]>>, t, <<30, 60>>).marks
    IN  tape[1].mid # None => FirstMarks(tape) = FirstMarks(other)

(* A venue price is used only from its own second on and while it is fresh. *)
ASSUME MidsAreNotFromTheFuture ==
  \A a, b \in 0 .. 3, tick \in 0 .. 5, fresh \in 0 .. 2 :
    LET mid == _aligned_mid(_load_frame_index(<<[ts |-> a, price |-> 10], [ts |-> b, price |-> 20]>>), tick, fresh)
    IN  /\ mid.mid # None => mid.staleness_s \in 0 .. fresh
        /\ (mid.mid = None) <=> (\A ts \in {a, b} : ts > tick \/ tick - ts > fresh)

Rows(agent) ==
  { [agent_id |-> agent, avg_toxicity_loss_bps |-> loss, abstained |-> abstained, quote_count |-> quotes] :
      loss \in {None, 0, 5}, abstained \in 0 .. 1, quotes \in 0 .. 1 }

(* The board does not depend on the order it is given, an agent without a loss is never above    *)
(* one with a loss, and a row that carries an overlay or an execution outcome stops the ranking. *)
ASSUME BoardIsAnOrder ==
  \A a \in Rows(1), b \in Rows(2) :
    /\ rank_makers(<<a, b>>) = rank_makers(<<b, a>>)
    /\ a.avg_toxicity_loss_bps = None /\ b.avg_toxicity_loss_bps # None => rank_makers(<<a, b>>)[1].agent_id = 2
    /\ \A key \in R2_BRACKET_KEYS \cup R3_R4_RANK_DENYLIST : rank_makers(<<a, key :> 0 @@ b>>) = None

Draws(n, c) == [naive: [1 .. n -> 1 .. n], candidate: [1 .. c -> 1 .. c]]

(* Lists that do not overlap are told apart whatever the generator draws, equal constants never  *)
(* are, and the interval is an interval. *)
ASSUME VerdictFollowsTheLists ==
  \A naive, candidate \in [1 .. 2 -> {-5, -1, 0}], d, e \in Draws(2, 2) :
    LET judged == falsify(naive, candidate, <<d, e>>)
        worst == Min(ToSet(candidate))
        best == Max(ToSet(naive))
    IN  /\ worst > best => judged.verdict = "SEPARATED"
        /\ Max(ToSet(candidate)) < Min(ToSet(naive)) => judged.verdict = "INVERTED"
        /\ ToSet(naive) = ToSet(candidate) /\ worst = best => judged.verdict = "INCONCLUSIVE"
        /\ judged.ci_low_bps <= judged.ci_high_bps

------------------------------------------------------------------------------
MarketRecord(fixture, side, condition, token) ==
  [fixture_id |-> fixture, side |-> side, condition_id |-> condition, token_id |-> token, file |-> fixture]
Mapping == <<MarketRecord(1, "home", 7, 11), MarketRecord(1, "draw", 7, 12), MarketRecord(2, "home", 7, 11)>>
Log(maker, taker, paid, side, tx) ==
  [maker_asset |-> maker, taker_asset |-> taker, maker_amount |-> paid[1], taker_amount |-> paid[2], side |-> side, ts |-> 0,
   condition_id |-> 0, tx_hash |-> tx, log_index |-> 0]
Logs == { Log(l[1], l[2], l[3], l[4], tx) :
          l \in { <<0, 11, <<3, 4>>, None>>, <<12, 0, <<4, 1>>, 1>>, <<13, 0, <<4, 4>>, None>> }, tx \in 1 .. 2 }
BadLogs == { Log(0, 0, <<1, 1>>, None, 3), Log(11, 12, <<1, 1>>, None, 3), Log(0, 11, <<1, 0>>, None, 3),
             Log(0, 11, <<2, 1>>, None, 3), Log(0, 11, <<1, 2>>, 1, 3) }
LogSeqs == UNION { [1 .. n -> Logs] : n \in 0 .. 3 }

(* A capture that ends is an artifact the loader takes: one row per chain event, all rows        *)
(* accounted for, the same hash whatever the order. One log that does not decode ends the capture *)
(* with nothing written, so rows_malformed is 0 in every artifact. *)
ASSUME ArtifactsReconcile ==
  /\ \A logs \in LogSeqs :
       LET artifact == capture_order_filled_artifact(logs, Mapping)
       IN  /\ load_trade_artifact(artifact) = artifact
           /\ artifact.rows_malformed = 0
           /\ dedup_normalized_rows(artifact.rows) = [unique |-> artifact.rows, dropped |-> 0]
           /\ { EventKey(artifact.rows[i]) : i \in DOMAIN artifact.rows } = { <<logs[i].tx_hash, 0>> : i \in DOMAIN logs }
           /\ recompute_artifact_hash(Reverse(artifact.rows)) = artifact.artifact_hash
  /\ \A bad \in BadLogs, logs \in {<<>>} \cup { <<l>> : l \in Logs } :
       capture_order_filled_artifact(Append(logs, bad), Mapping) = None
  /\ \A l \in Logs : LET row == decode_order_filled(l)
                     IN  /\ Native(row.price)
                         /\ row.aggressor_side = "buy" <=> l.maker_asset # 0

------------------------------------------------------------------------------
Fill ==
  [queue_modeled |-> FALSE, fill_probability_rule |-> "static_fill_prob", ex_ante_fields |-> {"ref_now"}, rule_param_keys |-> {"p"},
   p |-> 50, cross_rule |-> "mid", partial_fill_policy |-> "none", model_id_names_trigger |-> FALSE,
   draw_mode |-> "DETERMINISTIC_EXPECTED", seed |-> None, n_paths |-> None]
Seeded == [Fill EXCEPT !.draw_mode = "SEEDED_STOCHASTIC", !.seed = 1, !.n_paths = 2]
Markouts == UNION { [1 .. n -> {-3, 1, 4}] : n \in 1 .. 3 }

(* No overlay from a reactive rule or an unpinned draw; the scenarios are in order, the captured *)
(* part and the haircut of a markout add up to it within a basis point, and a drawn path lies    *)
(* between never and always filled with its percentiles in order. *)
ASSUME OverlayIsBounded ==
  /\ FillAssumptionConfig(Fill) /\ _require_pinned_seed_and_paths(Seeded)
  /\ ~_require_pinned_seed_and_paths([Seeded EXCEPT !.seed = None]) /\ ~_require_pinned_seed_and_paths([Seeded EXCEPT !.n_paths = 0])
  /\ \A p \in {-10, 0, 30, 50, 100, 120}, markouts \in Markouts :
       LET suite == render_r2_suite(markouts, [Fill EXCEPT !.p = p], <<>>)
           range == suite.simulated_spread_capture_range
       IN  /\ range[1] <= range[2] /\ range[2] <= range[3]
           /\ Magnitude(MeanRounded(markouts) - range[2] - suite.simulated_adverse_selection_haircut) <= 1
           /\ suite.simulated_expected_exposure >= Magnitude(suite.simulated_expected_inventory_path.final)
           /\ render_protection_ablation(markouts, Fill, Fill, <<>>).event_gate_cost = 0
  /\ \A markouts \in [1 .. 2 -> {-3, 1}], fills \in [1 .. 3 -> [1 .. 2 -> BOOLEAN]] :
       LET d == _seeded_inventory_distribution(markouts, fills)
       IN  /\ d.p10 <= d.p50 /\ d.p50 <= d.p90
           /\ \A j \in 1 .. 2 : Magnitude(d.path[j]) <= 300 * TotalOf([i \in 1 .. j |-> Magnitude(markouts[i])])

------------------------------------------------------------------------------
Probs(home) == [part1 |-> home, draw |-> None, part2 |-> 1000]
Packs(p, q) == [f \in 1 .. 2 |-> <<[ts |-> 0, bps |-> Probs(p)], [ts |-> 40, bps |-> None], [ts |-> 60, bps |-> Probs(q)]>>]
Recorded == [f \in 1 .. 2 |-> IF f = 1 THEN <<[ts |-> 50, price |-> 30000], [ts |-> 0, price |-> 50000]>>
                              ELSE <<[ts |-> 10, price |-> 40000]>>]
World(p, q) == [records |-> Mapping, packs |-> Packs(p, q), frames |-> Recorded]
Artifact == capture_order_filled_artifact(<<Log(0, 11, <<2, 4>>, None, 1), Log(13, 0, <<4, 4>>, None, 2)>>, Mapping)
ArenaConfig(artifact, fill) == build_maker_run_config(<<1, 2>>, Mapping, Horizons, fill, artifact, 2)
SameDraws(n, c) == <<[naive |-> [i \in 1 .. n |-> i], candidate |-> [i \in 1 .. c |-> i]]>>
ArenaRun(cfg, world, artifact, fill) ==
  LET by == ScoreTape(build_cp1_maker_tape(world.records, world.packs, world.frames, 120), cfg.horizons)
  IN  run_maker_arena(cfg, cfg, world, artifact, fill, SameDraws(Len(by[1].marks), Len(by[2].marks)), <<>>)

(* The trades and the overlay change the rung, the diagnosis and the caveats and nothing that is *)
(* ranked; a trade is joined once although two fixtures know its token. *)
ASSUME OverlaysDoNotRank ==
  \A p \in {4000, 6000}, q \in {3000, 5000} :
    LET plain == ArenaRun(ArenaConfig(None, None), World(p, q), None, None)
        full == ArenaRun(ArenaConfig(Artifact, Fill), World(p, q), Artifact, Fill)
    IN  /\ \A part \in {"per_agent", "maker_leaderboard", "falsification", "window_clv_analog"} : plain[part] = full[part]
        /\ plain.rung = "MM-R1" /\ full.rung = "MM-R1.5"
        /\ full.real_executable_edge_bps = None /\ full.r2_bracket.real_executable_edge_bps = None
        /\ _accounting_reconciles(full.trade_aware_diagnostic) /\ full.trade_aware_diagnostic.rows_matched = 1
        /\ render_proof_card(full).trades_not_fills_caveat /\ render_proof_card(full).r2_overlay_label
        /\ ~render_proof_card(full).trade_aware_diagnostic_note

(* A run on anything but what was pinned is void: another configuration, mapping, fixture list, *)
(* artifact or fill assumption. *)
ASSUME UnpinnedIsVoid ==
  LET world == World(4000, 5000)
      cfg == ArenaConfig(Artifact, Fill)
      tampered == [Artifact EXCEPT !.rows[1].price = 1]
      resealed == [tampered EXCEPT !.artifact_hash = recompute_artifact_hash(tampered.rows)]
      Reason(c, w, a, f) == VoidReason(c, cfg, w, a, f)
  IN  /\ Reason(cfg, world, Artifact, Fill) = None
      /\ Reason([cfg EXCEPT !.horizons = <<30>>], world, Artifact, Fill) = "config"
      /\ Reason(cfg, [world EXCEPT !.records = Tail(Mapping)], Artifact, Fill) = "mapping"
      /\ VoidReason([cfg EXCEPT !.fixture_ids = <<1>>], [cfg EXCEPT !.fixture_ids = <<1>>], world, Artifact, Fill) = "fixtures"
      /\ Reason(cfg, world, None, Fill) = "artifact" /\ Reason(cfg, world, tampered, Fill) = "artifact"
      /\ Reason(cfg, world, resealed, Fill) = "artifact hash"
      /\ Reason(cfg, world, Artifact, [Fill EXCEPT !.p = 60]) = "fill assumption"
      /\ Reason(cfg, world, Artifact, None) = None
      /\ ArenaRun(cfg, World(0, 5000), Artifact, Fill) = Void("markout")
==============================================================================
