---- MODULE RecorderRun ----
(***************************************************************************)
(* The capture session: live_recorder/runner.py over the tape of           *)
(* RecorderTape and the books of BookSource, the counterfactual            *)
(* measurements of executability.py and the sealed session's analysis.py.  *)
(*                                                                         *)
(* A session is [disk, rec, hist, ...counters, raised]; a row is a record  *)
(* with event_type and recv_ts.  decide_fn is a parameter of the code, so  *)
(* its answers are inputs here.  A fee configuration stands for its hash.  *)
(* Costs are in units of half a price thousandth over ten thousand.        *)
(***************************************************************************)
EXTENDS BookSource, RecorderTape, LeadLag

----
(* executability.py *)
Bps == 10000
IsAskSide(side) == side \in {"ask", "asks", "sell", "offer"}
SizeAt(side, prices) == MapThenSumSet(LAMBDA p : side[p], DOMAIN side \cap prices)
BindFeeConfig(fee, pinned) == fee = pinned
EffectiveSpread(snap, fee) ==
  IF DOMAIN snap.bids = {} THEN fee.spread_assumption
  ELSE Max({Min(DOMAIN snap.asks) - Max(DOMAIN snap.bids), fee.spread_assumption})
MeasureTake(snap, price, size, fee) ==
  LET clearable == SizeAt(snap.asks, 0 .. price)
  IN  IF DOMAIN snap.asks = {} THEN None
      ELSE [candidate_price |-> price, available |-> SizeAt(snap.asks, {price}),
            to_clear |-> Min({clearable, size}), clears |-> clearable >= size,
            spread |-> IF DOMAIN snap.bids = {} THEN 0 ELSE Min(DOMAIN snap.asks) - Max(DOMAIN snap.bids),
            threshold |-> 2 * Bps * (price - fee.slippage_assumption) - Bps * EffectiveSpread(snap, fee)
                            - 2 * price * fee.taker_fee_bps * fee.stress]
FeeStressGrid(base, multipliers) == { [base EXCEPT !.stress = x] : x \in multipliers }

QueueAheadAt(snap, side, price) ==
  LET own == IF IsAskSide(side) THEN snap.asks ELSE snap.bids
  IN  IF DOMAIN own = {} THEN None
      ELSE SizeAt(own, IF IsAskSide(side) THEN 0 .. price ELSE price .. FullPrice)
SteppedAhead(book, side, price) ==
  IF IsAskSide(side) THEN \E p \in DOMAIN book.asks : p < price ELSE \E p \in DOMAIN book.bids : p > price
DeriveQueueJump(decision, books) ==
  LET jumps == SelectSeq(books, LAMBDA b : b.recv_ts >= decision.recv_ts
                                             /\ SteppedAhead(b, decision.side, decision.native_price))
  IN  [decision_id |-> decision.decision_id, stepped_ahead_count |-> Len(jumps),
       outbid_within_ms |-> IF jumps = <<>> THEN None ELSE jumps[1].recv_ts - decision.recv_ts]

----
(* runner.py *)
NoQuoteReasons == {"stale", "event_suspension", "boundary", "fee_negative", "liquidity_missing",
                   "risk_cap", "observe_only"}
MappingHash(matched) == { <<matched[i].fixture, matched[i].side, matched[i].token>> : i \in DOMAIN matched }
HistKey(m) == <<m.fixture, m.side>>
NewSession(matched) ==
  [disk |-> NewDisk, rec |-> NewRecorder, hist |-> [k \in { HistKey(matched[i]) : i \in DOMAIN matched } |-> {}],
   arrival_seq |-> 0, decision_seq |-> 0, fv_points |-> 0, events |-> 0, gaps |-> 0, polls |-> 0,
   fv_alive |-> TRUE, raised |-> FALSE]

RecordRow(r, row) ==
  LET done == Record(r.disk, r.rec, row)
  IN  [r EXCEPT !.disk = done.disk, !.rec = done.rec, !.events = @ + 1]
(* Rows in order up to the first that cannot be built (None). *)
RecordRows(r, rows) ==
  FoldLeft(LAMBDA acc, row : IF acc.raised THEN acc
                             ELSE IF row = None THEN [acc EXCEPT !.raised = TRUE]
                             ELSE RecordRow(acc, row), r, rows)

(* A side without a fair value, or with one outside the unit interval, is skipped. *)
MarketstateToFairValue(state, m, now) ==
  IF state.fv[m.side] \notin 0 .. FullPrice THEN None
  ELSE [event_type |-> "FairValueEvent", recv_ts |-> now, source_ts |-> state.ts,
        key |-> <<m.fixture, m.ref>>, fv |-> state.fv[m.side],
        message_id |-> None, proof_status |-> "unavailable_no_message_id"]
ConsumeFvFor(r, m, state, now) ==
  LET row == MarketstateToFairValue(state, m, now)
      seq == r.arrival_seq + 1
  IN  IF row = None THEN r
      ELSE [RecordRow(r, row) EXCEPT
              !.arrival_seq = seq, !.fv_points = @ + 1,
              !.hist[HistKey(m)] = @ \cup {[source_ts |-> state.ts, recv_ts |-> now, fv |-> row.fv,
                                            sequence_no |-> seq]}]
ConsumeFv(r, matched, state, now) ==
  FoldLeft(LAMBDA acc, m : IF m.fixture = state.fixture THEN ConsumeFvFor(acc, m, state, now) ELSE acc,
           r, matched)

IntentRow(d, intent, reason, measure, snap, id, ts) ==
  CASE intent = "make" ->
         IF d.native_price \notin 0 .. FullPrice THEN None
         ELSE [event_type |-> "QuoteIntentEvent", recv_ts |-> ts, decision_id |-> id, side |-> d.side,
               native_price |-> d.native_price,
               queue_ahead |-> QueueAheadAt(snap, d.side, d.native_price)]
    [] intent = "take" ->
         [event_type |-> "TakeIntentEvent", recv_ts |-> ts, decision_id |-> id, executability |-> measure]
    [] OTHER ->
         IF reason \notin NoQuoteReasons THEN None
         ELSE [event_type |-> "NoQuoteIntentEvent", recv_ts |-> ts, decision_id |-> id,
               no_quote_reason |-> reason]
GateRow(outcome, id, ts) ==
  IF outcome \notin {"pass", "block"} THEN None
  ELSE [event_type |-> "RiskGateEvent", recv_ts |-> ts, decision_id |-> id, outcome |-> outcome]

FeeOf(d, config) == IF d.fee_config = None THEN config ELSE d.fee_config
(* The errors raised before the decision is on the tape. *)
DecisionRaises(d, snap, config) ==
  \/ d.raises
  \/ d.intent_kind # "no_quote" /\ None \in {d.native_price, d.desired_size}
  \/ d.intent_kind = "take" /\ ~BindFeeConfig(FeeOf(d, config), config)
  \/ d.intent_kind = "take" /\ DOMAIN snap.asks # {} /\ d.native_price \notin 0 .. FullPrice
EmitDecision(r, m, snap, book_id, aligned, obs_ts, ts, d, config) ==
  LET id == r.decision_seq + 1
      measure == IF d.intent_kind # "take" THEN None
                 ELSE MeasureTake(snap, d.native_price, d.desired_size, FeeOf(d, config))
      illiquid == d.intent_kind = "take" /\ measure = None
      intent == IF illiquid THEN "no_quote" ELSE d.intent_kind
      reason == IF illiquid THEN "liquidity_missing"
                ELSE IF d.no_quote_reason = None THEN "observe_only" ELSE d.no_quote_reason
      fv_ts == IF aligned = None THEN ts ELSE aligned.recv_ts
      decision == [event_type |-> "DecisionEvent", recv_ts |-> ts, decision_id |-> id, intent_kind |-> intent,
                   token |-> m.token, book_snapshot_id |-> book_id, config_hash |-> config,
                   fv_event_id |-> IF aligned = None THEN None ELSE aligned.sequence_no]
      latency == [event_type |-> "LatencyEvent", recv_ts |-> ts, decision_id |-> id, fv_recv_ts |-> fv_ts,
                  fv_to_book |-> obs_ts - fv_ts, book_to_decision |-> ts - obs_ts]
      gates == [i \in DOMAIN d.risk_gates |-> GateRow(d.risk_gates[i], id, ts)]
      rows == <<decision, IntentRow(d, intent, reason, measure, snap, id, ts), latency>> \o gates
  IN  IF DecisionRaises(d, snap, config) THEN [r EXCEPT !.raised = TRUE]
      ELSE RecordRows([r EXCEPT !.decision_seq = id], rows)

(* One market of a poll: a failed fetch is a gap on the tape, an unknown book is skipped. *)
PollMarket(r, m, fetched, clock, d, config) ==
  LET gap == RecordGap(r.disk, r.rec, clock.obs, clock.obs)
      book_id == <<m.token, clock.obs>>
      book == [event_type |-> "VenueBookSnapshotEvent", recv_ts |-> clock.obs, token |-> m.token, ref |-> m.ref,
               bids |-> fetched.snapshot.bids, asks |-> fetched.snapshot.asks]
  IN  IF r.raised \/ fetched.kind = "none" THEN r
      ELSE IF fetched.kind # "book"
           THEN [r EXCEPT !.disk = gap.disk, !.rec = gap.rec, !.gaps = @ + 1]
      ELSE EmitDecision(RecordRow(r, book), m, fetched.snapshot, book_id,
                        EligibleFv(r.hist[HistKey(m)], clock.dec), clock.obs, clock.dec, d, config)
(* poll: [fetched, clock, decide, ts], the first three indexed like matched. *)
Poll(r, matched, poll, config) ==
  LET done == FoldLeft(LAMBDA acc, i : PollMarket(acc, matched[i], poll.fetched[i], poll.clock[i],
                                                  poll.decide[i], config),
                       r, [i \in DOMAIN matched |-> i])
      beat == [event_type |-> "RecorderHeartbeatEvent", recv_ts |-> poll.ts, poll_index |-> r.polls,
               fv_points |-> done.fv_points,
               mids_seen |-> Cardinality({ i \in DOMAIN matched : poll.fetched[i].kind = "book" })]
  IN  IF done.raised THEN done ELSE [RecordRow(done, beat) EXCEPT !.polls = @ + 1]

StepSession(r, matched, step, config, max_polls) ==
  IF r.raised THEN r
  ELSE CASE step.kind = "fv" -> IF r.fv_alive THEN ConsumeFv(r, matched, step.state, step.ts) ELSE r
         [] step.kind = "fv_dies" -> [r EXCEPT !.fv_alive = FALSE]
         [] step.kind = "poll" -> IF r.polls < max_polls THEN Poll(r, matched, step.poll, config) ELSE r
(* The tape is sealed however the loop ends. *)
RunLiveRecorder(matched, script, config, max_polls) ==
  LET r == FoldLeft(LAMBDA acc, step : StepSession(acc, matched, step, config, max_polls),
                    NewSession(matched), script)
  IN  [r EXCEPT !.disk = FinalizeTape(@, r.rec)]

----
(* analysis.py *)
OfType(events, type) == SelectSeq(events, LAMBDA e : e.event_type = type)
(* Maximal chains of consecutive change pairs. *)
FvSegments(fv_events, gaps, key) ==
  LET pairs == SetToSortSeq(IterChangeSeries(fv_events, gaps, key),
                            LAMBDA x, y : PairLess(Pair(x[1].recv_ts, x[1].sequence_no),
                                                   Pair(y[1].recv_ts, y[1].sequence_no)))
  IN  FoldLeft(LAMBDA acc, pair :
                 IF acc # <<>> /\ Last(Last(acc)).sequence_no = pair[1].sequence_no
                 THEN Append(Front(acc), Append(Last(acc), pair[2]))
                 ELSE Append(acc, pair), <<>>, pairs)
SegmentChanges(segment) ==
  Len(CompressToChangeEvents([i \in DOMAIN segment |->
        [ts |-> segment[i].recv_ts, fv |-> segment[i].fv, mid |-> segment[i].fv]]))
CadenceSummary(fv_events, gaps, key) ==
  LET segments == FvSegments(fv_events, gaps, key)
  IN  [n_gap_safe_changes |-> FoldLeft(LAMBDA n, s : n + SegmentChanges(s), 0, segments),
       intervals |-> FlattenSeq([k \in DOMAIN segments |->
                       [i \in 1 .. Len(segments[k]) - 1 |->
                          segments[k][i + 1].recv_ts - segments[k][i].recv_ts]])]
(* A chain's fair values with the books inside its span; both values doubled. *)
LeadlagSeries(segment, books) ==
  LET inside == SelectSeq(books, LAMBDA b : b.recv_ts \in segment[1].recv_ts .. Last(segment).recv_ts)
      merged == SortSeq(segment \o inside,
                        LAMBDA a, b : PairLess(Pair(a.recv_ts, a.sequence_no), Pair(b.recv_ts, b.sequence_no)))
      NewestOf(i, type) == LET seen == OfType(SubSeq(merged, 1, i), type)
                           IN  IF seen = <<>> THEN None ELSE Last(seen)
      VenueMid(b) == IF b = None THEN None ELSE TwoSidedMid(BestBid(b.bids), BestAsk(b.asks))
      rows == [i \in DOMAIN merged |->
                 [ts |-> merged[i].recv_ts,
                  fv |-> LET e == NewestOf(i, "FairValueEvent") IN IF e = None THEN None ELSE 2 * e.fv,
                  mid |-> VenueMid(NewestOf(i, "VenueBookSnapshotEvent"))]]
  IN  SelectSeq(rows, LAMBDA x : None \notin {x.fv, x.mid})
QueueJumpObservations(events) ==
  LET books == OfType(events, "VenueBookSnapshotEvent")
      intents == OfType(events, "QuoteIntentEvent")
  IN  [i \in DOMAIN intents |->
         DeriveQueueJump(intents[i], SelectSeq(books, LAMBDA b : b.recv_ts >= intents[i].recv_ts))]
AnalyzeSession(disk, fixture_ids) ==
  LET s == ReadSession(disk)
      fvs == OfType(s.events, "FairValueEvent")
      cadence == [key \in { fvs[i].key : i \in DOMAIN fvs } |-> CadenceSummary(fvs, s.gaps, key)]
  IN  [n_events |-> Len(s.events), n_gaps |-> Len(s.gaps), cadence |-> cadence,
       queue_jump |-> QueueJumpObservations(s.events), replay_reproduced |-> ReplayReproduces(disk),
       prereq_met |-> /\ ReplayReproduces(disk) /\ fixture_ids # {}
                      /\ \E key \in DOMAIN cadence : cadence[key].n_gap_safe_changes > 0]
====
