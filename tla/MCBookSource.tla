---- MODULE MCBookSource ----
(* The book source, the capture session and the lead measurements on every small input. *)
EXTENDS RecorderRun

SideOf(price, size) == price :> size
BookFrame(token, ts, bid, ask) ==
  [event_type |-> "book", token |-> token, ts |-> ts, bids |-> SideOf(bid, 2), asks |-> SideOf(ask, 2)]
Change(token, side, price, size, bid, ask) ==
  [token |-> token, side |-> side, price |-> price, size |-> size, best_bid |-> bid, best_ask |-> ask]
Delta(ts, changes) == [event_type |-> "price_change", ts |-> ts, changes |-> changes]

(* A touch moved, a level deleted behind the touch and one added, a wrong claim, a malformed
   size, an unreadable claim on the first of two assets, a late frame, a tick, a gap. *)
Frames ==
  { BookFrame("a", 1, 400, 600), BookFrame("b", 1, 400, 600),
    Delta(2, <<Change("a", "BUY", 450, 1, 450, 600)>>),
    Delta(2, <<Change("a", "SELL", 700, 1, 400, 600)>>),
    Delta(2, <<Change("a", "SELL", 600, 0, 400, 700)>>),
    Delta(2, <<Change("a", "BUY", 410, 1, 420, 600)>>),
    Delta(2, <<Change("a", "BUY", 410, NonNumeric, 410, 600)>>),
    Delta(2, <<Change("b", "BUY", 300, 1, NonNumeric, 600), Change("a", "BUY", 300, 1, 400, 600)>>),
    Delta(0, <<Change("a", "BUY", 405, 1, 405, 600)>>),
    [event_type |-> "tick_size_change", token |-> "a", tick |-> 1],
    [event_type |-> "gap"] }
FrameScripts == { <<BookFrame("a", 1, 400, 600), f, g, h>> : f, g, h \in Frames }
Stamp(script) == [i \in DOMAIN script |-> [recv_ts |-> i] @@ script[i]]

SourceAfter(script) == FoldLeft(OnFrame, NewSource, script)
RaisedIn(script) ==
  \E i \in DOMAIN script : ProcessFrame(SourceAfter(SubSeq(script, 1, i - 1)), script[i]).maint.raised

(* The reference: the last full book of a token with every later change of it applied. *)
LastBook(script, token) ==
  Max({0} \cup { i \in DOMAIN script : script[i].event_type = "book" /\ script[i].token = token })
ClaimsOf(script, token) ==
  FlattenSeq([i \in 1 .. Len(script) - LastBook(script, token) |->
    LET f == script[LastBook(script, token) + i]
    IN  IF f.event_type = "price_change" THEN SelectSeq(f.changes, LAMBDA c : c.token = token) ELSE <<>>])
IdealSides(script, token) ==
  LET at == LastBook(script, token)
  IN  FoldLeft(LAMBDA b, c : SetLevel(b, IF c.side = "BUY" THEN "bids" ELSE "asks", c.price, c.size),
               [bids |-> script[at].bids, asks |-> script[at].asks], ClaimsOf(script, token))
ServedTo(script, token) == FetchBook(SourceAfter(script), token, Len(script), 2)
GapSince(script, token) == \E i \in LastBook(script, token) .. Len(script) : script[i].event_type = "gap"

(* A served book is its last full book with every change since applied, no gap lies between, and its
   touch is what the venue last claimed; only a frame that raised breaks this. *)
ServedIsExact(script, token) ==
  LET served == ServedTo(script, token)
      ideal == IdealSides(script, token)
      claims == ClaimsOf(script, token)
  IN  served.kind = "book" => /\ LastBook(script, token) > 0 /\ ~GapSince(script, token)
                              /\ served.snapshot.bids = ideal.bids /\ served.snapshot.asks = ideal.asks
                              /\ claims # <<>> => /\ BestBid(ideal.bids) = Last(claims).best_bid
                                                 /\ BestAsk(ideal.asks) = Last(claims).best_ask
ASSUME ServedBooksAreExact ==
  \A script \in FrameScripts : ~RaisedIn(Stamp(script)) => ServedIsExact(Stamp(script), "a")

(* An error gaps every token, but the next frame whose touch agrees serves the token again without
   a fresh book, and the changes the error skipped are missing from its depth. *)
ASSUME ErrorSkipsChanges ==
  \E script \in FrameScripts : RaisedIn(Stamp(script)) /\ ~ServedIsExact(Stamp(script), "a")

(* A token no book was seen of is unknown, never stale. *)
ASSUME UnknownIsNotStale ==
  \A script \in FrameScripts : LastBook(script, "b") = 0 => ServedTo(Stamp(script), "b") = NoBook

Messages == { [kind |-> "text", payload |-> BookFrame("a", 1, 400, 600)],
              [kind |-> "text", payload |-> [event_type |-> "pong"]],
              [kind |-> "closed"], [kind |-> "connect_failed"] }
StreamAfter(msgs) == FoldLeft(LAMBDA c, i : Receive(c, msgs[i], i), NewStream, [i \in DOMAIN msgs |-> i])
(* Every lost connection is a gap frame; the waits double from the last recognised frame on, and
   a heartbeat answer does not reset them. *)
ASSUME EveryLossIsAGap ==
  \A msgs \in [1 .. 5 -> Messages] :
    LET c == StreamAfter(msgs)
        lost == { i \in 1 .. 5 : msgs[i].kind # "text" }
        known == { i \in 1 .. 5 : msgs[i].kind = "text" /\ msgs[i].payload.event_type = "book" }
    IN  /\ Len(SelectSeq(c.frames, LAMBDA f : f.event_type = "gap")) = Cardinality(lost)
        /\ c.backoff = 2 ^ Cardinality({ i \in lost : i > Max({0} \cup known) })
ASSUME BackoffIsBounded ==
  StreamAfter([i \in 1 .. 9 |-> [kind |-> "closed"]]).slept = <<1, 2, 4, 8, 16, 32, 60, 60, 60>>

RawPrices == {None, NonNumeric, 0, 400, 600}
(* The extractor and the maintainer read the empty side alike, and only an uncrossed pair has a mid. *)
ASSUME ExtractorsAgree ==
  \A b, a \in RawPrices :
    LET q == ExtractTopOfBook(b, a)
    IN  /\ b # NonNumeric => SideMatches(q.bid, b)
        /\ (q.mid # None) <=> (q.status = "ok")
        /\ q.status = "ok" => q.bid < q.ask
        /\ q.status = "excluded" => None \notin {q.bid, q.ask}

----
Fee == [taker_fee_bps |-> 100, stress |-> 1, spread_assumption |-> 50, slippage_assumption |-> 10]
SmallSides == UNION { [prices -> {1, 3}] : prices \in SUBSET {400, 500, 600} }
(* The reference take: cheapest level first, until the size is filled or the price is too high. *)
GreedyTake(asks, price, size) ==
  FoldLeft(LAMBDA got, p : IF p > price THEN got ELSE Min({size, got + asks[p]}),
           0, SetToSortSeq(DOMAIN asks, <))
(* A take measures what walking the asks would clear, and a harsher fee never raises its threshold. *)
ASSUME TakeMatchesWalk ==
  \A asks, bids \in SmallSides, price \in {400, 550, 700}, size \in {2, 4} :
    LET snap == [bids |-> bids, asks |-> asks]
        t == MeasureTake(snap, price, size, Fee)
        grid == FeeStressGrid(Fee, {1, 4})
    IN  t # None =>
          /\ t.to_clear = GreedyTake(asks, price, size) /\ t.clears = (t.to_clear = size)
          /\ \A f, g \in grid : f.stress <= g.stress =>
               MeasureTake(snap, price, size, g).threshold <= MeasureTake(snap, price, size, f).threshold

----
MarketA == [fixture |-> 1, side |-> "part1", token |-> "a", ref |-> "home"]
MarketB == [fixture |-> 1, side |-> "part2", token |-> "b", ref |-> "away"]
Markets2 == <<MarketA, MarketB>>
Snap(bid) == [kind |-> "book", snapshot |-> [bids |-> SideOf(bid, 2), asks |-> SideOf(600, 2)]]
OneSidedSnap == [kind |-> "book", snapshot |-> [bids |-> SideOf(400, 2), asks |-> EmptySide]]
Pass == [raises |-> FALSE, intent_kind |-> "no_quote", native_price |-> None, desired_size |-> None, side |-> "bid",
         no_quote_reason |-> None, fee_config |-> Fee, risk_gates |-> <<"pass">>]
Make == [Pass EXCEPT !.intent_kind = "make", !.native_price = 400, !.desired_size = 1]
Take == [Make EXCEPT !.intent_kind = "take", !.native_price = 600]
Answers == { Pass, Make, Take, [Pass EXCEPT !.raises = TRUE], [Pass EXCEPT !.no_quote_reason = "bored"],
             [Take EXCEPT !.fee_config.stress = 4], [Take EXCEPT !.native_price = None],
             [Make EXCEPT !.risk_gates = <<"pass", "maybe">>] }
FvStep(ts, source_ts, fv) ==
  [kind |-> "fv", ts |-> ts, state |-> [fixture |-> 1, ts |-> source_ts, fv |-> [part1 |-> fv, part2 |-> None]]]
PollStep(ts, fetched, answer) ==
  [kind |-> "poll", poll |-> [ts |-> ts + 2, fetched |-> <<fetched, Snap(450)>>,
     clock |-> <<[obs |-> ts, dec |-> ts + 1], [obs |-> ts + 1, dec |-> ts + 2]>>, decide |-> <<answer, Pass>>]]
SessionScripts ==
  { <<FvStep(1, 9, 500), PollStep(2, first, answer), middle, PollStep(7, second, Make)>> :
      first, second \in {Snap(400), OneSidedSnap, NoBook, StaleVenueBook}, answer \in Answers,
      middle \in {FvStep(5, 8, 510), FvStep(5, 10, 510), FvStep(5, 10, 1200), [kind |-> "fv_dies"]} }
Sessions == { RunLiveRecorder(Markets2, script, Fee, 2) : script \in SessionScripts }
OnTape(r, type) == OfType(r.disk.rows, type)
IntentTypes == {"QuoteIntentEvent", "TakeIntentEvent", "NoQuoteIntentEvent"}
Of(r, id, types) ==
  Cardinality({ i \in DOMAIN r.disk.rows : r.disk.rows[i].event_type \in types /\ r.disk.rows[i].decision_id = id })

(* Whatever raises, the tape is sealed and replays, its lines are what the counters say, and a poll
   that raised has no heartbeat. *)
ASSUME SessionsAlwaysSeal ==
  \A r \in Sessions :
    /\ ReplayReproduces(r.disk) /\ Len(r.disk.rows) = r.events + r.gaps
    /\ Len(OnTape(r, "RecorderHeartbeatEvent")) = r.polls
    /\ r.raised => Last(r.disk.rows).event_type # "RecorderHeartbeatEvent"

(* Every decision has one intent and one latency line, except the one whose reason, price or gate
   the contracts refuse: it is on the tape before the refusal, and it is the last. *)
ASSUME DecisionsAreComplete ==
  \A r \in Sessions :
    LET ds == OnTape(r, "DecisionEvent")
    IN  \A i \in DOMAIN ds :
          \/ Of(r, ds[i].decision_id, IntentTypes) = 1 /\ Of(r, ds[i].decision_id, {"LatencyEvent"}) = 1
          \/ r.raised /\ i = Len(ds)

(* A decision is aligned with a fair value that had arrived, and no arrived one is newer at the source. *)
ASSUME SessionsNeverLookAhead ==
  \A r \in Sessions :
    LET ls == OnTape(r, "LatencyEvent")
        fvs == OnTape(r, "FairValueEvent")
    IN  \A i \in DOMAIN ls :
          /\ ls[i].fv_recv_ts <= ls[i].recv_ts
          /\ ls[i].fv_recv_ts < ls[i].recv_ts =>
               \E f \in ToSet(fvs) : /\ f.recv_ts = ls[i].fv_recv_ts
                                     /\ \A g \in ToSet(fvs) : g.recv_ts <= ls[i].recv_ts => g.source_ts <= f.source_ts

(* A take is on the tape only with a measurement, under the pinned fees. *)
ASSUME TakesAreMeasured ==
  \A r \in Sessions :
    \A row \in ToSet(OnTape(r, "TakeIntentEvent")) : row.executability # None /\ row.executability.clears

(* No chain, and so no cadence or lead series, crosses a gap of the tape. *)
ASSUME SegmentsStayClear ==
  \A r \in Sessions :
    LET s == ReadSession(r.disk)
        segments == FvSegments(OfType(s.events, "FairValueEvent"), s.gaps, <<1, "home">>)
    IN  \A k \in DOMAIN segments : \A g \in ToSet(s.gaps) :
          ~(segments[k][1].recv_ts <= g.recv_ts /\ g.recv_ts <= Last(segments[k]).recv_ts)

(* A quote's queue jump is derived from the books of every token: the other market's bid at 450
   counts as stepping ahead of a bid at 400 that nobody outbid. *)
ASSUME QueueJumpMixesTokens ==
  \E r \in Sessions :
    LET own == SelectSeq(OnTape(r, "VenueBookSnapshotEvent"), LAMBDA b : b.token = "a")
        quotes == OnTape(r, "QuoteIntentEvent")
        jumps == AnalyzeSession(r.disk, {1}).queue_jump
    IN  \E i \in DOMAIN quotes : jumps[i].stepped_ahead_count > 0
                                  /\ DeriveQueueJump(quotes[i], own).stepped_ahead_count = 0

----
Arrivals4 == [1 .. 4 -> [recv_ts : 1 .. 2, source : {"fv", "venue"}, value : {500, 510}]]
Sequenced(tape, order) == [i \in 1 .. 4 |-> [arrival_seq |-> order[i]] @@ tape[i]]
(* Orders that keep each feed's own order, so they differ only between the feeds. *)
KeepsFeeds(tape, order) ==
  \A i, j \in 1 .. 4 : i < j /\ tape[i].source = tape[j].source => order[i] < order[j]
Orders4 == { o \in [1 .. 4 -> 1 .. 4] : Cardinality({ o[i] : i \in 1 .. 4 }) = 4 }
(* Arrivals of one instant on the two feeds have no order: neither the collapsed series nor the
   leads depend on which was recorded first; a shared instant scores zero, and every venue change
   with a fair value at or before it is scored. *)
ASSUME TiesHaveNoOrder ==
  \A tape \in { t \in Arrivals4 : \A i \in 1 .. 3 : t[i].recv_ts <= t[i + 1].recv_ts } :
    LET plain == Sequenced(tape, <<1, 2, 3, 4>>)
        leads == DirectArrivalLeads(plain)
        scored == { i \in 1 .. 4 : tape[i].source = "venue" /\
                      \E j \in 1 .. 4 : tape[j].source = "fv" /\ tape[j].recv_ts <= tape[i].recv_ts }
        early == { i \in scored : \A j \in 1 .. 4 : tape[j].source = "fv" => tape[j].recv_ts >= tape[i].recv_ts }
    IN  /\ Len(leads) = Cardinality(scored)
        /\ SummarizeLeads(leads).n > 0 => SummarizeLeads(leads).tied >= Cardinality(early)
        /\ \A order \in { o \in Orders4 : KeepsFeeds(tape, o) } :
             LET other == Sequenced(tape, order)
             IN  /\ CollapseToSeries(other) = CollapseToSeries(plain)
                 /\ DirectArrivalLeads(other) = DirectArrivalLeads(plain)

Series5(fvs, mids) == [i \in 1 .. 5 |-> [ts |-> i, fv |-> fvs[i], mid |-> mids[i]]]
Mids5 == { <<500, a, b, c, d>> : a, b, c, d \in {500, 520} }
Fvs5 == { <<500, 510, a, b, c>> : a, b, c \in {490, 530} }
(* The basis of a change depends on earlier changes only, and a next hit needs a later change. *)
ASSUME BasisNeverLooksAhead ==
  \A mids \in Mids5, fvs \in Fvs5 :
    LET events == CompressToChangeEvents(Series5(fvs, mids))
        e == AnalyzeMarket(<<1, "home">>, Series5(fvs, mids), 5, 1)
    IN  /\ \A i \in DOMAIN events : ExpandingMedianBasis(events, 1)[i] = ExpandingMedianBasis(SubSeq(events, 1, i), 1)[i]
        /\ Len(e.next_hits) <= Len(e.same_hits) /\ Len(e.same_hits) <= Max({0, e.n_events - 1})

Rows(n, misses) ==
  [i \in 1 .. n |-> [key |-> <<i, "home">>, threshold |-> 50, next_hits |-> <<i > misses, i > misses>>]]
(* A lead is claimed only over at least five fixtures. *)
ASSUME LeadNeedsFixtures ==
  /\ \A n \in 0 .. 8, misses \in 0 .. 2 : Verdict(AggregateThreshold(Rows(n, misses), 50)) = "FV LEADS" => n >= 5
  /\ Verdict(AggregateThreshold(Rows(5, 0), 50)) = "FV LEADS"
====
