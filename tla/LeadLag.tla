---- MODULE LeadLag ----
(***************************************************************************)
(* Does the fair value lead the venue?  scripts/maker/leadlag_probe.py and *)
(* ws_leadlag_monitor.py.                                                  *)
(*                                                                         *)
(* A series is a sequence of [ts, fv, mid], fair values and mids in one    *)
(* integer unit.  A median is kept doubled.  A monitor event is            *)
(* [recv_ts, arrival_seq, source, value].                                  *)
(***************************************************************************)
EXTENDS Absent, Integers, Sequences, FiniteSets, SequencesExt, FiniteSetsExt

MedianTwice(values) ==
  LET sorted == SortSeq(values, <)
      n == Len(sorted)
  IN  sorted[(n + 1) \div 2] + sorted[n \div 2 + 1]

----
(* The probe. *)
CompressToChangeEvents(series) ==
  LET moved == { i \in 2 .. Len(series) : series[i].mid # series[i - 1].mid }
  IN  [k \in 1 .. Cardinality(moved) |->
         LET i == SetToSortSeq(moved, <)[k]
         IN  [ts |-> series[i].ts, fv |-> series[i].fv, mid |-> series[i].mid,
              prior_mid |-> series[i - 1].mid]]
ExpandingMedianBasis(events, warmup) ==
  [i \in DOMAIN events |->
     IF i - 1 < warmup THEN None
     ELSE MedianTwice([j \in 1 .. i - 1 |-> events[j].fv - events[j].mid])]

Direction(event) == event.mid > event.prior_mid
Magnitude(x) == IF x < 0 THEN -x ELSE x
HitsAt(indices, Hit(_)) == LET order == SetToSortSeq(indices, <) IN [k \in DOMAIN order |-> Hit(order[k])]
AnalyzeMarket(key, series, threshold, warmup) ==
  LET events == CompressToChangeEvents(series)
      basis == ExpandingMedianBasis(events, warmup)
      Residual(i, anchor) == 2 * (events[i].fv - anchor) - basis[i]
      Signal(i) == Residual(i, events[i].prior_mid)
      Placebo(i) == Residual(i, events[i].mid)
      scored == { i \in DOMAIN events : basis[i] # None }
      gated == { i \in scored : Magnitude(Signal(i)) >= 2 * threshold }
      late == { i \in scored : Magnitude(Placebo(i)) >= 2 * threshold }
  IN  [key |-> key, threshold |-> threshold, n_events |-> Len(events),
       same_hits |-> HitsAt(gated, LAMBDA i : (Signal(i) > 0) = Direction(events[i])),
       next_hits |-> HitsAt(gated \ {Len(events)}, LAMBDA i : (Signal(i) > 0) = Direction(events[i + 1])),
       placebo_hits |-> HitsAt(late, LAMBDA i : (Placebo(i) > 0) = Direction(events[i]))]

Successes(hits) == Cardinality({ i \in DOMAIN hits : hits[i] })
(* hit_rate > 1/2 and binomial_z > 2, without the division and the root; false of no hits. *)
AboveHalf(hits) == 2 * Successes(hits) > Len(hits)
BelowHalf(hits) == 2 * Successes(hits) < Len(hits)
BinomialZAboveTwo(successes, n) ==
  n > 0 /\ 2 * successes > n /\ (2 * successes - n) * (2 * successes - n) > 4 * n

AggregateThreshold(evidence, threshold) ==
  LET rows == SelectSeq(evidence, LAMBDA e : e.threshold = threshold)
      fixtures == { rows[i].key[1] : i \in DOMAIN rows }
      NextOf(chosen) == FlattenSeq([i \in DOMAIN chosen |-> chosen[i].next_hits])
      OfFixture(x) == NextOf(SelectSeq(rows, LAMBDA e : e.key[1] = x))
      above == { x \in fixtures : AboveHalf(OfFixture(x)) }
      below == { x \in fixtures : BelowHalf(OfFixture(x)) }
  IN  [threshold |-> threshold, next_hits |-> NextOf(rows), above |-> Cardinality(above),
       nontied |-> Cardinality(above \cup below)]
Verdict(headline) ==
  IF headline.next_hits = <<>> THEN "NO DATA"
  ELSE IF /\ AboveHalf(headline.next_hits)
          /\ BinomialZAboveTwo(Successes(headline.next_hits), Len(headline.next_hits))
          /\ BinomialZAboveTwo(headline.above, headline.nontied)
       THEN "FV LEADS" ELSE "NO CONFIRMED LEAD"
(* markets: a sequence of [key, series]. *)
RunLeadlagProbe(markets, threshold, warmup) ==
  LET usable == SelectSeq(markets, LAMBDA x : Len(x.series) >= 2)
      evidence == [i \in DOMAIN usable |-> AnalyzeMarket(usable[i].key, usable[i].series, threshold, warmup)]
  IN  Verdict(AggregateThreshold(evidence, threshold))

----
(* The monitor: two consumers stamping one tape with one clock. *)
NewMonitor == [seq |-> 0, events |-> <<>>]
RecordArrival(t, source, token, recv_ts, value) ==
  [seq |-> t.seq + 1,
   events |-> Append(t.events, [recv_ts |-> recv_ts, arrival_seq |-> t.seq + 1, source |-> source,
                                token |-> token, value |-> value])]
(* A state fans out to the matched sides of its fixture that carry a fair value. *)
ConsumeMonitorFv(t, matched, state, now) ==
  FoldLeft(LAMBDA acc, m : IF m.fixture # state.fixture \/ state.fv[m.side] = None THEN acc
                           ELSE RecordArrival(acc, "fv", m.token, now, state.fv[m.side]),
           t, matched)
ConsumeMonitorVenue(t, matched, change) ==
  IF \A i \in DOMAIN matched : matched[i].token # change.token THEN t
  ELSE RecordArrival(t, "venue", change.token, change.recv_ts, change.mid)

Chronological(events) ==
  SortSeq(events, LAMBDA a, b : a.recv_ts < b.recv_ts \/ (a.recv_ts = b.recv_ts /\ a.arrival_seq < b.arrival_seq))
LatestBy(ordered, source, t) ==
  LET seen == SelectSeq(ordered, LAMBDA e : e.source = source /\ e.recv_ts <= t)
  IN  IF seen = <<>> THEN None ELSE Last(seen).value
(* One row an instant, once both feeds are known at the end of that instant. *)
CollapseToSeries(events) ==
  LET ordered == Chronological(events)
      instants == SetToSortSeq({ ordered[i].recv_ts : i \in DOMAIN ordered }, <)
      rows == [k \in DOMAIN instants |->
                 [ts |-> instants[k], fv |-> LatestBy(ordered, "fv", instants[k]),
                  mid |-> LatestBy(ordered, "venue", instants[k])]]
  IN  SelectSeq(rows, LAMBDA r : None \notin {r.fv, r.mid})

FvChangeRecvs(events) ==
  LET fvs == SelectSeq(Chronological(events), LAMBDA e : e.source = "fv")
  IN  { fvs[i].recv_ts : i \in { j \in DOMAIN fvs : j = 1 \/ fvs[j].value # fvs[j - 1].value } }
DirectArrivalLeads(events) ==
  LET venue == SelectSeq(Chronological(events), LAMBDA e : e.source = "venue")
      Prior(e) == { t \in FvChangeRecvs(events) : t <= e.recv_ts }
      scored == SelectSeq(venue, LAMBDA e : Prior(e) # {})
  IN  [i \in DOMAIN scored |-> scored[i].recv_ts - Max(Prior(scored[i]))]
SummarizeLeads(leads) ==
  IF leads = <<>> THEN [n |-> 0, median_twice |-> None, strictly_first |-> None, tied |-> None]
  ELSE [n |-> Len(leads), median_twice |-> MedianTwice(leads),
        strictly_first |-> Cardinality({ i \in DOMAIN leads : leads[i] > 0 }),
        tied |-> Cardinality({ i \in DOMAIN leads : leads[i] = 0 })]
(* Per market, then the leads pooled. *)
AnalyzeDualRecv(tapes, threshold, warmup) ==
  LET series == [i \in DOMAIN tapes |-> [key |-> tapes[i].key, series |-> CollapseToSeries(tapes[i].events)]]
  IN  [verdict |-> RunLeadlagProbe(series, threshold, warmup),
       arrival_lead |-> SummarizeLeads(FlattenSeq([i \in DOMAIN tapes |-> DirectArrivalLeads(tapes[i].events)]))]
====
