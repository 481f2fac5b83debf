---- MODULE QuoteLoopProofs ----
(***************************************************************************)
(* Proofs about QuoteLoop, for every valid configuration, every feed and   *)
(* any bounds.                                                             *)
(*                                                                         *)
(* DwellSafe and ResumeSafe rest on LoopInv: the tape's numbers increase   *)
(* and an open recorder is past them (TapeInv); no open session is behind  *)
(* a generation on its tape (GenerationsInv); a cached fair value is on    *)
(* the tape and the guard has seen no generation past the newest one's     *)
(* (CacheInv); the last tick is behind the clock and, in its generation,   *)
(* the counter (TickInv).  So the watermark layer accepts every tick       *)
(* (ArmAccepts), each arm notes it, and an arm that is shown a disturbance *)
(* carries its dwell until it is served (ArmsInv).                         *)
(*                                                                         *)
(* ReplaySafe adds that an open recorder remembers the rows of its tape    *)
(* (SealInv): a resumed one sorts them by number, which is the order they  *)
(* are in (SortedTape).                                                    *)
(*                                                                         *)
(* GuardSafe compares the arms: they remember the same venue (InStep), so  *)
(* they read the same row and the same prices, and the guard can only turn *)
(* a quote into a refusal or into one of its legs (GuardedQuotesLess).     *)
(***************************************************************************)
EXTENDS QuoteLoop, TLAPS, SequenceTheorems, FiniteSetTheorems

\* The fields of the carried state, and the ones only the guarded arm trains.
StateFields ==
  {"last_observation_sequence", "last_book_source_epoch", "last_as_of_ts",
   "last_market_status_epoch", "last_market_status_recv_ts", "guard_watermark", "last_phase",
   "last_suspended", "last_book_in_gap", "basis_samples", "basis_ewma_value", "basis_ewma_ts",
   "basis_sample_count", "smoother_mid", "smoother_mid_ts", "spread_ref_samples",
   "depth_ref_samples", "event_cooldown_until_ts"}

IsState(s) == DOMAIN s = StateFields

\* The state has taken note of the observation.
Noted(t, o) ==
  /\ t.last_observation_sequence = o.observation_sequence
  /\ t.last_book_source_epoch = o.book_source_epoch
  /\ t.last_as_of_ts = o.as_of_ts
  /\ t.last_phase = o.phase
  /\ t.last_suspended = o.suspended
  /\ t.last_book_in_gap = InGap(o)

\* A decision that leaves the book alone.
EmptyPlan(d) == \E kind, reasons : d = Decision(kind, reasons, <<>>)

\* The decision places no quote.
PlacesNothing(d) == \A leg \in Range(d.intent_plan) : leg.kind # "place_quote"

\* The watermark layer lets the observation through.
Accepted(o, s, c) ==
  /\ s.last_book_source_epoch # None
  /\ ~(s.last_as_of_ts # None /\ o.as_of_ts < s.last_as_of_ts)
  /\ ~(o.book_source_epoch < s.last_book_source_epoch)
  /\ ~(GuardEpochDelta(o, s, c) < 0)
  /\ \/ o.book_source_epoch > s.last_book_source_epoch
     \/ ~(s.last_observation_sequence # None /\ o.observation_sequence <= s.last_observation_sequence)

\* What the core takes for a disturbance.
Troubled(o, s) ==
  \/ o.book_source_epoch > s.last_book_source_epoch
  \/ o.tick_regime_changed \/ PhaseTransition(o, s) \/ SuspensionReopen(o, s) \/ GapEpisodeEnd(o, s)
  \/ InGap(o)

----
(* The strategy core. *)

\* What _accept does, whatever it clears: the watermarks advance and the cooldown is kept.
Advances(t, o, s, c) ==
  /\ IsState(t) /\ Noted(t, o)
  /\ t.guard_watermark = GuardWatermark(o, s, c)
  /\ t.event_cooldown_until_ts = s.event_cooldown_until_ts

(* A reset and an event start the dwell and note the observation. *)
LEMMA ResetCools ==
  ASSUME NEW o, NEW b, NEW c, NEW reason, IsState(b), Noted(b, o)
  PROVE  /\ IsState(ApplyReset(o, b, c, reason).state)
         /\ Noted(ApplyReset(o, b, c, reason).state, o)
         /\ ApplyReset(o, b, c, reason).state.guard_watermark = b.guard_watermark
         /\ ApplyReset(o, b, c, reason).state.event_cooldown_until_ts = CooldownDeadline(o, c)
         /\ EmptyPlan(ApplyReset(o, b, c, reason).decision)
PROOF
  BY DEF IsState, StateFields, Noted, EmptyPlan, ApplyReset, ClearVenue, ClearBasis, Decide_

(* An event does too, and keeps what was learnt. *)
LEMMA EventCools ==
  ASSUME NEW o, NEW b, NEW c, IsState(b), Noted(b, o)
  PROVE  /\ IsState(ApplyEvent(o, b, c).state)
         /\ Noted(ApplyEvent(o, b, c).state, o)
         /\ ApplyEvent(o, b, c).state.guard_watermark = b.guard_watermark
         /\ ApplyEvent(o, b, c).state.event_cooldown_until_ts = CooldownDeadline(o, c)
         /\ EmptyPlan(ApplyEvent(o, b, c).decision)
PROOF
  BY DEF IsState, StateFields, Noted, EmptyPlan, ApplyEvent, Decide_

(* Training leaves the watermarks alone, and a healthy row ends the cooldown. *)
LEMMA HealthyNotes ==
  ASSUME NEW o, NEW b, NEW c, NEW row, IsState(b), Noted(b, o)
  PROVE  /\ IsState(ApplyHealthy(o, b, c, row).state)
         /\ Noted(ApplyHealthy(o, b, c, row).state, o)
         /\ ApplyHealthy(o, b, c, row).state.guard_watermark = b.guard_watermark
         /\ ApplyHealthy(o, b, c, row).state.event_cooldown_until_ts = None
PROOF
  <1> DEFINE v == AdmitVenueUpdates(o, b, c)
             t == AdmitBasisUpdates(o, b, v, c)
  <1>1. IsState(v) /\ Noted(v, o) /\ v.guard_watermark = b.guard_watermark
    BY DEF IsState, StateFields, Noted, AdmitVenueUpdates
  <1>2. IsState(t) /\ Noted(t, o) /\ t.guard_watermark = b.guard_watermark
    <2> HIDE DEF v
    <2> QED BY <1>1 DEF IsState, StateFields, Noted, AdmitBasisUpdates
  <1>3. ApplyHealthy(o, b, c, row).state = [t EXCEPT !.event_cooldown_until_ts = None]
    BY DEF ApplyHealthy
  <1> HIDE DEF t
  <1> QED BY <1>2, <1>3 DEF IsState, StateFields, Noted

(* The other two rows that do not quote keep the state. *)
LEMMA WaitingKeeps ==
  ASSUME NEW o, NEW b, NEW c
  PROVE  /\ ApplyDataDegraded(o, b, c).state = b /\ EmptyPlan(ApplyDataDegraded(o, b, c).decision)
         /\ ApplyCooldown(b).state = b /\ EmptyPlan(ApplyCooldown(b).decision)
PROOF
  BY DEF ApplyDataDegraded, ApplyCooldown, EmptyPlan, Decide_

(* A sweep places nothing, so a refusal does not. *)
LEMMA FunnelPlacesNothing ==
  ASSUME NEW d, NEW o, EmptyPlan(d)
  PROVE  PlacesNothing(FunnelCancelOnExposure(d, o))
PROOF
  <1>1. PICK kind, reasons : d = Decision(kind, reasons, <<>>)
    BY DEF EmptyPlan
  <1>2. CASE FunnelCancelOnExposure(d, o) = d
    BY <1>1, <1>2 DEF PlacesNothing, Decision, Range
  <1>3. CASE FunnelCancelOnExposure(d, o) # d
    <2>1. FunnelCancelOnExposure(d, o).intent_plan = CancelExposurePlan
      BY <1>1, <1>3 DEF FunnelCancelOnExposure, Decision
    <2> QED BY <2>1 DEF PlacesNothing, CancelExposurePlan, Range
  <1> QED BY <1>2, <1>3

(* The first observation seeds the state and quotes nothing. *)
LEMMA SeedNotes ==
  ASSUME NEW o, NEW s, NEW c, IsState(s), s.last_book_source_epoch = None
  PROVE  /\ IsState(Decide(o, s, c).state)
         /\ Noted(Decide(o, s, c).state, o)
         /\ Decide(o, s, c).state.guard_watermark = GuardWatermark(o, s, c)
         /\ Decide(o, s, c).state.event_cooldown_until_ts = s.event_cooldown_until_ts
         /\ PlacesNothing(Decide(o, s, c).decision)
PROOF
  <1> DEFINE t == Accept(o, s, c, TRUE, FALSE)
  <1>0. Advances(t, o, s, c)
    BY DEF Advances, IsState, StateFields, Noted, Accept, ClearVenue, ClearBasis
  <1>1. DecideRaw(o, s, c) = [decision |-> Hold(<<>>), state |-> t]
    BY DEF DecideRaw
  <1>2. PlacesNothing(FunnelCancelOnExposure(Hold(<<>>), o))
    BY FunnelPlacesNothing DEF Hold, EmptyPlan
  <1> HIDE DEF t
  <1> QED BY <1>0, <1>1, <1>2 DEF Decide, Advances

(* Every accepted observation is noted; a disturbance starts the dwell; and only an observation
   that finds no cooldown running is quoted on. *)
LEMMA DecideNotes ==
  ASSUME NEW o, NEW s, NEW c, IsState(s), Accepted(o, s, c)
  PROVE  LET d == Decide(o, s, c)
         IN  /\ IsState(d.state) /\ Noted(d.state, o)
             /\ d.state.guard_watermark = GuardWatermark(o, s, c)
             /\ \/ /\ d.state.event_cooldown_until_ts = CooldownDeadline(o, c)
                   /\ PlacesNothing(d.decision)
                \/ /\ ~Troubled(o, s)
                   /\ d.state.event_cooldown_until_ts = s.event_cooldown_until_ts
                   /\ PlacesNothing(d.decision)
                \/ /\ ~Troubled(o, s)
                   /\ d.state.event_cooldown_until_ts = None
                   /\ ~CooldownActive(o, s)
PROOF
  <1> DEFINE d == DecideRaw(o, s, c)
             base == Accept(o, s, c, FALSE, GuardEpochDelta(o, s, c) > 0)
             fresh == Accept(o, s, c, TRUE, FALSE)
             row == ClassifyRow(o, s, c)
  <1>1. /\ IsState(base) /\ Noted(base, o) /\ base.guard_watermark = GuardWatermark(o, s, c)
        /\ base.event_cooldown_until_ts = s.event_cooldown_until_ts
    BY DEF IsState, StateFields, Noted, Accept, ClearVenue, ClearBasis
  <1>2. IsState(fresh) /\ Noted(fresh, o) /\ fresh.guard_watermark = GuardWatermark(o, s, c)
    BY DEF IsState, StateFields, Noted, Accept, ClearVenue, ClearBasis
  <1>3. Decide(o, s, c).state = d.state /\ Decide(o, s, c).decision = FunnelCancelOnExposure(d.decision, o)
    BY DEF Decide
  <1>4. CASE o.book_source_epoch > s.last_book_source_epoch
    <2>1. d = ApplyReset(o, fresh, c, "event_ref_warmup")
      BY <1>4 DEF DecideRaw, Accepted
    <2> HIDE DEF d, fresh
    <2> QED BY <1>2, <1>3, <2>1, ResetCools, FunnelPlacesNothing
  <1>5. CASE ~(o.book_source_epoch > s.last_book_source_epoch)
    <2>0. d = CASE row = "R" -> ApplyReset(o, base, c, ResetReason(o, s))
                [] row = "E" -> ApplyEvent(o, base, c)
                [] row = "D" -> ApplyDataDegraded(o, base, c)
                [] row = "C" -> ApplyCooldown(base)
                [] OTHER -> ApplyHealthy(o, base, c, row)
      BY <1>5 DEF DecideRaw, Accepted
    <2>1. row \notin {"R", "E"} => ~Troubled(o, s)
      BY <1>5 DEF Troubled, ClassifyRow
    <2>2. row \notin {"R", "E", "D", "C"} => ~CooldownActive(o, s)
      BY DEF ClassifyRow
    <2> HIDE DEF d, base, row
    <2>3. CASE row = "R"
      <3>1. d = ApplyReset(o, base, c, ResetReason(o, s))
        BY <2>0, <2>3
      <3> QED BY <1>1, <1>3, <3>1, ResetCools, FunnelPlacesNothing
    <2>4. CASE row = "E"
      <3>1. d = ApplyEvent(o, base, c)
        BY <2>0, <2>4
      <3> QED BY <1>1, <1>3, <3>1, EventCools, FunnelPlacesNothing
    <2>5. CASE row = "D"
      <3>1. d = ApplyDataDegraded(o, base, c)
        BY <2>0, <2>5
      <3> QED BY <1>1, <1>3, <2>1, <2>5, <3>1, WaitingKeeps, FunnelPlacesNothing
    <2>6. CASE row = "C"
      <3>1. d = ApplyCooldown(base)
        BY <2>0, <2>6
      <3> QED BY <1>1, <1>3, <2>1, <2>6, <3>1, WaitingKeeps, FunnelPlacesNothing
    <2>7. CASE row \notin {"R", "E", "D", "C"}
      <3>1. d = ApplyHealthy(o, base, c, row)
        BY <2>0, <2>7
      <3> QED BY <1>1, <1>3, <2>1, <2>2, <2>7, <3>1, HealthyNotes
    <2> QED BY <2>3, <2>4, <2>5, <2>6, <2>7
  <1> QED BY <1>4, <1>5

----
(* The invariant.  The tape: its numbers increase, and an open recorder is past them. *)
TapeInv ==
  /\ DOMAIN disk = {"rows", "torn", "meta"}
  /\ disk.rows \in Seq(Range(disk.rows))
  /\ \A i \in DOMAIN disk.rows : disk.rows[i].sequence_no \in Nat
  /\ \A i, j \in DOMAIN disk.rows : i < j => disk.rows[i].sequence_no < disk.rows[j].sequence_no
  /\ rec # None => /\ rec.seq \in Nat
                   /\ \A i \in DOMAIN disk.rows : disk.rows[i].sequence_no <= rec.seq
  /\ disk.meta # None => rec # None

\* The generations on the tape have a greatest one, and an open session is not behind it.
Sources == {"book", "fv"}
GenerationsInv ==
  /\ DOMAIN gens = {"book", "fv", "market_status"}
  /\ \A source \in Sources :
       /\ gens[source] \in Nat
       /\ DurableEpochs(source) \subseteq Nat
       /\ DurableEpochs(source) # {} =>
            \E m \in DurableEpochs(source) : \A e \in DurableEpochs(source) : e <= m
       /\ rec # None => \A e \in DurableEpochs(source) : e <= gens[source]

\* The fair values of the tick's stream, and the newest of some.
OfStream == { e \in cache : e.identity = Stream }
Later(q, p) == PairLess(Pair(q.source_ts, q.sequence_no), Pair(p.source_ts, p.sequence_no))
IsNewest(p, points) == p \in points /\ \A q \in points \ {p} : Later(q, p)

\* A cached fair value is one on the tape; there is a newest one, and the guard has not seen a
\* generation past its.
CacheInv ==
  /\ \A e \in cache :
       /\ e.source_ts \in Int /\ e.sequence_no \in Nat /\ e.recv_ts \in Int /\ e.recv_ts <= now
       /\ e.source_epoch \in DurableEpochs("fv")
       /\ \E row \in Range(disk.rows) : row.sequence_no = e.sequence_no
  /\ \A e, f \in cache : e.sequence_no = f.sequence_no => e = f
  /\ OfStream # {} => \E p \in OfStream : IsNewest(p, OfStream)
  /\ st["guarded"].guard_watermark # None =>
       /\ st["guarded"].guard_watermark \in DurableEpochs("fv")
       /\ \A p \in OfStream : IsNewest(p, OfStream) => st["guarded"].guard_watermark <= p.source_epoch

\* The last tick is on the tape and behind the clock and, in its generation, the counter.
TickInv ==
  /\ now \in Nat \ {0} /\ obsSeq \in Nat /\ last.at \in Nat
  /\ disturbed \in Nat \cup {None} /\ (disturbed # None => disturbed < now)
  /\ ~Ticked => disturbed = None
  /\ Ticked =>
       /\ last.o.as_of_ts \in Nat /\ last.o.as_of_ts < now
       /\ last.o.phase \in {0, 1} /\ last.o.suspended \in BOOLEAN
       /\ last.o.book_source_epoch \in DurableEpochs("book")
       /\ last.o.observation_sequence \in Nat
       /\ rec # None /\ last.o.book_source_epoch = gens.book => last.o.observation_sequence <= obsSeq

\* Every arm has noted the last tick, and owes the dwell of the last disturbance or served it.
Dwell == Config.book_state_dwell_before_quote_ms
ArmsInv ==
  /\ DOMAIN st = Arms
  /\ \A arm \in Arms :
       /\ IsState(st[arm])
       /\ IF Ticked THEN Noted(st[arm], last.o) ELSE st[arm].last_book_source_epoch = None
       /\ st[arm].event_cooldown_until_ts \in Int \cup {None}
       /\ disturbed # None =>
            \/ /\ st[arm].event_cooldown_until_ts # None
               /\ disturbed + Dwell <= st[arm].event_cooldown_until_ts
            \/ disturbed + Dwell < now

LoopInv == TapeInv /\ GenerationsInv /\ CacheInv /\ TickInv /\ ArmsInv /\ DwellServed

----
(* Writing to the tape. *)

(* What a stamped row carries: the next number and its own fields. *)
LEMMA StampedRow ==
  ASSUME NEW r, NEW row, "sequence_no" \notin DOMAIN row
  PROVE  /\ Stamped(r, row).sequence_no = r.seq + 1
         /\ \A f \in DOMAIN row : Stamped(r, row)[f] = row[f]
PROOF
  BY DEF Stamped, NextSeq

(* A line written by an open recorder keeps the tape in order and adds its row. *)
LEMMA LineWritten ==
  ASSUME TapeInv, Recording, NEW row, "sequence_no" \notin DOMAIN row,
         disk' = Record(disk, rec, row).disk, rec' = Record(disk, rec, row).rec
  PROVE  /\ TapeInv'
         /\ Range(disk'.rows) = Range(disk.rows) \cup {Stamped(rec, row)}
         /\ disk'.meta = disk.meta
PROOF
  <1> DEFINE s == disk.rows
             new == Stamped(rec, row)
             all == Range(s) \cup {new}
  <1>1. disk' = [disk EXCEPT !.rows = Append(s, new)] /\ rec'.seq = rec.seq + 1
    BY DEF Record, WriteLine, NextSeq
  <1>2. disk'.rows = Append(s, new) /\ DOMAIN disk' = {"rows", "torn", "meta"} /\ disk'.meta = disk.meta
    BY <1>1 DEF TapeInv
  <1>3. new.sequence_no = rec.seq + 1
    BY StampedRow
  <1>4. s \in Seq(all) /\ new \in all
    <2>1. s \in Seq(Range(s))
      BY DEF TapeInv, Recording
    <2> QED BY <2>1, SeqMonotonic
  <1> HIDE DEF new
  <1>5. /\ Append(s, new) \in Seq(all)
        /\ Len(Append(s, new)) = Len(s) + 1 /\ Len(s) \in Nat
        /\ DOMAIN s = 1 .. Len(s) /\ DOMAIN Append(s, new) = 1 .. Len(s) + 1
        /\ \A i \in 1 .. Len(s) : Append(s, new)[i] = s[i]
        /\ Append(s, new)[Len(s) + 1] = new
    BY <1>4
  <1>6. Range(Append(s, new)) = all
    BY <1>5 DEF Range
  <1>7. /\ \A i \in DOMAIN s : s[i].sequence_no \in Nat /\ s[i].sequence_no <= rec.seq
        /\ \A i, j \in DOMAIN s : i < j => s[i].sequence_no < s[j].sequence_no
        /\ rec.seq \in Nat
    BY DEF TapeInv, Recording
  <1>8. \A i \in DOMAIN Append(s, new) :
           Append(s, new)[i].sequence_no \in Nat /\ Append(s, new)[i].sequence_no <= rec.seq + 1
    BY <1>3, <1>5, <1>7
  <1>9. \A i, j \in DOMAIN Append(s, new) :
           i < j => Append(s, new)[i].sequence_no < Append(s, new)[j].sequence_no
    BY <1>3, <1>5, <1>7
  <1>10. disk.meta = None
    BY DEF Recording
  <1>11. disk'.rows \in Seq(Range(disk'.rows)) /\ Range(disk'.rows) = all
    BY <1>2, <1>5, <1>6
  <1>12. TapeInv'
    BY <1>1, <1>2, <1>7, <1>8, <1>9, <1>10, <1>11 DEF TapeInv
  <1> QED BY <1>2, <1>11, <1>12 DEF new

(* What a row adds to the generations on the tape. *)
LEMMA EpochsAfter ==
  ASSUME NEW new, Range(disk'.rows) = Range(disk.rows) \cup {new}, NEW source
  PROVE  /\ new.event_type = "MintEvent" /\ new.source = source =>
              DurableEpochs(source)' = DurableEpochs(source) \cup {new.source_epoch}
         /\ ~(new.event_type = "MintEvent" /\ new.source = source) =>
              DurableEpochs(source)' = DurableEpochs(source)
PROOF
  <1>1. DurableEpochs(source) = { row.source_epoch : row \in { r \in Range(disk.rows) :
           r.event_type = "MintEvent" /\ r.source = source } }
    BY DEF DurableEpochs, EventRows, IsGap
  <1>2. DurableEpochs(source)' = { row.source_epoch : row \in { r \in Range(disk'.rows) :
           r.event_type = "MintEvent" /\ r.source = source } }
    BY DEF DurableEpochs, EventRows, IsGap
  <1> QED BY <1>1, <1>2

(* Minting under the generation of its source keeps the generations in order. *)
LEMMA GenerationsAfter ==
  ASSUME GenerationsInv, Recording, gens' = gens,
         NEW new, Range(disk'.rows) = Range(disk.rows) \cup {new},
         new.event_type = "MintEvent" => new.source \in Sources /\ new.source_epoch = gens[new.source]
  PROVE  GenerationsInv' /\ \A source \in Sources : DurableEpochs(source) \subseteq DurableEpochs(source)'
PROOF
  <1> SUFFICES ASSUME NEW source \in Sources
               PROVE  /\ DurableEpochs(source)' \subseteq Nat
                      /\ DurableEpochs(source)' # {} =>
                           \E m \in DurableEpochs(source)' : \A e \in DurableEpochs(source)' : e <= m
                      /\ \A e \in DurableEpochs(source)' : e <= gens[source]
                      /\ DurableEpochs(source) \subseteq DurableEpochs(source)'
    BY DEF GenerationsInv
  <1> DEFINE old == DurableEpochs(source)
  <1>1. /\ old \subseteq Nat /\ gens[source] \in Nat
        /\ old # {} => \E m \in old : \A e \in old : e <= m
        /\ \A e \in old : e <= gens[source]
    BY DEF GenerationsInv, Recording
  <1>2. DurableEpochs(source)' = old \/ DurableEpochs(source)' = old \cup {gens[source]}
    BY EpochsAfter
  <1> HIDE DEF old
  <1>3. CASE DurableEpochs(source)' = old
    BY <1>1, <1>3 DEF old
  <1>4. CASE DurableEpochs(source)' = old \cup {gens[source]}
    BY <1>1, <1>4 DEF old
  <1> QED BY <1>2, <1>3, <1>4

(* The greatest element of a set that has one. *)
LEMMA MaxIsGreatest ==
  ASSUME NEW S, S \subseteq Nat, NEW m \in S, \A e \in S : e <= m
  PROVE  Max(S) = m
PROOF
  <1>1. \A e \in S : m >= e
    OBVIOUS
  <1>2. Max(S) \in S /\ \A e \in S : Max(S) >= e
    BY <1>1 DEF Max
  <1>3. Max(S) \in Nat /\ m \in Nat /\ Max(S) >= m /\ m >= Max(S)
    BY <1>1, <1>2
  <1> QED BY <1>3

(* A resumed recorder continues after the last row, gaps counted. *)
LEMMA ResumedTape ==
  ASSUME TapeInv, rec = None,
         disk' = ResumeRecorder(disk).disk, rec' = ResumeRecorder(disk).rec
  PROVE  TapeInv' /\ disk'.rows = disk.rows
PROOF
  <1> DEFINE s == disk.rows
             clean == [disk EXCEPT !.torn = FALSE]
             numbers == {0} \cup { row.sequence_no : row \in Range(s) }
  <1>1. disk' = clean /\ rec'.seq = MaxSequenceNo(clean)
    BY DEF ResumeRecorder
  <1>2. clean.rows = s /\ clean.meta = disk.meta /\ DOMAIN clean = {"rows", "torn", "meta"}
    BY DEF TapeInv
  <1>3. MaxSequenceNo(clean) = Max(numbers)
    <2>1. EventRows(clean) \cup GapRows(clean) = Range(s)
      BY <1>2 DEF EventRows, GapRows
    <2> QED BY <2>1 DEF MaxSequenceNo
  <1>4. /\ s \in Seq(Range(s)) /\ Len(s) \in Nat /\ DOMAIN s = 1 .. Len(s)
        /\ \A i \in DOMAIN s : s[i].sequence_no \in Nat
        /\ \A i, j \in DOMAIN s : i < j => s[i].sequence_no < s[j].sequence_no
    BY DEF TapeInv
  <1>5. numbers \subseteq Nat /\ \A i \in DOMAIN s : s[i].sequence_no \in numbers
    BY <1>4 DEF Range
  <1>6. PICK m \in numbers : \A e \in numbers : e <= m
    <2>1. CASE s = <<>>
      <3>1. numbers = {0}
        BY <2>1 DEF Range
      <3> QED BY <3>1
    <2>2. CASE s # <<>>
      <3>1. Len(s) \in DOMAIN s
        BY <1>4, <2>2
      <3>2. \A i \in DOMAIN s : s[i].sequence_no <= s[Len(s)].sequence_no
        BY <1>4, <3>1
      <3>3. \A e \in numbers : e <= s[Len(s)].sequence_no
        BY <1>4, <3>1, <3>2 DEF Range
      <3> QED BY <1>5, <3>1, <3>3
    <2> QED BY <2>1, <2>2
  <1>7. Max(numbers) = m /\ m \in Nat
    BY <1>5, <1>6, MaxIsGreatest
  <1>8. \A i \in DOMAIN s : s[i].sequence_no <= rec'.seq
    BY <1>1, <1>3, <1>5, <1>6, <1>7
  <1>9. disk'.rows = s /\ disk'.meta = disk.meta /\ DOMAIN disk' = {"rows", "torn", "meta"} /\ rec'.seq \in Nat
    BY <1>1, <1>2, <1>3, <1>7
  <1>10. disk.meta = None
    BY DEF TapeInv
  <1> QED BY <1>4, <1>8, <1>9, <1>10 DEF TapeInv

(* Nothing that leaves the cache and the guard's watermark alone disturbs what ties them. *)
LEMMA CacheKept ==
  ASSUME CacheInv, cache' = cache, now' \in Nat, now \in Nat, now <= now',
         st'["guarded"].guard_watermark = st["guarded"].guard_watermark,
         Range(disk.rows) \subseteq Range(disk'.rows),
         DurableEpochs("fv") \subseteq DurableEpochs("fv")'
  PROVE  CacheInv'
PROOF
  <1>1. OfStream' = OfStream
    BY DEF OfStream
  <1>2. \A e \in cache :
          /\ e.source_ts \in Int /\ e.sequence_no \in Nat /\ e.recv_ts \in Int /\ e.recv_ts <= now'
          /\ e.source_epoch \in DurableEpochs("fv")'
          /\ \E row \in Range(disk'.rows) : row.sequence_no = e.sequence_no
    BY DEF CacheInv
  <1> QED BY <1>1, <1>2 DEF CacheInv, IsNewest, Later

(* The newest of a set of points is the one CHOOSE finds. *)
LEMMA NewestIsNewest ==
  ASSUME NEW points, NEW p \in points, IsNewest(p, points),
         \A q \in points : q.source_ts \in Int /\ q.sequence_no \in Nat
  PROVE  Newest(points) = p
PROOF
  <1>1. \A q \in points : IsNewest(q, points) => q = p
    BY DEF IsNewest, Later, PairLess, Pair
  <1>2. Newest(points) = CHOOSE q \in points : IsNewest(q, points)
    BY DEF Newest, IsNewest, Later
  <1> QED BY <1>1, <1>2

(* The fair value a tick may see is the newest of its stream. *)
LEMMA WinnerIsNewest ==
  ASSUME TapeInv, CacheInv, now \in Nat, Recording
  PROVE  LET w == EligibleFvPair(OfStream, now, rec.seq + 1)
         IN  w # None => /\ w \in OfStream /\ IsNewest(w, OfStream)
                         /\ w.source_epoch \in DurableEpochs("fv")
PROOF
  <1>1. \A e \in OfStream : PairLess(Pair(e.recv_ts, e.sequence_no), Pair(now, rec.seq + 1))
    <2> SUFFICES ASSUME NEW e \in OfStream
                 PROVE  PairLess(Pair(e.recv_ts, e.sequence_no), Pair(now, rec.seq + 1))
      OBVIOUS
    <2>1. e.recv_ts \in Int /\ e.recv_ts <= now /\ e.sequence_no \in Nat
          /\ \E r \in Range(disk.rows) : r.sequence_no = e.sequence_no
      BY DEF CacheInv, OfStream
    <2>2. rec.seq \in Nat /\ \A i \in DOMAIN disk.rows : disk.rows[i].sequence_no <= rec.seq
      BY DEF TapeInv, Recording
    <2>3. e.sequence_no <= rec.seq
      BY <2>1, <2>2 DEF Range
    <2> QED BY <2>1, <2>2, <2>3 DEF PairLess, Pair
  <1> DEFINE w == Newest(OfStream)
  <1>2. EligibleFvPair(OfStream, now, rec.seq + 1) = w
    <2>1. { p \in OfStream : PairLess(Pair(p.recv_ts, p.sequence_no), Pair(now, rec.seq + 1)) } = OfStream
      BY <1>1
    <2> QED BY <2>1 DEF EligibleFvPair
  <1>3. w # None => OfStream # {}
    BY DEF Newest
  <1>4. OfStream # {} => w \in OfStream /\ IsNewest(w, OfStream)
    BY NewestIsNewest DEF CacheInv, OfStream
  <1>5. \A e \in OfStream : e.source_epoch \in DurableEpochs("fv")
    BY DEF CacheInv, OfStream
  <1> HIDE DEF w
  <1> QED BY <1>2, <1>3, <1>4, <1>5

----
(* The steps. *)

(* A session that has just begun satisfies the invariant. *)
LEMMA LoopInit == Init => LoopInv
PROOF
  <1> SUFFICES ASSUME Init PROVE LoopInv
    OBVIOUS
  <1> DEFINE row == StatusRow("ACTIVE", 1)
             new == Stamped(NewRecorder, row)
  <1>1. now = 1 /\ gens = SourceGenerations /\ obsSeq = 0 /\ cache = {} /\ last = NoTick /\ disturbed = None
        /\ st = [arm \in Arms |-> FreshState]
    BY DEF Init
  <1>2. disk = WriteLine(NewDisk, new) /\ rec.seq = 1
    BY DEF Init, Record, NewRecorder, NextSeq
  <1>3. DOMAIN disk = {"rows", "torn", "meta"} /\ disk.rows = <<new>> /\ disk.meta = None
    BY <1>2 DEF WriteLine, NewDisk
  <1>4. new.sequence_no = 1 /\ new.event_type = "MarketStatusEvent"
    <2>1. DOMAIN row = {"event_type", "status", "recv_ts", "epoch"} /\ row.event_type = "MarketStatusEvent"
      BY DEF StatusRow
    <2>2. "sequence_no" \notin DOMAIN row /\ "event_type" \in DOMAIN row /\ NewRecorder.seq = 0
      BY <2>1 DEF NewRecorder
    <2> HIDE DEF row
    <2> QED BY <2>1, <2>2, StampedRow
  <1> HIDE DEF new
  <1>5. TapeInv
    BY <1>2, <1>3, <1>4 DEF TapeInv, Range
  <1>6. \A source \in Sources : DurableEpochs(source) = {}
    BY <1>3, <1>4 DEF DurableEpochs, EventRows, Range
  <1>7. GenerationsInv
    BY <1>1, <1>6 DEF GenerationsInv, SourceGenerations, Sources
  <1>8. ~Ticked
    BY <1>1 DEF Ticked, NoTick
  <1>9. IsState(FreshState) /\ FreshState.last_book_source_epoch = None /\ FreshState.guard_watermark = None
        /\ FreshState.event_cooldown_until_ts = None
    BY DEF IsState, StateFields, FreshState
  <1>10. CacheInv
    BY <1>1, <1>9 DEF CacheInv, OfStream, Arms
  <1>11. TickInv
    BY <1>1, <1>8 DEF TickInv, NoTick
  <1>12. ArmsInv /\ DwellServed
    BY <1>1, <1>8, <1>9 DEF ArmsInv, DwellServed
  <1> QED BY <1>5, <1>7, <1>10, <1>11, <1>12 DEF LoopInv

(* A step that shows the arms nothing leaves them and the last tick as they are; a new
   generation of the book is past the one of the last tick. *)
LEMMA QuietStep ==
  ASSUME TickInv, ArmsInv, DwellServed, UNCHANGED <<now, st, last, disturbed>>, obsSeq' \in Nat,
         DurableEpochs("book") \subseteq DurableEpochs("book")',
         rec' # None => \/ rec # None /\ gens'.book = gens.book /\ obsSeq' = obsSeq
                        \/ gens'.book \notin DurableEpochs("book")
  PROVE  TickInv' /\ ArmsInv' /\ DwellServed'
PROOF
  <1>1. Ticked' = Ticked
    BY DEF Ticked
  <1>2. TickInv'
    BY <1>1 DEF TickInv
  <1>3. ArmsInv'
    BY <1>1 DEF ArmsInv, Dwell
  <1>4. DwellServed'
    BY <1>1 DEF DwellServed, Placed
  <1> QED BY <1>2, <1>3, <1>4

(* An arriving fair value is of the current generation: it becomes the newest of its stream, or
   the newest stays. *)
LEMMA FvArrivalStep ==
  ASSUME LoopInv, NEW a \in Arrivals, FvArrival(a)
  PROVE  LoopInv'
PROOF
  <1> DEFINE row == MintRow("fv", gens.fv, a.identity)
             new == Stamped(rec, row)
             pair == RecordAndReturnPair(disk, rec, row).pair
             p == CachedFv(a, pair)
  <1>1. /\ Recording /\ disk' = Record(disk, rec, row).disk /\ rec' = Record(disk, rec, row).rec
        /\ cache' = cache \cup {p} /\ UNCHANGED <<gens, now, obsSeq, st, last, disturbed>>
    BY DEF FvArrival, Mint, RecordAndReturnPair
  <1>2. TapeInv /\ GenerationsInv /\ CacheInv /\ TickInv /\ ArmsInv /\ DwellServed
    BY DEF LoopInv
  <1>3. /\ DOMAIN row = {"event_type", "source", "source_epoch", "recv_ts", "identity"}
        /\ row.event_type = "MintEvent" /\ row.source = "fv" /\ row.source_epoch = gens.fv
    BY DEF MintRow
  <1> HIDE DEF row
  <1>4. /\ new.event_type = "MintEvent" /\ new.source = "fv" /\ new.source_epoch = gens.fv
        /\ new.sequence_no = rec.seq + 1
    <2>1. "sequence_no" \notin DOMAIN row /\ {"event_type", "source", "source_epoch"} \subseteq DOMAIN row
      BY <1>3
    <2> QED BY <1>3, <2>1, StampedRow
  <1>5. TapeInv' /\ Range(disk'.rows) = Range(disk.rows) \cup {new}
    BY <1>1, <1>2, <1>3, LineWritten
  <1> HIDE DEF new
  <1>6. GenerationsInv' /\ \A source \in Sources : DurableEpochs(source) \subseteq DurableEpochs(source)'
    BY <1>1, <1>2, <1>4, <1>5, GenerationsAfter DEF Sources
  <1>7. gens.fv \in DurableEpochs("fv")'
    BY <1>4, <1>5, EpochsAfter
  <1>8. /\ p.source_ts \in Int /\ p.sequence_no = rec.seq + 1 /\ p.recv_ts = now
        /\ p.source_epoch = gens.fv /\ p.identity = a.identity
    <2>1. pair = <<now, rec.seq + 1>>
      BY DEF RecordAndReturnPair, NextSeq, row, MintRow
    <2> QED BY <1>2, <2>1, FeedAssumption DEF CachedFv, TickInv
  <1> HIDE DEF p
  <1>9. /\ rec.seq \in Nat /\ now \in Nat
        /\ \A e \in cache : /\ e.sequence_no \in Nat /\ e.sequence_no <= rec.seq
                            /\ e.source_ts \in Int
    <2>1. rec.seq \in Nat /\ \A r \in Range(disk.rows) : r.sequence_no <= rec.seq
      BY <1>1, <1>2 DEF TapeInv, Recording, Range
    <2> QED BY <1>2, <2>1 DEF CacheInv, TickInv
  <1>10. \A e \in cache' :
          /\ e.source_ts \in Int /\ e.sequence_no \in Nat /\ e.recv_ts \in Int /\ e.recv_ts <= now'
          /\ e.source_epoch \in DurableEpochs("fv")'
          /\ \E r \in Range(disk'.rows) : r.sequence_no = e.sequence_no
    <2>1. \A e \in cache :
          /\ e.source_ts \in Int /\ e.sequence_no \in Nat /\ e.recv_ts \in Int /\ e.recv_ts <= now'
          /\ e.source_epoch \in DurableEpochs("fv")'
          /\ \E r \in Range(disk'.rows) : r.sequence_no = e.sequence_no
      BY <1>1, <1>2, <1>5, <1>6 DEF CacheInv, Sources
    <2>2. /\ p.source_ts \in Int /\ p.sequence_no \in Nat /\ p.recv_ts \in Int /\ p.recv_ts <= now'
          /\ p.source_epoch \in DurableEpochs("fv")'
          /\ \E r \in Range(disk'.rows) : r.sequence_no = p.sequence_no
      BY <1>1, <1>4, <1>5, <1>7, <1>8, <1>9
    <2> QED BY <1>1, <2>1, <2>2
  <1>11. \A e, f \in cache' : e.sequence_no = f.sequence_no => e = f
    BY <1>1, <1>2, <1>8, <1>9 DEF CacheInv
  <1>12. OfStream' = OfStream \/ OfStream' = OfStream \cup {p}
    BY <1>1 DEF OfStream
  <1>13. OfStream' # {} => \E q \in OfStream' : IsNewest(q, OfStream')
    <2>1. CASE OfStream' = OfStream
      BY <1>2, <2>1 DEF CacheInv
    <2>2. CASE OfStream' = OfStream \cup {p} /\ OfStream = {}
      BY <2>2 DEF IsNewest
    <2>3. CASE OfStream' = OfStream \cup {p} /\ OfStream # {}
      <3>1. PICK q \in OfStream : IsNewest(q, OfStream)
        BY <1>2, <2>3 DEF CacheInv
      <3>2. q \in cache /\ OfStream \subseteq cache
        BY DEF OfStream
      <3>3. CASE q.source_ts <= p.source_ts
        <4>1. \A r \in OfStream : Later(r, p)
          BY <1>8, <1>9, <3>1, <3>2, <3>3 DEF IsNewest, Later, PairLess, Pair
        <4> QED BY <2>3, <4>1 DEF IsNewest
      <3>4. CASE ~(q.source_ts <= p.source_ts)
        <4>1. Later(p, q)
          BY <1>8, <1>9, <3>2, <3>4 DEF Later, PairLess, Pair
        <4> QED BY <2>3, <3>1, <4>1 DEF IsNewest
      <3> QED BY <3>3, <3>4
    <2> QED BY <1>12, <2>1, <2>2, <2>3
  <1>14. st["guarded"].guard_watermark # None =>
           /\ st["guarded"].guard_watermark \in DurableEpochs("fv")'
           /\ \A q \in OfStream' : IsNewest(q, OfStream') => st["guarded"].guard_watermark <= q.source_epoch
    <2> SUFFICES ASSUME st["guarded"].guard_watermark # None
                 PROVE  /\ st["guarded"].guard_watermark \in DurableEpochs("fv")'
                        /\ \A q \in OfStream' :
                             IsNewest(q, OfStream') => st["guarded"].guard_watermark <= q.source_epoch
      OBVIOUS
    <2>1. /\ st["guarded"].guard_watermark \in DurableEpochs("fv")
          /\ \A q \in OfStream : IsNewest(q, OfStream) => st["guarded"].guard_watermark <= q.source_epoch
      BY <1>2 DEF CacheInv
    <2>2. st["guarded"].guard_watermark <= gens.fv
      BY <1>1, <1>2, <2>1 DEF GenerationsInv, Sources, Recording
    <2>3. \A q \in OfStream : IsNewest(q, OfStream') => IsNewest(q, OfStream)
      BY <1>12 DEF IsNewest
    <2> QED BY <1>6, <1>8, <1>12, <2>1, <2>2, <2>3 DEF Sources
  <1>15. CacheInv'
    BY <1>1, <1>10, <1>11, <1>13, <1>14 DEF CacheInv
  <1>16. TickInv' /\ ArmsInv' /\ DwellServed'
    BY <1>1, <1>2, <1>6, QuietStep DEF Sources, Recording, TickInv
  <1> QED BY <1>5, <1>6, <1>15, <1>16 DEF LoopInv

(* A status line or a gap line only adds to the tape. *)
LEMMA LineStep ==
  ASSUME LoopInv, Recording, NEW row, "sequence_no" \notin DOMAIN row, "event_type" \in DOMAIN row,
         row.event_type # "MintEvent",
         disk' = Record(disk, rec, row).disk, rec' = Record(disk, rec, row).rec,
         UNCHANGED <<gens, now, obsSeq, cache, st, last, disturbed>>
  PROVE  LoopInv'
PROOF
  <1> DEFINE new == Stamped(rec, row)
  <1>1. TapeInv /\ GenerationsInv /\ CacheInv /\ TickInv /\ ArmsInv /\ DwellServed
    BY DEF LoopInv
  <1>2. new.event_type # "MintEvent"
    BY StampedRow
  <1>3. TapeInv' /\ Range(disk'.rows) = Range(disk.rows) \cup {new}
    BY <1>1, LineWritten
  <1> HIDE DEF new
  <1>4. GenerationsInv' /\ \A source \in Sources : DurableEpochs(source) \subseteq DurableEpochs(source)'
    BY <1>1, <1>2, <1>3, GenerationsAfter
  <1>5. CacheInv'
    BY <1>1, <1>3, <1>4, CacheKept DEF Sources, TickInv
  <1>6. TickInv' /\ ArmsInv' /\ DwellServed'
    BY <1>1, <1>4, QuietStep DEF Sources, Recording, TickInv
  <1> QED BY <1>3, <1>4, <1>5, <1>6 DEF LoopInv

(* A market-status line keeps the invariant. *)
LEMMA RecordMarketStatusStep ==
  ASSUME LoopInv, NEW status, RecordMarketStatus(status)
  PROVE  LoopInv'
PROOF
  <1> DEFINE row == StatusRow(status, gens.market_status)
  <1>1. /\ Recording /\ disk' = Record(disk, rec, row).disk /\ rec' = Record(disk, rec, row).rec
        /\ UNCHANGED <<gens, now, obsSeq, cache, st, last, disturbed>>
    BY DEF RecordMarketStatus, Mint, RecordAndReturnPair
  <1>2. DOMAIN row = {"event_type", "status", "recv_ts", "epoch"} /\ row.event_type = "MarketStatusEvent"
    BY DEF StatusRow
  <1>3. "sequence_no" \notin DOMAIN row /\ "event_type" \in DOMAIN row /\ row.event_type # "MintEvent"
    BY <1>2
  <1> HIDE DEF row
  <1> QED BY <1>1, <1>3, LineStep

(* So does a gap line. *)
LEMMA NoteGapStep ==
  ASSUME LoopInv, NoteGap
  PROVE  LoopInv'
PROOF
  <1> DEFINE row == [event_type |-> "RecorderGapEvent", recv_ts |-> now, from_ts |-> now - 1]
  <1>1. /\ Recording /\ disk' = Record(disk, rec, row).disk /\ rec' = Record(disk, rec, row).rec
        /\ UNCHANGED <<gens, now, obsSeq, cache, st, last, disturbed>>
    BY DEF NoteGap, RecordGap
  <1>2. DOMAIN row = {"event_type", "recv_ts", "from_ts"} /\ row.event_type = "RecorderGapEvent"
    OBVIOUS
  <1>3. "sequence_no" \notin DOMAIN row /\ "event_type" \in DOMAIN row /\ row.event_type # "MintEvent"
    BY <1>2
  <1> HIDE DEF row
  <1> QED BY <1>1, <1>3, LineStep

(* With the rows unchanged the tape holds the same generations. *)
LEMMA SameRows ==
  ASSUME disk'.rows = disk.rows
  PROVE  Range(disk'.rows) = Range(disk.rows) /\ \A source : DurableEpochs(source)' = DurableEpochs(source)
PROOF
  BY DEF DurableEpochs, EventRows

(* A new generation is past every one on the tape. *)
LEMMA ReconnectStep ==
  ASSUME LoopInv, NEW source \in Sources, Reconnect(source)
  PROVE  LoopInv'
PROOF
  <1>1. /\ Recording /\ gens' = [gens EXCEPT ![source] = @ + 1]
        /\ UNCHANGED <<disk, rec, now, obsSeq, cache, st, last, disturbed>>
    BY DEF Reconnect
  <1>2. TapeInv /\ GenerationsInv /\ CacheInv /\ TickInv /\ ArmsInv /\ DwellServed
    BY DEF LoopInv
  <1>3. Range(disk'.rows) = Range(disk.rows) /\ \A x : DurableEpochs(x)' = DurableEpochs(x)
    BY <1>1, SameRows
  <1>4. TapeInv'
    BY <1>1, <1>2 DEF TapeInv
  <1>5. GenerationsInv'
    BY <1>1, <1>2, <1>3 DEF GenerationsInv, Recording, Sources
  <1>6. CacheInv'
    BY <1>1, <1>2, <1>3, CacheKept DEF TickInv
  <1>7. gens'.book = gens.book \/ gens'.book \notin DurableEpochs("book")
    <2>1. CASE source = "fv"
      BY <1>1, <1>2, <2>1 DEF GenerationsInv
    <2>2. CASE source = "book"
      <3>1. gens'.book = gens.book + 1 /\ gens.book \in Nat
            /\ \A e \in DurableEpochs("book") : e \in Nat /\ e <= gens.book
        BY <1>1, <1>2, <2>2 DEF GenerationsInv, Recording, Sources
      <3> QED BY <3>1
    <2> QED BY <2>1, <2>2 DEF Sources
  <1>8. TickInv' /\ ArmsInv' /\ DwellServed'
    BY <1>1, <1>2, <1>3, <1>7, QuietStep DEF Recording, TickInv
  <1> QED BY <1>4, <1>5, <1>6, <1>8 DEF LoopInv

(* A crash loses the cache and the counter, never a row. *)
LEMMA CrashStep ==
  ASSUME LoopInv, Crash
  PROVE  LoopInv'
PROOF
  <1>1. /\ Recording /\ rec' = None /\ cache' = {} /\ obsSeq' = 0
        /\ UNCHANGED <<gens, now, st, last, disturbed>>
    BY DEF Crash
  <1>2. PICK torn \in BOOLEAN : disk' = [disk EXCEPT !.torn = torn]
    BY DEF Crash
  <1>3. TapeInv /\ GenerationsInv /\ CacheInv /\ TickInv /\ ArmsInv /\ DwellServed
    BY DEF LoopInv
  <1>4. disk'.rows = disk.rows /\ disk'.meta = None /\ DOMAIN disk' = {"rows", "torn", "meta"}
    BY <1>1, <1>2, <1>3 DEF TapeInv, Recording
  <1>5. Range(disk'.rows) = Range(disk.rows) /\ \A x : DurableEpochs(x)' = DurableEpochs(x)
    BY <1>4, SameRows
  <1>6. TapeInv'
    BY <1>1, <1>3, <1>4 DEF TapeInv
  <1>7. GenerationsInv'
    BY <1>1, <1>3, <1>5 DEF GenerationsInv
  <1>8. CacheInv'
    BY <1>1, <1>3, <1>5 DEF CacheInv, OfStream
  <1>9. TickInv' /\ ArmsInv' /\ DwellServed'
    BY <1>1, <1>3, <1>5, QuietStep
  <1> QED BY <1>6, <1>7, <1>8, <1>9 DEF LoopInv

(* Sealing writes no row. *)
LEMMA FinalizeStep ==
  ASSUME LoopInv, Finalize
  PROVE  LoopInv'
PROOF
  <1> DEFINE meta == [count |-> Len(rec.events), hash |-> SessionContentHash(rec.events, DOMAIN rec.events)]
  <1>1. /\ Recording /\ (disk' = disk \/ disk' = [disk EXCEPT !.meta = meta])
        /\ UNCHANGED <<rec, gens, now, obsSeq, cache, st, last, disturbed>>
    BY DEF Finalize, FinalizeTape
  <1> HIDE DEF meta
  <1>3. TapeInv /\ GenerationsInv /\ CacheInv /\ TickInv /\ ArmsInv /\ DwellServed
    BY DEF LoopInv
  <1>4. disk'.rows = disk.rows /\ DOMAIN disk' = {"rows", "torn", "meta"}
    BY <1>1, <1>3 DEF TapeInv
  <1>5. Range(disk'.rows) = Range(disk.rows) /\ \A x : DurableEpochs(x)' = DurableEpochs(x)
    BY <1>4, SameRows
  <1>6. TapeInv'
    BY <1>1, <1>3, <1>4 DEF TapeInv, Recording
  <1>7. GenerationsInv'
    BY <1>1, <1>3, <1>5 DEF GenerationsInv
  <1>8. CacheInv'
    BY <1>1, <1>3, <1>5, CacheKept DEF TickInv
  <1>9. TickInv' /\ ArmsInv' /\ DwellServed'
    BY <1>1, <1>3, <1>5, QuietStep DEF TickInv, Recording
  <1> QED BY <1>6, <1>7, <1>8, <1>9 DEF LoopInv

(* A resumed session is of new generations of both sources. *)
LEMMA ResumedGenerations ==
  ASSUME GenerationsInv, NEW prior, prior = ReadDurableSourceGenerations,
         NEW next, next.book = prior.book + 1, next.fv = (IF prior.fv = None THEN 0 ELSE prior.fv) + 1
  PROVE  \A source \in Sources : next[source] \in Nat /\ \A e \in DurableEpochs(source) : e < next[source]
PROOF
  <1> DEFINE books == DurableEpochs("book")
             fvs == DurableEpochs("fv")
  <1>1. /\ prior.book = Max({0} \cup books)
        /\ prior.fv = IF fvs = {} THEN None ELSE Max(fvs)
    BY DEF ReadDurableSourceGenerations
  <1>3. /\ books \subseteq Nat /\ (books # {} => \E m \in books : \A e \in books : e <= m)
        /\ fvs \subseteq Nat /\ (fvs # {} => \E m \in fvs : \A e \in fvs : e <= m)
    BY DEF GenerationsInv, Sources
  <1> HIDE DEF books, fvs
  <1>4. prior.book \in Nat /\ \A e \in books : e <= prior.book
    <2>1. \E m \in {0} \cup books : \A e \in {0} \cup books : e <= m
      <3>1. CASE books = {}
        BY <3>1
      <3>2. CASE books # {}
        <4>1. PICK m \in books : \A e \in books : e <= m
          BY <1>3, <3>2
        <4>2. \A e \in {0} \cup books : e <= m
          BY <1>3, <4>1
        <4> QED BY <4>2
      <3> QED BY <3>1, <3>2
    <2>2. PICK m \in {0} \cup books : \A e \in {0} \cup books : e <= m
      BY <2>1
    <2>3. Max({0} \cup books) = m
      <3> DEFINE all == {0} \cup books
      <3>1. all \subseteq Nat /\ m \in all /\ \A e \in all : e <= m
        BY <1>3, <2>2
      <3> HIDE DEF all
      <3>2. Max(all) = m
        BY <3>1, MaxIsGreatest
      <3> QED BY <3>2 DEF all
    <2> QED BY <1>1, <1>3, <2>2, <2>3
  <1>5. CASE fvs = {}
    <2>1. next.fv = 1
      BY <1>1, <1>5
    <2>2. next.book \in Nat /\ \A e \in books : e < next.book
      BY <1>3, <1>4
    <2> QED BY <1>5, <2>1, <2>2 DEF books, fvs, Sources
  <1>6. CASE fvs # {}
    <2>1. PICK m \in fvs : \A e \in fvs : e <= m
      BY <1>3, <1>6
    <2>2. Max(fvs) = m
      BY <1>3, <2>1, MaxIsGreatest
    <2>3. prior.fv = m /\ m \in Nat /\ m # None
      BY <1>1, <1>3, <1>6, <2>2, NoneAssumption
    <2>4. next.fv \in Nat /\ \A e \in fvs : e < next.fv
      BY <1>3, <2>1, <2>3
    <2>5. next.book \in Nat /\ \A e \in books : e < next.book
      BY <1>3, <1>4
    <2> QED BY <2>4, <2>5 DEF books, fvs, Sources
  <1> QED BY <1>5, <1>6

(* A resumed session is past its tape in numbers and in generations. *)
LEMMA ResumeStep ==
  ASSUME LoopInv, Resume
  PROVE  LoopInv'
PROOF
  <1> DEFINE next == ResumeSourceGenerations(ReadDurableSourceGenerations, TRUE)
  <1>1. /\ rec = None /\ disk' = ResumeRecorder(disk).disk /\ rec' = ResumeRecorder(disk).rec
        /\ gens' = [next EXCEPT !.market_status = IF @ = None THEN 1 ELSE @]
        /\ UNCHANGED <<now, obsSeq, cache, used>>
        /\ \/ st' = st /\ UNCHANGED <<last, disturbed>>
           \/ st' = [arm \in Arms |-> FreshState] /\ last' = NoTick /\ disturbed' = None
    BY DEF Resume
  <1>2. TapeInv /\ GenerationsInv /\ CacheInv /\ TickInv /\ ArmsInv /\ DwellServed
    BY DEF LoopInv
  <1>3. TapeInv' /\ disk'.rows = disk.rows
    BY <1>1, <1>2, ResumedTape
  <1>4. Range(disk'.rows) = Range(disk.rows) /\ \A x : DurableEpochs(x)' = DurableEpochs(x)
    BY <1>3, SameRows
  <1>5. /\ DOMAIN next = {"book", "fv", "market_status"}
        /\ \A source \in Sources : next[source] \in Nat /\ \A e \in DurableEpochs(source) : e < next[source]
    <2>1. /\ DOMAIN next = {"book", "fv", "market_status"}
          /\ next.book = ReadDurableSourceGenerations.book + 1
          /\ next.fv = (IF ReadDurableSourceGenerations.fv = None THEN 0
                       ELSE ReadDurableSourceGenerations.fv) + 1
      BY DEF ResumeSourceGenerations
    <2> HIDE DEF next
    <2> QED BY <1>2, <2>1, ResumedGenerations
  <1> HIDE DEF next
  <1>6. /\ DOMAIN gens' = {"book", "fv", "market_status"}
        /\ \A source \in Sources : gens'[source] = next[source]
    BY <1>1, <1>5 DEF Sources
  <1>7. GenerationsInv'
    BY <1>2, <1>4, <1>5, <1>6 DEF GenerationsInv
  <1>8. gens'.book \notin DurableEpochs("book")
    <2>1. gens'.book \in Nat /\ \A e \in DurableEpochs("book") : e < gens'.book
      BY <1>5, <1>6 DEF Sources
    <2> QED BY <2>1
  <1>9. CASE st' = st /\ UNCHANGED <<last, disturbed>>
    <2>1. CacheInv'
      BY <1>1, <1>2, <1>4, <1>9, CacheKept DEF TickInv
    <2>2. TickInv' /\ ArmsInv' /\ DwellServed'
      BY <1>1, <1>2, <1>4, <1>8, <1>9, QuietStep DEF TickInv
    <2> QED BY <1>3, <1>7, <2>1, <2>2 DEF LoopInv
  <1>10. CASE st' = [arm \in Arms |-> FreshState] /\ last' = NoTick /\ disturbed' = None
    <2>1. IsState(FreshState) /\ FreshState.last_book_source_epoch = None /\ FreshState.guard_watermark = None
          /\ FreshState.event_cooldown_until_ts = None
      BY DEF IsState, StateFields, FreshState
    <2>2. st'["guarded"].guard_watermark = None /\ ~Ticked' /\ last'.at = 0
      BY <1>10, <2>1 DEF Arms, Ticked, NoTick
    <2>3. CacheInv'
      BY <1>1, <1>2, <1>4, <2>2 DEF CacheInv, OfStream, IsNewest, Later
    <2>4. TickInv'
      BY <1>1, <1>2, <1>10, <2>2 DEF TickInv
    <2>5. ArmsInv' /\ DwellServed'
      BY <1>10, <2>1, <2>2 DEF ArmsInv, DwellServed
    <2> QED BY <1>3, <1>7, <2>3, <2>4, <2>5 DEF LoopInv
  <1> QED BY <1>1, <1>9, <1>10

(* What the arms' configurations have in common. *)
LEMMA ArmConfigs ==
  ASSUME NEW arm \in Arms
  PROVE  /\ ArmConfig(arm).guard_enabled <=> arm = "guarded"
         /\ ArmConfig(arm).book_state_dwell_before_quote_ms = Dwell /\ Dwell \in Nat
PROOF
  BY ConfigIsValid DEF ArmConfig, StrategyConfig, Dwell

(* Every tick is accepted: the clock and the sequence grow, and neither the generation of the book
   nor that of the guard's fair value goes back. *)
LEMMA ArmAccepts ==
  ASSUME LoopInv, Recording, NEW arm \in Arms, NEW o,
         o.observation_sequence = obsSeq + 1, o.as_of_ts = now, o.book_source_epoch = gens.book,
         arm = "guarded" /\ o.guard_fv # None =>
           \E p \in OfStream : IsNewest(p, OfStream) /\ o.guard_fv.fv_source_epoch = p.source_epoch,
         Ticked
  PROVE  Accepted(o, st[arm], ArmConfig(arm))
PROOF
  <1> DEFINE s == st[arm]
             c == ArmConfig(arm)
  <1>1. TapeInv /\ GenerationsInv /\ CacheInv /\ TickInv /\ ArmsInv
    BY DEF LoopInv
  <1>3. c.guard_enabled <=> arm = "guarded"
    BY ArmConfigs
  <1>4. now \in Nat /\ obsSeq \in Nat /\ gens.book \in Nat
    BY <1>1 DEF TickInv, GenerationsInv, Sources
  <1>5. /\ Noted(s, last.o)
        /\ last.o.as_of_ts \in Nat /\ last.o.as_of_ts < now
        /\ last.o.book_source_epoch \in DurableEpochs("book")
        /\ last.o.observation_sequence \in Nat
        /\ last.o.book_source_epoch = gens.book => last.o.observation_sequence <= obsSeq
    BY <1>1 DEF TickInv, ArmsInv, Recording
  <1>6. last.o.book_source_epoch \in Nat /\ last.o.book_source_epoch <= gens.book
    BY <1>1, <1>5 DEF GenerationsInv, Sources, Recording
  <1>7. GuardEpochDelta(o, s, c) \in Nat
    <2>1. CASE ~(c.guard_enabled /\ o.guard_fv # None /\ s.guard_watermark # None)
      BY <2>1 DEF GuardEpochDelta
    <2>2. CASE c.guard_enabled /\ o.guard_fv # None /\ s.guard_watermark # None
      <3>1. arm = "guarded"
        BY <1>3, <2>2
      <3>2. PICK p \in OfStream : IsNewest(p, OfStream) /\ o.guard_fv.fv_source_epoch = p.source_epoch
        BY <2>2, <3>1
      <3>3. s.guard_watermark \in Nat /\ p.source_epoch \in Nat /\ s.guard_watermark <= p.source_epoch
        BY <1>1, <2>2, <3>1, <3>2 DEF CacheInv, GenerationsInv, Sources, OfStream
      <3> QED BY <2>2, <3>2, <3>3 DEF GuardEpochDelta
    <2> QED BY <2>1, <2>2
  <1>8. Accepted(o, s, c)
    <2>1. /\ s.last_book_source_epoch = last.o.book_source_epoch /\ s.last_as_of_ts = last.o.as_of_ts
          /\ s.last_observation_sequence = last.o.observation_sequence
      BY <1>5 DEF Noted
    <2>2. ~(GuardEpochDelta(o, s, c) < 0)
      BY <1>7
    <2> HIDE DEF s, c
    <2> QED BY <1>4, <1>5, <1>6, <2>1, <2>2, NoneAssumption DEF Accepted
  <1> QED BY <1>8

(* One arm on one tick: it notes the tick, and starts the dwell of any disturbance the feed shows. *)
LEMMA ArmTick ==
  ASSUME LoopInv, Recording, NEW arm \in Arms, NEW o,
         o.observation_sequence = obsSeq + 1, o.as_of_ts = now, o.book_source_epoch = gens.book,
         o.phase \in {0, 1}, o.suspended \in BOOLEAN,
         arm = "guarded" /\ o.guard_fv # None =>
           \E p \in OfStream : IsNewest(p, OfStream) /\ o.guard_fv.fv_source_epoch = p.source_epoch
  PROVE  LET d == Decide(o, st[arm], ArmConfig(arm))
             until == d.state.event_cooldown_until_ts
             when == IF Disturbs(o) THEN now ELSE disturbed
         IN  /\ IsState(d.state) /\ Noted(d.state, o)
             /\ d.state.guard_watermark = GuardWatermark(o, st[arm], ArmConfig(arm))
             /\ until \in Int \cup {None}
             /\ when # None => \/ until # None /\ when + Dwell <= until
                               \/ when + Dwell < now + 1
             /\ when # None /\ ~PlacesNothing(d.decision) => when + Dwell <= now
PROOF
  <1> DEFINE s == st[arm]
             c == ArmConfig(arm)
             d == Decide(o, s, c)
             until == d.state.event_cooldown_until_ts
             when == IF Disturbs(o) THEN now ELSE disturbed
  <1>1. TapeInv /\ GenerationsInv /\ CacheInv /\ TickInv /\ ArmsInv
    BY DEF LoopInv
  <1>2. /\ IsState(s) /\ s.event_cooldown_until_ts \in Int \cup {None}
        /\ IF Ticked THEN Noted(s, last.o) ELSE s.last_book_source_epoch = None
        /\ disturbed # None => \/ /\ s.event_cooldown_until_ts # None
                                  /\ disturbed + Dwell <= s.event_cooldown_until_ts
                               \/ disturbed + Dwell < now
    BY <1>1 DEF ArmsInv
  <1>3. (c.guard_enabled <=> arm = "guarded") /\ c.book_state_dwell_before_quote_ms = Dwell /\ Dwell \in Nat
    BY ArmConfigs
  <1>4. /\ now \in Nat /\ obsSeq \in Nat /\ gens.book \in Nat
        /\ disturbed \in Nat \cup {None} /\ (disturbed # None => disturbed < now)
    BY <1>1 DEF TickInv, GenerationsInv, Sources
  <1>5. CASE ~Ticked
    <2>1. disturbed = None /\ ~Disturbs(o) /\ s.last_book_source_epoch = None
      BY <1>1, <1>2, <1>5 DEF TickInv, Disturbs
    <2>2. when = None
      BY <2>1
    <2> HIDE DEF d, s, c
    <2>3. /\ IsState(d.state) /\ Noted(d.state, o) /\ d.state.guard_watermark = GuardWatermark(o, s, c)
          /\ until = s.event_cooldown_until_ts
      BY <1>2, <2>1, SeedNotes DEF d
    <2> HIDE DEF when, until
    <2> QED BY <1>2, <2>2, <2>3 DEF when, until, d, s, c
  <1>6. CASE Ticked
    <2>1. /\ Noted(s, last.o)
          /\ last.o.as_of_ts \in Nat /\ last.o.as_of_ts < now
          /\ last.o.phase \in {0, 1} /\ last.o.suspended \in BOOLEAN
          /\ last.o.book_source_epoch \in DurableEpochs("book")
          /\ last.o.observation_sequence \in Nat
          /\ last.o.book_source_epoch = gens.book => last.o.observation_sequence <= obsSeq
      BY <1>1, <1>2, <1>6 DEF TickInv, Recording
    <2>2. last.o.book_source_epoch \in Nat /\ last.o.book_source_epoch <= gens.book
      BY <1>1, <2>1 DEF GenerationsInv, Sources, Recording
    <2>4. Accepted(o, s, c)
      BY <1>6, ArmAccepts
    <2>5. Disturbs(o) => Troubled(o, s)
      <3>1. /\ s.last_book_source_epoch = last.o.book_source_epoch /\ s.last_phase = last.o.phase
            /\ s.last_suspended = last.o.suspended /\ s.last_book_in_gap = InGap(last.o)
        BY <2>1 DEF Noted
      <3>2. s.last_phase # None
        BY <2>1, <3>1, NoneAssumption
      <3> HIDE DEF s
      <3>3. InGap(last.o) => InGap(o) \/ GapEpisodeEnd(o, s)
        BY <3>1 DEF GapEpisodeEnd
      <3>4. last.o.suspended /\ ~o.suspended => SuspensionReopen(o, s)
        <4> SUFFICES ASSUME last.o.suspended, ~o.suspended PROVE SuspensionReopen(o, s)
          OBVIOUS
        <4>1. last.o.suspended = TRUE
          BY <2>1
        <4> QED BY <3>1, <4>1 DEF SuspensionReopen
      <3>5. last.o.phase # o.phase => PhaseTransition(o, s)
        BY <3>1, <3>2 DEF PhaseTransition
      <3>6. last.o.book_source_epoch # o.book_source_epoch => o.book_source_epoch > s.last_book_source_epoch
        BY <1>4, <2>2, <3>1
      <3>7. Disturbs(o) => \/ InGap(o) \/ o.tick_regime_changed \/ InGap(last.o)
                           \/ last.o.suspended /\ ~o.suspended
                           \/ last.o.phase # o.phase
                           \/ last.o.book_source_epoch # o.book_source_epoch
        BY DEF Disturbs, InGap
      <3> QED BY <3>3, <3>4, <3>5, <3>6, <3>7 DEF Troubled
    <2>6. CooldownDeadline(o, c) = now + Dwell
      BY <1>3 DEF CooldownDeadline
    <2> HIDE DEF d, s, c
    <2>7. /\ IsState(d.state) /\ Noted(d.state, o) /\ d.state.guard_watermark = GuardWatermark(o, s, c)
          /\ \/ until = now + Dwell /\ PlacesNothing(d.decision)
             \/ ~Disturbs(o) /\ until = s.event_cooldown_until_ts /\ PlacesNothing(d.decision)
             \/ ~Disturbs(o) /\ until = None /\ ~CooldownActive(o, s)
      BY <1>2, <2>4, <2>5, <2>6, DecideNotes DEF d
    <2> HIDE DEF until
    <2>8. CASE until = now + Dwell /\ PlacesNothing(d.decision)
      <3>1. until \in Int /\ until # None /\ (when # None => when + Dwell <= until)
        BY <1>3, <1>4, <2>8, NoneAssumption
      <3> HIDE DEF when
      <3> QED BY <2>7, <2>8, <3>1 DEF when, until, d, s, c
    <2>9. CASE ~Disturbs(o) /\ until = s.event_cooldown_until_ts /\ PlacesNothing(d.decision)
      <3>1. until \in Int \cup {None}
            /\ (when # None => \/ until # None /\ when + Dwell <= until
                              \/ when + Dwell < now + 1)
        BY <1>2, <1>3, <1>4, <2>9
      <3> HIDE DEF when
      <3> QED BY <2>7, <2>9, <3>1 DEF when, until, d, s, c
    <2>10. CASE ~Disturbs(o) /\ until = None /\ ~CooldownActive(o, s)
      <3>1. until \in Int \cup {None} /\ (when # None => when + Dwell < now + 1 /\ when + Dwell <= now)
        BY <1>2, <1>3, <1>4, <2>10 DEF CooldownActive
      <3> HIDE DEF when
      <3> QED BY <2>7, <2>10, <3>1 DEF when, until, d, s, c
    <2> QED BY <2>7, <2>8, <2>9, <2>10
  <1> QED BY <1>5, <1>6

(* What a tick shows: the same feed to both arms, and a fair value to the guarded one. *)
ShownFv ==
  LET w == EligibleFvPair(OfStream, now, rec.seq + 1)
  IN  IF w = None THEN None
      ELSE [fv |-> w.value, fv_source_ts |-> w.source_ts,
            fv_recv_ts |-> w.recv_ts, fv_source_epoch |-> w.source_epoch]
Shown(shape, arm) ==
  Build(shape, obsSeq + 1, IF arm = "guarded" THEN ShownFv ELSE None, LatestMarketStatus)
Decided(shape, arm) == Decide(Shown(shape, arm), st[arm], ArmConfig(arm))

(* A tick, written with what it shows and what the arms decide. *)
LEMMA TickUnfolded ==
  ASSUME NEW shape, ObservationTick(shape)
  PROVE  LET row == MintRow("book", gens.book, Stream)
         IN  /\ Recording
             /\ disk' = Record(disk, rec, row).disk /\ rec' = Record(disk, rec, row).rec
             /\ obsSeq' = obsSeq + 1 /\ now' = now + 1
             /\ st' = [arm \in Arms |-> Decided(shape, arm).state]
             /\ last' = [at |-> now, o |-> Shown(shape, "guarded"),
                         decision |-> [arm \in Arms |-> Decided(shape, arm).decision]]
             /\ disturbed' = IF Disturbs(Shown(shape, "guarded")) THEN now ELSE disturbed
             /\ UNCHANGED <<gens, cache>>
PROOF
  <1> DEFINE row == MintRow("book", gens.book, Stream)
             pair == RecordAndReturnPair(disk, rec, row).pair
             fv(arm) == ProjectGuardFv(pair, Stream, arm = "guarded")
             obs(arm) == Build(shape, obsSeq + 1, fv(arm), LatestMarketStatus)
  <1>1. /\ Recording
        /\ disk' = Record(disk, rec, row).disk /\ rec' = Record(disk, rec, row).rec
        /\ obsSeq' = obsSeq + 1 /\ now' = now + 1
        /\ st' = [arm \in Arms |-> [x \in Arms |-> Decide(obs(x), st[x], ArmConfig(x))][arm].state]
        /\ last' = [at |-> now, o |-> obs("guarded"),
                    decision |-> [arm \in Arms |->
                       [x \in Arms |-> Decide(obs(x), st[x], ArmConfig(x))][arm].decision]]
        /\ disturbed' = IF Disturbs(obs("guarded")) THEN now ELSE disturbed
        /\ UNCHANGED <<gens, cache>>
    BY Zenon DEF ObservationTick, Mint, RecordAndReturnPair
  <1>2. pair = <<now, rec.seq + 1>>
    BY DEF RecordAndReturnPair, MintRow, NextSeq
  <1>3. \A arm \in Arms : fv(arm) = IF arm = "guarded" THEN ShownFv ELSE None
    <2> HIDE DEF pair
    <2>1. \A arm : fv(arm) = LET w == EligibleFvPair(OfStream, pair[1], pair[2])
                            IN  IF ~(arm = "guarded") THEN None ELSE IF w = None THEN None
                                ELSE [fv |-> w.value, fv_source_ts |-> w.source_ts,
                                      fv_recv_ts |-> w.recv_ts, fv_source_epoch |-> w.source_epoch]
      BY Zenon DEF ProjectGuardFv, OfStream
    <2>2. pair[1] = now /\ pair[2] = rec.seq + 1
      BY <1>2
    <2> HIDE DEF fv
    <2> QED BY <2>1, <2>2 DEF ShownFv
  <1> HIDE DEF fv
  <1>4. \A arm \in Arms : obs(arm) = Shown(shape, arm)
    BY <1>3 DEF Shown
  <1> HIDE DEF obs
  <1>5. \A arm \in Arms : Decide(obs(arm), st[arm], ArmConfig(arm)) = Decided(shape, arm)
    BY <1>4 DEF Decided
  <1>6. "guarded" \in Arms
    BY DEF Arms
  <1> HIDE DEF row
  <1> QED BY <1>1, <1>4, <1>5, <1>6 DEF row

(* The facts of a shown observation. *)
LEMMA ShownFacts ==
  ASSUME LoopInv, Recording, NEW shape \in Shapes \cup {Plain}, NEW arm \in Arms, NEW o,
         o = Shown(shape, arm)
  PROVE  /\ o.observation_sequence = obsSeq + 1 /\ o.as_of_ts = now /\ o.book_source_epoch = gens.book
         /\ o.phase \in {0, 1} /\ o.suspended \in BOOLEAN
         /\ o.guard_fv # None =>
              \E p \in OfStream : IsNewest(p, OfStream) /\ o.guard_fv.fv_source_epoch = p.source_epoch
PROOF
  <1>1. shape \in RawTicks
    BY FeedAssumption
  <1>2. /\ o.observation_sequence = obsSeq + 1 /\ o.as_of_ts = now /\ o.book_source_epoch = gens.book
        /\ o.phase = shape.phase /\ o.suspended = shape.suspended
        /\ o.guard_fv = IF arm = "guarded" THEN ShownFv ELSE None
    BY DEF Shown, Build
  <1>3. shape.phase \in {0, 1} /\ shape.suspended \in BOOLEAN
    BY <1>1 DEF RawTicks
  <1>4. ShownFv # None =>
          \E p \in OfStream : IsNewest(p, OfStream) /\ ShownFv.fv_source_epoch = p.source_epoch
    <2> DEFINE w == EligibleFvPair(OfStream, now, rec.seq + 1)
    <2>1. w # None => w \in OfStream /\ IsNewest(w, OfStream)
      BY WinnerIsNewest DEF LoopInv, TickInv
    <2>2. ShownFv = IF w = None THEN None
                    ELSE [fv |-> w.value, fv_source_ts |-> w.source_ts,
                          fv_recv_ts |-> w.recv_ts, fv_source_epoch |-> w.source_epoch]
      BY DEF ShownFv
    <2> HIDE DEF w
    <2> QED BY <2>1, <2>2
  <1> QED BY <1>2, <1>3, <1>4

(* Both arms are shown the same disturbances. *)
LEMMA SameDisturbance ==
  ASSUME NEW shape, NEW arm \in Arms
  PROVE  Disturbs(Shown(shape, arm)) <=> Disturbs(Shown(shape, "guarded"))
PROOF
  BY DEF Disturbs, Shown, Build

(* A tick keeps the invariant. *)
LEMMA ObservationTickStep ==
  ASSUME LoopInv, NEW shape \in Shapes \cup {Plain}, ObservationTick(shape)
  PROVE  LoopInv'
PROOF
  <1> DEFINE row == MintRow("book", gens.book, Stream)
             new == Stamped(rec, row)
             g == Shown(shape, "guarded")
             when == IF Disturbs(g) THEN now ELSE disturbed
  <1>1. /\ Recording
        /\ disk' = Record(disk, rec, row).disk /\ rec' = Record(disk, rec, row).rec
        /\ obsSeq' = obsSeq + 1 /\ now' = now + 1
        /\ st' = [arm \in Arms |-> Decided(shape, arm).state]
        /\ last' = [at |-> now, o |-> g, decision |-> [arm \in Arms |-> Decided(shape, arm).decision]]
        /\ disturbed' = when
        /\ UNCHANGED <<gens, cache>>
    BY TickUnfolded
  <1>2. TapeInv /\ GenerationsInv /\ CacheInv /\ TickInv /\ ArmsInv /\ DwellServed
    BY DEF LoopInv
  <1>3. /\ DOMAIN row = {"event_type", "source", "source_epoch", "recv_ts", "identity"}
        /\ row.event_type = "MintEvent" /\ row.source = "book" /\ row.source_epoch = gens.book
    BY DEF MintRow
  <1> HIDE DEF row
  <1>4. new.event_type = "MintEvent" /\ new.source = "book" /\ new.source_epoch = gens.book
    <2>1. "sequence_no" \notin DOMAIN row /\ {"event_type", "source", "source_epoch"} \subseteq DOMAIN row
      BY <1>3
    <2> QED BY <1>3, <2>1, StampedRow
  <1>5. TapeInv' /\ Range(disk'.rows) = Range(disk.rows) \cup {new}
    BY <1>1, <1>2, <1>3, LineWritten
  <1> HIDE DEF new
  <1>6. GenerationsInv' /\ \A source \in Sources : DurableEpochs(source) \subseteq DurableEpochs(source)'
    BY <1>1, <1>2, <1>4, <1>5, GenerationsAfter DEF Sources
  <1>7. gens.book \in DurableEpochs("book")'
    BY <1>4, <1>5, EpochsAfter
  <1>8. /\ g.observation_sequence = obsSeq + 1 /\ g.as_of_ts = now /\ g.book_source_epoch = gens.book
        /\ g.phase \in {0, 1} /\ g.suspended \in BOOLEAN
        /\ g.guard_fv # None =>
             \E p \in OfStream : IsNewest(p, OfStream) /\ g.guard_fv.fv_source_epoch = p.source_epoch
    BY <1>1, ShownFacts DEF Arms
  <1>9. ASSUME NEW arm \in Arms
        PROVE  LET d == Decided(shape, arm)
                   until == d.state.event_cooldown_until_ts
               IN  /\ IsState(d.state) /\ Noted(d.state, g)
                   /\ d.state.guard_watermark = GuardWatermark(Shown(shape, arm), st[arm], ArmConfig(arm))
                   /\ until \in Int \cup {None}
                   /\ when # None => \/ until # None /\ when + Dwell <= until
                                     \/ when + Dwell < now + 1
                   /\ when # None /\ ~PlacesNothing(d.decision) => when + Dwell <= now
    <2> DEFINE o == Shown(shape, arm)
               d == Decided(shape, arm)
    <2>1. /\ o.observation_sequence = obsSeq + 1 /\ o.as_of_ts = now /\ o.book_source_epoch = gens.book
          /\ o.phase \in {0, 1} /\ o.suspended \in BOOLEAN
          /\ o.guard_fv # None =>
               \E p \in OfStream : IsNewest(p, OfStream) /\ o.guard_fv.fv_source_epoch = p.source_epoch
      BY <1>1, ShownFacts
    <2>2. Disturbs(o) <=> Disturbs(g)
      BY SameDisturbance
    <2>3. \A t : Noted(t, o) => Noted(t, g)
      BY DEF Noted, Shown, Build, InGap
    <2>4. d = Decide(o, st[arm], ArmConfig(arm))
      BY DEF Decided
    <2> HIDE DEF o, d, g
    <2> QED BY <1>1, <2>1, <2>2, <2>3, <2>4, ArmTick DEF o, d
  <1> HIDE DEF g
  <1>10. Ticked' /\ last'.o = g /\ last'.at = now /\ now \in Nat \ {0} /\ obsSeq \in Nat
    BY <1>1, <1>2 DEF Ticked, TickInv
  <1>11. when \in Nat \cup {None} /\ (when # None => when < now + 1)
    BY <1>2 DEF TickInv
  <1> HIDE DEF when
  <1>12. TickInv'
    BY <1>1, <1>7, <1>8, <1>10, <1>11 DEF TickInv
  <1>13. \A arm \in Arms : st'[arm] = Decided(shape, arm).state
    BY <1>1
  <1>14. ArmsInv'
    <2>1. DOMAIN st' = Arms
      BY <1>1
    <2> SUFFICES ASSUME NEW arm \in Arms
                 PROVE  /\ IsState(st'[arm]) /\ Noted(st'[arm], g)
                        /\ st'[arm].event_cooldown_until_ts \in Int \cup {None}
                        /\ when # None =>
                             \/ /\ st'[arm].event_cooldown_until_ts # None
                                /\ when + Dwell <= st'[arm].event_cooldown_until_ts
                             \/ when + Dwell < now + 1
      BY <1>1, <1>10, <2>1 DEF ArmsInv, Dwell
    <2> QED BY <1>9, <1>13
  <1>15. DwellServed'
    <2> SUFFICES ASSUME when # None, NEW arm \in Arms, Placed(arm)' # {}
                 PROVE  when + Dwell <= now
      BY <1>1, <1>8, <1>10 DEF DwellServed, Dwell
    <2>1. last'.decision[arm] = Decided(shape, arm).decision
      BY <1>1
    <2>2. ~PlacesNothing(Decided(shape, arm).decision)
      BY <2>1 DEF Placed, PlacesNothing
    <2> QED BY <1>9, <2>2
  <1>16. CacheInv'
    <2> DEFINE w == st'["guarded"].guard_watermark
    <2>1. w = IF g.guard_fv # None THEN g.guard_fv.fv_source_epoch ELSE st["guarded"].guard_watermark
      <3>1. "guarded" \in Arms /\ ArmConfig("guarded").guard_enabled
        BY ArmConfigs DEF Arms
      <3> QED BY <1>9, <1>13, <3>1 DEF GuardWatermark, g
    <2>2. CASE g.guard_fv = None
      BY <1>1, <1>2, <1>5, <1>6, <1>10, <2>1, <2>2, CacheKept DEF Sources
    <2>3. CASE g.guard_fv # None
      <3>1. PICK p \in OfStream : IsNewest(p, OfStream) /\ w = p.source_epoch
        BY <1>8, <2>1, <2>3
      <3>2. \A e \in cache :
              /\ e.source_ts \in Int /\ e.sequence_no \in Nat /\ e.recv_ts \in Int /\ e.recv_ts <= now'
              /\ e.source_epoch \in DurableEpochs("fv")'
              /\ \E r \in Range(disk'.rows) : r.sequence_no = e.sequence_no
        BY <1>1, <1>2, <1>5, <1>6, <1>10 DEF CacheInv, Sources
      <3>3. OfStream' = OfStream /\ OfStream \subseteq cache
        BY <1>1 DEF OfStream
      <3>4. \A q \in OfStream : IsNewest(q, OfStream) => q = p
        BY <3>1, <3>2, <3>3 DEF IsNewest, Later, PairLess, Pair
      <3>5. w \in DurableEpochs("fv")' /\ w \in Nat
        BY <1>6, <3>1, <3>2, <3>3 DEF GenerationsInv, Sources
      <3>6. \A q \in OfStream : IsNewest(q, OfStream) => w <= q.source_epoch
        BY <3>1, <3>4, <3>5
      <3> HIDE DEF w
      <3> QED BY <1>1, <1>2, <3>2, <3>3, <3>5, <3>6 DEF CacheInv, w
    <2> QED BY <2>2, <2>3
  <1> QED BY <1>5, <1>6, <1>12, <1>14, <1>15, <1>16 DEF LoopInv

(* The invariant is inductive. *)
LEMMA LoopStep == LoopInv /\ [Next]_vars => LoopInv'
PROOF
  <1> SUFFICES ASSUME LoopInv, [Next]_vars PROVE LoopInv'
    OBVIOUS
  <1>1. CASE \E a \in Arrivals : FvArrival(a)
    BY <1>1, FvArrivalStep
  <1>2. CASE \E shape \in Shapes \cup {Plain} : ObservationTick(shape)
    BY <1>2, ObservationTickStep
  <1>3. CASE \E status \in {"ACTIVE", "HALTED"} : RecordMarketStatus(status)
    BY <1>3, RecordMarketStatusStep
  <1>4. CASE NoteGap
    BY <1>4, NoteGapStep
  <1>5. CASE \E source \in {"book", "fv"} : Reconnect(source)
    BY <1>5, ReconnectStep DEF Sources
  <1>6. CASE Crash
    BY <1>6, CrashStep
  <1>7. CASE Resume
    BY <1>7, ResumeStep
  <1>8. CASE Finalize
    BY <1>8, FinalizeStep
  <1>9. CASE UNCHANGED vars
    <2>1. UNCHANGED <<disk, rec, gens, now, obsSeq, cache, st, last, disturbed>>
      BY <1>9 DEF vars
    <2>2. TapeInv /\ GenerationsInv /\ CacheInv /\ TickInv /\ ArmsInv /\ DwellServed
      BY DEF LoopInv
    <2>3. Range(disk'.rows) = Range(disk.rows) /\ \A x : DurableEpochs(x)' = DurableEpochs(x)
      BY <2>1, SameRows
    <2>4. TapeInv' /\ GenerationsInv'
      BY <2>1, <2>2, <2>3 DEF TapeInv, GenerationsInv
    <2>5. CacheInv'
      BY <2>1, <2>2, <2>3, CacheKept DEF TickInv
    <2>6. TickInv' /\ ArmsInv' /\ DwellServed'
      <3>1. Ticked' = Ticked
        BY <2>1 DEF Ticked
      <3> QED BY <2>1, <2>2, <2>3, <3>1 DEF TickInv, ArmsInv, DwellServed, Placed, Dwell
    <2> QED BY <2>4, <2>5, <2>6 DEF LoopInv
  <1> QED BY <1>1, <1>2, <1>3, <1>4, <1>5, <1>6, <1>7, <1>8, <1>9 DEF Next

(* For every configuration, feed and clock: neither arm places a quote before a full dwell has
   passed since the last reconnect, gap, reopening, phase or tick-size change it was shown,
   crashes and resumptions included (_decide_raw, _classify_row, _apply_reset, _apply_event). *)
THEOREM DwellSafe == Spec => []DwellServed
PROOF
  <1>1. Init => LoopInv
    BY LoopInit
  <1>2. LoopInv /\ [Next]_vars => LoopInv'
    BY LoopStep
  <1>3. LoopInv => DwellServed
    BY DEF LoopInv
  <1> QED BY <1>1, <1>2, <1>3, PTL DEF Spec

(* However often a session crashes, with or without a torn line, its rows stay in order and the
   recorder never refuses to reopen it (LiveRecorder.resume). *)
THEOREM ResumeSafe == Spec => []TapeResumes
PROOF
  <1>1. Init => LoopInv
    BY LoopInit
  <1>2. LoopInv /\ [Next]_vars => LoopInv'
    BY LoopStep
  <1>3. LoopInv => TapeResumes
    <2> SUFFICES ASSUME LoopInv PROVE TapeResumes
      OBVIOUS
    <2>1. TapeInv
      BY DEF LoopInv
    <2>2. Len(disk.rows) \in Nat /\ DOMAIN disk.rows = 1 .. Len(disk.rows)
      BY <2>1 DEF TapeInv
    <2>3. StrictlyIncreasing(disk.rows)
      BY <2>1, <2>2 DEF TapeInv, StrictlyIncreasing
    <2> QED BY <2>1, <2>3 DEF TapeInv, TapeResumes, CanResume
  <1> QED BY <1>1, <1>2, <1>3, PTL DEF Spec

----
(* The seal. *)

(* A set counted off one by one has as many elements as were counted. *)
LEMMA CountedOff ==
  ASSUME NEW T, NEW m \in Nat, NEW f \in [1 .. m -> T],
         \A t \in T : \E i \in 1 .. m : f[i] = t,
         \A i, j \in 1 .. m : f[i] = f[j] => i = j
  PROVE  Cardinality(T) = m
PROOF
  <1>1. f \in Bijection(1 .. m, T)
    BY DEF Bijection, Injection, IsInjective, Surjection
  <1>2. ExistsBijection(1 .. m, T)
    BY <1>1 DEF ExistsBijection
  <1>3. IsFiniteSet(1 .. m) /\ Cardinality(1 .. m) = m
    BY FS_Interval
  <1> QED BY <1>2, <1>3, FS_Bijection

(* Of rows in the order of their numbers, as many come before one as its place says. *)
LEMMA RankIsPlace ==
  ASSUME NEW s, NEW n \in Nat, s \in Seq(Range(s)), Len(s) = n,
         \A i \in 1 .. n : s[i].sequence_no \in Nat,
         \A i, j \in 1 .. n : i < j => s[i].sequence_no < s[j].sequence_no,
         NEW k \in 1 .. n
  PROVE  Cardinality(Before(s[k], Range(s))) = k - 1
PROOF
  <1> DEFINE place == [i \in 1 .. k - 1 |-> s[i]]
             B == Before(s[k], Range(s))
  <1>1. Range(s) = { s[i] : i \in 1 .. n }
    BY DEF Range
  <1>2. B = { s[i] : i \in 1 .. k - 1 }
    <2>1. \A i \in 1 .. n : s[i].sequence_no < s[k].sequence_no <=> i < k
      OBVIOUS
    <2> QED BY <1>1, <2>1 DEF Before
  <1>3. \A i, j \in 1 .. k - 1 : place[i] = place[j] => i = j
    <2> SUFFICES ASSUME NEW i \in 1 .. k - 1, NEW j \in 1 .. k - 1, place[i] = place[j] PROVE i = j
      OBVIOUS
    <2>1. i \in 1 .. n /\ j \in 1 .. n /\ s[i].sequence_no = s[j].sequence_no
      OBVIOUS
    <2>2. ~(i < j) /\ ~(j < i)
      BY <2>1
    <2> QED BY <2>1, <2>2
  <1>4. place \in [1 .. k - 1 -> B] /\ \A b \in B : \E i \in 1 .. k - 1 : place[i] = b
    BY <1>2
  <1> HIDE DEF place, B
  <1>5. k - 1 \in Nat
    OBVIOUS
  <1>6. Cardinality(B) = k - 1
    BY <1>3, <1>4, <1>5, CountedOff
  <1> QED BY <1>6 DEF B

(* Sorting the rows of a tape in order gives the tape. *)
LEMMA SortedTape ==
  ASSUME NEW s, s \in Seq(Range(s)),
         \A i \in DOMAIN s : s[i].sequence_no \in Nat,
         \A i, j \in DOMAIN s : i < j => s[i].sequence_no < s[j].sequence_no
  PROVE  SortedBySeq(Range(s)) = s
PROOF
  <1> DEFINE n == Len(s)
             R == Range(s)
  <1>1. n \in Nat /\ DOMAIN s = 1 .. n /\ R = { s[i] : i \in 1 .. n } /\ s = [i \in 1 .. n |-> s[i]]
    BY DEF Range
  <1>2. \A i, j \in 1 .. n : s[i] = s[j] => i = j
    <2> SUFFICES ASSUME NEW i \in 1 .. n, NEW j \in 1 .. n, s[i] = s[j] PROVE i = j
      OBVIOUS
    <2>1. ~(i < j) /\ ~(j < i)
      BY <1>1
    <2> QED BY <1>1, <2>1
  <1>3. Cardinality(R) = n
    <2> HIDE DEF n, R
    <2> QED BY <1>1, <1>2, CountedOff
  <1>4. \A k \in 1 .. n : Cardinality(Before(s[k], R)) = k - 1
    BY <1>1, RankIsPlace
  <1>5. \A i \in 1 .. n : (CHOOSE row \in R : Cardinality(Before(row, R)) = i - 1) = s[i]
    <2> SUFFICES ASSUME NEW i \in 1 .. n
                 PROVE  (CHOOSE row \in R : Cardinality(Before(row, R)) = i - 1) = s[i]
      OBVIOUS
    <2> HIDE DEF n, R
    <2>1. s[i] \in R /\ Cardinality(Before(s[i], R)) = i - 1
      BY <1>1, <1>4
    <2>2. \A row \in R : Cardinality(Before(row, R)) = i - 1 => row = s[i]
      <3> SUFFICES ASSUME NEW row \in R, Cardinality(Before(row, R)) = i - 1 PROVE row = s[i]
        OBVIOUS
      <3>1. PICK j \in 1 .. n : row = s[j]
        BY <1>1
      <3>2. i - 1 = j - 1
        BY <1>4, <3>1
      <3> QED BY <1>1, <3>1, <3>2
    <2> QED BY <2>1, <2>2
  <1> HIDE DEF n, R
  <1>6. SortedBySeq(R) = [i \in 1 .. n |-> s[i]]
    BY <1>3, <1>5 DEF SortedBySeq
  <1> QED BY <1>1, <1>6 DEF R

\* An open recorder remembers the rows of its tape, and a sealed tape replays.
SealInv ==
  /\ rec # None => rec.events = disk.rows
  /\ disk.meta # None => ReplayReproduces(disk) /\ disk.meta.count = Len(disk.rows)

(* A line is remembered as it is written. *)
LEMMA LineRemembered ==
  ASSUME SealInv, TapeInv, Recording, NEW row,
         disk' = Record(disk, rec, row).disk, rec' = Record(disk, rec, row).rec
  PROVE  SealInv'
PROOF
  <1>1. /\ disk' = [disk EXCEPT !.rows = Append(disk.rows, Stamped(rec, row))]
        /\ rec'.events = Append(rec.events, Stamped(rec, row))
    BY DEF Record, WriteLine
  <1>2. disk'.rows = Append(disk.rows, Stamped(rec, row)) /\ disk'.meta = None
    BY <1>1 DEF TapeInv, Recording
  <1>3. rec.events = disk.rows
    BY DEF SealInv, Recording
  <1> QED BY <1>1, <1>2, <1>3 DEF SealInv

(* Sealing hashes the rows the recorder remembers, which are the rows on the tape. *)
LEMMA FinalizeSeals ==
  ASSUME SealInv, TapeInv, Finalize
  PROVE  SealInv'
PROOF
  <1> DEFINE s == disk.rows
             hash == SessionContentHash(s, DOMAIN s)
             meta == [count |-> Len(s), hash |-> hash]
  <1>1. Recording /\ rec' = rec /\ rec.events = s /\ disk' = FinalizeTape(disk, rec)
    BY DEF Finalize, Recording, SealInv
  <1>2. disk' = IF Hashable(s, DOMAIN s) THEN [disk EXCEPT !.meta = meta] ELSE disk
    BY <1>1 DEF FinalizeTape
  <1>3. CASE ~Hashable(s, DOMAIN s)
    BY <1>1, <1>2, <1>3 DEF SealInv, ReplayReproduces
  <1>4. CASE Hashable(s, DOMAIN s)
    <2>1. disk'.rows = s /\ disk'.meta = meta /\ DOMAIN disk' = {"rows", "torn", "meta"}
      <3> HIDE DEF meta
      <3> QED BY <1>2, <1>4 DEF TapeInv
    <2>2. disk'.meta.count = Len(s) /\ disk'.meta.hash = hash
      BY <2>1
    <2>3. EventLines(disk') \cup GapLines(disk') = DOMAIN s
      BY <2>1 DEF EventLines, GapLines
    <2> HIDE DEF hash
    <2>4. disk'.meta # None => ReplayReproduces(disk')
      BY <1>4, <2>1, <2>2, <2>3 DEF ReplayReproduces, hash
    <2>5. rec'.events = disk'.rows
      BY <1>1, <2>1
    <2> QED BY <2>1, <2>2, <2>4, <2>5 DEF SealInv, ReplayReproduces
  <1> QED BY <1>3, <1>4

(* A resumed recorder remembers every row that was durable. *)
LEMMA ResumeRemembers ==
  ASSUME SealInv, TapeInv, Resume
  PROVE  SealInv'
PROOF
  <1> DEFINE s == disk.rows
             clean == [disk EXCEPT !.torn = FALSE]
  <1>1. disk' = clean /\ rec'.events = SortedBySeq(EventRows(clean) \cup GapRows(clean)) /\ disk.meta = None
    BY DEF Resume, ResumeRecorder, CanResume
  <1>2. clean.rows = s /\ clean.meta = None
    BY <1>1 DEF TapeInv
  <1>3. EventRows(clean) \cup GapRows(clean) = Range(s)
    BY <1>2 DEF EventRows, GapRows
  <1>4. SortedBySeq(Range(s)) = s
    BY SortedTape DEF TapeInv
  <1> QED BY <1>1, <1>2, <1>3, <1>4 DEF SealInv

(* Whatever crashes, torn lines, gaps and resumptions a session went through, a sealed tape counts
   every row once and replays to the sealed hash (LiveRecorder.finalize, resume_recorder,
   replay_reproduces). *)
THEOREM ReplaySafe == Spec => []TapeReplays
PROOF
  <1> DEFINE Inv == LoopInv /\ SealInv
  <1>1. Init => Inv
    <2> SUFFICES ASSUME Init PROVE SealInv
      BY LoopInit
    <2> DEFINE new == Stamped(NewRecorder, StatusRow("ACTIVE", 1))
    <2>1. disk = WriteLine(NewDisk, new) /\ rec.events = Append(<<>>, new)
      BY DEF Init, Record, NewRecorder
    <2> HIDE DEF new
    <2>2. disk.rows = Append(<<>>, new) /\ disk.meta = None
      BY <2>1 DEF WriteLine, NewDisk
    <2> QED BY <2>1, <2>2 DEF SealInv
  <1>2. Inv /\ [Next]_vars => Inv'
    <2> SUFFICES ASSUME Inv, [Next]_vars PROVE Inv'
      OBVIOUS
    <2>1. LoopInv' /\ TapeInv
      BY LoopStep DEF LoopInv
    <2>2. ASSUME disk' = disk, rec' = rec PROVE SealInv'
      BY <2>2 DEF SealInv, ReplayReproduces
    <2>3. CASE \E a \in Arrivals : FvArrival(a)
      BY <2>1, <2>3, LineRemembered DEF FvArrival, Mint, RecordAndReturnPair
    <2>4. CASE \E shape \in Shapes \cup {Plain} : ObservationTick(shape)
      BY <2>1, <2>4, LineRemembered DEF ObservationTick, Mint, RecordAndReturnPair
    <2>5. CASE \E status \in {"ACTIVE", "HALTED"} : RecordMarketStatus(status)
      BY <2>1, <2>5, LineRemembered DEF RecordMarketStatus, Mint, RecordAndReturnPair
    <2>6. CASE NoteGap
      BY <2>1, <2>6, LineRemembered DEF NoteGap, RecordGap
    <2>7. CASE \E source \in {"book", "fv"} : Reconnect(source)
      BY <2>1, <2>2, <2>7 DEF Reconnect
    <2>8. CASE Crash
      <3>1. rec' = None /\ disk.meta = None /\ \E torn \in BOOLEAN : disk' = [disk EXCEPT !.torn = torn]
        BY <2>8 DEF Crash, Recording
      <3>2. disk'.meta = None
        BY <2>1, <3>1 DEF TapeInv
      <3> QED BY <2>1, <3>1, <3>2 DEF SealInv
    <2>9. CASE Resume
      BY <2>1, <2>9, ResumeRemembers
    <2>10. CASE Finalize
      BY <2>1, <2>10, FinalizeSeals
    <2>11. CASE UNCHANGED vars
      BY <2>1, <2>2, <2>11 DEF vars
    <2> QED BY <2>3, <2>4, <2>5, <2>6, <2>7, <2>8, <2>9, <2>10, <2>11 DEF Next
  <1>3. Inv => SealInv
    OBVIOUS
  <1>4. SealInv /\ TapeResumes => TapeReplays
    BY DEF SealInv, TapeReplays
  <1> QED BY <1>1, <1>2, <1>3, <1>4, ResumeSafe, PTL DEF Spec

----
(* Two arms on one feed: the observations are alike but for the fair value, the configurations but
   for the guard, and the states in what they remember of the venue. *)
SameFeed(o, p) ==
  \A f \in {"observation_sequence", "as_of_ts", "token_id", "tick_size", "tick_regime_changed",
            "book_source_epoch", "book_recv_ts", "book_status", "bid", "ask", "bid_size", "ask_size",
            "level_count_in_band", "phase", "suspended", "match_state_recv_ts", "market_status",
            "market_status_recv_ts", "market_status_epoch", "order_stream_ok", "projection_fresh",
            "inventory"} : o[f] = p[f]

SameKnobs(c, d) ==
  \A f \in {"residual_band", "book_freshness_ms", "max_leg_skew_ms", "half_spread", "boundary_zone",
            "two_sided_band", "min_top_depth", "min_level_count", "depth_collapse_ratio",
            "ref_min_samples", "book_state_dwell_before_quote_ms", "mid_jump_threshold",
            "spread_blowout_multiple", "inventory_soft_limit", "price_epsilon", "event_smoother",
            "event_smoother_param", "market_status_max_age_ms", "rolling_spread_window",
            "rolling_depth_window", "decay"} : c[f] = d[f]

VenueFields ==
  {"last_observation_sequence", "last_book_source_epoch", "last_as_of_ts",
   "last_market_status_epoch", "last_market_status_recv_ts", "last_phase",
   "last_suspended", "last_book_in_gap", "smoother_mid", "smoother_mid_ts", "spread_ref_samples",
   "depth_ref_samples", "event_cooldown_until_ts"}
SameVenue(s, b) == \A f \in VenueFields : s[f] = b[f]

(* Then they read the same book, *)
LEMMA SameBook ==
  ASSUME NEW o, NEW p, NEW c, NEW d, SameFeed(o, p), SameKnobs(c, d)
  PROVE  /\ Mid(o) = Mid(p) /\ Spread(o) = Spread(p) /\ TopDepth(o) = TopDepth(p)
         /\ InGap(o) <=> InGap(p)
         /\ BookIsStale(o, c) <=> BookIsStale(p, d)
         /\ LegIsSkewed(o, c) <=> LegIsSkewed(p, d)
         /\ CooldownDeadline(o, c) = CooldownDeadline(p, d)
PROOF
  <1>1. Mid(o) = Mid(p) /\ Spread(o) = Spread(p)
    BY DEF SameFeed, Mid, Spread, BothTouches
  <1>2. TopDepth(o) = TopDepth(p)
    BY DEF SameFeed, TopDepth
  <1>3. InGap(o) <=> InGap(p)
    BY DEF SameFeed, InGap
  <1>4. BookIsStale(o, c) <=> BookIsStale(p, d)
    BY DEF SameFeed, SameKnobs, BookIsStale
  <1>5. LegIsSkewed(o, c) <=> LegIsSkewed(p, d)
    BY DEF SameFeed, SameKnobs, LegIsSkewed
  <1>6. CooldownDeadline(o, c) = CooldownDeadline(p, d)
    BY DEF SameFeed, SameKnobs, CooldownDeadline
  <1> QED BY <1>1, <1>2, <1>3, <1>4, <1>5, <1>6

(* and find the same events in it. *)
LEMMA SameHistory ==
  ASSUME NEW o, NEW p, NEW c, NEW d, NEW s, NEW b, SameFeed(o, p), SameKnobs(c, d), SameVenue(s, b)
  PROVE  /\ CooldownActive(o, s) <=> CooldownActive(p, b)
         /\ ReferencesWarm(s, c) <=> ReferencesWarm(b, d)
         /\ PhaseTransition(o, s) <=> PhaseTransition(p, b)
         /\ SuspensionReopen(o, s) <=> SuspensionReopen(p, b)
         /\ GapEpisodeEnd(o, s) <=> GapEpisodeEnd(p, b)
         /\ VenueEventReason(o, s, c) = VenueEventReason(p, b, d)
         /\ StatusWatermark(o, s, c) = StatusWatermark(p, b, d)
         /\ StatusStreamReason(o, s, c) = StatusStreamReason(p, b, d)
PROOF
  <1>1. CooldownActive(o, s) <=> CooldownActive(p, b)
    BY DEF SameFeed, SameVenue, VenueFields, CooldownActive
  <1>2. ReferencesWarm(s, c) <=> ReferencesWarm(b, d)
    BY DEF SameKnobs, SameVenue, VenueFields, ReferencesWarm, ReferenceIsWarm
  <1>3. PhaseTransition(o, s) <=> PhaseTransition(p, b)
    BY DEF SameFeed, SameVenue, VenueFields, PhaseTransition
  <1>4. SuspensionReopen(o, s) <=> SuspensionReopen(p, b)
    BY DEF SameFeed, SameVenue, VenueFields, SuspensionReopen
  <1>5. GapEpisodeEnd(o, s) <=> GapEpisodeEnd(p, b)
    BY SameBook DEF SameVenue, VenueFields, GapEpisodeEnd
  <1>6. VenueEventReason(o, s, c) = VenueEventReason(p, b, d)
    <2>1. /\ Mid(o) = Mid(p) /\ Spread(o) = Spread(p) /\ TopDepth(o) = TopDepth(p)
      BY SameBook
    <2>2. /\ RollingDepthReference(s.depth_ref_samples, c) = RollingDepthReference(b.depth_ref_samples, d)
          /\ RollingSpreadReference(s.spread_ref_samples, c) = RollingSpreadReference(b.spread_ref_samples, d)
          /\ s.smoother_mid = b.smoother_mid
      BY DEF SameVenue, VenueFields, SameKnobs, RollingDepthReference, RollingSpreadReference
    <2>3. /\ o.level_count_in_band = p.level_count_in_band /\ c.min_level_count = d.min_level_count
          /\ c.min_top_depth = d.min_top_depth /\ c.depth_collapse_ratio = d.depth_collapse_ratio
          /\ c.spread_blowout_multiple = d.spread_blowout_multiple /\ c.mid_jump_threshold = d.mid_jump_threshold
      BY DEF SameFeed, SameKnobs
    <2> QED BY <2>1, <2>2, <2>3 DEF VenueEventReason
  <1>7. EffectiveMarketStatus(o, s, c) = EffectiveMarketStatus(p, b, d)
    <2>1. StatusIsStale(o, c) <=> StatusIsStale(p, d)
      BY DEF SameFeed, SameKnobs, StatusIsStale
    <2>2. StatusRegressed(o, s) <=> StatusRegressed(p, b)
      BY DEF SameFeed, SameVenue, VenueFields, StatusRegressed
    <2> QED BY <2>1, <2>2 DEF EffectiveMarketStatus, SameFeed
  <1>8. StatusWatermark(o, s, c) = StatusWatermark(p, b, d)
    BY <1>7 DEF StatusWatermark, SameFeed, SameVenue, VenueFields
  <1>9. StatusStreamReason(o, s, c) = StatusStreamReason(p, b, d)
    BY <1>7 DEF StatusStreamReason, SameFeed
  <1> QED BY <1>1, <1>2, <1>3, <1>4, <1>5, <1>6, <1>8, <1>9

(* Both arms find themselves in the same row, the guard's own row F apart. *)
LEMMA SameRow ==
  ASSUME NEW o, NEW p, NEW c, NEW d, NEW s, NEW b, SameFeed(o, p), SameKnobs(c, d), SameVenue(s, b),
         ~d.guard_enabled
  PROVE  LET row == ClassifyRow(o, s, c)
             other == ClassifyRow(p, b, d)
         IN  \/ row = other /\ row \in {"R", "E", "D", "C"}
             \/ row \in {"F", "W", "H"} /\ (row = "W" => ~ReferencesWarm(s, c))
                /\ (row = "H" => ReferencesWarm(s, c))
                /\ other = IF ReferencesWarm(s, c) THEN "H" ELSE "W"
PROOF
  <1>1. ~(GuardEpochDelta(p, b, d) > 0)
    BY DEF GuardEpochDelta
  <1>2. o.tick_regime_changed = p.tick_regime_changed
    BY DEF SameFeed
  <1>3. /\ InGap(o) <=> InGap(p)
        /\ BookIsStale(o, c) <=> BookIsStale(p, d)
        /\ LegIsSkewed(o, c) <=> LegIsSkewed(p, d)
    BY SameBook
  <1>4. /\ CooldownActive(o, s) <=> CooldownActive(p, b)
        /\ ReferencesWarm(s, c) <=> ReferencesWarm(b, d)
        /\ PhaseTransition(o, s) <=> PhaseTransition(p, b)
        /\ SuspensionReopen(o, s) <=> SuspensionReopen(p, b)
        /\ GapEpisodeEnd(o, s) <=> GapEpisodeEnd(p, b)
        /\ VenueEventReason(o, s, c) = VenueEventReason(p, b, d)
    BY SameHistory
  <1> QED BY <1>1, <1>2, <1>3, <1>4 DEF ClassifyRow

\* The state of an accepted observation, and the one a new generation of the book starts from.
Base(o, s, c) == Accept(o, s, c, FALSE, GuardEpochDelta(o, s, c) > 0)
Seeded(o, s, c) == Accept(o, s, c, TRUE, FALSE)

(* Accepting an observation keeps the venue's memory the same in both arms. *)
LEMMA SameAccept ==
  ASSUME NEW o, NEW p, NEW c, NEW d, NEW s, NEW b, SameFeed(o, p), SameKnobs(c, d), SameVenue(s, b),
         IsState(s), IsState(b)
  PROVE  /\ SameVenue(Base(o, s, c), Base(p, b, d)) /\ IsState(Base(o, s, c)) /\ IsState(Base(p, b, d))
         /\ ReferencesWarm(Base(o, s, c), c) <=> ReferencesWarm(s, c)
         /\ SameVenue(Seeded(o, s, c), Seeded(p, b, d))
         /\ IsState(Seeded(o, s, c)) /\ IsState(Seeded(p, b, d))
PROOF
  <1>1. StatusWatermark(o, s, c) = StatusWatermark(p, b, d) /\ (InGap(o) <=> InGap(p))
    BY SameHistory, SameBook
  <1>2. InGap(o) = InGap(p)
    BY <1>1 DEF InGap
  <1> DEFINE t == Accept(o, s, c, FALSE, FALSE)
             u == Accept(p, b, d, FALSE, FALSE)
  <1>3. /\ SameVenue(t, u) /\ IsState(t) /\ IsState(u)
        /\ \A f \in {"smoother_mid", "spread_ref_samples", "depth_ref_samples"} : t[f] = s[f]
    <2> DEFINE mark == StatusWatermark(o, s, c)
               gap == InGap(o)
    <2>1. t = [s EXCEPT !.last_observation_sequence = o.observation_sequence,
                        !.last_book_source_epoch = o.book_source_epoch,
                        !.last_as_of_ts = o.as_of_ts,
                        !.last_market_status_epoch = mark[1],
                        !.last_market_status_recv_ts = mark[2],
                        !.guard_watermark = GuardWatermark(o, s, c),
                        !.last_phase = o.phase,
                        !.last_suspended = o.suspended,
                        !.last_book_in_gap = gap]
      BY DEF Accept
    <2>2. u = [b EXCEPT !.last_observation_sequence = o.observation_sequence,
                        !.last_book_source_epoch = o.book_source_epoch,
                        !.last_as_of_ts = o.as_of_ts,
                        !.last_market_status_epoch = mark[1],
                        !.last_market_status_recv_ts = mark[2],
                        !.guard_watermark = GuardWatermark(p, b, d),
                        !.last_phase = o.phase,
                        !.last_suspended = o.suspended,
                        !.last_book_in_gap = gap]
      BY <1>1, <1>2 DEF Accept, SameFeed
    <2> HIDE DEF mark, gap, t, u
    <2> QED BY <2>1, <2>2 DEF SameVenue, VenueFields, IsState, StateFields
  <1>4. /\ Base(o, s, c) = t \/ Base(o, s, c) = ClearBasis(t)
        /\ Base(p, b, d) = u \/ Base(p, b, d) = ClearBasis(u)
        /\ Seeded(o, s, c) = ClearVenue(ClearBasis(t), None, None)
        /\ Seeded(p, b, d) = ClearVenue(ClearBasis(u), None, None)
    BY DEF Accept, Base, Seeded
  <1> HIDE DEF t, u
  <1>5. /\ SameVenue(ClearBasis(t), t) /\ IsState(ClearBasis(t))
        /\ SameVenue(ClearBasis(u), u) /\ IsState(ClearBasis(u))
    BY <1>3 DEF ClearBasis, SameVenue, VenueFields, IsState, StateFields
  <1>6. /\ SameVenue(Base(o, s, c), t) /\ IsState(Base(o, s, c))
        /\ SameVenue(Base(p, b, d), u) /\ IsState(Base(p, b, d))
    BY <1>3, <1>4, <1>5 DEF SameVenue
  <1>7. SameVenue(Base(o, s, c), Base(p, b, d))
    BY <1>3, <1>6 DEF SameVenue, VenueFields
  <1>9. ReferencesWarm(Base(o, s, c), c) <=> ReferencesWarm(s, c)
    <2>1. \A f \in {"smoother_mid", "spread_ref_samples", "depth_ref_samples"} : Base(o, s, c)[f] = s[f]
      BY <1>3, <1>6 DEF SameVenue, VenueFields
    <2> QED BY <2>1 DEF ReferencesWarm
  <1>8. SameVenue(Seeded(o, s, c), Seeded(p, b, d)) /\ IsState(Seeded(o, s, c)) /\ IsState(Seeded(p, b, d))
    BY <1>3, <1>4, <1>5 DEF ClearVenue, SameVenue, VenueFields, IsState, StateFields
  <1> QED BY <1>6, <1>7, <1>8, <1>9

(* So does a reset. *)
LEMMA SameReset ==
  ASSUME NEW o, NEW p, NEW c, NEW d, NEW s, NEW b, SameFeed(o, p), SameKnobs(c, d), SameVenue(s, b),
         IsState(s), IsState(b), NEW reason, NEW why
  PROVE  SameVenue(ApplyReset(o, s, c, reason).state, ApplyReset(p, b, d, why).state)
PROOF
  <1>1. Mid(o) = Mid(p) /\ CooldownDeadline(o, c) = CooldownDeadline(p, d)
    BY SameBook
  <1>2. o.book_status = p.book_status /\ o.as_of_ts = p.as_of_ts
    BY DEF SameFeed
  <1> QED BY <1>1, <1>2 DEF ApplyReset, ClearVenue, ClearBasis, SameVenue, VenueFields, IsState, StateFields

(* An event starts the same cooldown. *)
LEMMA SameEvent ==
  ASSUME NEW o, NEW p, NEW c, NEW d, NEW s, NEW b, SameFeed(o, p), SameKnobs(c, d), SameVenue(s, b),
         IsState(s), IsState(b)
  PROVE  SameVenue(ApplyEvent(o, s, c).state, ApplyEvent(p, b, d).state)
PROOF
  <1>1. CooldownDeadline(o, c) = CooldownDeadline(p, d)
    BY SameBook
  <1> QED BY <1>1 DEF ApplyEvent, SameVenue, VenueFields, IsState, StateFields

(* A healthy row trains the same references; the basis is the guard's own. *)
LEMMA SameTraining ==
  ASSUME NEW o, NEW p, NEW c, NEW d, NEW s, NEW b, SameFeed(o, p), SameKnobs(c, d), SameVenue(s, b),
         IsState(s), IsState(b), NEW row, NEW other
  PROVE  SameVenue(ApplyHealthy(o, s, c, row).state, ApplyHealthy(p, b, d, other).state)
PROOF
  <1> DEFINE v == AdmitVenueUpdates(o, s, c)
             w == AdmitVenueUpdates(p, b, d)
             t == AdmitBasisUpdates(o, s, v, c)
             u == AdmitBasisUpdates(p, b, w, d)
  <1>1. SameVenue(v, w) /\ IsState(v) /\ IsState(w)
    <2>1. Mid(o) = Mid(p) /\ Spread(o) = Spread(p) /\ TopDepth(o) = TopDepth(p)
      BY SameBook
    <2>2. \A prev, value, dt : EventSmootherUpdate(prev, value, c, dt) = EventSmootherUpdate(prev, value, d, dt)
      BY DEF EventSmootherUpdate, HalflifeEwma, SameKnobs
    <2>3. /\ o.as_of_ts = p.as_of_ts /\ c.rolling_spread_window = d.rolling_spread_window
          /\ c.rolling_depth_window = d.rolling_depth_window
      BY DEF SameFeed, SameKnobs
    <2> QED BY <2>1, <2>2, <2>3 DEF AdmitVenueUpdates, SameVenue, VenueFields, IsState, StateFields
  <1> HIDE DEF v, w
  <1>2. SameVenue(t, v) /\ IsState(t)
    BY <1>1 DEF AdmitBasisUpdates, SameVenue, VenueFields, IsState, StateFields
  <1>3. SameVenue(u, w) /\ IsState(u)
    BY <1>1 DEF AdmitBasisUpdates, SameVenue, VenueFields, IsState, StateFields
  <1>4. /\ ApplyHealthy(o, s, c, row).state = [t EXCEPT !.event_cooldown_until_ts = None]
        /\ ApplyHealthy(p, b, d, other).state = [u EXCEPT !.event_cooldown_until_ts = None]
    BY DEF ApplyHealthy, v, w
  <1> HIDE DEF t, u
  <1> QED BY <1>1, <1>2, <1>3, <1>4 DEF SameVenue, VenueFields, IsState, StateFields

----
(* What the two arms would quote: a refusal has no leg, a quote has one or two. *)
Refusal(d) == \E reasons : d = Decision("NO_QUOTE", reasons, <<>>)
Quote(d) ==
  \E kind, reasons, plan :
    /\ kind \in {"QUOTE_TWO_SIDED", "QUOTE_ONE_SIDED", "ONE_SIDED_REDUCE"}
    /\ d = Decision(kind, reasons, plan)
    /\ \/ \E leg : plan = <<leg>>
       \/ \E leg, other : plan = <<leg, other>>
    /\ \A leg \in Range(plan) : leg.kind = "place_quote" /\ leg.price \in Int

Legs(d) == Range(d.intent_plan)

(* Both arms would quote around the same anchor at the same prices. *)
LEMMA SamePrices ==
  ASSUME NEW o, NEW p, NEW c, NEW d, SameFeed(o, p), SameKnobs(c, d)
  PROVE  /\ VenueAnchor(o, c) = VenueAnchor(p, d) /\ NoAnchorReason(o, c) = NoAnchorReason(p, d)
         /\ \A anchor, role : LegPrice(o, c, anchor, role) = LegPrice(p, d, anchor, role)
         /\ \A price : LegInZone(price, o.tick_size, c) <=> LegInZone(price, p.tick_size, d)
         /\ \A x : TargetIsUnchanged(x, o, c) <=> TargetIsUnchanged(x, p, d)
PROOF
  <1>1. Mid(o) = Mid(p) /\ TopDepth(o) = TopDepth(p)
    BY SameBook
  <1>2. /\ o.book_status = p.book_status /\ o.level_count_in_band = p.level_count_in_band
        /\ o.bid = p.bid /\ o.ask = p.ask /\ o.tick_size = p.tick_size /\ o.inventory = p.inventory
    BY DEF SameFeed
  <1>3. /\ c.min_top_depth = d.min_top_depth /\ c.min_level_count = d.min_level_count
        /\ c.half_spread = d.half_spread /\ c.boundary_zone = d.boundary_zone
        /\ c.price_epsilon = d.price_epsilon
    BY DEF SameKnobs
  <1>4. VenueAnchor(o, c) = VenueAnchor(p, d) /\ NoAnchorReason(o, c) = NoAnchorReason(p, d)
    BY <1>1, <1>2, <1>3 DEF VenueAnchor, NoAnchorReason
  <1>5. \A anchor, role : LegPrice(o, c, anchor, role) = LegPrice(p, d, anchor, role)
    BY <1>2, <1>3 DEF LegPrice, BidLegPrice, AskLegPrice
  <1>6. \A price : LegInZone(price, o.tick_size, c) <=> LegInZone(price, p.tick_size, d)
    BY <1>2, <1>3 DEF LegInZone
  <1>7. \A x : TargetIsUnchanged(x, o, c) <=> TargetIsUnchanged(x, p, d)
    <2>1. o.inventory.resting = p.inventory.resting /\ c.price_epsilon = d.price_epsilon
      BY <1>2, <1>3
    <2> QED BY <2>1 DEF TargetIsUnchanged
  <1> QED BY <1>4, <1>5, <1>6, <1>7

(* A price on a book with two touches is a number. *)
LEMMA PriceIsNumber ==
  ASSUME NEW o, NEW c, NEW role \in {"bid", "ask"}, VenueAnchor(o, c) # None,
         o.bid \in Price, o.ask \in Price, o.tick_size \in Positive, c.half_spread \in Positive
  PROVE  LegPrice(o, c, VenueAnchor(o, c), role) \in Int
PROOF
  <1>1. VenueAnchor(o, c) = (o.bid + o.ask) \div 2 /\ o.bid \in Int /\ o.ask \in Int
    BY DEF VenueAnchor, Mid, BothTouches, Price
  <1>2. VenueAnchor(o, c) \in Int
    BY <1>1
  <1> DEFINE anchor == VenueAnchor(o, c)
  <1> HIDE DEF anchor
  <1>3. anchor \in Int
    BY <1>2 DEF anchor
  <1>4. BidLegPrice(anchor, o.bid, o.tick_size, c) \in Int
    BY <1>1, <1>3 DEF BidLegPrice, FloorToTick, MinOf, Positive
  <1>5. AskLegPrice(anchor, o.ask, o.tick_size, c) \in Int
    BY <1>1, <1>3 DEF AskLegPrice, CeilToTick, MaxOf, Positive
  <1> QED BY <1>4, <1>5 DEF LegPrice, anchor

(* One leg is a quote or a refusal, and if it is a quote both arms would place it. *)
LEMMA OneLegIs ==
  ASSUME NEW o, NEW c, NEW role \in {"bid", "ask"}, NEW kind \in {"QUOTE_ONE_SIDED", "ONE_SIDED_REDUCE"},
         NEW reason, VenueAnchor(o, c) # None,
         o.bid \in Price, o.ask \in Price, o.tick_size \in Positive, c.half_spread \in Positive
  PROVE  LET anchor == VenueAnchor(o, c)
             x == OneLeg(o, c, anchor, role, kind, reason)
             leg == PlaceLeg(role, LegPrice(o, c, anchor, role))
         IN  \/ Refusal(x)
             \/ /\ Quote(x) /\ x.intent_plan = <<leg>>
                /\ leg \in Legs(TwoSidedQuote(o, c, anchor)) /\ Quote(TwoSidedQuote(o, c, anchor))
PROOF
  <1> DEFINE anchor == VenueAnchor(o, c)
             InZone(r) == LegInZone(LegPrice(o, c, anchor, r), o.tick_size, c)
             leg(r) == PlaceLeg(r, LegPrice(o, c, anchor, r))
             x == OneLeg(o, c, anchor, role, kind, reason)
             two == TwoSidedQuote(o, c, anchor)
  <1>1. \A r \in {"bid", "ask"} : leg(r).kind = "place_quote" /\ leg(r).price \in Int
    BY PriceIsNumber DEF PlaceLeg
  <1>2. x = IF InZone(role) THEN Decision(kind, <<reason>>, <<leg(role)>>)
            ELSE Decision("NO_QUOTE", <<"leg_out_of_zone">>, <<>>)
    BY DEF OneLeg, Decide_
  <1>3. two = CASE InZone("bid") /\ InZone("ask") ->
                     Decision("QUOTE_TWO_SIDED", <<>>, <<leg("bid"), leg("ask")>>)
                [] InZone("bid") /\ ~InZone("ask") ->
                     Decision("QUOTE_ONE_SIDED", <<"leg_out_of_zone">>, <<leg("bid")>>)
                [] ~InZone("bid") /\ InZone("ask") ->
                     Decision("QUOTE_ONE_SIDED", <<"leg_out_of_zone">>, <<leg("ask")>>)
                [] OTHER -> Decision("NO_QUOTE", <<"leg_out_of_zone">>, <<>>)
    BY DEF TwoSidedQuote, Decide_
  <1> HIDE DEF leg, InZone, x, two
  <1>4. CASE ~InZone(role)
    BY <1>2, <1>4 DEF Refusal, x
  <1>5. CASE InZone(role)
    <2>1. x = Decision(kind, <<reason>>, <<leg(role)>>)
      BY <1>2, <1>5
    <2>2. \A r : Range(<<leg(r)>>) = {leg(r)}
      BY DEF Range
    <2>3. Range(<<leg("bid"), leg("ask")>>) = {leg("bid"), leg("ask")}
      BY DEF Range
    <2>4. Quote(x) /\ x.intent_plan = <<leg(role)>>
      <3>1. x.intent_plan = <<leg(role)>>
        BY <2>1 DEF Decision
      <3> QED BY <1>1, <2>1, <2>2, <3>1 DEF Quote
    <2>5. leg(role) \in Legs(two) /\ Quote(two)
      <3>1. CASE InZone("bid") /\ InZone("ask")
        <4>1. two = Decision("QUOTE_TWO_SIDED", <<>>, <<leg("bid"), leg("ask")>>)
          BY <1>3, <3>1
        <4>2. two.intent_plan = <<leg("bid"), leg("ask")>>
          BY <4>1 DEF Decision
        <4> QED BY <1>1, <2>3, <4>1, <4>2 DEF Legs, Quote
      <3>2. CASE ~(InZone("bid") /\ InZone("ask"))
        <4>1. two = Decision("QUOTE_ONE_SIDED", <<"leg_out_of_zone">>, <<leg(role)>>)
          BY <1>3, <1>5, <3>2
        <4>2. two.intent_plan = <<leg(role)>>
          BY <4>1 DEF Decision
        <4> QED BY <1>1, <2>2, <4>1, <4>2 DEF Legs, Quote
      <3> QED BY <3>1, <3>2
    <2> QED BY <2>4, <2>5 DEF leg, x, two
  <1> QED BY <1>4, <1>5

(* The two-sided quote is a quote or a refusal. *)
LEMMA TwoSidedIs ==
  ASSUME NEW o, NEW c, VenueAnchor(o, c) # None,
         o.bid \in Price, o.ask \in Price, o.tick_size \in Positive, c.half_spread \in Positive
  PROVE  LET two == TwoSidedQuote(o, c, VenueAnchor(o, c)) IN Refusal(two) \/ Quote(two)
PROOF
  <1> DEFINE anchor == VenueAnchor(o, c)
             InZone(r) == LegInZone(LegPrice(o, c, anchor, r), o.tick_size, c)
             one(r) == OneLeg(o, c, anchor, r, "QUOTE_ONE_SIDED", "r")
  <1>1. ASSUME NEW r \in {"bid", "ask"}, InZone(r) PROVE Quote(TwoSidedQuote(o, c, anchor))
    <2>1. one(r).kind = "QUOTE_ONE_SIDED"
      BY <1>1 DEF OneLeg, Decision
    <2>2. ~Refusal(one(r))
      <3> HIDE DEF one
      <3> QED BY <2>1 DEF Refusal, Decision
    <2> QED BY <2>2, OneLegIs
  <1>2. CASE ~InZone("bid") /\ ~InZone("ask")
    <2>1. TwoSidedQuote(o, c, anchor) = Decision("NO_QUOTE", <<"leg_out_of_zone">>, <<>>)
      BY <1>2 DEF TwoSidedQuote, Decide_
    <2> QED BY <2>1 DEF Refusal
  <1> QED BY <1>1, <1>2

(* The guard's part: a veto, a pull to one leg, or nothing. *)
LEMMA GuardIs ==
  ASSUME NEW o, NEW base, NEW c, NEW anchor
  PROVE  LET x == GuardDisposition(o, base, c, anchor)
         IN  \/ x = None \/ Refusal(x)
             \/ \E role \in {"bid", "ask"} : \E reason :
                  x = OneLeg(o, c, anchor, role, "QUOTE_ONE_SIDED", reason)
PROOF
  <1>1. \A toxic : \E role \in {"bid", "ask"} : \E reason :
          ResidualPullQuote(o, c, anchor, toxic) = OneLeg(o, c, anchor, role, "QUOTE_ONE_SIDED", reason)
    BY DEF ResidualPullQuote
  <1>2. \A reason : Refusal(Decide_("NO_QUOTE", reason))
    BY DEF Refusal, Decide_
  <1> DEFINE x == GuardDisposition(o, base, c, anchor)
  <1>3. \/ x = None
        \/ \E reason : x = Decide_("NO_QUOTE", reason)
        \/ \E toxic : x = ResidualPullQuote(o, c, anchor, toxic)
    BY DEF GuardDisposition
  <1> HIDE DEF x
  <1> QED BY <1>1, <1>2, <1>3 DEF x

(* On the same feed the guarded arm refuses, quotes what the baseline quotes, or quotes one leg
   of it. *)
LEMMA GuardedQuotesLess ==
  ASSUME NEW o, NEW p, NEW c, NEW d, SameFeed(o, p), SameKnobs(c, d), ~d.guard_enabled,
         NEW base, NEW other,
         o.bid \in Price, o.ask \in Price, o.tick_size \in Positive, c.half_spread \in Positive
  PROVE  LET x == QuoteDisposition(o, base, c)
             y == QuoteDisposition(p, other, d)
         IN  \/ Refusal(x)
             \/ x = y /\ Quote(x)
             \/ Quote(x) /\ Quote(y) /\ \E leg : x.intent_plan = <<leg>> /\ leg \in Legs(y)
PROOF
  <1> DEFINE x == QuoteDisposition(o, base, c)
             y == QuoteDisposition(p, other, d)
             anchor == VenueAnchor(o, c)
             net == o.inventory.net_position
             reduced == OneLeg(o, c, anchor, ReducingLeg(net), "ONE_SIDED_REDUCE", "inventory_reduce")
             two == TwoSidedQuote(o, c, anchor)
             guard == IF c.guard_enabled /\ BasisIsWarm(base, c)
                      THEN GuardDisposition(o, base, c, anchor) ELSE None
  <1>1. /\ VenueAnchor(p, d) = anchor /\ p.inventory.net_position = net
        /\ c.boundary_zone = d.boundary_zone /\ c.two_sided_band = d.two_sided_band
        /\ c.inventory_soft_limit = d.inventory_soft_limit
    BY SamePrices DEF SameFeed, SameKnobs
  <1>2. \A role, kind, reason : OneLeg(p, d, anchor, role, kind, reason) = OneLeg(o, c, anchor, role, kind, reason)
    BY SamePrices DEF OneLeg
  <1>3. TwoSidedQuote(p, d, anchor) = two
    BY SamePrices DEF TwoSidedQuote
  <1>4. ReducingLeg(net) \in {"bid", "ask"}
    BY DEF ReducingLeg
  <1>5. InventoryReduce(p, other, d, anchor, net) = reduced
    <2>1. ToxicLeg(p, other, d, anchor) = None
      BY DEF ToxicLeg, GuardResidual
    <2>2. ReducingLeg(net) # None
      BY <1>4, NoneAssumption
    <2> HIDE DEF net
    <2> QED BY <1>2, <2>1, <2>2 DEF InventoryReduce
  <1>6. \/ InventoryReduce(o, base, c, anchor, net) = reduced
        \/ Refusal(InventoryReduce(o, base, c, anchor, net))
    BY DEF InventoryReduce, Refusal, Decide_
  <1> HIDE DEF x, y, anchor, net, reduced, two, guard
  <1>7. CASE anchor = None \/ ~(c.boundary_zone[1] <= anchor /\ anchor <= c.boundary_zone[2])
    <2>1. \E reason : x = Decide_("NO_QUOTE", reason)
      BY <1>7 DEF QuoteDisposition, x, anchor
    <2> QED BY <2>1 DEF Refusal, Decide_, x, y
  <1>8. CASE /\ anchor # None /\ c.boundary_zone[1] <= anchor /\ anchor <= c.boundary_zone[2]
             /\ \/ Abs(net) >= c.inventory_soft_limit
                \/ ~(c.two_sided_band[1] <= anchor /\ anchor <= c.two_sided_band[2])
    <2>1. \/ x = InventoryReduce(o, base, c, anchor, net) /\ y = InventoryReduce(p, other, d, anchor, net)
          \/ \E reason : x = Decide_("NO_QUOTE", reason)
      BY <1>1, <1>8 DEF QuoteDisposition, x, y, anchor, net
    <2>2. Refusal(reduced) \/ Quote(reduced)
      BY <1>4, <1>8, OneLegIs DEF reduced, anchor
    <2>3. \A reason : Refusal(Decide_("NO_QUOTE", reason))
      BY DEF Refusal, Decide_
    <2> QED BY <1>5, <1>6, <2>1, <2>2, <2>3 DEF x, y
  <1>9. CASE /\ anchor # None /\ c.boundary_zone[1] <= anchor /\ anchor <= c.boundary_zone[2]
             /\ ~(Abs(net) >= c.inventory_soft_limit)
             /\ c.two_sided_band[1] <= anchor /\ anchor <= c.two_sided_band[2]
    <2>1. x = IF guard # None THEN guard ELSE two
      BY <1>9 DEF QuoteDisposition, x, anchor, net, guard, two
    <2>2. y = two
      BY <1>1, <1>3, <1>9 DEF QuoteDisposition, y
    <2>3. Refusal(two) \/ Quote(two)
      BY <1>9, TwoSidedIs DEF two, anchor
    <2>4. \/ guard = None \/ Refusal(guard)
          \/ \E role \in {"bid", "ask"} : \E reason :
               guard = OneLeg(o, c, anchor, role, "QUOTE_ONE_SIDED", reason)
      BY GuardIs DEF guard
    <2>5. CASE guard = None \/ Refusal(guard)
      BY <2>1, <2>2, <2>3, <2>5 DEF x, y
    <2>6. CASE guard # None /\ \E role \in {"bid", "ask"} : \E reason :
                 guard = OneLeg(o, c, anchor, role, "QUOTE_ONE_SIDED", reason)
      <3>1. PICK role \in {"bid", "ask"} : \E reason :
              guard = OneLeg(o, c, anchor, role, "QUOTE_ONE_SIDED", reason)
        BY <2>6
      <3>2. \/ Refusal(guard)
            \/ /\ Quote(guard) /\ Quote(two)
               /\ \E leg : guard.intent_plan = <<leg>> /\ leg \in Legs(two)
        BY <1>9, <3>1, OneLegIs DEF two, anchor
      <3>3. x = guard
        BY <2>1, <2>6
      <3> QED BY <2>2, <3>2, <3>3 DEF x, y
    <2> QED BY <2>4, <2>5, <2>6
  <1> QED BY <1>7, <1>8, <1>9

----
(* From what the arms would quote to what they want on the book. *)
Held == Hold(<<"hold_unchanged">>)
RestingLegs(o) == { PlaceLeg(r.side, r.price) : r \in Range(o.inventory.resting) }
Wants(d, o) == IF d = Held THEN RestingLegs(o) ELSE { leg \in Legs(d) : leg.kind = "place_quote" }
CloseTo(leg, other, epsilon) ==
  leg.leg_role = other.leg_role /\ Abs(leg.price - other.price) <= epsilon
Within(these, those, epsilon) == \A leg \in these : \E other \in those : CloseTo(leg, other, epsilon)

\* What is left of a disposition when the wanted legs rest already.
Unless(d, o, c) == IF TargetIsUnchanged(d, o, c) THEN Held ELSE d

(* A refusal wants nothing, swept or not. *)
LEMMA RefusalWantsNothing ==
  ASSUME NEW d, NEW o, Refusal(d)
  PROVE  Wants(FunnelCancelOnExposure(d, o), o) = {}
PROOF
  <1> DEFINE x == FunnelCancelOnExposure(d, o)
  <1>1. PICK reasons : d = Decision("NO_QUOTE", reasons, <<>>)
    BY DEF Refusal
  <1>2. x.kind = "NO_QUOTE"
    BY <1>1 DEF FunnelCancelOnExposure, Decision
  <1>3. x # Held
    <2> HIDE DEF x
    <2> QED BY <1>2 DEF Held, Hold, Decision
  <1>4. PlacesNothing(x)
    BY <1>1, FunnelPlacesNothing DEF EmptyPlan
  <1> HIDE DEF x
  <1> QED BY <1>3, <1>4 DEF Wants, PlacesNothing, Legs, x

(* A quote is not a refusal, a hold or a sweep: the funnel leaves it alone. *)
LEMMA QuoteStands ==
  ASSUME NEW d, NEW o, NEW c, Quote(d)
  PROVE  /\ FunnelCancelOnExposure(Unless(d, o, c), o) = Unless(d, o, c)
         /\ d # Held /\ d.intent_plan # <<>> /\ Wants(d, o) = Legs(d)
         /\ \A leg \in Legs(d) : leg.kind = "place_quote" /\ leg.price \in Int
PROOF
  <1>1. PICK kind, reasons, plan :
          /\ kind \in {"QUOTE_TWO_SIDED", "QUOTE_ONE_SIDED", "ONE_SIDED_REDUCE"}
          /\ d = Decision(kind, reasons, plan)
          /\ \/ \E leg : plan = <<leg>>
             \/ \E leg, other : plan = <<leg, other>>
          /\ \A leg \in Range(plan) : leg.kind = "place_quote" /\ leg.price \in Int
    BY DEF Quote
  <1>2. d.kind = kind /\ d.intent_plan = plan /\ d # Held
    BY <1>1 DEF Decision, Held, Hold
  <1>3. Held.kind = "HOLD"
    BY DEF Held, Hold, Decision
  <1>4. FunnelCancelOnExposure(Unless(d, o, c), o) = Unless(d, o, c)
    BY <1>1, <1>2, <1>3 DEF FunnelCancelOnExposure, Unless
  <1>5. \A leg \in Legs(d) : leg.kind = "place_quote" /\ leg.price \in Int
    BY <1>1, <1>2 DEF Legs
  <1>6. d.intent_plan # <<>>
    BY <1>1, <1>2
  <1> QED BY <1>2, <1>4, <1>5, <1>6 DEF Wants

(* The prices of the orders that rest are numbers. *)
LEMMA RestingPrices ==
  ASSUME NEW resting \in Seq([side : {"bid", "ask"}, price : Int])
  PROVE  /\ DOMAIN resting = 1 .. Len(resting) /\ Len(resting) \in Nat
         /\ \A k \in DOMAIN resting : resting[k].price \in Int
PROOF
  <1> DEFINE Order == [side : {"bid", "ask"}, price : Int]
  <1>1. \A r \in Order : r.price \in Int
    OBVIOUS
  <1> HIDE DEF Order
  <1>2. resting \in Seq(Order)
    BY DEF Order
  <1> QED BY <1>1, <1>2

(* If the wanted legs rest already, every leg of the plan is close to an order that rests. *)
LEMMA UnchangedRests ==
  ASSUME NEW d, NEW o, NEW c, TargetIsUnchanged(d, o, c), c.price_epsilon \in Int,
         o.inventory.resting \in Seq([side : {"bid", "ask"}, price : Int])
  PROVE  /\ Within(Legs(d), RestingLegs(o), c.price_epsilon)
         /\ \A leg : d.intent_plan = <<leg>> /\ leg.price \in Int =>
              \A r \in RestingLegs(o) : CloseTo(r, leg, c.price_epsilon)
PROOF
  <1> DEFINE resting == o.inventory.resting
             plan == d.intent_plan
  <1>1. PICK match \in [DOMAIN plan -> DOMAIN resting] :
          \A i \in DOMAIN plan :
            /\ resting[match[i]].side = plan[i].leg_role
            /\ Abs(plan[i].price - resting[match[i]].price) <= c.price_epsilon
    BY DEF TargetIsUnchanged
  <1>2. Len(plan) = Len(resting)
    BY DEF TargetIsUnchanged
  <1>3. DOMAIN resting = 1 .. Len(resting) /\ Len(resting) \in Nat
        /\ \A k \in DOMAIN resting : resting[k].price \in Int
    BY RestingPrices
  <1> HIDE DEF resting, plan
  <1>4. ASSUME NEW leg \in Legs(d) PROVE \E r \in RestingLegs(o) : CloseTo(leg, r, c.price_epsilon)
    <2>1. PICK i \in DOMAIN plan : leg = plan[i]
      BY DEF Legs, Range, plan
    <2> DEFINE r == resting[match[i]]
    <2>2. r \in Range(resting) /\ r.side = leg.leg_role /\ Abs(leg.price - r.price) <= c.price_epsilon
      BY <1>1, <2>1 DEF Range
    <2> HIDE DEF r
    <2>3. PlaceLeg(r.side, r.price) \in RestingLegs(o)
      BY <2>2 DEF RestingLegs, resting
    <2>4. CloseTo(leg, PlaceLeg(r.side, r.price), c.price_epsilon)
      BY <2>2 DEF CloseTo, PlaceLeg
    <2> QED BY <2>3, <2>4
  <1>5. ASSUME NEW leg, plan = <<leg>>, leg.price \in Int, NEW q \in RestingLegs(o)
        PROVE  CloseTo(q, leg, c.price_epsilon)
    <2>1. DOMAIN plan = {1} /\ plan[1] = leg /\ Len(plan) = 1
      BY <1>5
    <2>2. DOMAIN resting = {1}
      BY <1>2, <1>3, <2>1
    <2>3. match[1] = 1
      BY <1>1, <2>1, <2>2
    <2>4. q = PlaceLeg(resting[1].side, resting[1].price)
      <3>1. Range(resting) = {resting[1]}
        BY <2>2 DEF Range
      <3> QED BY <1>5, <3>1 DEF RestingLegs, resting
    <2>5. resting[1].side = leg.leg_role /\ Abs(leg.price - resting[1].price) <= c.price_epsilon
      BY <1>1, <2>1, <2>3
    <2>6. resting[1].price \in Int
      BY <1>3, <2>2
    <2>7. Abs(resting[1].price - leg.price) <= c.price_epsilon
      BY <1>5, <2>5, <2>6 DEF Abs
    <2> QED BY <2>4, <2>5, <2>7 DEF CloseTo, PlaceLeg
  <1> QED BY <1>4, <1>5 DEF Within, plan

(* So what the guarded arm wants, the baseline wants within epsilon. *)
LEMMA WantedWithin ==
  ASSUME NEW x, NEW y, NEW o, NEW c, c.price_epsilon \in Positive,
         o.inventory.resting \in Seq([side : {"bid", "ask"}, price : Int]),
         \/ Refusal(x)
         \/ x = y /\ Quote(x)
         \/ Quote(x) /\ Quote(y) /\ \E leg : x.intent_plan = <<leg>> /\ leg \in Legs(y)
  PROVE  LET g == FunnelCancelOnExposure(Unless(x, o, c), o)
             b == FunnelCancelOnExposure(Unless(y, o, c), o)
         IN  Within(Wants(g, o), Wants(b, o), c.price_epsilon)
PROOF
  <1> DEFINE g == FunnelCancelOnExposure(Unless(x, o, c), o)
             b == FunnelCancelOnExposure(Unless(y, o, c), o)
             eps == c.price_epsilon
  <1>1. \A leg : leg.price \in Int => CloseTo(leg, leg, eps)
    BY DEF CloseTo, Abs, Positive
  <1>2. \A leg \in RestingLegs(o) : leg.price \in Int
    <2> SUFFICES ASSUME NEW r \in Range(o.inventory.resting) PROVE PlaceLeg(r.side, r.price).price \in Int
      BY DEF RestingLegs
    <2>1. r.price \in Int
      BY RestingPrices DEF Range
    <2> QED BY <2>1 DEF PlaceLeg
  <1>3. Wants(Held, o) = RestingLegs(o)
    BY DEF Wants
  <1>4. eps \in Int
    BY DEF Positive
  <1>5. CASE Refusal(x)
    <2>1. x.intent_plan = <<>>
      BY <1>5 DEF Refusal, Decision
    <2>2. Unless(x, o, c) = x
      BY <2>1 DEF Unless, TargetIsUnchanged
    <2> QED BY <1>5, <2>2, RefusalWantsNothing DEF Within
  <1>6. CASE x = y /\ Quote(x)
    <2>1. g = b /\ (g = Held \/ (g = x /\ Wants(x, o) = Legs(x)))
      BY <1>6, QuoteStands DEF Unless
    <2>2. \A leg \in Legs(x) : leg.price \in Int
      BY <1>6, QuoteStands
    <2> HIDE DEF g, b
    <2>3. \A leg \in Wants(g, o) : leg.price \in Int
      BY <1>2, <1>3, <2>1, <2>2
    <2> QED BY <1>1, <2>1, <2>3 DEF Within, g, b
  <1>7. CASE Quote(x) /\ Quote(y) /\ \E leg : x.intent_plan = <<leg>> /\ leg \in Legs(y)
    <2>1. PICK leg : x.intent_plan = <<leg>> /\ leg \in Legs(y)
      BY <1>7
    <2>2. Legs(x) = {leg}
      BY <2>1 DEF Legs, Range
    <2>3. leg.price \in Int
      BY <1>7, <2>2, QuoteStands
    <2>4. /\ g = Unless(x, o, c) /\ Wants(x, o) = Legs(x)
          /\ b = Unless(y, o, c) /\ Wants(y, o) = Legs(y)
      BY <1>7, QuoteStands
    <2> HIDE DEF g, b, eps
    <2>5. CASE TargetIsUnchanged(x, o, c) /\ TargetIsUnchanged(y, o, c)
      <3>1. Wants(g, o) = RestingLegs(o) /\ Wants(b, o) = RestingLegs(o)
        BY <1>3, <2>4, <2>5 DEF Unless
      <3> QED BY <1>1, <1>2, <3>1 DEF Within, g, b, eps
    <2>6. CASE TargetIsUnchanged(x, o, c) /\ ~TargetIsUnchanged(y, o, c)
      <3>1. Wants(g, o) = RestingLegs(o) /\ Wants(b, o) = Legs(y)
        BY <1>3, <2>4, <2>6 DEF Unless
      <3>2. \A r \in RestingLegs(o) : CloseTo(r, leg, eps)
        BY <1>4, <2>1, <2>3, <2>6, UnchangedRests DEF eps
      <3> QED BY <2>1, <3>1, <3>2 DEF Within, g, b, eps
    <2>7. CASE ~TargetIsUnchanged(x, o, c) /\ TargetIsUnchanged(y, o, c)
      <3>1. Wants(g, o) = {leg} /\ Wants(b, o) = RestingLegs(o)
        BY <1>3, <2>2, <2>4, <2>7 DEF Unless
      <3>2. Within(Legs(y), RestingLegs(o), eps)
        BY <1>4, <2>7, UnchangedRests DEF eps
      <3> QED BY <2>1, <3>1, <3>2 DEF Within, g, b, eps
    <2>8. CASE ~TargetIsUnchanged(x, o, c) /\ ~TargetIsUnchanged(y, o, c)
      <3>1. Wants(g, o) = {leg} /\ Wants(b, o) = Legs(y)
        BY <2>2, <2>4, <2>8 DEF Unless
      <3> QED BY <1>1, <2>1, <2>3, <3>1 DEF Within, g, b, eps
    <2> QED BY <2>5, <2>6, <2>7, <2>8
  <1> QED BY <1>5, <1>6, <1>7

----
(* The two arms in step. *)

(* The rows that do not quote refuse. *)
LEMMA RowsRefuse ==
  ASSUME NEW o, NEW b, NEW c, NEW reason
  PROVE  /\ Refusal(ApplyReset(o, b, c, reason).decision) /\ Refusal(ApplyEvent(o, b, c).decision)
         /\ Refusal(ApplyDataDegraded(o, b, c).decision) /\ Refusal(ApplyCooldown(b).decision)
PROOF
  BY DEF Refusal, ApplyReset, ApplyEvent, ApplyDataDegraded, ApplyCooldown, Decide_

(* Nor does the seed of a session want anything. *)
LEMMA SeedWantsNothing ==
  ASSUME NEW o
  PROVE  Wants(FunnelCancelOnExposure(Hold(<<>>), o), o) = {}
PROOF
  <1> DEFINE seed == Hold(<<>>)
  <1>1. seed.kind = "HOLD" /\ seed.reason_codes = <<>> /\ seed.intent_plan = <<>>
    BY DEF Hold, Decision
  <1>2. Held.reason_codes = <<"hold_unchanged">>
    BY DEF Held, Hold, Decision
  <1> HIDE DEF seed
  <1>3. FunnelCancelOnExposure(seed, o) = seed
    BY <1>1 DEF FunnelCancelOnExposure
  <1>4. seed # Held
    BY <1>1, <1>2
  <1>5. Range(seed.intent_plan) = {}
    BY <1>1 DEF Range
  <1>6. Wants(FunnelCancelOnExposure(seed, o), o) = {}
    BY <1>3, <1>4, <1>5 DEF Wants, Legs
  <1> QED BY <1>6 DEF seed

(* The same reasons block both arms. *)
LEMMA SameBlocker ==
  ASSUME NEW o, NEW p, NEW c, NEW d, NEW s, NEW b, SameFeed(o, p), SameKnobs(c, d), SameVenue(s, b)
  PROVE  /\ StatusStreamReason(o, s, c) = StatusStreamReason(p, b, d)
         /\ TokenMappingReason(o) = TokenMappingReason(p)
         /\ SuspendedBlockReason(o) = SuspendedBlockReason(p)
PROOF
  <1>1. StatusStreamReason(o, s, c) = StatusStreamReason(p, b, d)
    BY SameHistory
  <1>2. TokenMappingReason(o) = TokenMappingReason(p) /\ SuspendedBlockReason(o) = SuspendedBlockReason(p)
    BY DEF TokenMappingReason, SuspendedBlockReason, SameFeed
  <1> QED BY <1>1, <1>2

(* A healthy row: warm references and no blocker, or a refusal of the guarded arm. *)
LEMMA HealthyInStep ==
  ASSUME NEW o, NEW p, NEW c, NEW d, NEW s, NEW b, SameFeed(o, p), SameKnobs(c, d), SameVenue(s, b),
         ~d.guard_enabled, NEW row \in {"F", "W", "H"}, NEW other,
         row = "W" => ~ReferencesWarm(s, c), row = "H" => ReferencesWarm(s, c),
         other = IF ReferencesWarm(s, c) THEN "H" ELSE "W",
         o.bid \in Price, o.ask \in Price, o.tick_size \in Positive, c.half_spread \in Positive,
         c.price_epsilon \in Positive,
         o.inventory.resting \in Seq([side : {"bid", "ask"}, price : Int])
  PROVE  LET g == FunnelCancelOnExposure(ApplyHealthy(o, s, c, row).decision, o)
             h == FunnelCancelOnExposure(ApplyHealthy(p, b, d, other).decision, o)
         IN  Within(Wants(g, o), Wants(h, o), c.price_epsilon)
PROOF
  <1> DEFINE mine == ApplyHealthy(o, s, c, row).decision
             theirs == ApplyHealthy(p, b, d, other).decision
             blocker == IF TokenMappingReason(o) # None THEN TokenMappingReason(o)
                        ELSE IF StatusStreamReason(o, s, c) # None THEN StatusStreamReason(o, s, c)
                        ELSE SuspendedBlockReason(o)
             block == IF TokenMappingReason(p) # None THEN TokenMappingReason(p)
                      ELSE IF StatusStreamReason(p, b, d) # None THEN StatusStreamReason(p, b, d)
                      ELSE SuspendedBlockReason(p)
             x == QuoteDisposition(o, s, c)
             y == QuoteDisposition(p, b, d)
  <1>1. mine = IF row = "W" \/ (row = "F" /\ ~ReferencesWarm(s, c))
               THEN Decide_("NO_QUOTE", <<"event_ref_warmup">>)
               ELSE IF blocker # None THEN Decide_("NO_QUOTE", <<blocker>>) ELSE Unless(x, o, c)
    BY DEF ApplyHealthy, Unless, Held
  <1>2. theirs = IF other = "W" \/ (other = "F" /\ ~ReferencesWarm(b, d))
                 THEN Decide_("NO_QUOTE", <<"event_ref_warmup">>)
                 ELSE IF block # None THEN Decide_("NO_QUOTE", <<block>>) ELSE Unless(y, p, d)
    BY DEF ApplyHealthy, Unless, Held
  <1>3. blocker = block
    BY SameBlocker
  <1>4. Unless(y, p, d) = Unless(y, o, c)
    BY SamePrices DEF Unless
  <1>5. \/ Refusal(x)
        \/ x = y /\ Quote(x)
        \/ Quote(x) /\ Quote(y) /\ \E leg : x.intent_plan = <<leg>> /\ leg \in Legs(y)
    BY GuardedQuotesLess
  <1> HIDE DEF mine, theirs, blocker, block, x, y
  <1>6. CASE ~ReferencesWarm(s, c) \/ blocker # None
    <2>1. \E reasons : mine = Decide_("NO_QUOTE", reasons)
      BY <1>1, <1>6
    <2>2. Refusal(mine)
      BY <2>1 DEF Refusal, Decide_
    <2> QED BY <2>2, RefusalWantsNothing DEF Within, mine
  <1>7. CASE ReferencesWarm(s, c) /\ blocker = None
    <2>1. mine = Unless(x, o, c) /\ theirs = Unless(y, o, c)
      BY <1>1, <1>2, <1>3, <1>4, <1>7
    <2> QED BY <1>5, <2>1, WantedWithin DEF mine, theirs
  <1> QED BY <1>6, <1>7

(* One observation keeps the arms in step and the guarded one within what the baseline wants. *)
LEMMA ArmsInStep ==
  ASSUME NEW o, NEW p, NEW c, NEW d, NEW s, NEW b, SameFeed(o, p), SameKnobs(c, d), SameVenue(s, b),
         IsState(s), IsState(b), ~d.guard_enabled,
         s.last_book_source_epoch # None => Accepted(o, s, c) /\ Accepted(p, b, d),
         o.bid \in Price, o.ask \in Price, o.tick_size \in Positive, c.half_spread \in Positive,
         c.price_epsilon \in Positive,
         o.inventory.resting \in Seq([side : {"bid", "ask"}, price : Int])
  PROVE  LET x == Decide(o, s, c)
             y == Decide(p, b, d)
         IN  /\ SameVenue(x.state, y.state)
             /\ Within(Wants(x.decision, o), Wants(y.decision, o), c.price_epsilon)
PROOF
  <1> DEFINE x == DecideRaw(o, s, c)
             y == DecideRaw(p, b, d)
             base == Base(o, s, c)
             other == Base(p, b, d)
             fresh == Seeded(o, s, c)
             reset == Seeded(p, b, d)
             row == ClassifyRow(o, s, c)
             their == ClassifyRow(p, b, d)
  <1>1. /\ Decide(o, s, c).state = x.state /\ Decide(p, b, d).state = y.state
        /\ Decide(o, s, c).decision = FunnelCancelOnExposure(x.decision, o)
        /\ Decide(p, b, d).decision = FunnelCancelOnExposure(y.decision, o)
    BY DEF Decide, FunnelCancelOnExposure, SameFeed
  <1>2. SameVenue(fresh, reset) /\ IsState(fresh) /\ IsState(reset)
    BY SameAccept
  <1>3. /\ SameVenue(base, other) /\ IsState(base) /\ IsState(other)
        /\ ReferencesWarm(base, c) <=> ReferencesWarm(s, c)
    BY SameAccept
  <1>4. b.last_book_source_epoch = s.last_book_source_epoch /\ p.book_source_epoch = o.book_source_epoch
    BY DEF SameVenue, VenueFields, SameFeed
  <1>5. CASE s.last_book_source_epoch = None
    <2>1. x = [decision |-> Hold(<<>>), state |-> fresh] /\ y = [decision |-> Hold(<<>>), state |-> reset]
      BY <1>4, <1>5 DEF DecideRaw, Seeded
    <2> HIDE DEF fresh, reset, x, y
    <2>4. Wants(Decide(o, s, c).decision, o) = {}
      BY <1>1, <2>1, SeedWantsNothing
    <2>5. SameVenue(x.state, y.state)
      BY <1>2, <2>1
    <2> QED BY <1>1, <2>4, <2>5 DEF Within
  <1>6. CASE s.last_book_source_epoch # None /\ o.book_source_epoch > s.last_book_source_epoch
    <2>1. x = ApplyReset(o, fresh, c, "event_ref_warmup") /\ y = ApplyReset(p, reset, d, "event_ref_warmup")
      BY <1>4, <1>6 DEF DecideRaw, Accepted, Seeded
    <2> HIDE DEF x, y, fresh, reset
    <2>2. Wants(Decide(o, s, c).decision, o) = {}
      BY <1>1, <2>1, RowsRefuse, RefusalWantsNothing
    <2>3. SameVenue(x.state, y.state)
      BY <1>2, <2>1, SameReset
    <2> QED BY <1>1, <2>2, <2>3 DEF Within
  <1>7. CASE s.last_book_source_epoch # None /\ ~(o.book_source_epoch > s.last_book_source_epoch)
    <2>1. x = CASE row = "R" -> ApplyReset(o, base, c, ResetReason(o, s))
                [] row = "E" -> ApplyEvent(o, base, c)
                [] row = "D" -> ApplyDataDegraded(o, base, c)
                [] row = "C" -> ApplyCooldown(base)
                [] OTHER -> ApplyHealthy(o, base, c, row)
      BY <1>7 DEF DecideRaw, Accepted, Base
    <2>2. y = CASE their = "R" -> ApplyReset(p, other, d, ResetReason(p, b))
                [] their = "E" -> ApplyEvent(p, other, d)
                [] their = "D" -> ApplyDataDegraded(p, other, d)
                [] their = "C" -> ApplyCooldown(other)
                [] OTHER -> ApplyHealthy(p, other, d, their)
      BY <1>4, <1>7 DEF DecideRaw, Accepted, Base
    <2>3. \/ row = their /\ row \in {"R", "E", "D", "C"}
          \/ row \in {"F", "W", "H"} /\ (row = "W" => ~ReferencesWarm(s, c))
             /\ (row = "H" => ReferencesWarm(s, c))
             /\ their = IF ReferencesWarm(s, c) THEN "H" ELSE "W"
      BY SameRow
    <2> HIDE DEF x, y, base, other, row, their
    <2>5. CASE row = their /\ row \in {"R", "E", "D", "C"}
      <3>1. \/ /\ x = ApplyReset(o, base, c, ResetReason(o, s))
               /\ y = ApplyReset(p, other, d, ResetReason(p, b))
            \/ x = ApplyEvent(o, base, c) /\ y = ApplyEvent(p, other, d)
            \/ x = ApplyDataDegraded(o, base, c) /\ y = ApplyDataDegraded(p, other, d)
            \/ x = ApplyCooldown(base) /\ y = ApplyCooldown(other)
        BY <2>1, <2>2, <2>5
      <3>2. Refusal(x.decision)
        BY <3>1, RowsRefuse
      <3>3. Wants(Decide(o, s, c).decision, o) = {}
        BY <1>1, <3>2, RefusalWantsNothing
      <3>4. SameVenue(x.state, y.state)
        <4>1. /\ ApplyDataDegraded(o, base, c).state = base /\ ApplyDataDegraded(p, other, d).state = other
              /\ ApplyCooldown(base).state = base /\ ApplyCooldown(other).state = other
          BY WaitingKeeps
        <4>2. SameVenue(ApplyReset(o, base, c, ResetReason(o, s)).state,
                        ApplyReset(p, other, d, ResetReason(p, b)).state)
          BY <1>3, SameReset
        <4>3. SameVenue(ApplyEvent(o, base, c).state, ApplyEvent(p, other, d).state)
          BY <1>3, SameEvent
        <4> QED BY <1>3, <3>1, <4>1, <4>2, <4>3
      <3> QED BY <1>1, <3>3, <3>4 DEF Within
    <2>6. CASE /\ row \in {"F", "W", "H"}
               /\ (row = "W" => ~ReferencesWarm(s, c)) /\ (row = "H" => ReferencesWarm(s, c))
               /\ their = IF ReferencesWarm(s, c) THEN "H" ELSE "W"
      <3>1. x = ApplyHealthy(o, base, c, row) /\ y = ApplyHealthy(p, other, d, their)
        BY <2>1, <2>2, <2>6
      <3>2. SameVenue(x.state, y.state)
        BY <1>3, <3>1, SameTraining
      <3>3. Within(Wants(FunnelCancelOnExposure(x.decision, o), o),
                   Wants(FunnelCancelOnExposure(y.decision, o), o), c.price_epsilon)
        <4>1. /\ row = "W" => ~ReferencesWarm(base, c)
              /\ row = "H" => ReferencesWarm(base, c)
              /\ their = IF ReferencesWarm(base, c) THEN "H" ELSE "W"
          BY <1>3, <2>6
        <4> QED BY <1>3, <2>6, <3>1, <4>1, HealthyInStep
      <3> QED BY <1>1, <3>2, <3>3
    <2> QED BY <2>3, <2>5, <2>6
  <1> QED BY <1>5, <1>6, <1>7

----
(* Both arms of a session. *)

\* The arms remember the same venue, whatever the guard has learnt.
InStep == SameVenue(st["guarded"], st["baseline"])

\* The knobs of a configuration.
ConfigFields ==
  {"guard_enabled", "residual_band", "extreme_multiple", "basis_estimator", "basis_window",
   "basis_min_samples", "decay", "fv_freshness_ms", "fv_source_lag_s", "book_freshness_ms",
   "max_leg_skew_ms", "half_spread", "boundary_zone", "two_sided_band", "min_top_depth",
   "min_level_count", "depth_collapse_ratio", "ref_min_samples", "book_state_dwell_before_quote_ms",
   "mid_jump_threshold", "spread_blowout_multiple", "inventory_soft_limit", "price_epsilon",
   "event_smoother", "event_smoother_param", "market_status_max_age_ms", "rolling_spread_window",
   "rolling_depth_window"}

(* The arms' configurations differ in guard_enabled only. *)
LEMMA ArmKnobs ==
  /\ SameKnobs(ArmConfig("guarded"), ArmConfig("baseline"))
  /\ ~ArmConfig("baseline").guard_enabled
  /\ ArmConfig("guarded").half_spread \in Positive
  /\ ArmConfig("guarded").price_epsilon = Config.price_epsilon /\ Config.price_epsilon \in Positive
PROOF
  <1>1. ~ArmConfig("baseline").guard_enabled
    BY ArmConfigs DEF Arms
  <1>2. /\ ArmConfig("guarded").half_spread \in Positive
        /\ ArmConfig("guarded").price_epsilon = Config.price_epsilon /\ Config.price_epsilon \in Positive
    BY ConfigIsValid DEF ArmConfig, StrategyConfig
  <1>3. SameKnobs(ArmConfig("guarded"), ArmConfig("baseline"))
    <2>1. \A arm \in Arms : \A f \in DOMAIN Config \ {"guard_enabled"} : ArmConfig(arm)[f] = Config[f]
      BY DEF ArmConfig
    <2>2. \A f \in DOMAIN Config \ {"guard_enabled"} : ArmConfig("guarded")[f] = ArmConfig("baseline")[f]
      BY <2>1 DEF Arms
    <2>3. DOMAIN Config = ConfigFields
      BY ConfigIsValid DEF StrategyConfig, ConfigFields
    <2> QED BY <2>2, <2>3 DEF SameKnobs, ConfigFields
  <1> QED BY <1>1, <1>2, <1>3

(* A tick shows both arms the same feed. *)
LEMMA SameShown ==
  ASSUME NEW shape \in Shapes \cup {Plain}
  PROVE  LET o == Shown(shape, "guarded")
         IN  /\ SameFeed(o, Shown(shape, "baseline"))
             /\ o.bid \in Price /\ o.ask \in Price /\ o.tick_size \in Positive
             /\ o.inventory.resting \in Seq([side : {"bid", "ask"}, price : Int])
PROOF
  <1>1. shape \in RawTicks
    BY FeedAssumption
  <1>2. /\ shape.bid \in Price /\ shape.ask \in Price /\ shape.tick_size \in Positive
        /\ shape.resting \in Seq([side : {"bid", "ask"}, price : Int])
    BY <1>1 DEF RawTicks
  <1> DEFINE o == Shown(shape, "guarded")
  <1>3. /\ o.bid = shape.bid /\ o.ask = shape.ask /\ o.tick_size = shape.tick_size
        /\ o.inventory.resting = shape.resting
    BY DEF Shown, Build
  <1>4. SameFeed(o, Shown(shape, "baseline"))
    <2> DEFINE p == Shown(shape, "baseline")
    <2>1. /\ o.observation_sequence = p.observation_sequence /\ o.as_of_ts = p.as_of_ts
          /\ o.token_id = p.token_id /\ o.tick_size = p.tick_size
          /\ o.tick_regime_changed = p.tick_regime_changed
          /\ o.book_source_epoch = p.book_source_epoch /\ o.book_recv_ts = p.book_recv_ts
          /\ o.book_status = p.book_status /\ o.bid = p.bid /\ o.ask = p.ask
          /\ o.bid_size = p.bid_size /\ o.ask_size = p.ask_size
          /\ o.level_count_in_band = p.level_count_in_band /\ o.phase = p.phase
          /\ o.suspended = p.suspended /\ o.match_state_recv_ts = p.match_state_recv_ts
          /\ o.market_status = p.market_status
          /\ o.market_status_recv_ts = p.market_status_recv_ts
          /\ o.market_status_epoch = p.market_status_epoch
          /\ o.order_stream_ok = p.order_stream_ok /\ o.projection_fresh = p.projection_fresh
          /\ o.inventory = p.inventory
      BY DEF Shown, Build
    <2> HIDE DEF o, p
    <2>2. SameFeed(o, p)
      BY <2>1 DEF SameFeed
    <2> QED BY <2>2 DEF p
  <1> HIDE DEF o
  <1> QED BY <1>2, <1>3, <1>4 DEF o

(* A tick keeps the arms in step, and what it makes the guarded arm want the baseline wants. *)
LEMMA TickInStep ==
  ASSUME LoopInv, InStep, NEW shape \in Shapes \cup {Plain}, ObservationTick(shape)
  PROVE  InStep' /\ GuardOnlyPulls'
PROOF
  <1> DEFINE o == Shown(shape, "guarded")
             p == Shown(shape, "baseline")
             c == ArmConfig("guarded")
             d == ArmConfig("baseline")
             s == st["guarded"]
             b == st["baseline"]
             x == Decide(o, s, c)
             y == Decide(p, b, d)
  <1>1. /\ Recording
        /\ st' = [arm \in Arms |-> Decided(shape, arm).state]
        /\ last' = [at |-> now, o |-> o, decision |-> [arm \in Arms |-> Decided(shape, arm).decision]]
    BY TickUnfolded
  <1>2. "guarded" \in Arms /\ "baseline" \in Arms
    BY DEF Arms
  <1>3. Decided(shape, "guarded") = x /\ Decided(shape, "baseline") = y
    BY DEF Decided
  <1>4. /\ SameFeed(o, p) /\ o.bid \in Price /\ o.ask \in Price /\ o.tick_size \in Positive
        /\ o.inventory.resting \in Seq([side : {"bid", "ask"}, price : Int])
    BY SameShown
  <1>5. /\ SameKnobs(c, d) /\ ~d.guard_enabled /\ c.half_spread \in Positive
        /\ c.price_epsilon = Config.price_epsilon /\ c.price_epsilon \in Positive
    BY ArmKnobs
  <1>6. IsState(s) /\ IsState(b) /\ SameVenue(s, b)
    BY <1>2 DEF LoopInv, ArmsInv, InStep
  <1>7. s.last_book_source_epoch # None => Ticked
    BY <1>2 DEF LoopInv, ArmsInv
  <1>8. Ticked => Accepted(o, s, c) /\ Accepted(p, b, d)
    <2> SUFFICES ASSUME Ticked PROVE Accepted(o, s, c) /\ Accepted(p, b, d)
      OBVIOUS
    <2>1. \A arm \in Arms : Accepted(Shown(shape, arm), st[arm], ArmConfig(arm))
      <3> SUFFICES ASSUME NEW arm \in Arms, NEW q, q = Shown(shape, arm)
                   PROVE  Accepted(q, st[arm], ArmConfig(arm))
        OBVIOUS
      <3>1. /\ q.observation_sequence = obsSeq + 1 /\ q.as_of_ts = now /\ q.book_source_epoch = gens.book
            /\ q.guard_fv # None =>
                 \E e \in OfStream : IsNewest(e, OfStream) /\ q.guard_fv.fv_source_epoch = e.source_epoch
        BY <1>1, ShownFacts
      <3> QED BY <1>1, <3>1, ArmAccepts
    <2> QED BY <1>2, <2>1
  <1> HIDE DEF o, p, c, d, s, b
  <1>9. /\ SameVenue(x.state, y.state)
        /\ Within(Wants(x.decision, o), Wants(y.decision, o), c.price_epsilon)
    BY <1>4, <1>5, <1>6, <1>7, <1>8, ArmsInStep
  <1> HIDE DEF x, y
  <1>10. InStep'
    <2>1. st'["guarded"] = x.state /\ st'["baseline"] = y.state
      BY <1>1, <1>2, <1>3
    <2> QED BY <1>9, <2>1 DEF InStep
  <1>11. GuardOnlyPulls'
    <2>1. last'.o = o /\ last'.decision["guarded"] = x.decision /\ last'.decision["baseline"] = y.decision
      BY <1>1, <1>2, <1>3
    <2>2. Wanted("guarded")' = Wants(x.decision, o) /\ Wanted("baseline")' = Wants(y.decision, o)
      BY <2>1 DEF Wanted, Placed, Wants, Legs, RestingLegs, Held
    <2> QED BY <1>5, <1>9, <2>2 DEF GuardOnlyPulls, Within, CloseTo
  <1> QED BY <1>10, <1>11

(* For every valid configuration, every feed and every fair value, through crashes and resumptions:
   the guard of mm_strategy/core.py only withholds quotes.  The guarded arm never has a leg on the
   book that the baseline arm would not have there within price_epsilon (_quote_disposition,
   _residual_pull_quote, _inventory_reduce, _target_is_unchanged). *)
THEOREM GuardSafe == Spec => []GuardOnlyPulls
PROOF
  <1> DEFINE Inv == LoopInv /\ InStep /\ GuardOnlyPulls
  <1>1. Init => Inv
    <2> SUFFICES ASSUME Init PROVE Inv
      OBVIOUS
    <2>1. LoopInv
      BY LoopInit
    <2>2. ~Ticked /\ st["guarded"] = st["baseline"]
      BY DEF Init, Ticked, NoTick, Arms
    <2> QED BY <2>1, <2>2 DEF InStep, SameVenue, GuardOnlyPulls
  <1>2. Inv /\ [Next]_vars => Inv'
    <2> SUFFICES ASSUME Inv, [Next]_vars PROVE Inv'
      OBVIOUS
    <2>1. LoopInv'
      BY LoopStep
    <2>2. CASE \E shape \in Shapes \cup {Plain} : ObservationTick(shape)
      BY <2>1, <2>2, TickInStep
    <2>3. ASSUME st' = st, last' = last PROVE InStep' /\ GuardOnlyPulls'
      BY <2>3 DEF InStep, GuardOnlyPulls, Ticked, Wanted, Placed
    <2>4. CASE \E a \in Arrivals : FvArrival(a)
      BY <2>1, <2>3, <2>4 DEF FvArrival
    <2>5. CASE \E status \in {"ACTIVE", "HALTED"} : RecordMarketStatus(status)
      BY <2>1, <2>3, <2>5 DEF RecordMarketStatus
    <2>6. CASE NoteGap
      BY <2>1, <2>3, <2>6 DEF NoteGap
    <2>7. CASE \E source \in {"book", "fv"} : Reconnect(source)
      BY <2>1, <2>3, <2>7 DEF Reconnect
    <2>8. CASE Crash
      BY <2>1, <2>3, <2>8 DEF Crash
    <2>9. CASE Resume
      <3>1. CASE st' = st /\ last' = last
        BY <2>1, <2>3, <3>1
      <3>2. CASE st' = [arm \in Arms |-> FreshState] /\ last' = NoTick
        <4>1. st'["guarded"] = st'["baseline"] /\ ~Ticked'
          BY <3>2 DEF Arms, Ticked, NoTick
        <4> QED BY <2>1, <4>1 DEF InStep, SameVenue, GuardOnlyPulls
      <3> QED BY <2>9, <3>1, <3>2 DEF Resume
    <2>10. CASE Finalize
      BY <2>1, <2>3, <2>10 DEF Finalize
    <2>11. CASE UNCHANGED vars
      BY <2>1, <2>3, <2>11 DEF vars
    <2> QED BY <2>2, <2>4, <2>5, <2>6, <2>7, <2>8, <2>9, <2>10, <2>11 DEF Next
  <1>3. Inv => GuardOnlyPulls
    OBVIOUS
  <1> QED BY <1>1, <1>2, <1>3, PTL DEF Spec
====
