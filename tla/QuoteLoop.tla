---- MODULE QuoteLoop ----
(***************************************************************************)
(* One market-making session: mm_strategy/assembler.py mints every feed    *)
(* event to the recorder's tape, projects the fair value a tick may see,   *)
(* and the strategy core decides on the observation.  The guarded and the  *)
(* baseline arm of run_guard_ablation fold the same observations.          *)
(*                                                                         *)
(* Time is the receive clock.  A tick's raw facts are chosen from Shapes,  *)
(* records that say how it deviates from a plain healthy book; the bounds  *)
(* are on the clock, the deviating ticks, the fair values, the reconnects, *)
(* the recorder gaps, the market-status events and the crashes.            *)
(***************************************************************************)
EXTENDS StrategyCore, RecorderTape

CONSTANTS
  Config,          \* the StrategyConfig both arms share, guard_enabled apart
  Plain,           \* the raw facts of a plain tick
  Shapes,          \* the raw facts of the deviating ticks
  Arrivals,        \* what the feed may send: [value, lag (source behind receive), identity]
  Stream,          \* the identity the ticks are of
  MaxTime, MaxDeviations, MaxFv, MaxReconnects, MaxGaps, MaxStatus, MaxCrashes,
  MaxExtras        \* of all of these together, the clock apart

\* The raw facts a tick may bring.
Price == Int \cup {None}
Size == Nat \cup {None}
RawTicks ==
  [bid : Price, ask : Price, bid_size : Size, ask_size : Size, level_count : Nat, tick_size : Positive,
   tick_regime_changed : BOOLEAN, age : Nat, book_status : {"ok", "gap", "excluded"}, phase : {0, 1},
   suspended : BOOLEAN, net_position : Int, resting : Seq([side : {"bid", "ask"}, price : Int])]

ASSUME ConfigIsValid == Config \in StrategyConfig /\ ValidateZones(Config)
ASSUME FeedAssumption ==
  /\ Shapes \cup {Plain} \subseteq RawTicks
  /\ \A a \in Arrivals : a.lag \in Nat
ASSUME NoneAssumption == None \notin Int /\ None \notin {"bid", "ask"}

VARIABLES
  disk,            \* records.jsonl and meta.json
  rec,             \* the LiveRecorder over it, None when the process is down
  gens,            \* the connection generation of each source
  now,             \* the receive clock
  obsSeq,          \* run_cadence's observation_sequence
  cache,           \* run_cadence's fv_cache
  st,              \* the strategy state of each arm
  last,            \* the last tick: its time, observation and each arm's decision, or NoTick
  disturbed,       \* the time of the last disturbance the arms were shown, or None
  used             \* how much of each bound is spent

vars == <<disk, rec, gens, now, obsSeq, cache, st, last, disturbed, used>>

Arms == {"guarded", "baseline"}
ArmConfig(arm) == [Config EXCEPT !.guard_enabled = (arm = "guarded")]
Spend(what) == used' = [used EXCEPT ![what] = @ + 1]
Total == used.deviation + used.fv + used.reconnect + used.gap + used.status + used.crash
Left(what, bound) == used[what] < bound /\ Total < MaxExtras

StatusRow(status, epoch) ==
  [event_type |-> "MarketStatusEvent", status |-> status, recv_ts |-> now, epoch |-> epoch]

\* Before the first tick of a session; the clock starts at one.
NoTick == [at |-> 0]
Ticked == last.at # 0

\* The generation of each source when a session begins.
SourceGenerations == [book |-> 1, fv |-> 1, market_status |-> 1]

(* A session that has just recorded that its market is active. *)
Init ==
  /\ now = 1
  /\ LET opened == Record(NewDisk, NewRecorder, StatusRow("ACTIVE", 1))
     IN  disk = opened.disk /\ rec = opened.rec
  /\ gens = SourceGenerations
  /\ obsSeq = 0
  /\ cache = {}
  /\ st = [arm \in Arms |-> FreshState]
  /\ last = NoTick
  /\ disturbed = None
  /\ used = [deviation |-> 0, fv |-> 0, reconnect |-> 0, gap |-> 0, status |-> 0, crash |-> 0]

Recording == rec # None /\ disk.meta = None

----
(* assembler.py: minting. *)
MintRow(source, epoch, identity) ==
  [event_type |-> "MintEvent", source |-> source, source_epoch |-> epoch, recv_ts |-> now,
   identity |-> identity]
Mint(row) == RecordAndReturnPair(disk, rec, row)

(* A fair value sealed at the pair of its minted row. *)
CachedFv(a, pair) ==
  [source_ts |-> now - a.lag, recv_ts |-> pair[1], sequence_no |-> pair[2], value |-> a.value,
   source_epoch |-> gens.fv, identity |-> a.identity]

(* A fair value arrives: minted to the tape, then cached under its minted pair. *)
FvArrival(a) ==
  LET m == Mint(MintRow("fv", gens.fv, a.identity))
  IN  /\ Recording /\ Left("fv", MaxFv)
      /\ disk' = m.written.disk /\ rec' = m.written.rec
      /\ cache' = cache \cup {CachedFv(a, m.pair)}
      /\ Spend("fv")
      /\ UNCHANGED <<gens, now, obsSeq, st, last, disturbed>>

(* The newest fair value of the tick's own stream that was minted before the tick. *)
ProjectGuardFv(pair, identity, guard_enabled) ==
  LET winner == EligibleFvPair({ e \in cache : e.identity = identity }, pair[1], pair[2])
  IN  IF ~guard_enabled THEN None
      ELSE IF winner = None THEN None
      ELSE [fv |-> winner.value, fv_source_ts |-> winner.source_ts,
            fv_recv_ts |-> winner.recv_ts, fv_source_epoch |-> winner.source_epoch]

(* assembler.py: the durable market status, UNKNOWN when the tape has none. *)
StatusRows == SelectSeq(ReadSessionStrict(disk).events, LAMBDA row : row.event_type = "MarketStatusEvent")
LatestMarketStatus ==
  IF StatusRows = <<>> THEN [status |-> "UNKNOWN", recv_ts |-> None, epoch |-> None]
  ELSE CHOOSE row \in { StatusRows[i] : i \in DOMAIN StatusRows } :
         \A other \in { StatusRows[i] : i \in DOMAIN StatusRows } : other.sequence_no <= row.sequence_no

(* What the factory builds from a tick's facts; the owned fields are the assembler's. *)
Build(shape, sequence, guard_fv, status) ==
  [observation_sequence |-> sequence, guard_fv |-> guard_fv, as_of_ts |-> now,
   token_id |-> "t", tick_size |-> shape.tick_size, tick_regime_changed |-> shape.tick_regime_changed,
   book_source_epoch |-> gens.book, book_recv_ts |-> now - shape.age, book_status |-> shape.book_status,
   bid |-> shape.bid, ask |-> shape.ask, bid_size |-> shape.bid_size, ask_size |-> shape.ask_size,
   level_count_in_band |-> shape.level_count, phase |-> shape.phase, suspended |-> shape.suspended,
   match_state_recv_ts |-> now - shape.age,
   market_status |-> status.status, market_status_recv_ts |-> status.recv_ts,
   market_status_epoch |-> status.epoch,
   order_stream_ok |-> TRUE, projection_fresh |-> TRUE,
   inventory |-> [net_position |-> shape.net_position, resting |-> shape.resting, fresh |-> TRUE]]

(* contracts.py: an observation that can be constructed. *)
ObservationIsValid(o) ==
  /\ o.tick_size > 0
  /\ o.phase \in {0, 1}
  /\ (o.market_status = "UNKNOWN") = (o.market_status_recv_ts = None)
  /\ (o.market_status = "UNKNOWN") = (o.market_status_epoch = None)
  /\ o.book_recv_ts <= o.as_of_ts /\ o.match_state_recv_ts <= o.as_of_ts
  /\ o.market_status_recv_ts # None => o.market_status_recv_ts <= o.as_of_ts
  /\ o.guard_fv # None => o.guard_fv.fv_recv_ts <= o.as_of_ts

(* Whether the tick shows a disturbance the strategy must sit out: a reconnect, a gap or its
   end, a reopening, a phase change or a new tick size.  A statement about the feed alone; the
   first tick of a session is its seed and disturbs nothing. *)
Disturbs(o) ==
  /\ Ticked
  /\ \/ o.book_status \in {"gap", "excluded"} \/ o.tick_regime_changed
     \/ last.o.book_status \in {"gap", "excluded"}
     \/ last.o.suspended /\ ~o.suspended
     \/ last.o.phase # o.phase
     \/ last.o.book_source_epoch # o.book_source_epoch

(* A book tick: bound to its generation, minted, projected, built and decided by both arms. *)
ObservationTick(shape) ==
  LET m == Mint(MintRow("book", gens.book, Stream))
      status == LatestMarketStatus
      obs(arm) == Build(shape, obsSeq + 1, ProjectGuardFv(m.pair, Stream, arm = "guarded"), status)
      result == [arm \in Arms |-> Decide(obs(arm), st[arm], ArmConfig(arm))]
  IN  /\ Recording /\ now < MaxTime
      /\ shape # Plain => Left("deviation", MaxDeviations)
      /\ \A arm \in Arms : ObservationIsValid(obs(arm))
      /\ disk' = m.written.disk /\ rec' = m.written.rec
      /\ obsSeq' = obsSeq + 1
      /\ st' = [arm \in Arms |-> result[arm].state]
      /\ last' = [at |-> now, o |-> obs("guarded"), decision |-> [arm \in Arms |-> result[arm].decision]]
      /\ disturbed' = IF Disturbs(obs("guarded")) THEN now ELSE disturbed
      /\ now' = now + 1
      /\ used' = [used EXCEPT !.deviation = IF shape = Plain THEN @ ELSE @ + 1]
      /\ UNCHANGED <<gens, cache>>

(* assembler.py: a market-status event is recorded under the status generation. *)
RecordMarketStatus(status) ==
  LET m == Mint(StatusRow(status, gens.market_status))
  IN  /\ Recording /\ Left("status", MaxStatus)
      /\ disk' = m.written.disk /\ rec' = m.written.rec
      /\ Spend("status")
      /\ UNCHANGED <<gens, now, obsSeq, cache, st, last, disturbed>>

(* The recorder notes that a source was down. *)
NoteGap ==
  LET w == RecordGap(disk, rec, now - 1, now)
  IN  /\ Recording /\ Left("gap", MaxGaps)
      /\ disk' = w.disk /\ rec' = w.rec
      /\ Spend("gap")
      /\ UNCHANGED <<gens, now, obsSeq, cache, st, last, disturbed>>

(* A feed reconnects under a new generation. *)
Reconnect(source) ==
  /\ Recording /\ Left("reconnect", MaxReconnects)
  /\ gens' = [gens EXCEPT ![source] = @ + 1]
  /\ Spend("reconnect")
  /\ UNCHANGED <<disk, rec, now, obsSeq, cache, st, last, disturbed>>

(* The process dies, perhaps in the middle of a line: the recorder, the fair-value cache and
   the sequence counter are gone. *)
Crash ==
  /\ Recording /\ Left("crash", MaxCrashes)
  /\ rec' = None /\ cache' = {} /\ obsSeq' = 0
  /\ \E torn \in BOOLEAN : disk' = [disk EXCEPT !.torn = torn]
  /\ Spend("crash")
  /\ UNCHANGED <<gens, now, st, last, disturbed>>

(* assembler.py: the generations on the tape, and the ones a resumed session starts from. *)
DurableEpochs(source) ==
  { row.source_epoch : row \in { r \in EventRows(disk) :
                                   r.event_type = "MintEvent" /\ r.source = source } }
ReadDurableSourceGenerations ==
  [book |-> Max({0} \cup DurableEpochs("book")),
   fv |-> IF DurableEpochs("fv") = {} THEN None ELSE Max(DurableEpochs("fv")),
   market_status |-> IF DurableEpochs("market_status") = {} THEN None
                     ELSE Max(DurableEpochs("market_status"))]
ResumeSourceGenerations(prior, guard_enabled) ==
  [book |-> prior.book + 1,
   fv |-> IF ~guard_enabled THEN None ELSE (IF prior.fv = None THEN 0 ELSE prior.fv) + 1,
   market_status |-> IF prior.market_status = None THEN None ELSE prior.market_status + 1]

(* The session is resumed from its tape; the arms start from the given seed state, which is
   the last one or a fresh one.  A status generation the tape does not hold starts at one. *)
Resume ==
  LET resumed == ResumeRecorder(disk)
      next == ResumeSourceGenerations(ReadDurableSourceGenerations, TRUE)
  IN  /\ rec = None /\ CanResume(disk)
      /\ disk' = resumed.disk /\ rec' = resumed.rec
      /\ gens' = [next EXCEPT !.market_status = IF @ = None THEN 1 ELSE @]
      /\ \/ st' = st /\ UNCHANGED <<last, disturbed>>
         \/ st' = [arm \in Arms |-> FreshState] /\ last' = NoTick /\ disturbed' = None
      /\ UNCHANGED <<now, obsSeq, cache, used>>

(* The run is over: the tape is sealed. *)
Finalize ==
  /\ Recording /\ now = MaxTime
  /\ disk' = FinalizeTape(disk, rec)
  /\ UNCHANGED <<rec, gens, now, obsSeq, cache, st, last, disturbed, used>>

Next ==
  \/ \E a \in Arrivals : FvArrival(a)
  \/ \E shape \in Shapes \cup {Plain} : ObservationTick(shape)
  \/ \E status \in {"ACTIVE", "HALTED"} : RecordMarketStatus(status)
  \/ NoteGap
  \/ \E source \in {"book", "fv"} : Reconnect(source)
  \/ Crash
  \/ Resume
  \/ Finalize

Spec == Init /\ [][Next]_vars

----
Placed(arm) == { leg \in Range(last.decision[arm].intent_plan) : leg.kind = "place_quote" }

(* The legs an arm wants on the book after its decision: what it places, or what already
   rests when it holds because that is what it wants. *)
Wanted(arm) ==
  IF last.decision[arm] = Hold(<<"hold_unchanged">>)
  THEN { PlaceLeg(r.side, r.price) : r \in Range(last.o.inventory.resting) }
  ELSE Placed(arm)

(* No arm places a quote until a full dwell has passed since the last disturbance it was shown:
   a reconnect, a book gap and its end, a reopening, a phase or a tick-size change, whatever
   stale, cooled or warm-up ticks came in between (book_state_dwell_before_quote_ms). *)
DwellServed ==
  Ticked /\ disturbed # None /\ (\E arm \in Arms : Placed(arm) # {})
    => last.o.as_of_ts >= disturbed + Config.book_state_dwell_before_quote_ms

(* The guard only withholds: on the same ticks the guarded arm never wants a leg that the
   baseline arm does not want, or wants at another price, though the two carry their own
   states.  An order that rests within price_epsilon of its target is the order wanted. *)
GuardOnlyPulls ==
  Ticked =>
    \A leg \in Wanted("guarded") : \E other \in Wanted("baseline") :
      leg.leg_role = other.leg_role /\ Abs(leg.price - other.price) <= Config.price_epsilon

(* The tape stays one recording through crashes, torn lines and resumptions: its numbers
   increase, a crashed session can always be resumed (resume), *)
TapeResumes ==
  /\ StrictlyIncreasing(disk.rows)
  /\ rec = None => CanResume(disk)

(* and once sealed it replays to the sealed hash with every row counted (replay_reproduces). *)
TapeReplays ==
  /\ TapeResumes
  /\ disk.meta # None => ReplayReproduces(disk) /\ disk.meta.count = Len(disk.rows)
====
