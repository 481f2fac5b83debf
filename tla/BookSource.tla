---- MODULE BookSource ----
(***************************************************************************)
(* The venue book as the recorder sees it:                                 *)
(* live_recorder/ws_book_source.py, top_of_book.py and the book half of    *)
(* sources.py.                                                             *)
(*                                                                         *)
(* A side of a book is a function from price to size; prices are in        *)
(* thousandths, a mid is kept doubled.  A frame is a record whose          *)
(* event_type is "book" [token, ts, bids, asks], "price_change" [ts,       *)
(* changes], "tick_size_change" [token, tick] or "gap", each with recv_ts. *)
(* A text that float() refuses is NonNumeric.                              *)
(***************************************************************************)
EXTENDS Absent, Integers, Sequences, FiniteSets, SequencesExt, FiniteSetsExt

NonNumeric == -1
FullPrice == 1000
EmptySide == <<>>

----
(* top_of_book.py: a pair of raw best prices. *)
ParseSide(raw) == IF raw = None \/ raw <= 0 THEN None ELSE raw
ExtractTopOfBook(raw_bid, raw_ask) ==
  LET bid == ParseSide(raw_bid)
      ask == ParseSide(raw_ask)
      Quote(status, reason) ==
        [bid |-> bid, ask |-> ask, status |-> status, reason |-> reason,
         mid |-> IF status = "ok" THEN bid + ask ELSE None,
         spread |-> IF status = "ok" THEN ask - bid ELSE None]
  IN  IF NonNumeric \in {raw_bid, raw_ask} THEN Quote("gap", "non_numeric_best")
      ELSE IF bid = None /\ ask = None THEN Quote("gap", "missing_both")
      ELSE IF None \in {bid, ask} THEN Quote("gap", "one_sided")
      ELSE IF bid >= ask THEN Quote("excluded", "crossed")
      ELSE Quote("ok", None)

----
(* BookState: one retained book. *)
NewBook(tick) ==
  [bids |-> EmptySide, asks |-> EmptySide, seeded |-> FALSE, last_ts |-> 0, tick |-> tick,
   best_bid |-> None, best_ask |-> None, mid |-> None]
BestBid(side) == IF DOMAIN side = {} THEN None ELSE Max(DOMAIN side)
BestAsk(side) == IF DOMAIN side = {} THEN None ELSE Min(DOMAIN side)
TwoSidedMid(bid, ask) == IF None \in {bid, ask} THEN None ELSE bid + ask
Recompute(b) ==
  [b EXCEPT !.best_bid = BestBid(b.bids), !.best_ask = BestAsk(b.asks),
            !.mid = TwoSidedMid(BestBid(b.bids), BestAsk(b.asks))]
Invalidate(b) == [NewBook(b.tick) EXCEPT !.last_ts = b.last_ts]

Standing(side) == [p \in { q \in DOMAIN side : side[q] > 0 } |-> side[p]]
ToSnapshot(b) ==
  [book_ts |-> b.last_ts, tick |-> b.tick, bids |-> Standing(b.bids), asks |-> Standing(b.asks)]
(* BookLevel refuses a price outside the unit interval or a negative size. *)
IsLevel(p, s) == p \in 0 .. FullPrice /\ s >= 0
AreLevels(side) == \A p \in DOMAIN side : IsLevel(p, side[p])
Renderable(b) == AreLevels(Standing(b.bids)) /\ AreLevels(Standing(b.asks))

SetLevel(b, side, price, size) ==
  [b EXCEPT ![side] = IF size = 0 THEN [p \in DOMAIN @ \ {price} |-> @[p]] ELSE (price :> size) @@ @]

----
(* BookStateMaintainer: [books, seq, out, raised]; out are the mid changes of the last frame. *)
DefaultTick == 10
NewMaintainer == [books |-> EmptySide, seq |-> 0, out |-> <<>>, raised |-> FALSE]
GetOrCreate(m, token) == IF token \in DOMAIN m.books THEN m.books[token] ELSE NewBook(DefaultTick)
PutBook(m, token, b) == [m EXCEPT !.books = (token :> b) @@ @]
IsSeeded(m, token) == token \in DOMAIN m.books /\ m.books[token].seeded

EmitIfMoved(m, token, recv_ts, old_mid) ==
  LET b == m.books[token]
  IN  IF b.mid \in {None, old_mid} THEN m
      ELSE [m EXCEPT !.seq = @ + 1,
                     !.out = Append(@, [token |-> token, recv_ts |-> recv_ts, arrival_seq |-> m.seq + 1,
                                        mid |-> b.mid, book_ts |-> b.last_ts,
                                        best_bid |-> b.best_bid, best_ask |-> b.best_ask])]

(* book_snapshot_from_json raises on a level it cannot build. *)
ApplyBook(m, f) ==
  LET old == GetOrCreate(m, f.token)
      seeded == Recompute([old EXCEPT !.bids = f.bids, !.asks = f.asks, !.seeded = TRUE, !.last_ts = f.ts])
  IN  IF f.token = None THEN m
      ELSE IF AreLevels(f.bids) /\ AreLevels(f.asks)
      THEN EmitIfMoved(PutBook(m, f.token, seeded), f.token, f.recv_ts, old.mid)
      ELSE [PutBook(m, f.token, old) EXCEPT !.raised = TRUE]

Merge(acc, c) ==
  IF acc.malformed \/ c.side \notin {"BUY", "SELL"} THEN acc
  ELSE IF NonNumeric \in {c.price, c.size} THEN [acc EXCEPT !.malformed = TRUE]
  ELSE [acc EXCEPT !.last = c,
                   !.book = SetLevel(@, IF c.side = "BUY" THEN "bids" ELSE "asks", c.price, c.size)]

SideMatches(computed, raw) == IF raw = None \/ raw <= 0 THEN computed = None ELSE computed = raw
TopofbookRaises(b, c) ==
  c.best_bid = NonNumeric \/ (SideMatches(b.best_bid, c.best_bid) /\ c.best_ask = NonNumeric)
TopofbookMatches(b, c) == SideMatches(b.best_bid, c.best_bid) /\ SideMatches(b.best_ask, c.best_ask)

(* The changes of one asset; the assets of a frame are taken in order of first appearance, and
   an error leaves the assets after it untouched. *)
ApplyAsset(m, f, token) ==
  LET b == m.books[token]
      merged == FoldLeft(Merge, [book |-> b, last |-> None, malformed |-> FALSE],
                         SelectSeq(f.changes, LAMBDA c : c.token = token))
      now == Recompute([merged.book EXCEPT !.last_ts = f.ts])
  IN  IF m.raised \/ ~IsSeeded(m, token) THEN m
      ELSE IF f.ts < b.last_ts THEN PutBook(m, token, Invalidate(b))
      ELSE IF merged.malformed THEN PutBook(m, token, Invalidate(b))
      ELSE IF merged.last = None THEN EmitIfMoved(PutBook(m, token, now), token, f.recv_ts, b.mid)
      ELSE IF TopofbookRaises(now, merged.last) THEN [PutBook(m, token, now) EXCEPT !.raised = TRUE]
      ELSE IF TopofbookMatches(now, merged.last)
           THEN EmitIfMoved(PutBook(m, token, now), token, f.recv_ts, b.mid)
      ELSE PutBook(m, token, Invalidate(now))
AssetsOf(changes) ==
  FoldLeft(LAMBDA acc, c : IF c.token = None \/ c.token \in ToSet(acc) THEN acc ELSE Append(acc, c.token),
           <<>>, changes)
ApplyPriceChange(m, f) ==
  FoldLeft(LAMBDA acc, token : ApplyAsset(acc, f, token), m, AssetsOf(f.changes))

ApplyTickSize(m, f) ==
  LET b == GetOrCreate(m, f.token)
  IN  IF f.token = None THEN m
      ELSE IF f.tick = None THEN PutBook(m, f.token, b)
      ELSE IF f.tick = NonNumeric THEN [PutBook(m, f.token, b) EXCEPT !.raised = TRUE]
      ELSE PutBook(m, f.token, [b EXCEPT !.tick = f.tick])

ApplyFrame(before, f) ==
  LET m == [before EXCEPT !.out = <<>>, !.raised = FALSE]
  IN  CASE f.event_type = "gap" -> [m EXCEPT !.books = [t \in DOMAIN @ |-> Invalidate(@[t])]]
        [] f.event_type = "book" -> ApplyBook(m, f)
        [] f.event_type = "price_change" -> ApplyPriceChange(m, f)
        [] f.event_type = "tick_size_change" -> ApplyTickSize(m, f)

----
(* WsBookDepthSource: [maint, entries], an entry being [snapshot, last_recv_ts, gapped]. *)
NewSource == [maint |-> NewMaintainer, entries |-> EmptySide]
FrameTokenIds(f) ==
  CASE f.event_type \in {"book", "tick_size_change"} -> {f.token} \ {None}
    [] f.event_type = "price_change" -> ToSet(AssetsOf(f.changes))
    [] OTHER -> {}
GapAll(entries) == [t \in DOMAIN entries |-> [entries[t] EXCEPT !.gapped = TRUE]]

(* One touched token; rendering a level outside the unit interval raises. *)
Refresh(acc, token, recv_ts) ==
  IF acc.maint.raised THEN acc
  ELSE IF ~IsSeeded(acc.maint, token)
       THEN [acc EXCEPT !.entries = IF token \in DOMAIN @ THEN [@ EXCEPT ![token].gapped = TRUE] ELSE @]
  ELSE IF ~Renderable(acc.maint.books[token]) THEN [acc EXCEPT !.maint.raised = TRUE]
  ELSE [acc EXCEPT !.entries = (token :> [snapshot |-> ToSnapshot(acc.maint.books[token]),
                                          last_recv_ts |-> recv_ts, gapped |-> FALSE]) @@ @]
ProcessFrame(s, f) ==
  FoldLeft(LAMBDA acc, token : Refresh(acc, token, f.recv_ts),
           [maint |-> ApplyFrame(s.maint, f),
            entries |-> IF f.event_type = "gap" THEN GapAll(s.entries) ELSE s.entries],
           SetToSeq(FrameTokenIds(f)))
OnFrame(s, f) ==
  LET done == ProcessFrame(s, f)
  IN  IF done.maint.raised THEN [done EXCEPT !.entries = GapAll(@)] ELSE done

NoBook == [kind |-> "none"]
StaleVenueBook == [kind |-> "stale"]
FetchBook(s, token, now, max_cache_age_ms) ==
  IF token \notin DOMAIN s.entries THEN NoBook
  ELSE LET e == s.entries[token]
       IN  IF e.gapped \/ now - e.last_recv_ts > max_cache_age_ms THEN StaleVenueBook
           ELSE [kind |-> "book", snapshot |-> e.snapshot]

----
(* stream_venue_book_frames: what a connection's messages become.  A failed PING closes the
   connection, so it arrives here as a message that is not text. *)
BackoffStart == 1
BackoffMax == 60
KnownEventTypes == {"book", "price_change", "tick_size_change"}
GapFrame(now) == [event_type |-> "gap", recv_ts |-> now]
NewStream == [backoff |-> BackoffStart, slept |-> <<>>, frames |-> <<>>]
ParseFrame(payload, now) ==
  IF payload.event_type \in KnownEventTypes THEN [recv_ts |-> now] @@ payload ELSE None
Disconnected(c, now) ==
  [backoff |-> Min({c.backoff * 2, BackoffMax}), slept |-> Append(c.slept, c.backoff),
   frames |-> Append(c.frames, GapFrame(now))]
Receive(c, msg, now) ==
  IF msg.kind # "text" THEN Disconnected(c, now)
  ELSE IF ParseFrame(msg.payload, now) = None THEN c
  ELSE [c EXCEPT !.backoff = BackoffStart, !.frames = Append(@, ParseFrame(msg.payload, now))]
====
