---- MODULE RecorderTape ----
(***************************************************************************)
(* The append-only session tape: live_recorder/recorder.py, replay.py and  *)
(* alignment.py.                                                           *)
(*                                                                         *)
(* A disk is [rows, torn, meta]: the complete lines of records.jsonl in    *)
(* file order, whether a crash left a partial last line after them, and    *)
(* meta.json, which is None or [count, hash] once finalized.  A recorder   *)
(* is the live object over it, [seq, events].  A content hash is the       *)
(* content it digests, so equal hashes are equal contents.                 *)
(***************************************************************************)
EXTENDS Absent, Integers, Sequences, FiniteSets, SequencesExt, FiniteSetsExt

IsGap(row) == row.event_type = "RecorderGapEvent"

(* runtime/evidence.py: the hash of the rows on the given lines.  Rows of distinct numbers, put in
   the order of their numbers, are told by their set; a repeated number raises. *)
Hashable(rows, lines) ==
  \A i, j \in lines : i # j => rows[i].sequence_no # rows[j].sequence_no
ComputeEvidenceHash(rows, lines) == { rows[i] : i \in lines }
SessionContentHash(rows, lines) == ComputeEvidenceHash(rows, lines)

NewDisk == [rows |-> <<>>, torn |-> FALSE, meta |-> None]
NewRecorder == [seq |-> 0, events |-> <<>>]

(* One line: the next number, written and flushed, then remembered. *)
NextSeq(rec) == rec.seq + 1
Stamped(rec, row) ==
  [f \in DOMAIN row \cup {"sequence_no"} |-> IF f = "sequence_no" THEN NextSeq(rec) ELSE row[f]]
WriteLine(disk, row) == [disk EXCEPT !.rows = Append(@, row)]
Record(disk, rec, row) ==
  [disk |-> WriteLine(disk, Stamped(rec, row)),
   rec |-> [seq |-> NextSeq(rec), events |-> Append(rec.events, Stamped(rec, row))]]
RecordAndReturnPair(disk, rec, row) ==
  [written |-> Record(disk, rec, row), pair |-> <<row.recv_ts, NextSeq(rec)>>]
RecordGap(disk, rec, from_ts, to_ts) ==
  Record(disk, rec, [event_type |-> "RecorderGapEvent", recv_ts |-> to_ts, from_ts |-> from_ts])

(* Sealing; a tape that cannot be hashed is left unsealed. *)
FinalizeTape(disk, rec) ==
  LET lines == DOMAIN rec.events
  IN  IF Hashable(rec.events, lines)
      THEN [disk EXCEPT !.meta = [count |-> Len(rec.events), hash |-> SessionContentHash(rec.events, lines)]]
      ELSE disk

(* Reading: a torn last line is skipped, gaps are set apart from events. *)
ReadSession(disk) ==
  [meta |-> disk.meta,
   events |-> SelectSeq(disk.rows, LAMBDA row : ~IsGap(row)),
   gaps |-> SelectSeq(disk.rows, IsGap)]
ReadSessionStrict(disk) == ReadSession(disk)
\* The same rows as sets, for readers that do not look at their order.
EventRows(disk) == { row \in Range(disk.rows) : ~IsGap(row) }
GapRows(disk) == { row \in Range(disk.rows) : IsGap(row) }
EventLines(disk) == { i \in DOMAIN disk.rows : ~IsGap(disk.rows[i]) }
GapLines(disk) == { i \in DOMAIN disk.rows : IsGap(disk.rows[i]) }
(* Mutant: the gap lines are not counted. *)
MaxEventSequenceNo(disk) ==
  Max({0} \cup { row.sequence_no : row \in EventRows(disk) })
MaxSequenceNo(disk) ==
  Max({0} \cup { row.sequence_no : row \in EventRows(disk) \cup GapRows(disk) })
(* The rows read back, events and gaps together, hash to what was sealed. *)
ReplayReproduces(disk) ==
  LET full_stream == EventLines(disk) \cup GapLines(disk)
  IN  /\ disk.meta # None
      /\ Hashable(disk.rows, full_stream)
      /\ disk.meta.hash = SessionContentHash(disk.rows, full_stream)

(* Reopening a crashed session; the code refuses one that is sealed or out of order. *)
StrictlyIncreasing(rows) ==
  \A i \in 1 .. Len(rows) - 1 : rows[i].sequence_no < rows[i + 1].sequence_no
CanResume(disk) == disk.meta = None /\ StrictlyIncreasing(disk.rows)
\* Rows of distinct numbers in the order of their numbers.
Before(row, rows) == { r \in rows : r.sequence_no < row.sequence_no }
SortedBySeq(rows) ==
  [i \in 1 .. Cardinality(rows) |-> CHOOSE row \in rows : Cardinality(Before(row, rows)) = i - 1]
ResumeRecorder(disk) ==
  LET clean == [disk EXCEPT !.torn = FALSE]
  IN  [disk |-> clean,
       rec |-> [seq |-> MaxSequenceNo(clean),
                events |-> SortedBySeq(EventRows(clean) \cup GapRows(clean))]]

----
(* alignment.py: which fair value a decision may see. *)
Pair(a, b) == <<a, b>>
PairLess(p, q) == p[1] < q[1] \/ (p[1] = q[1] /\ p[2] < q[2])
Newest(points) ==
  IF points = {} THEN None
  ELSE CHOOSE p \in points : \A q \in points \ {p} :
         PairLess(Pair(q.source_ts, q.sequence_no), Pair(p.source_ts, p.sequence_no))

EligibleFv(points, decision_recv_ts) ==
  Newest({ p \in points : p.recv_ts <= decision_recv_ts })
EligibleFvPair(points, mint_recv_ts, mint_sequence_no) ==
  Newest({ p \in points : PairLess(Pair(p.recv_ts, p.sequence_no),
                                   Pair(mint_recv_ts, mint_sequence_no)) })

AppendOrderHolds(points) ==
  \A p, q \in points : p.sequence_no < q.sequence_no => p.recv_ts <= q.recv_ts

(* A history kept sorted by source time, one point a time: the last one wins. *)
InsortFv(history, point) ==
  LET before == SelectSeq(history, LAMBDA p : p.source_ts < point.source_ts)
      after == SelectSeq(history, LAMBDA p : p.source_ts > point.source_ts)
  IN  before \o <<point>> \o after

(* Aligning recorded decisions by receive time. *)
ReplayAlign(decisions, points) ==
  [id \in DOMAIN decisions |-> EligibleFv(points, decisions[id])]

(* Consecutive changes of one market, none across a recorder gap. *)
CrossesGap(prev_ts, curr_ts, gaps) ==
  LET lo == IF prev_ts <= curr_ts THEN prev_ts ELSE curr_ts
      hi == IF prev_ts <= curr_ts THEN curr_ts ELSE prev_ts
  IN  \E i \in DOMAIN gaps : ~(gaps[i].recv_ts < lo \/ gaps[i].from_ts > hi)
IterChangeSeries(events, gaps, key) ==
  LET group == SelectSeq(events, LAMBDA e : "key" \in DOMAIN e /\ e.key = key)
      ordered == SortSeq(group, LAMBDA a, b : PairLess(Pair(a.recv_ts, a.sequence_no),
                                                        Pair(b.recv_ts, b.sequence_no)))
  IN  { <<ordered[i], ordered[i + 1]>> : i \in
          { j \in 1 .. Len(ordered) - 1 : ~CrossesGap(ordered[j].recv_ts, ordered[j + 1].recv_ts, gaps) } }
====
