---- MODULE ReplayPacks ----
(* Captured sessions, the packs made of them and the catalog that replays them:                *)
(* ingest/recorder.py, capture_chain.py, replay_pack.py, replay_catalog.py and odds_proof.py.  *)
(* A pack is a manifest and the contents of its files; a content hash is the value it hashes.  *)
(* A directory is <<root, name>> with the root it really resolves to.                          *)
EXTENDS Absent, Integers, Sequences, FiniteSets, SequencesExt

------------------------------------------------------------------------------
(* recorder.py: a line is an odds record with the time it was received, a gap, or Torn *)

Torn == [kind |-> "torn"]

\* A file that ends in the middle of a line gets the next line glued to it.
AppendLines(lines, new) ==
  IF lines # <<>> /\ new # <<>> /\ Last(lines) = Torn THEN lines \o Tail(new) ELSE lines \o new

\* Only the last line may be torn; None when another one is.
read_session(session) ==
  LET lines == session.lines
  IN  IF \E i \in DOMAIN lines : lines[i] = Torn /\ i < Len(lines) THEN None
      ELSE [meta |-> session.meta, records |-> SelectSeq(lines, LAMBDA l : l.kind = "record"),
            gaps |-> SelectSeq(lines, LAMBDA l : l.kind = "gap")]

finalize_meta(meta, ended_ts, record_counts) ==
  [meta EXCEPT !.ended_ts = ended_ts, !.fixture_ids = DOMAIN record_counts, !.record_counts = record_counts]

------------------------------------------------------------------------------
(* capture_chain.py: who may say that a pack is genuine *)

Authority(provenance, test_capture, synthetic, rung, method) ==
  [provenance |-> provenance, test_capture |-> test_capture, synthetic |-> synthetic, evidence_rung |-> rung,
   capture_method |-> method]

GenuineRungs == {"recorded-live-quote", "backfilled-price-history"}
GenuineMethods == {"live-sse-stream", "odds-updates-backfill"}

_claims_genuine(a) ==
  a.provenance = "genuine-txline" \/ a.evidence_rung \in GenuineRungs \/ a.capture_method \in GenuineMethods

\* What the constructor accepts: one genuine marker already needs the seal of a closed producer.
PackAuthority(a, sealed) == IF _claims_genuine(a) /\ ~sealed THEN None ELSE [fields |-> a, sealed |-> sealed]

_genuine_live_sse_authority ==
  PackAuthority(Authority("genuine-txline", FALSE, FALSE, "recorded-live-quote", "live-sse-stream"), TRUE)
_genuine_backfill_authority ==
  PackAuthority(Authority("genuine-txline", FALSE, FALSE, "backfilled-price-history", "odds-updates-backfill"), TRUE)
synthetic_authority ==
  PackAuthority(Authority("synthetic-illustrative", FALSE, TRUE, "synthetic", "synthetic-tape"), FALSE)
test_fake_authority == PackAuthority(Authority("test-fake-recording", TRUE, FALSE, None, "recording-fake"), FALSE)

_assert_authority_mintable(authority) == _claims_genuine(authority.fields) => authority.sealed
_authority_for_source(source) == IF source = "live" THEN _genuine_live_sse_authority ELSE test_fake_authority

------------------------------------------------------------------------------
(* replay_pack.py *)

_manifest_filenames(fixtures) ==
  UNION { {fixtures[i].records} \cup (IF fixtures[i].odds_updates = None THEN {} ELSE {fixtures[i].odds_updates})
          : i \in DOMAIN fixtures }

\* Names and bytes of the listed files, and in version 2 the authority; not which fixture a file
\* is listed for.
_content_hash_from_file_bytes(files, fixtures, version, authority) ==
  [files |-> [n \in _manifest_filenames(fixtures) |-> files[n]],
   authority |-> IF version >= 2 THEN <<authority>> ELSE <<>>]

RecordsOf(records, fixture) == SelectSeq(records, LAMBDA r : r.fixture = fixture)

\* updates: the closing updates fetched for a fixture, or None.  None when a line has no fixture.
pack_from_session(session, authority, updates) ==
  LET read == read_session(session)
      raws == [i \in DOMAIN read.records |-> read.records[i].record]
      ids == SetToSortSeq({ raws[i].fixture : i \in DOMAIN raws }, <)
      fixtures == [i \in DOMAIN ids |->
                     [fixture_id |-> ids[i], records |-> <<"odds", ids[i]>>,
                      odds_updates |-> IF updates[ids[i]] = None THEN None ELSE <<"updates", ids[i]>>]]
      files == [n \in _manifest_filenames(fixtures) |->
                  IF n[1] = "odds" THEN RecordsOf(raws, n[2]) ELSE updates[n[2]]]
      version == IF authority = None THEN 1 ELSE 2
      fields == IF authority = None THEN None ELSE authority.fields
  IN  IF read = None THEN None
      ELSE IF \E i \in DOMAIN raws : raws[i].fixture = None THEN None
      ELSE IF authority # None /\ ~_assert_authority_mintable(authority) THEN None
      ELSE [manifest |-> [pack_version |-> version, capture |-> fields, gaps |-> read.gaps, fixtures |-> fixtures,
                          content_hash |-> _content_hash_from_file_bytes(files, fixtures, version, fields)],
            files |-> files]

verify_content_hash(pack) ==
  LET man == pack.manifest
  IN  IF pack = None THEN FALSE
      ELSE IF ~(_manifest_filenames(man.fixtures) \subseteq DOMAIN pack.files) THEN FALSE
      ELSE _content_hash_from_file_bytes(pack.files, man.fixtures, man.pack_version, man.capture) = man.content_hash

read_pack_provenance(pack) ==
  IF pack.manifest.capture = None THEN "unknown-provenance" ELSE pack.manifest.capture.provenance

is_genuine_pack(pack) ==
  LET capture == pack.manifest.capture
  IN  IF pack.manifest.pack_version < 2 \/ ~verify_content_hash(pack) \/ capture = None THEN FALSE
      ELSE /\ capture.provenance = "genuine-txline" /\ ~capture.test_capture /\ ~capture.synthetic
           /\ capture.evidence_rung \in GenuineRungs /\ capture.capture_method \in GenuineMethods

\* One snapshot for each record, numbered within its fixture.
marketstates_from_record_stream(records) ==
  [i \in DOMAIN records |->
     [fixture_id |-> records[i].fixture, record |-> records[i],
      tick_seq |-> Cardinality({ j \in 1 .. i - 1 : records[j].fixture = records[i].fixture })]]

EntryOf(fixtures, fixture) ==
  LET mine == SelectSeq(fixtures, LAMBDA f : f.fixture_id = fixture) IN IF mine = <<>> THEN None ELSE mine[1]

\* The snapshots, or the reason of the refusal.
Raised(reason) == [raised |-> reason]
load_pack_marketstates(pack, fixture) ==
  LET entry == EntryOf(pack.manifest.fixtures, fixture)
  IN  IF ~verify_content_hash(pack) THEN Raised("tampered")
      ELSE IF entry = None THEN Raised("fixture_gone")
      ELSE [states |-> marketstates_from_record_stream(pack.files[entry.records])]

\* The bytes that are hashed are the bytes that are replayed: each file is read once.
load_pack_fixture_states_bound(pack, fixture, expected) ==
  LET man == pack.manifest
      entry == EntryOf(man.fixtures, fixture)
      legs == _manifest_filenames(<<entry>>)
      states == marketstates_from_record_stream(pack.files[entry.records])
  IN  IF pack = None THEN Raised("content_hash_drift")
      ELSE IF ~(_manifest_filenames(man.fixtures) \subseteq DOMAIN pack.files) THEN Raised("content_hash_drift")
      ELSE IF _content_hash_from_file_bytes(pack.files, man.fixtures, man.pack_version, man.capture) # expected
           THEN Raised("content_hash_drift")
      ELSE IF entry = None THEN Raised("fixture_gone")
      ELSE IF \E n \in legs : \E r \in Range(pack.files[n]) : r.fixture # fixture THEN Raised("fixture_mapping_mismatch")
      ELSE IF states = <<>> THEN Raised("empty_fixture")
      ELSE [states |-> states]

------------------------------------------------------------------------------
(* capture_chain.py: one capture.  A frame is [kind, record, ts]; stop_at is the frame after   *)
(* which a deadline or a stop request is seen, the only time either is looked at.              *)

CaptureCut(frames, records_target, stop_at) ==
  LET Odds(n) == Len(SelectSeq(SubSeq(frames, 1, n), LAMBDA f : f.kind = "record"))
      cuts == { n \in DOMAIN frames : Odds(n) >= records_target \/ n >= stop_at }
  IN  IF cuts = {} THEN Len(frames) ELSE CHOOSE n \in cuts : \A k \in cuts : n <= k

run_capture_chain(source, session, frames, records_target, stop_at, updates) ==
  LET seen == SubSeq(frames, 1, CaptureCut(frames, records_target, stop_at))
      odds == SelectSeq(seen, LAMBDA f : f.kind = "record")
      heartbeats == SelectSeq(seen, LAMBDA f : f.kind = "heartbeat")
      timed == SelectSeq(seen, LAMBDA f : f.kind \in {"record", "heartbeat"})
      counted == { odds[i].record.fixture : i \in DOMAIN odds } \ {None}
      lines == [i \in DOMAIN odds |-> [kind |-> "record", record |-> odds[i].record, received_ts |-> odds[i].ts]]
      ended == [meta |-> finalize_meta(session.meta,
                                       IF timed = <<>> THEN session.meta.started_ts ELSE Last(timed).ts,
                                       [f \in counted |-> Len(SelectSeq(odds, LAMBDA o : o.record.fixture = f))]),
                lines |-> AppendLines(session.lines, lines)]
      authority == _authority_for_source(source)
  IN  [session |-> ended, odds_records |-> Len(odds), provenance |-> authority.fields.provenance,
       feed_state |-> IF odds # <<>> THEN "live" ELSE IF heartbeats # <<>> THEN "heartbeat_only" ELSE "connecting",
       pack |-> IF odds = <<>> THEN None ELSE pack_from_session(ended, authority, updates)]

------------------------------------------------------------------------------
(* replay_catalog.py.  A world is the disk, a function of directories, with the catalog. *)

\* None for a pack that does not verify, lists nothing or cannot be read.
_build_verified_entry(world, dir) ==
  LET pack == world.disk[dir]
      genuine == is_genuine_pack(pack)
      declared == read_pack_provenance(pack)
  IN  IF pack = None THEN None
      ELSE IF ~verify_content_hash(pack) \/ pack.manifest.fixtures = <<>> THEN None
      ELSE [pack_id |-> dir[Len(dir)], content_hash |-> pack.manifest.content_hash, is_genuine |-> genuine,
            provenance |-> IF ~genuine /\ declared = "genuine-txline" THEN "unknown-provenance" ELSE declared,
            fixtures |-> { f.fixture_id : f \in Range(pack.manifest.fixtures) }, pack_dir |-> dir]

\* The bytes registered are a copy no producer writes to, in a directory of their own.
_take_ownership(world, dir, copied) ==
  LET owned == <<"owned", world.versions, dir[Len(dir)]>>
  IN  <<[world EXCEPT !.versions = @ + 1, !.disk = (owned :> copied) @@ @], owned>>

Refused(world, reason) == [world |-> world, raised |-> reason]

\* copied: what the copy of the directory found, which a producer may be writing meanwhile.
register_pack(world, dir, copied) ==
  LET taken == _take_ownership(world, dir, copied)
      entry == _build_verified_entry(taken[1], taken[2])
  IN  IF dir[1] = "curated" THEN Refused(world, "admission")
      ELSE IF ~world.capture_root \/ dir[1] # "capture" THEN Refused(world, "admission")
      ELSE IF entry = None THEN Refused(world, "verification")
      ELSE IF entry.pack_id \in DOMAIN world.entries
           THEN IF world.entries[entry.pack_id].pack_dir[1] = "curated" THEN Refused(world, "admission")
                ELSE [world |-> [taken[1] EXCEPT !.entries = (entry.pack_id :> entry) @@ @], raised |-> None]
      ELSE [world |-> [taken[1] EXCEPT !.entries = (entry.pack_id :> entry) @@ @], raised |-> None]

_fold_capture_root_at_startup(world, dirs) ==
  FoldLeft(LAMBDA w, dir :
             IF dir[Len(dir)] \in DOMAIN w.entries \/ dir[1] # "capture" THEN w
             ELSE LET taken == _take_ownership(w, dir, w.disk[dir])
                      entry == _build_verified_entry(taken[1], taken[2])
                  IN  IF entry = None THEN w
                      ELSE [taken[1] EXCEPT !.entries = (entry.pack_id :> entry) @@ @],
           world, dirs)

\* Curated packs are served from where they are; captured ones from copies made at start.
build_catalog(disk, curated, captured, capture_root) ==
  LET base == [disk |-> disk, entries |-> << >>, versions |-> 0, capture_root |-> capture_root]
      seeded == FoldLeft(LAMBDA w, dir :
                           LET entry == _build_verified_entry(w, dir)
                           IN  IF entry = None THEN w ELSE [w EXCEPT !.entries = (entry.pack_id :> entry) @@ @],
                         base, curated)
  IN  IF capture_root THEN _fold_capture_root_at_startup(seeded, captured) ELSE seeded

resolve_replay_source(world, pack_id, fixture) ==
  LET known == world.entries
      chosen == IF pack_id # None THEN pack_id ELSE CHOOSE p \in DOMAIN known : TRUE
      entry == known[chosen]
      lowest == CHOOSE f \in entry.fixtures : \A g \in entry.fixtures : f <= g
  IN  IF pack_id # None /\ pack_id \notin DOMAIN known THEN Raised("unknown_pack")
      ELSE IF pack_id = None /\ DOMAIN known = {} THEN Raised("empty_catalog")
      ELSE IF pack_id = None /\ Cardinality(DOMAIN known) > 1 THEN Raised("pack_id_required")
      ELSE IF fixture # None /\ fixture \notin entry.fixtures THEN Raised("unknown_fixture")
      ELSE [pack_id |-> chosen, fixture_id |-> IF fixture = None THEN lowest ELSE fixture,
            content_hash |-> entry.content_hash, provenance |-> entry.provenance, is_genuine |-> entry.is_genuine]

load_resolved_marketstates(world, resolved) ==
  LET entry == world.entries[resolved.pack_id]
  IN  IF resolved.pack_id \notin DOMAIN world.entries THEN Raised("pack_gone")
      ELSE IF entry.content_hash # resolved.content_hash THEN Raised("content_hash_drift")
      ELSE IF resolved.fixture_id \notin entry.fixtures THEN Raised("fixture_gone")
      ELSE load_pack_fixture_states_bound(world.disk[entry.pack_dir], resolved.fixture_id, resolved.content_hash)

------------------------------------------------------------------------------
(* odds_proof.py: a response of the proof service, None when it has none *)

classify_proof(resp) ==
  IF resp = None THEN "absent"
  ELSE IF resp.error THEN "error"
  ELSE IF resp.not_found \/ resp.main = <<>> THEN "absent"
  ELSE IF resp.sub = <<>> THEN "boundary" ELSE "proven"

summarize_odds_proofs(responses) ==
  LET Count(status) == Len(SelectSeq(responses, LAMBDA r : classify_proof(r) = status))
  IN  [n_total |-> Len(responses), n_proven |-> Count("proven"), n_boundary |-> Count("boundary"),
       n_absent |-> Count("absent"), n_error |-> Count("error")]
====
