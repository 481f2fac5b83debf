---------------------------- MODULE StoreBackends ----------------------------
(***************************************************************************)
(* The two implementations of the Store protocol (veridex/store.py) side   *)
(* by side: the tables of InMemoryStore and the rows of PostgresStore.  An *)
(* operation takes a table and returns the table it leaves and its answer, *)
(* an exception being an answer.  In Postgres each is one transaction.     *)
(***************************************************************************)
EXTENDS Integers, Sequences, FiniteSets, TLC

\* SQL NULL and Python's None; an absent limit.
Null == "null"
NoLimit == -1

Answer(rows, out) == [rows |-> rows, out |-> out]

Put(t, k, row) == (k :> row) @@ t

InSeqOrder(rows) == SortSeq(rows, LAMBDA a, b : a.seq < b.seq)

------------------------------------------------------------------------------
(* Competitions.  Postgres keeps owner and replay binding inside config_json. *)

_serialize_competition_config(config, owner_id, binding) ==
  [config |-> config, owner_id |-> owner_id, replay_binding |-> binding]

_build_competition(row) ==
  [config |-> row.config_json.config, owner_id |-> row.config_json.owner_id,
   replay_binding |-> row.config_json.replay_binding, status |-> row.status, run_id |-> row.run_id,
   entries |-> row.entries_json]

CompetitionRow(c) ==
  [config_json |-> _serialize_competition_config(c.config, c.owner_id, c.replay_binding),
   status |-> c.status, run_id |-> c.run_id, entries_json |-> c.entries]

MemCreate(t, id, c) ==
  IF id \in DOMAIN t THEN Answer(t, "ValueError") ELSE Answer(Put(t, id, c), Null)

PgCreate(t, id, c) ==
  IF id \in DOMAIN t THEN Answer(t, "ValueError") ELSE Answer(Put(t, id, CompetitionRow(c)), Null)

MemGetCompetition(t, id) == Answer(t, IF id \in DOMAIN t THEN t[id] ELSE "KeyError")

PgGetCompetition(t, id) == Answer(t, IF id \in DOMAIN t THEN _build_competition(t[id]) ELSE "KeyError")

\* add_agent_entry_guarded: admitted while the status is mutable, once, up to roster_size.
MemAddEntry(t, id, agent, mutable) ==
  IF id \notin DOMAIN t THEN Answer(t, "KeyError")
  ELSE IF \/ t[id].status \notin mutable
          \/ agent \in {t[id].entries[i] : i \in DOMAIN t[id].entries}
          \/ Len(t[id].entries) >= t[id].config.roster_size
       THEN Answer(t, "RosterAdmissionError")
       ELSE Answer([t EXCEPT ![id].entries = Append(@, agent)], Null)

PgAddEntry(t, id, agent, mutable) ==
  IF id \notin DOMAIN t THEN Answer(t, "KeyError")
  ELSE LET entries == t[id].entries_json
       IN  IF \/ t[id].status \notin mutable
              \/ \E i \in DOMAIN entries : entries[i] = agent
              \/ Len(entries) >= t[id].config_json.config.roster_size
           THEN Answer(t, "RosterAdmissionError")
           ELSE Answer([t EXCEPT ![id].entries_json = Append(entries, agent)], Null)

MemSetStatus(t, id, status) ==
  IF id \in DOMAIN t THEN Answer([t EXCEPT ![id].status = status], Null) ELSE Answer(t, "KeyError")

MemClaim(t, id, expected, new, run) ==
  IF id \notin DOMAIN t THEN Answer(t, "KeyError")
  ELSE IF t[id].status # expected THEN Answer(t, "CompetitionStatusClaimError")
  ELSE Answer([t EXCEPT ![id].status = new, ![id].run_id = run], Null)

MemRelease(t, id, expected, new) ==
  IF id \notin DOMAIN t THEN Answer(t, "KeyError")
  ELSE IF t[id].status # expected THEN Answer(t, "CompetitionStatusClaimError")
  ELSE Answer([t EXCEPT ![id].status = new, ![id].run_id = Null], Null)

MemSetRun(t, id, run) ==
  IF id \in DOMAIN t THEN Answer([t EXCEPT ![id].run_id = run], Null) ELSE Answer(t, "KeyError")

\* The rows Postgres updates: none is a KeyError.
PgUpdate(t, id, row) == IF id \in DOMAIN t THEN Answer([t EXCEPT ![id] = row], Null) ELSE Answer(t, "KeyError")

\* claim and release: a locked read and an update that repeats the condition.
PgClaim(t, id, expected, new, run) ==
  IF id \in DOMAIN t /\ t[id].status # expected THEN Answer(t, "CompetitionStatusClaimError")
  ELSE IF id \notin DOMAIN t THEN Answer(t, "KeyError")
  ELSE PgUpdate(t, id, [t[id] EXCEPT !.status = new, !.run_id = run])

MemSetConfig(t, id, config) ==
  IF id \in DOMAIN t THEN Answer([t EXCEPT ![id].config = config], Null) ELSE Answer(t, "KeyError")

\* The riders are read from the old blob and written back with the new configuration.
PgSetConfig(t, id, config) ==
  IF id \notin DOMAIN t THEN Answer(t, "KeyError")
  ELSE LET old == t[id].config_json
       IN  PgUpdate(t, id, [t[id] EXCEPT !.config_json =
             _serialize_competition_config(config, old.owner_id, old.replay_binding)])

MemBind(t, id, binding) ==
  IF id \notin DOMAIN t THEN Answer(t, "KeyError")
  ELSE Answer([t EXCEPT ![id].replay_binding = IF @ = Null THEN binding ELSE @], Null)

PgBind(t, id, binding) ==
  IF id \notin DOMAIN t THEN Answer(t, "KeyError")
  ELSE IF t[id].config_json.replay_binding # Null THEN Answer(t, Null)
  ELSE PgUpdate(t, id, [t[id] EXCEPT !.config_json =
         _serialize_competition_config(@.config, @.owner_id, binding)])

MemListCompetitions(t, status) == {t[id] : id \in {i \in DOMAIN t : status \in {Null, t[i].status}}}

PgListCompetitions(t, status) ==
  {_build_competition(t[id]) : id \in {i \in DOMAIN t : status \in {Null, t[i].status}}}

------------------------------------------------------------------------------
(* Competition events and execution records: Postgres holds them to a known *)
(* competition, the in-memory store does not.                               *)

MemListEvents(rows, since) == InSeqOrder(SelectSeq(rows, LAMBDA e : e.seq > since))

PgAppendEvents(rows, batch, known) ==
  IF ~known THEN Answer(rows, "ForeignKeyViolation")
  ELSE IF \E i \in DOMAIN batch : \/ \E j \in DOMAIN rows : rows[j].seq = batch[i].seq
                                  \/ \E j \in DOMAIN batch : j # i /\ batch[j].seq = batch[i].seq
       THEN Answer(rows, "ValueError")
       ELSE Answer(rows \o batch, Null)

\* The batch is walked with the seqs seen so far before any of it is kept.
MemAppendEvents(rows, batch) ==
  LET existing == {rows[j].seq : j \in DOMAIN rows}
      seen(i)  == {batch[j].seq : j \in 1..(i - 1)}
  IN  IF \E i \in DOMAIN batch : batch[i].seq \in existing \cup seen(i)
      THEN Answer(rows, "ValueError")
      ELSE Answer(rows \o batch, Null)

MemPutExecution(t, id, record) == Answer(Put(t, id, record), Null)
MemGetExecution(t, id) == Answer(t, IF id \in DOMAIN t THEN t[id] ELSE "KeyError")
MemListExecutions(t, competition) == {id \in DOMAIN t : t[id].competition_id = competition}
PgListExecutions(t, competition) == {t[id].execution_id : id \in {i \in DOMAIN t : t[i].competition_id = competition}}

------------------------------------------------------------------------------
(* Runs.  Postgres splits a run over three tables and refuses a second one  *)
(* with the same id; the in-memory store replaces it.                       *)

MemPersistRun(t, id, run) == Answer(Put(t, id, run), Null)
MemLoadRun(t, id) == Answer(t, IF id \in DOMAIN t THEN t[id] ELSE "KeyError")

PgPersistRun(t, id, run) ==
  IF id \in DOMAIN t \/ \E i, j \in DOMAIN run.run_events :
                             i # j /\ run.run_events[i].seq = run.run_events[j].seq
  THEN Answer(t, "UniqueViolation")
  ELSE Answer(Put(t, id, [runs       |-> run.evidence_hash,
                          run_events |-> {run.run_events[i] : i \in DOMAIN run.run_events},
                          score_rows |-> {<<i, run.score_rows[i]>> : i \in DOMAIN run.score_rows}]), Null)

\* The rows of a set as the sequence an ORDER BY makes of them.
OrderBy(rows, key(_)) ==
  [i \in 1..Cardinality(rows) |->
     CHOOSE r \in rows : Cardinality({q \in rows : key(q) < key(r)}) = i - 1]

PgLoadRun(t, id) ==
  Answer(t, IF id \notin DOMAIN t THEN "KeyError"
            ELSE [evidence_hash |-> t[id].runs,
                  run_events |-> OrderBy(t[id].run_events, LAMBDA e : e.seq),
                  score_rows |-> LET s == OrderBy(t[id].score_rows, LAMBDA r : r[1])
                                 IN  [i \in DOMAIN s |-> s[i][2]]])

------------------------------------------------------------------------------
(* Ledgers: an append numbers the row, a list filters by session in order.  *)

MemAppendFill(rows, fill) == Answer(Append(rows, [fill EXCEPT !.seq = Len(rows) + 1]), Len(rows) + 1)
MemListFills(rows, session) == InSeqOrder(SelectSeq(rows, LAMBDA r : r.session_id = session))
MemAppendPresubmit(rows, row) == Answer(Append(rows, [row EXCEPT !.seq = Len(rows) + 1]), Len(rows) + 1)
MemListPresubmit(rows, session) == InSeqOrder(SelectSeq(rows, LAMBDA r : r.session_id = session))

\* BIGSERIAL: the number comes from a sequence that no rollback gives back.
PgAppendFill(rows, serial, fill) == Answer(rows \cup {[fill EXCEPT !.seq = serial]}, serial)
PgListFills(rows, session) == OrderBy({r \in rows : r.session_id = session}, LAMBDA r : r.seq)
PgAppendPresubmit(rows, serial, row) == Answer(rows \cup {[row EXCEPT !.seq = serial]}, serial)
PgListPresubmit(rows, session) == OrderBy({r \in rows : r.session_id = session}, LAMBDA r : r.seq)

\* Runtime events are kept once per uuid.  A row that Postgres refuses still used up an id.
MemAppendRuntime(rows, uuid) ==
  IF \E i \in DOMAIN rows : rows[i].uuid = uuid THEN Answer(rows, 0)
  ELSE Answer(Append(rows, [seq |-> Len(rows) + 1, uuid |-> uuid]), 1)

PgAppendRuntime(rows, serial, uuid) ==
  IF \E r \in rows : r.uuid = uuid THEN Answer(rows, 0)
  ELSE Answer(rows \cup {[seq |-> serial, uuid |-> uuid]}, 1)

MemListRuntime(rows, since, limit) ==
  LET s == InSeqOrder(SelectSeq(rows, LAMBDA r : r.seq > since))
  IN  IF limit = NoLimit \/ limit >= Len(s) THEN s ELSE SubSeq(s, 1, limit)

PgListRuntime(rows, since, limit) ==
  LET s == OrderBy({r \in rows : r.seq > since}, LAMBDA r : r.seq)
  IN  IF limit = NoLimit \/ limit >= Len(s) THEN s ELSE SubSeq(s, 1, limit)

------------------------------------------------------------------------------
(* Instances, public agents and their link. *)

MemPutInstance(t, id, instance) == Answer(Put(t, id, instance), Null)

\* update_agent_instance_status keeps the last failure reason unless it is given a new one.
MemUpdateInstance(t, id, status, reason) ==
  IF id \notin DOMAIN t THEN Answer(t, "KeyError")
  ELSE Answer([t EXCEPT ![id].status = status, ![id].reason = IF reason = Null THEN @ ELSE reason], Null)

PgUpdateInstance(t, id, status, reason) ==
  IF id \notin DOMAIN t THEN Answer(t, "KeyError")
  ELSE PgUpdate(t, id, [t[id] EXCEPT !.status = status,
                                     !.reason = IF reason # Null THEN reason ELSE @])

MemPutAgent(t, id, agent) == Answer(Put(t, id, agent), Null)
MemGetAgent(t, id) == Answer(t, IF id \in DOMAIN t THEN t[id] ELSE Null)

MemSetVisibility(t, id, visibility) ==
  IF id \notin DOMAIN t THEN Answer(t, "KeyError")
  ELSE Answer([t EXCEPT ![id].visibility = visibility, ![id].version = @ + 1], Null)

PgSetVisibility(t, id, visibility) ==
  LET hit == {i \in DOMAIN t : i = id}
  IN  Answer([i \in DOMAIN t |-> IF i \in hit THEN [t[i] EXCEPT !.visibility = visibility, !.version = @ + 1]
                                 ELSE t[i]],
             IF hit = {} THEN "KeyError" ELSE Null)

MemSetDisplayName(t, id, name) ==
  IF id \notin DOMAIN t THEN Answer(t, "KeyError")
  ELSE Answer([t EXCEPT ![id].display_name = name, ![id].version = @ + 1], Null)

PgSetDisplayName(t, id, name) ==
  LET hit == {i \in DOMAIN t : i = id}
  IN  Answer([i \in DOMAIN t |-> IF i \in hit THEN [t[i] EXCEPT !.display_name = name, !.version = @ + 1]
                                 ELSE t[i]],
             IF hit = {} THEN "KeyError" ELSE Null)

\* In memory the link is a table of its own and both ends are looked up; in Postgres it is a
\* column of the instance with a foreign key on the agent, checked only when a row matches.
MemLink(links, instances, agents, id, agent) ==
  IF id \notin instances \/ agent \notin agents THEN Answer(links, "KeyError")
  ELSE Answer(Put(links, id, agent), Null)

PgLink(column, agents, id, agent) ==
  LET hit == {i \in DOMAIN column : i = id}
  IN  IF hit # {} /\ agent \notin agents THEN Answer(column, "KeyError")
      ELSE Answer([i \in DOMAIN column |-> IF i \in hit THEN agent ELSE column[i]],
                  IF hit = {} THEN "KeyError" ELSE Null)

MemLinked(links, id) == IF id \in DOMAIN links THEN links[id] ELSE Null
PgLinked(column, id) == IF id \in DOMAIN column THEN column[id] ELSE Null

\* Projected rows: an upsert per (run, public agent), in the order of the batch.
PutAll(t, batch) == [k \in DOMAIN t \cup {batch[i].key : i \in DOMAIN batch} |->
  LET hits == {i \in DOMAIN batch : batch[i].key = k}
  IN  IF hits = {} THEN t[k] ELSE batch[CHOOSE i \in hits : \A j \in hits : j <= i]]

MemPersistSeed(t, revision, state) == Answer(Put(t, revision, state), Null)
MemGetSeed(t, revision) == IF revision \in DOMAIN t THEN t[revision] ELSE Null

\* backfill_public_agents on one instance: a PRIVATE agent under the minted id, then the link.
Backfill(agents, links, instance, pid, agent) ==
  IF MemLinked(links, instance) # Null THEN [agents |-> agents, links |-> links, minted |-> 0]
  ELSE [agents |-> MemPutAgent(agents, pid, agent).rows,
        links  |-> Put(links, instance, pid), minted |-> 1]
==============================================================================
