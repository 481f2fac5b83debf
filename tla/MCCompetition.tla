---------------------------- MODULE MCCompetition ----------------------------
(* Instances of Competition: two agents that may bet, one tick. *)
EXTENDS Competition, StoreBackends

CONSTANTS det, llm, s1, s2, a1, p1, p2

MCBet ==
  [a \in Agents |->
    [recomputed_edge_bps |-> 200, kelly_fraction |-> IF a = det THEN 8 ELSE 20,
     reference_price |-> 200, entry_prob_bps |-> 5000, venue |-> "v", market_key |-> "m"]]

BaseEnvelope ==
  [max_stake |-> 10, max_orders_per_run |-> 3, min_edge_bps |-> 100, max_slippage_bps |-> 300,
   max_price |-> 300, max_quote_age_s |-> 5, human_approval_threshold |-> 20,
   max_stake_live_guarded |-> 0, circuit_breaker_threshold |-> 0, max_session_loss |-> 0,
   max_daily_loss |-> 0, max_orders_per_session |-> 5, max_orders_per_day |-> 5, cooldown_s |-> 0,
   venue_allowlist |-> {"v"}, market_allowlist |-> {"m"}, kill_switch |-> FALSE]

\* A paper run, a dry run with a stake for a human, a live request that degrades, and an armed
\* live run with a breaker.
Paper    == [mode |-> "paper", armed |-> FALSE, env |-> BaseEnvelope]
DryRun   == [mode |-> "dry_run", armed |-> FALSE,
             env |-> [BaseEnvelope EXCEPT !.human_approval_threshold = 10]]
Degraded == [mode |-> "live_guarded", armed |-> FALSE,
             env |-> [BaseEnvelope EXCEPT !.max_orders_per_run = 1]]
Live     == [mode |-> "live_guarded", armed |-> TRUE,
             env |-> [BaseEnvelope EXCEPT !.circuit_breaker_threshold = 1]]

\* Two starts and an arena race over a roster that may still grow; a spectator watches a run;
\* two approvals race each other and the lane; an armed run meets every answer of the venue.
MCScenarios ==
  {[requests |-> {s1, s2, a1},     config |-> Paper,    roster |-> {det}],
   [requests |-> {s1, Spectator},  config |-> Degraded, roster |-> {det}],
   [requests |-> {s1, Spectator, p1}, config |-> DryRun, roster |-> {llm}],
   [requests |-> {s1, p1, p2},     config |-> DryRun,   roster |-> Agents],
   [requests |-> {s1, p1},         config |-> Live,     roster |-> Agents]}

MCQuotes == {[price |-> 205, size |-> 500, age |-> 0], [price |-> 205, size |-> 5, age |-> 0]}

\* Contexts for both gates, at and around every limit of the envelope.
GateContexts ==
  [recomputed_edge_bps: {99, 100}, executable_edge_bps: {100}, stake: {10, 11}, venue: {"v", "w"},
   market_key: {"m", "n"}, orders_this_run: {2, 3}, orders_this_session: {0}, orders_this_day: {0},
   seconds_since_last_order: {NeverOrdered, 0, 4}, agent_eligible: BOOLEAN, breaker: {ClosedBreaker},
   live_guarded: {FALSE}, realized_loss_session: {0}, realized_loss_day: {0}, price: {300, 301},
   slippage_bps: {300, 301}, quote_age_s: {5, 6}, quoted_size: {11}]

\* Splitting the one-phase gate around the quote lost no rule and added none to these contexts.
ASSUME SplitGateAgrees ==
  \A ctx \in GateContexts, cooldown \in {0, 4, 5} :
    LET env == [BaseEnvelope EXCEPT !.cooldown_s = cooldown]
    IN  EvaluateReasons(ctx, env) = PreQuoteReasons(ctx, env) \cup PostQuoteReasons(ctx, env)

----
(* The two stores compared on every small table: the same call leaves the same contents and
   gives the same answer. *)

Tables(keys, rows) == UNION {[ks -> rows] : ks \in SUBSET keys}

Statuses == {"draft", "running"}

Competitions ==
  [config: {[roster_size |-> 1], [roster_size |-> 2]}, owner_id: {"o"}, replay_binding: {Null, "b"},
   status: Statuses, run_id: {Null, "r"}, entries: {<<>>, <<"det">>}]

CompetitionTables == Tables({"c"}, Competitions)

PgRows(t) == [id \in DOMAIN t |-> CompetitionRow(t[id])]

\* A Postgres answer read back as the in-memory one.
SameCompetitions(mem, pg) ==
  mem.rows = [id \in DOMAIN pg.rows |-> _build_competition(pg.rows[id])] /\ mem.out = pg.out

\* Create, roster, status, claim, release, configuration and binding agree.
ASSUME CompetitionsAgree ==
  \A t \in CompetitionTables, id \in {"c", "d"}, st \in Statuses :
    LET p == PgRows(t) IN
    /\ \A c \in Competitions : SameCompetitions(MemCreate(t, id, c), PgCreate(p, id, c))
    /\ SameCompetitions(MemGetCompetition(t, id), PgGetCompetition(p, id))
    /\ \A a \in {"det", "llm"} :
         SameCompetitions(MemAddEntry(t, id, a, {"draft"}), PgAddEntry(p, id, a, {"draft"}))
    /\ \A new \in Statuses :
         /\ SameCompetitions(MemClaim(t, id, st, new, "r"), PgClaim(p, id, st, new, "r"))
         /\ SameCompetitions(MemRelease(t, id, st, new), PgClaim(p, id, st, new, Null))
    /\ id \in DOMAIN t =>
         /\ SameCompetitions(MemSetStatus(t, id, st), PgUpdate(p, id, [p[id] EXCEPT !.status = st]))
         /\ SameCompetitions(MemSetRun(t, id, "r"), PgUpdate(p, id, [p[id] EXCEPT !.run_id = "r"]))
    /\ SameCompetitions(MemSetConfig(t, id, [roster_size |-> 1]), PgSetConfig(p, id, [roster_size |-> 1]))
    /\ SameCompetitions(MemBind(t, id, "b2"), PgBind(p, id, "b2"))
    /\ MemListCompetitions(t, st) = PgListCompetitions(p, st)

SeqUpTo(n, S) == UNION {[1..k -> S] : k \in 0..n}
EventRows == [seq: 0..2]

\* For a known competition both logs accept and refuse the same batches.
ASSUME EventLogsAgree ==
  \A rows \in {r \in SeqUpTo(2, EventRows) : \A i, j \in DOMAIN r : i # j => r[i].seq # r[j].seq},
     batch \in SeqUpTo(2, EventRows) :
    MemAppendEvents(rows, batch) = PgAppendEvents(rows, batch, TRUE)

\* A run with numbered events comes back from both stores as it was persisted.
ASSUME RunsAgree ==
  \A es \in {<<>>, <<[seq |-> 1]>>, <<[seq |-> 0], [seq |-> 1], [seq |-> 2]>>},
     rows \in {<<>>, <<"x">>, <<"x", "x">>, <<"y", "x">>} :
    LET run == [evidence_hash |-> "h", run_events |-> es, score_rows |-> rows]
        pg  == PgPersistRun(<<>>, "r", run)
    IN  PgLoadRun(pg.rows, "r").out = run /\ MemLoadRun(MemPersistRun(<<>>, "r", run).rows, "r").out = run

\* The ledgers list the same rows of a session in the same order, whatever numbers were skipped.
ASSUME LedgersAgree ==
  \A s \in SeqUpTo(3, {"s", "u"}), skip \in 0..2 :
    LET fill(i) == [seq |-> 0, session_id |-> s[i], n |-> i]
        mem == [i \in DOMAIN s |-> [fill(i) EXCEPT !.seq = i]]
        pg  == {[fill(i) EXCEPT !.seq = i * (1 + skip)] : i \in DOMAIN s}
        ns(rows) == [i \in DOMAIN rows |-> rows[i].n]
    IN  /\ ns(MemListFills(mem, "s")) = ns(PgListFills(pg, "s"))
        /\ ns(MemListPresubmit(mem, "s")) = ns(PgListPresubmit(pg, "s"))
        /\ \A i \in DOMAIN s : MemAppendFill(SubSeq(mem, 1, i - 1), fill(i)).rows = SubSeq(mem, 1, i)

\* Runtime events: the same uuids in the same order, although Postgres skips ids on a duplicate.
ASSUME RuntimeEventsAgree ==
  \A u1, u2, u3 \in {"u", "v"} :
    LET m1 == MemAppendRuntime(<<>>, u1).rows
        m2 == MemAppendRuntime(m1, u2).rows
        m3 == MemAppendRuntime(m2, u3)
        pg1 == PgAppendRuntime({}, 1, u1).rows
        pg2 == PgAppendRuntime(pg1, 2, u2).rows
        pg3 == PgAppendRuntime(pg2, 3, u3)
        uuids(rows) == [i \in DOMAIN rows |-> rows[i].uuid]
    IN  /\ m3.out = pg3.out
        /\ uuids(MemListRuntime(m3.rows, 0, 1)) = uuids(PgListRuntime(pg3.rows, 0, 1))
        /\ uuids(MemListRuntime(m3.rows, 0, NoLimit)) = uuids(PgListRuntime(pg3.rows, 0, NoLimit))

AgentRows == [visibility: {"private"}, display_name: {"n"}, version: {1}]

\* Instances, public agents and links agree, a missing end of a link included.
ASSUME AgentsAgree ==
  /\ \A t \in Tables({"i", "j"}, [status: {"pending"}, reason: {Null, "f"}]), reason \in {Null, "g"} :
       MemUpdateInstance(t, "i", "failed", reason) = PgUpdateInstance(t, "i", "failed", reason)
  /\ \A t \in Tables({"a", "b"}, AgentRows) :
       /\ MemSetVisibility(t, "a", "public") = PgSetVisibility(t, "a", "public")
       /\ MemSetDisplayName(t, "a", "m") = PgSetDisplayName(t, "a", "m")
  /\ \A instances \in SUBSET {"i", "j"}, agents \in SUBSET {"a"}, old \in {Null, "a"} :
       LET column == [i \in instances |-> old]
           links  == [i \in {k \in instances : old # Null} |-> old]
           mem    == MemLink(links, instances, agents, "i", "a")
           pg     == PgLink(column, agents, "i", "a")
       IN  mem.out = pg.out /\ \A i \in {"i", "j"} : MemLinked(mem.rows, i) = PgLinked(pg.rows, i)

\* A second pass of the backfill mints nothing, and an interrupted one is completed under the same id.
ASSUME BackfillIdempotent ==
  \A agents \in Tables({"p"}, AgentRows) :
    LET row == [visibility |-> "private", display_name |-> "n", version |-> 1]
        one == Backfill(agents, <<>>, "i", "p", row)
    IN  /\ Backfill(one.agents, one.links, "i", "p", row) = [one EXCEPT !.minted = 0]
        /\ DOMAIN one.agents = DOMAIN agents \cup {"p"}
==============================================================================
