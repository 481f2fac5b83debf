---- MODULE DriftAgents ----
(* Model agents that answer late: runtime/llm_checkpoint.py, strategies/llm_drift.py, the      *)
(* hosted adapters with their transcript (runtime/directional_agent_adapters.py) and the arena *)
(* of the drift rule against the model (runtime/arena_comparison.py).                          *)
(* The clock is the ts of the tick.  A model is a script: the handle of each call in turn, with *)
(* `left` turns of the event loop until it is done and `cancel_left` after a cancellation;     *)
(* None is a launch that raises.  A turn passes after each tick.                               *)
EXTENDS DirectionalStrategies

------------------------------------------------------------------------------
(* llm_checkpoint.py *)

is_checkpoint(policy, now, last_checkpoint_at, snapshot, last_snapshot) ==
  IF last_checkpoint_at = None THEN TRUE
  ELSE \/ now - last_checkpoint_at >= policy.cadence_s
       \/ /\ policy.feature_delta_threshold # None /\ snapshot # None /\ last_snapshot # None
          /\ Magnitude(snapshot.cum_logit_drift - last_snapshot.cum_logit_drift) >= policy.feature_delta_threshold

Yield(call) == IF call = None THEN None ELSE [call EXCEPT !.handle.left = IF @ = 0 THEN 0 ELSE @ - 1]

GuardLaunch(handle, evidence_hash, now) ==
  [handle |-> handle, evidence_hash |-> evidence_hash, captured_at |-> now, cancel_requested |-> FALSE]

cancel(call) ==
  IF call.cancel_requested THEN call
  ELSE [call EXCEPT !.cancel_requested = TRUE, !.handle.left = Smaller(@, call.handle.cancel_left)]

service(call, now, limit) ==
  LET age == now - call.captured_at
      Ends(status, raw) == [status |-> status, raw |-> raw, evidence_hash |-> call.evidence_hash, call |-> None]
      Stays(status, kept) == [status |-> status, raw |-> None, evidence_hash |-> call.evidence_hash, call |-> kept]
  IN  CASE call = None -> [status |-> "idle", raw |-> None, evidence_hash |-> None, call |-> None]
        [] OTHER ->
           IF call.handle.left = 0
           THEN CASE call.cancel_requested \/ call.handle.ends = "cancelled" -> Ends("confirmed_terminated", None)
                  [] ~call.cancel_requested /\ call.handle.ends = "error" -> Ends("failed", None)
                  [] OTHER -> IF age <= limit THEN Ends("completed_fresh", call.handle.raw)
                              ELSE Ends("completed_stale", call.handle.raw)
           ELSE IF age > limit THEN Stays("awaiting_confirmation", cancel(call)) ELSE Stays("in_flight", call)

------------------------------------------------------------------------------
(* llm_drift.py *)

build_drift_decision_prompt(snapshot) == [template |-> "llm_drift_v0", snapshot |-> snapshot]

\* An answer that is no action counts as WAIT.
_revalidate_action(raw) ==
  LET action == parse_agent_action_json(raw) IN IF action = None THEN NoAction ELSE action

\* The side that drifted most, the first one on a tie.
Project(memory, state, c) ==
  LET keys == DriftKeys(state, c)
      observed == DriftObserve(memory, state, keys)
      best == BestOf({ <<DriftOf(observed, state, k, c).cum_logit_drift, k[1], k[2]>> : k \in keys })
  IN  <<observed, IF keys = {} THEN None
                  ELSE [market_key |-> best[2], side |-> best[3],
                        snapshot |-> DriftOf(observed, state, <<best[2], best[3]>>, c)]>>

SnapshotOf(projection) == IF projection = None THEN None ELSE projection.snapshot

\* The answer of a launcher: a scripted handle, or the next entry of a sealed transcript, which
\* is done at once and must have been asked with the same prompt.
launch(model, prompt) ==
  LET next == model.calls[model.at + 1]
      Reply(raises, handle) == [raises |-> raises, handle |-> handle, model |-> [model EXCEPT !.at = @ + 1]]
  IN  IF ~model.replay THEN IF next = None THEN Reply("error", None) ELSE Reply(None, next @@ [prompt |-> prompt])
      ELSE IF model.at >= Len(model.calls) THEN Reply("mismatch", None)
      ELSE IF next.prompt # prompt THEN Reply("mismatch", None)
      ELSE Reply(None, [left |-> 0, cancel_left |-> 0, ends |-> "answer", raw |-> next.raw, prompt |-> prompt])

NewRunner(model, policy, c) ==
  [projector |-> NewDrift, guard |-> None, last_checkpoint_at |-> None, last_snapshot |-> None, model |-> model,
   policy |-> policy, config |-> c, launches |-> <<>>, skipped_inflight |-> <<>>, action |-> NoAction,
   transcript |-> <<>>, raised |-> FALSE]

\* One tick: the call in flight is serviced first, and a checkpoint only launches when there was
\* none.  Reading an answer, stale or not, records it.
RunnerStep(r, state) ==
  LET projected == Project(r.projector, state, r.config)
      snapshot == SnapshotOf(projected[2])
      checkpoint == is_checkpoint(r.policy, state.ts, r.last_checkpoint_at, snapshot, r.last_snapshot)
      outcome == service(r.guard, state.ts, r.policy.evidence_age_limit_s)
      waited == [r EXCEPT !.projector = projected[1], !.last_snapshot = snapshot, !.guard = outcome.call,
                          !.action = NoAction,
                          !.transcript = IF outcome.status \in {"completed_fresh", "completed_stale"}
                                         THEN Append(@, [prompt |-> r.guard.handle.prompt, raw |-> outcome.raw])
                                         ELSE @]
      asked == launch(r.model, build_drift_decision_prompt(snapshot))
  IN  CASE outcome.status = "completed_fresh" -> [waited EXCEPT !.action = _revalidate_action(outcome.raw)]
        [] outcome.status \in {"in_flight", "awaiting_confirmation"} ->
             [waited EXCEPT !.skipped_inflight = IF checkpoint THEN Append(@, outcome.evidence_hash) ELSE @]
        [] outcome.status = "idle" /\ checkpoint /\ snapshot # None ->
             IF asked.raises = "mismatch" THEN [waited EXCEPT !.raised = TRUE]
             ELSE IF asked.raises = "error" THEN [waited EXCEPT !.model = asked.model]
             ELSE [waited EXCEPT !.model = asked.model, !.last_checkpoint_at = state.ts,
                                 !.guard = GuardLaunch(asked.handle, snapshot.evidence_hash, state.ts),
                                 !.launches = Append(@, snapshot.evidence_hash)]
        [] OTHER -> waited

------------------------------------------------------------------------------
(* directional_agent_adapters.py *)

\* The hosted actions, and the runner they leave; a raise ends the drive without a result.
_drive_agent_over_tape(runner, tape) ==
  FoldLeft(LAMBDA d, state :
             IF d.runner.raised THEN d
             ELSE LET next == RunnerStep(d.runner, state)
                  IN  [runner |-> [next EXCEPT !.guard = Yield(@)],
                       hosted |-> IF next.raised THEN d.hosted
                                  ELSE Append(d.hosted, [tick_seq |-> state.tick_seq, ts |-> state.ts,
                                                         snapshot_hash |-> state, action |-> next.action])],
           [runner |-> runner, hosted |-> <<>>], tape)

\* A stop before tick stop_at + 1 leaves the rest of the tape unread.
_directional_driver(calls, tape, policy, c, stop_at) ==
  LET drive == _drive_agent_over_tape(NewRunner([replay |-> FALSE, calls |-> calls, at |-> 0], policy, c),
                                      SubSeq(tape, 1, stop_at))
  IN  [actions |-> drive.hosted, sealed_transcript |-> drive.runner.transcript, skipped |-> drive.runner.skipped_inflight,
       scored_actions |-> SelectSeq(drive.hosted, LAMBDA h : h.action.type # "WAIT"), open |-> drive.runner.guard # None,
       terminal_reason |-> IF stop_at < Len(tape) THEN "stopped" ELSE "completed"]

\* None when the tape and the transcript disagree.
ReplayHosted(tape, transcript, policy, c) ==
  LET drive == _drive_agent_over_tape(NewRunner([replay |-> TRUE, calls |-> transcript, at |-> 0], policy, c), tape)
  IN  IF drive.runner.raised \/ drive.runner.model.at # Len(transcript) THEN None ELSE drive.hosted

\* The deterministic agent: a decision of the drift rule at every tick.
DriveDrift(tape, c) ==
  FoldLeft(LAMBDA d, state : LET step == DriftDecide(d.memory, state, c)
                             IN  [memory |-> step[1], actions |-> Append(d.actions, step[2])],
           [memory |-> NewDrift, actions |-> <<>>], tape).actions

------------------------------------------------------------------------------
(* arena_comparison.py *)

DET_DRIFT_CONTESTANT == "det-drift"
LLM_DRIFT_CONTESTANT == "llm-drift"

NewArena(calls, det_policy, llm_policy, c) ==
  [projector |-> NewDrift, config |-> c, model |-> [replay |-> FALSE, calls |-> calls, at |-> 0], guard |-> None,
   policy |-> (DET_DRIFT_CONTESTANT :> det_policy) @@ (LLM_DRIFT_CONTESTANT :> llm_policy),
   last_cp_at |-> [x \in {DET_DRIFT_CONTESTANT, LLM_DRIFT_CONTESTANT} |-> None],
   last_snapshot |-> [x \in {DET_DRIFT_CONTESTANT, LLM_DRIFT_CONTESTANT} |-> None],
   det_cp_index |-> -1, det_last_fire_index |-> -1000, events |-> <<>>, states |-> <<>>, drained |-> TRUE]

ArenaCheckpointEvent(contestant, kind, state, evidence_hash, tick_seq, action) ==
  [contestant |-> contestant, kind |-> kind, checkpoint_ts |-> state.ts, evidence_hash |-> evidence_hash,
   fixture_id |-> state.fixture_id, tick_seq |-> tick_seq, action |-> action]

Emit(a, contestant, kind, evidence_hash, action) ==
  [a EXCEPT !.events = Append(@, ArenaCheckpointEvent(contestant, kind, Last(a.states), evidence_hash,
                                                      Len(a.states), action))]

\* A tick is a checkpoint of a contestant whether or not there is anything to see.
Visit(a, x, ts, snapshot) ==
  LET checkpoint == is_checkpoint(a.policy[x], ts, a.last_cp_at[x], snapshot, a.last_snapshot[x])
      marked == [a EXCEPT !.last_snapshot[x] = snapshot, !.last_cp_at[x] = IF checkpoint THEN ts ELSE @]
  IN  <<checkpoint /\ snapshot # None,
        IF checkpoint /\ snapshot # None THEN Emit(marked, x, "opportunity", snapshot.evidence_hash, None) ELSE marked>>

_det_decide_from_snapshot(c, projection) ==
  IF DriftGates(projection.snapshot, c) THEN Follow(<<0, projection.market_key, projection.side>>) ELSE NoAction

\* The cooldown is counted in checkpoints, for the contestant and not for a market.
_step_det(a, ts, projection) ==
  LET visit == Visit(a, DET_DRIFT_CONTESTANT, ts, SnapshotOf(projection))
      index == a.det_cp_index + 1
      wanted == _det_decide_from_snapshot(a.config, projection)
      fires == wanted.type # "WAIT" /\ index - a.det_last_fire_index > a.config.cooldown_ticks
  IN  IF ~visit[1] THEN visit[2]
      ELSE [Emit(visit[2], DET_DRIFT_CONTESTANT, "decision", projection.snapshot.evidence_hash,
                 IF fires THEN wanted ELSE NoAction)
              EXCEPT !.det_cp_index = index, !.det_last_fire_index = IF fires THEN index ELSE @]

_step_llm(a, ts, projection) ==
  LET snapshot == SnapshotOf(projection)
      visit == Visit(a, LLM_DRIFT_CONTESTANT, ts, snapshot)
      outcome == service(a.guard, ts, a.policy[LLM_DRIFT_CONTESTANT].evidence_age_limit_s)
      served == [visit[2] EXCEPT !.guard = outcome.call]
      asked == launch(a.model, build_drift_decision_prompt(snapshot))
  IN  CASE outcome.status = "completed_fresh" ->
             Emit(served, LLM_DRIFT_CONTESTANT, "decision", outcome.evidence_hash, _revalidate_action(outcome.raw))
        [] outcome.status \in {"in_flight", "awaiting_confirmation"} /\ visit[1] ->
             Emit(served, LLM_DRIFT_CONTESTANT, "skipped_inflight", outcome.evidence_hash, None)
        [] outcome.status = "idle" /\ visit[1] ->
             IF asked.raises # None THEN [served EXCEPT !.model = asked.model]
             ELSE Emit([served EXCEPT !.model = asked.model,
                                      !.guard = GuardLaunch(asked.handle, snapshot.evidence_hash, ts)],
                       LLM_DRIFT_CONTESTANT, "launched", snapshot.evidence_hash, None)
        [] OTHER -> served

ArenaStep(a, state) ==
  LET projected == Project(a.projector, state, a.config)
      seen == [a EXCEPT !.projector = projected[1], !.states = Append(@, state)]
      stepped == _step_llm(_step_det(seen, state.ts, projected[2]), state.ts, projected[2])
  IN  [stepped EXCEPT !.guard = Yield(@)]

\* First the answer is awaited at the time of the last tick; then the clock jumps past the age
\* limit and the cancellation is awaited.  A call that never ends is an error.
drain(a, max_yields) ==
  LET limit == a.policy[LLM_DRIFT_CONTESTANT].evidence_age_limit_s
      ts == Last(a.states).ts
      Answered(b) ==
        IF b.guard = None THEN b
        ELSE LET outcome == service(Yield(b.guard), ts, limit)
                 served == [b EXCEPT !.guard = outcome.call]
             IN  IF outcome.status = "completed_fresh"
                 THEN Emit(served, LLM_DRIFT_CONTESTANT, "decision", outcome.evidence_hash, _revalidate_action(outcome.raw))
                 ELSE served
      Terminated(b) == [b EXCEPT !.guard = Yield(service(@, ts + limit + 1, limit).call)]
      turns == [i \in 1 .. max_yields |-> i]
      waited == FoldLeft(LAMBDA b, i : Answered(b), a, turns)
      forced == FoldLeft(LAMBDA b, i : Terminated(b), waited, turns)
  IN  [forced EXCEPT !.drained = forced.guard = None]

run_arena_comparison(tape, calls, det_policy, llm_policy, c, max_yields) ==
  drain(FoldLeft(ArenaStep, NewArena(calls, det_policy, llm_policy, c), tape), max_yields)

opportunities(a, contestant) ==
  LET mine == SelectSeq(a.events, LAMBDA e : e.contestant = contestant /\ e.kind = "opportunity")
  IN  [i \in DOMAIN mine |-> <<mine[i].checkpoint_ts, mine[i].evidence_hash>>]

_closing_by_market(a, fixture) == _closing_snapshots(SelectSeq(a.states, LAMBDA s : s.fixture_id = fixture))

_is_non_wait(e) == e.kind = "decision" /\ e.action.type # "WAIT"

\* An action counts when the law scores it at the tick it was made.
_is_scoreable(a, e) ==
  IF ~_is_non_wait(e) THEN FALSE
  ELSE recompute(a.states[e.tick_seq], e.action,
                 ClosingOf(_closing_by_market(a, e.fixture_id), e.action.market_key), "replay").valid

_tallies(a, contestant) ==
  LET mine == SelectSeq(a.events, LAMBDA e : e.contestant = contestant)
      eligible == Len(opportunities(a, contestant))
      actions == Len(SelectSeq(mine, _is_non_wait))
  IN  [actions |-> actions, waits |-> Larger(eligible - actions, 0), eligible_checkpoints |-> eligible,
       scoreable_decisions |-> Len(SelectSeq(mine, LAMBDA e : _is_scoreable(a, e)))]

report(a) ==
  LET det == opportunities(a, DET_DRIFT_CONTESTANT)
      identical == det = opportunities(a, LLM_DRIFT_CONTESTANT) /\ det # <<>>
      tallies == [x \in {DET_DRIFT_CONTESTANT, LLM_DRIFT_CONTESTANT} |-> _tallies(a, x)]
  IN  [identical_opportunities |-> identical, eligible_checkpoints |-> IF identical THEN Len(det) ELSE 0,
       fixture_count |-> Cardinality({ s.fixture_id : s \in Range(a.states) }), contestants |-> tallies,
       scoreable_decisions |-> tallies[DET_DRIFT_CONTESTANT].scoreable_decisions
                               + tallies[LLM_DRIFT_CONTESTANT].scoreable_decisions,
       shared_checkpoints |-> IF identical THEN det ELSE <<>>]
====
