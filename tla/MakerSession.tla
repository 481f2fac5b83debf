---- MODULE MakerSession ----
(***************************************************************************)
(* How a maker session is put together: mm_strategy/session_factory.py     *)
(* rebuilds its authorities from a deployed instance, pmxt_tape.py and     *)
(* demo_tape.py build its tape, execution_adapter.py turns a decided leg   *)
(* into an execution request, composition.py compares the two arms of a    *)
(* guard ablation.  A hash is the value it digests.                        *)
(***************************************************************************)
EXTENDS StrategyCore, RecorderTape

DeriveMmMode(source_mode, execution_mode) ==
  CASE source_mode = "replay" /\ execution_mode = "paper" -> "replay"
    [] source_mode = "replay" /\ execution_mode = "dry_run" -> "replay_dry_run"
    [] OTHER -> None

(* The policy the maker runs under: caps of the maker configuration, allowlists of the
   submitted one, no approval threshold that a permitted stake could reach. *)
BuildMakerPolicyEnvelope(submitted, mm) ==
  [max_stake |-> submitted.max_stake, max_orders_per_run |-> mm.max_orders_per_run,
   max_orders_per_session |-> mm.max_orders_per_session, max_orders_per_day |-> mm.max_orders_per_day,
   venue_allowlist |-> submitted.venue_allowlist, market_allowlist |-> submitted.market_allowlist,
   max_session_loss |-> mm.max_session_loss, max_daily_loss |-> mm.max_daily_loss,
   human_approval_threshold |-> submitted.max_stake + 1, kill_switch |-> FALSE]

BuildMakerManifest(submitted, mm, operator_id, strategy_config_hash, now) ==
  [strategy_config_hash |-> strategy_config_hash, market |-> submitted.market_allowlist[1],
   universe |-> Range(submitted.market_allowlist), mode |-> "dry_run",
   max_orders |-> mm.max_orders_per_run, max_notional |-> submitted.max_stake,
   session_window |-> <<now, now + MaxOf(submitted.duration_s, 60) * MsPerS>>,
   permitted_intent_kinds |-> {"make_quote", "cancel_replace", "cancel_all", "no_quote"},
   operator_authorization |-> operator_id]

BuildMakerStrategyConfig(c, mm) == [c EXCEPT !.guard_enabled = mm.guard_enabled]

(* The tape's content hash leaves out each tick's build closure, and with it the book. *)
ToJsonable(event) == [f \in DOMAIN event \ {"build"} |-> event[f]]
ComputeTapeContentHash(events) == [i \in DOMAIN events |-> ToJsonable(events[i])]

ResolveTape(catalog, tape_ref) ==
  IF tape_ref \in DOMAIN catalog THEN catalog[tape_ref] ELSE None

(* The checks in the order they are made; the first that fails names the refusal. *)
ReconstructMmSession(instance, ctx, catalog, c, now) ==
  LET mode == DeriveMmMode(instance.source_mode, instance.execution_mode)
      config == BuildMakerStrategyConfig(c, instance.effective_config)
      envelope == BuildMakerPolicyEnvelope(instance.submitted_config, instance.effective_config)
      manifest == BuildMakerManifest(instance.submitted_config, instance.effective_config,
                                     instance.operator_id, config, now)
      tape == ResolveTape(catalog, instance.effective_config.tape_ref)
  IN  IF ctx.run_id # instance.run_id THEN [error |-> "run_id"]
      ELSE IF ctx.owner_did # instance.operator_id THEN [error |-> "owner"]
      ELSE IF mode = None THEN [error |-> "mode"]
      ELSE IF instance.config_hash # instance.submitted_config THEN [error |-> "config_hash"]
      ELSE IF instance.policy_hash # envelope THEN [error |-> "policy_hash"]
      ELSE IF tape = None THEN [error |-> "tape_not_found"]
      ELSE IF ComputeTapeContentHash(tape.events) # tape.content_hash THEN [error |-> "tape_hash"]
      ELSE [error |-> None, mode |-> mode, guard_enabled |-> config.guard_enabled,
            strategy_config |-> config, envelope |-> envelope, manifest |-> manifest, tape |-> tape,
            seed_state |-> FreshState,
            request_config |-> [mode |-> "dry_run", policy_hash |-> envelope, manifest_hash |-> manifest,
                                strategy_config_hash |-> config, session_id |-> ctx.session_id]]

(* The proposer of an offline session answers every request without touching a wire. *)
OfflineRecordingProposer(request) ==
  [admission |-> "APPROVED", execution_status |-> "ABSTAINED", policy_hash |-> request.policy_hash]

----
(* pmxt_tape.py: fair values before the ticks of the same instant, repeats of a value left out. *)
LoadFvArrivals(states, precision) ==
  LET Rounded(v) == v \div precision
      distinct == SelectSeq([i \in DOMAIN states |->
                               IF i > 1 /\ Rounded(states[i].value) = Rounded(states[i - 1].value)
                               THEN None ELSE states[i]], LAMBDA s : s # None)
  IN  [i \in DOMAIN distinct |->
         [kind |-> "fv", recv_ts |-> distinct[i].recv_ts, source_ts |-> distinct[i].ts,
          value |-> distinct[i].value]]

LevelCountInBand(levels, mid, band) ==
  Cardinality({ i \in DOMAIN levels : levels[i].size > 0 /\ Abs(levels[i].price - mid) <= band })

TapeTick(row) ==
  IF row.bid = None \/ row.ask = None THEN None
  ELSE [kind |-> "book", recv_ts |-> row.recv_ts, build |-> <<row.bid, row.ask>>]

Kept(rows) == SelectSeq([i \in DOMAIN rows |-> TapeTick(rows[i])], LAMBDA t : t # None)
BuildTapeEvents(fvs, rows) ==
  SortSeq(fvs \o Kept(rows),
          LAMBDA a, b : a.recv_ts < b.recv_ts
                        \/ (a.recv_ts = b.recv_ts /\ a.kind = "fv" /\ b.kind = "book"))

(* demo_tape.py: each row is a fair value one unit before its own tick. *)
DemoFv(row) ==
  [kind |-> "fv", recv_ts |-> row.recv_ts - 1, value |-> row.fv,
   source_ts |-> IF row.fv_recv_ts = None THEN row.recv_ts - 1 ELSE row.fv_recv_ts]
BuildDemoTapeEvents(rows) ==
  FoldSeq(LAMBDA row, acc :
            IF TapeTick(row) = None \/ row.fv = None THEN acc ELSE acc \o <<DemoFv(row), TapeTick(row)>>,
          <<>>, rows)

----
(* execution_adapter.py: a request for a leg of a decision bound to its observation; None when
   the code refuses. *)
NeutralToR4A(kind) ==
  CASE kind = "place_quote" -> "make_quote"
    [] kind = "cancel_all_orders" -> "cancel_all"
    [] kind = "abstain" -> "no_quote"
IntentParams(leg, token_id) ==
  [token_id |-> IF leg.leg_role = None THEN None ELSE token_id,
   side |-> CASE leg.leg_role = "bid" -> "BUY" [] leg.leg_role = "ask" -> "SELL" [] OTHER -> None,
   price |-> leg.price]
BuildR4ARequest(leg, config, o, decision, boundTo) ==
  IF boundTo # o \/ leg \notin Range(decision.intent_plan) THEN None
  ELSE [intent_kind |-> NeutralToR4A(leg.kind), params |-> IntentParams(leg, o.token_id),
        policy_hash |-> config.policy_hash, manifest_hash |-> config.manifest_hash,
        strategy_config_hash |-> config.strategy_config_hash, mode |-> config.mode]

----
(* composition.py: the frames on which two arms decide differently; a longer stream differs on
   its tail. *)
DecisionSignature(d) == <<d.kind, d.reason_codes, d.intent_plan>>
DivergentFrames(off, on) ==
  LET shared == MinOf(Len(off), Len(on))
  IN  { i \in 1 .. shared : DecisionSignature(off[i]) # DecisionSignature(on[i]) }
      \cup (shared + 1) .. MaxOf(Len(off), Len(on))

(* The stream of decisions an arm takes on a list of observations. *)
DecisionStream(observations, c) ==
  LET step(o, acc) == LET d == Decide(o, acc.state, c)
                      IN  [state |-> d.state, decisions |-> Append(acc.decisions, d.decision)]
  IN  FoldLeft(LAMBDA acc, o : step(o, acc), [state |-> FreshState, decisions |-> <<>>],
               observations).decisions
RunGuardAblation(observations, c) ==
  LET blind == [i \in DOMAIN observations |-> [observations[i] EXCEPT !.guard_fv = None]]
      off == DecisionStream(blind, [c EXCEPT !.guard_enabled = FALSE])
      on == DecisionStream(observations, [c EXCEPT !.guard_enabled = TRUE])
  IN  [guard_off |-> off, guard_on |-> on, divergent |-> DivergentFrames(off, on)]

(* The synthetic inventory of a dry run. *)
SyntheticInventory == [net_position |-> 0, resting |-> <<>>, fresh |-> TRUE]
====
