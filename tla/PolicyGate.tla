----------------------------- MODULE PolicyGate -----------------------------
(***************************************************************************)
(* The pure execution policy of veridex/policy: the envelope, the two gate *)
(* phases around a venue quote and the circuit breaker.  Money, odds and   *)
(* probabilities are integers: a stake in whole units, a decimal price in  *)
(* hundredths, a Kelly fraction in thousandths, the rest in basis points.  *)
(***************************************************************************)
EXTENDS Integers, FiniteSetsExt

\* policy/envelope.py PolicyEnvelope: the fields a gate reads.
PolicyEnvelope ==
  [max_stake: Nat, max_orders_per_run: Nat, min_edge_bps: Int,
   max_slippage_bps: Nat, max_price: Nat, max_quote_age_s: Nat,
   human_approval_threshold: Nat, max_stake_live_guarded: Nat,
   circuit_breaker_threshold: Nat, max_session_loss: Nat, max_daily_loss: Nat,
   max_orders_per_session: Nat, max_orders_per_day: Nat, cooldown_s: Nat,
   venue_allowlist: SUBSET STRING, market_allowlist: SUBSET STRING, kill_switch: BOOLEAN]

\* seconds_since_last_order is None until an order was placed.
NeverOrdered == -1

\* A cap of zero is no cap.
cap_breached(cap, loss) == cap > 0 /\ loss >= cap

------------------------------------------------------------------------------
(* policy/circuit_breaker.py *)

CircuitState == {"closed", "open", "half_open"}

ClosedBreaker ==
  [state |-> "closed", consecutive_failures |-> 0, opened_at |-> 0, probe_used |-> FALSE]

Allows(b) ==
  \/ b.state = "closed"
  \/ b.state = "half_open" /\ ~b.probe_used

Opened(failures, now) ==
  [state |-> "open", consecutive_failures |-> failures, opened_at |-> now, probe_used |-> FALSE]

RecordFailure(b, threshold, now) ==
  LET failures == b.consecutive_failures + 1
  IN  IF b.state = "half_open" \/ (threshold > 0 /\ failures >= threshold)
      THEN Opened(failures, now)
      ELSE [b EXCEPT !.consecutive_failures = failures]

RecordSuccess(b) ==
  IF b.state = "half_open" THEN ClosedBreaker ELSE [b EXCEPT !.consecutive_failures = 0]

\* The cooldown is looked at once, when a lane starts.
ResolveBreaker(b, now, cooldown) ==
  IF b.state = "open" /\ now - b.opened_at >= cooldown
  THEN [b EXCEPT !.state = "half_open", !.probe_used = FALSE]
  ELSE b

------------------------------------------------------------------------------
(* policy/gate.py: every rule is evaluated, a decision is denied when any  *)
(* rule names a reason.                                                    *)

PreQuoteReasons(ctx, env) ==
  LET rule == [kill_switch_on          |-> env.kill_switch,
               circuit_open            |-> ~Allows(ctx.breaker),
               edge_below_min          |-> ctx.recomputed_edge_bps < env.min_edge_bps,
               stake_over_max          |-> ctx.stake > env.max_stake,
               stake_over_live_guarded |-> /\ ctx.live_guarded
                                           /\ env.max_stake_live_guarded > 0
                                           /\ ctx.stake > env.max_stake_live_guarded,
               venue_not_allowed       |-> ctx.venue \notin env.venue_allowlist,
               market_not_allowed      |-> ctx.market_key \notin env.market_allowlist,
               order_cap_run           |-> ctx.orders_this_run >= env.max_orders_per_run,
               order_cap_session       |-> ctx.orders_this_session >= env.max_orders_per_session,
               order_cap_day           |-> ctx.orders_this_day >= env.max_orders_per_day,
               session_loss_over_max   |-> cap_breached(env.max_session_loss, ctx.realized_loss_session),
               daily_loss_over_max     |-> cap_breached(env.max_daily_loss, ctx.realized_loss_day),
               cooldown_active         |-> /\ ctx.seconds_since_last_order # NeverOrdered
                                           /\ ctx.seconds_since_last_order < env.cooldown_s,
               agent_not_eligible      |-> ~ctx.agent_eligible]
  IN  {r \in DOMAIN rule : rule[r]}

PreQuoteDecision(ctx, env) == IF PreQuoteReasons(ctx, env) = {} THEN "approved" ELSE "denied"

PostQuoteReasons(ctx, env) ==
  LET rule == [quote_stale            |-> ctx.quote_age_s > env.max_quote_age_s,
               insufficient_liquidity |-> ctx.quoted_size < ctx.stake,
               slippage_over_max      |-> ctx.slippage_bps > env.max_slippage_bps,
               edge_below_min         |-> ctx.executable_edge_bps < env.min_edge_bps,
               price_over_max         |-> ctx.price > env.max_price,
               stake_over_max         |-> ctx.stake > env.max_stake]
  IN  {r \in DOMAIN rule : rule[r]}

PostQuoteDecision(ctx, env) ==
  IF PostQuoteReasons(ctx, env) # {} THEN "denied"
  ELSE IF ctx.stake >= env.human_approval_threshold THEN "requires_human"
  ELSE "approved"

------------------------------------------------------------------------------
(* policy/engine.py: the one-phase gate the two phases were split from. *)

EvaluateReasons(ctx, env) ==
  LET rule == [kill_switch_on     |-> env.kill_switch,
               edge_below_min     |-> ctx.recomputed_edge_bps < env.min_edge_bps,
               quote_stale        |-> ctx.quote_age_s > env.max_quote_age_s,
               stake_over_max     |-> ctx.stake > env.max_stake,
               venue_not_allowed  |-> ctx.venue \notin env.venue_allowlist,
               market_not_allowed |-> ctx.market_key \notin env.market_allowlist,
               slippage_over_max  |-> ctx.slippage_bps > env.max_slippage_bps,
               price_over_max     |-> ctx.price > env.max_price,
               order_cap_run      |-> ctx.orders_this_run >= env.max_orders_per_run,
               cooldown_active    |-> /\ ctx.seconds_since_last_order # NeverOrdered
                                      /\ ctx.seconds_since_last_order < env.cooldown_s,
               agent_not_eligible |-> ~ctx.agent_eligible]
  IN  {r \in DOMAIN rule : rule[r]}

------------------------------------------------------------------------------
(* The numbers the gates read: execution/runner.py and law/edge.py. *)

FALLBACK_STAKE == 1

\* Half the Kelly fraction of a bankroll of 1000, clamped to the envelope.
SizeStake(kelly, max_stake) ==
  IF kelly <= 0 THEN Min({FALLBACK_STAKE, max_stake}) ELSE Min({kelly \div 2, max_stake})

\* Python's round of n/d to the nearest integer (ties do not occur in the instances).
RoundDiv(n, d) == (2 * n + d) \div (2 * d)

SlippageBps(reference, price) ==
  LET gap == IF price >= reference THEN price - reference ELSE reference - price
  IN  IF reference <= 0 THEN 0 ELSE RoundDiv(gap * 10000, reference)

ExecutableEdgeBps(prob_bps, price) ==
  IF price <= 0 THEN 0 ELSE RoundDiv(prob_bps * price - 1000000, 100)
==============================================================================
