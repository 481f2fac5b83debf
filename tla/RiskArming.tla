---- MODULE RiskArming ----
(* What may arm real money and what the loss caps see: the operator's interlock and its receipts *)
(* (facade.py, operator_interlock_store.py), the arming chain of the dust runner (runner.py), the *)
(* realized-loss accumulator (risk.py) and its rebuild from the durable ledger (ledger.py).       *)
(* A digest is the value it is taken of; a store is the sequence of its rows; a fill is           *)
(* [session, net, day, ts], with the fee already taken off and day the UTC day of ts.             *)
EXTENDS Absent, Integers, Sequences, FiniteSets, SequencesExt

OPERATOR_PRECONDITIONS ==
  <<"isolated_funded_wallet", "operator_jurisdiction_comfort", "declared_max_capital_at_risk", "kill_switch_ready",
    "first_order_authorized">>

\* The operator's assertions; the capital is None or an amount, everything else a Boolean.
DefaultInterlock ==
  [isolated_funded_wallet |-> FALSE, operator_jurisdiction_comfort |-> FALSE, declared_max_capital_at_risk |-> None,
   kill_switch_ready |-> FALSE, first_order_authorized |-> FALSE, ref |-> None]
satisfied_by_precondition(interlock, name) ==
  IF name # "declared_max_capital_at_risk" THEN interlock[name]
  ELSE IF interlock[name] = None THEN FALSE ELSE interlock[name] > 0

evaluate_operator_interlock(interlock) ==
  LET effective == IF interlock = None THEN DefaultInterlock ELSE interlock
      events == [i \in DOMAIN OPERATOR_PRECONDITIONS |->
                  [sequence_no |-> i, precondition |-> OPERATOR_PRECONDITIONS[i],
                   satisfied |-> satisfied_by_precondition(effective, OPERATOR_PRECONDITIONS[i]),
                   ref |-> effective.ref, first_order_authorized |-> effective.first_order_authorized]]
  IN  [armed |-> \A i \in DOMAIN events : events[i].satisfied, events |-> events]

\* The reference is None when missing and 0 when empty: neither is one.
interlock_events_are_canonical(events) ==
  /\ Len(events) = Len(OPERATOR_PRECONDITIONS)
  /\ \E ref \in {events[i].ref : i \in DOMAIN events} \ {None, 0} :
       \A i \in DOMAIN events :
         events[i] = [sequence_no |-> i, precondition |-> OPERATOR_PRECONDITIONS[i], satisfied |-> TRUE, ref |-> ref,
                      first_order_authorized |-> TRUE]

interlock_binding_digest(session, events, ref, attempt) == <<session, events, ref, attempt>>
Receipt(session, digest) == [session |-> session, digest |-> digest]

\* The store refuses events that are not canonical: None, and no row.
RecordInterlock(rows, session, events, ref, attempt) ==
  LET digest == interlock_binding_digest(session, events, ref, attempt)
      issued == interlock_events_are_canonical(events)
  IN  [rows |-> IF issued THEN Append(rows, [digest |-> digest, receipt |-> Receipt(session, digest)]) ELSE rows,
       receipt |-> IF issued THEN Receipt(session, digest) ELSE None]
VerifyInterlock(rows, session, events, ref, attempt, receipt) ==
  \E i \in DOMAIN rows :
    rows[i].digest = interlock_binding_digest(session, events, ref, attempt) /\ rows[i].receipt = receipt

_arming_attempt_ref(arming) == IF arming.order_auth = None THEN 0 ELSE arming.order_auth

\* The facade, given a bundle for a live_guarded run: record the interlock and bind the proof into the bundle, or hand
\* over no bundle; there is nowhere to record without a store (rows is None).
BindInterlock(rows, session, interlock, arming) ==
  LET gate == evaluate_operator_interlock(interlock)
      ref == gate.events[1].ref
      issued == RecordInterlock(rows, session, gate.events, ref, _arming_attempt_ref(arming))
  IN  IF ~gate.armed \/ rows = None \/ ~interlock_events_are_canonical(gate.events)
      THEN [rows |-> rows, arming |-> None]
      ELSE [rows |-> issued.rows,
            arming |-> [arming EXCEPT !.proof = [events |-> gate.events, ref |-> ref, receipt |-> issued.receipt]]]

------------------------------------------------------------------------------
(* The arming chain: every condition, in order, or the first reason against *)

\* A cap is 0 when it is disabled.
authorize_mode_b(caps) == caps.session > 0 /\ caps.daily > 0

_mode_b_arming_block_reason(arming, caps, signer_mode, session, rows) ==
  IF arming = None THEN "mode_b_not_armed"
  ELSE IF \/ ~arming.mode_a_passed \/ ~arming.gate_admitted \/ ~arming.preflight_ok \/ ~arming.provisioning_ok
          \/ ~authorize_mode_b(caps)
          \/ ~arming.binding_verifies
       THEN "mode_b_not_armed"
  ELSE IF signer_mode = "FAKE_LOCAL" THEN "mode_b_legacy_signer"
  ELSE IF arming.write_port = None \/ arming.order_auth = None THEN "mode_b_write_port_missing"
  ELSE IF arming.proof = None \/ rows = None THEN "operator_interlock_unproven"
  ELSE IF /\ interlock_events_are_canonical(arming.proof.events)
          /\ VerifyInterlock(rows, session, arming.proof.events, arming.proof.ref, _arming_attempt_ref(arming),
                             arming.proof.receipt)
       THEN None ELSE "operator_interlock_unproven"

------------------------------------------------------------------------------
(* Realized loss: folded fill by fill while the process runs, rebuilt from the rows after a restart *)

NewAccumulator(session) == [session |-> session, net_session |-> 0, net_day |-> 0, current_day |-> None]

\* A fill of a later day starts that day; one of an earlier day is counted on the current one.
apply_realized_fill(acc, fill) ==
  LET rolls == IF acc.current_day = None THEN TRUE ELSE fill.day > acc.current_day
  IN  IF fill.session # acc.session THEN acc
      ELSE [acc EXCEPT !.net_session = @ + fill.net, !.net_day = (IF rolls THEN 0 ELSE @) + fill.net,
                       !.current_day = IF rolls THEN fill.day ELSE @]

\* A fill of the future is refused, the ledger is left as it was.
append_fill(ledger, fill, now_ts) == IF fill.ts > now_ts THEN ledger ELSE Append(ledger, fill)

NetOf(fills) == FoldLeft(LAMBDA sum, fill : sum + fill.net, 0, fills)
reconstruct_risk(ledger, session, today) ==
  LET fills == SelectSeq(ledger, LAMBDA f : f.session = session)
  IN  [session |-> session, net_session |-> NetOf(fills), net_day |-> NetOf(SelectSeq(fills, LAMBDA f : f.day = today)),
       current_day |-> today]

Loss(net) == IF net < 0 THEN -net ELSE 0
cap_breached(cap, loss) == cap > 0 /\ loss >= cap
breaches_caps(acc, caps) == cap_breached(caps.session, Loss(acc.net_session)) \/ cap_breached(caps.daily, Loss(acc.net_day))
==============================================================================
