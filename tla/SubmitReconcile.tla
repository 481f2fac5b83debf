---- MODULE SubmitReconcile ----
(***************************************************************************)
(* What is known of an order whose acknowledgement was lost:               *)
(* dust_execution/reconcile.py with the fill matcher and the restart join  *)
(* of l2_transport.py and the status the runner puts on the record.        *)
(*                                                                         *)
(* A reading is what one key's three reads return: [orders, order, fills], *)
(* None where the surface is missing or raises.  Sizes are whole units; an *)
(* amount that is not a finite, non-negative number is Malformed.          *)
(***************************************************************************)
EXTENDS Absent, Integers, Sequences, FiniteSets, SequencesExt

Malformed == -1
NoKey == "no key"

----
(* l2_transport.py: a trade is [taker, size, makers], a maker [order_id, matched_amount]. *)
_coerce_fill_amount(value) == IF value \in {None, Malformed} THEN None ELSE value
MatchedAmounts(trade, key) ==
  IF trade.taker = key THEN <<trade.size>>
  ELSE LET ours == SelectSeq(trade.makers, LAMBDA maker : maker.order_id = key)
       IN  [i \in DOMAIN ours |-> ours[i].matched_amount]
_match_fill_size(trades, key) ==
  LET amounts == FlattenSeq([i \in DOMAIN trades |-> MatchedAmounts(trades[i], key)])
      total == FoldLeft(LAMBDA sum, amount : sum + amount, 0, amounts)
  IN  IF \E i \in DOMAIN amounts : _coerce_fill_amount(amounts[i]) = None THEN None
      ELSE IF total > 0 THEN total ELSE None

----
(* The three surfaces and the verdict. *)
_TERMINAL_ORDER_STATUSES == {"filled", "matched", "killed", "canceled", "cancelled", "expired", "rejected"}
_fill_history_evidence(reading, key) ==
  IF reading.fills = None THEN None ELSE _match_fill_size(reading.fills, key)
_terminal_status_evidence(reading) ==
  reading.order # None /\ reading.order.status \in _TERMINAL_ORDER_STATUSES
_open_candidate_count(reading) == IF reading.orders = None THEN 0 ELSE reading.orders

assess_uncertain_submit(record, reading) ==
  LET size == _fill_history_evidence(reading, record.venue_order_key)
  IN  IF record.venue_order_key = NoKey
      THEN [state |-> "AMBIGUOUS", matched_fill_size |-> 0, open_candidate_count |-> 0]
      ELSE [state |-> IF size # None \/ _terminal_status_evidence(reading) THEN "RESOLVED" ELSE "AMBIGUOUS",
            matched_fill_size |-> IF size = None THEN 0 ELSE size,
            open_candidate_count |-> _open_candidate_count(reading)]
reconcile_uncertain_submit(record, reading) == assess_uncertain_submit(record, reading).state

freezes_new_submits(state) == state = "AMBIGUOUS"
worst_case_uncertain_exposure(state, intended) == IF state = "AMBIGUOUS" THEN intended ELSE 0
retry_authorized_while(state, before_timeout) == state # "AMBIGUOUS"
duplicate_resubmit_authorized(prior_state) == prior_state = "DEFINITIVELY_ABSENT"
authorize_resubmit_against_venue_truth(record, reading) ==
  duplicate_resubmit_authorized(reconcile_uncertain_submit(record, reading))

FrozenUncertainState(record, state, intended) ==
  [state |-> state, frozen |-> freezes_new_submits(state), presubmit_record |-> record,
   worst_case_exposure |-> worst_case_uncertain_exposure(state, intended)]
reconcile_and_freeze(record, reading, intended) ==
  FrozenUncertainState(record, reconcile_uncertain_submit(record, reading), intended)
reconstruct_uncertain_state(record, intended) == FrozenUncertainState(record, "AMBIGUOUS", intended)

----
(* The recorded status: honest_venue_status of the venue's record, and _status_for of the verdict. *)
_VENUE_EXPIRED_STATUSES == {"expired"}
_VENUE_REJECTED_STATUSES == {"unmatched", "rejected", "matched", "killed", "canceled", "cancelled"}
_VENUE_LIVE_STATUSES == {"live", "delayed", "open", "pending"}

HonestVenueStatus(status, filled) == [status |-> status, filled_size |-> filled]
(* order: None or [status, size_matched, original_size]; an original_size of 0 was not sent. *)
honest_venue_status(order, requested_size, timed_out) ==
  IF order = None THEN HonestVenueStatus("unresolved", 0)
  ELSE LET requested == IF order.original_size > 0 THEN order.original_size ELSE requested_size
           full == requested > 0 /\ order.size_matched >= requested
       IN  IF order.size_matched > 0
           THEN HonestVenueStatus(IF full THEN "filled" ELSE "partial", order.size_matched)
           ELSE HonestVenueStatus(IF timed_out \/ order.status \in _VENUE_LIVE_STATUSES THEN "unresolved"
                                  ELSE IF order.status \in _VENUE_EXPIRED_STATUSES THEN "expired"
                                  ELSE IF order.status \in _VENUE_REJECTED_STATUSES THEN "rejected"
                                  ELSE "unresolved", 0)
_status_for(state, matched_fill_size) ==
  IF state = "AMBIGUOUS" THEN "unresolved" ELSE IF matched_fill_size > 0 THEN "filled" ELSE "expired"

----
(* The pre-submit journal: rows of [session, record], only ever appended. *)
persist_presubmit_record(rows, session, record) == Append(rows, [session |-> session, record |-> record])
recover_presubmit_records(rows, session) ==
  LET own == SelectSeq(rows, LAMBDA row : row.session = session)
  IN  [i \in DOMAIN own |-> own[i].record]
(* The process can stop before, in or after the post; the row is there first. *)
submit_with_durable_presubmit(rows, sent, session, record, stops) ==
  [rows |-> IF stops = "before" THEN rows ELSE persist_presubmit_record(rows, session, record),
   sent |-> IF stops \in {"before", "persisted"} THEN sent ELSE sent \cup {record.venue_order_key}]

(* pages[key] is a sequence of trades, or None when the reader raises: that error is not caught. *)
reconcile_ack_lost(records, pages) ==
  FoldLeft(LAMBDA acc, record :
             IF acc.raised THEN acc
             ELSE IF record.venue_order_key = NoKey THEN [acc EXCEPT !.raised = TRUE]
             ELSE IF pages[record.venue_order_key] = None THEN [acc EXCEPT !.raised = TRUE]
             ELSE LET size == _match_fill_size(pages[record.venue_order_key], record.venue_order_key)
                  IN  [acc EXCEPT !.results = Append(@,
                         [venue_order_key |-> record.venue_order_key,
                          reconciled_state |-> IF size = None THEN "AMBIGUOUS" ELSE "RESOLVED",
                          reconciled_fill_size |-> IF size = None THEN 0 ELSE size])],
           [raised |-> FALSE, results |-> <<>>], records)
reconcile_durable_ack_lost(rows, session, pages) ==
  LET done == reconcile_ack_lost(recover_presubmit_records(rows, session), pages)
  IN  IF done.raised THEN None ELSE done.results
====
