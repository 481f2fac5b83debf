---------------------------- MODULE ExecutionLane ----------------------------
(***************************************************************************)
(* One proposal of the competition's execution lane (execution/runner.py): *)
(* the record's status machine, what a venue's answer does to it, and what *)
(* the lane and a human approval decide.  Pure operators; Competition.tla  *)
(* takes the steps.                                                        *)
(***************************************************************************)
EXTENDS PolicyGate, Sequences

\* execution/models.py _NEXT_EXEC: the legal advances of a record.
NextExec ==
  [proposed        |-> {"law_approved", "rejected"},
   law_approved    |-> {"policy_approved", "awaiting_human", "rejected"},
   awaiting_human  |-> {"policy_approved", "rejected"},
   policy_approved |-> {"submitted", "rejected"},
   submitted       |-> {"accepted", "rejected", "expired"},
   accepted        |-> {"filled", "partial", "cancelled", "expired"},
   filled          |-> {"settled", "voided", "unresolved"},
   partial         |-> {"settled", "voided", "unresolved"},
   rejected |-> {}, cancelled |-> {}, expired |-> {}, settled |-> {}, voided |-> {}, unresolved |-> {}]

ExecutionStatus == DOMAIN NextExec

\* ExecutionRecord.advance, step by step: a status outside NextExec raises.
CanAdvanceThrough(status, path) ==
  \A i \in 1..Len(path) : path[i] \in NextExec[IF i = 1 THEN status ELSE path[i - 1]]

\* What poll_order_terminal can hand back: a terminal answer, or the last one seen
\* when its ten seconds are over.
TerminalAnswers == {"filled", "partial", "rejected", "cancelled", "expired"}
VenueAnswers == TerminalAnswers \cup {"pending"}

\* venues/base.py map_venue_status: an answer the map does not know is UNRESOLVED.
ReceiptStatus(answer) == IF answer \in TerminalAnswers THEN answer ELSE "unresolved"

\* The path of a submitted record by the status of its receipt; a receipt that is
\* cancelled or unresolved leaves the record at SUBMITTED.
PostPolicyPath(receipt) ==
  CASE receipt \in {"filled", "partial"}   -> <<"submitted", "accepted", receipt>>
    [] receipt = "accepted"                -> <<"submitted", "accepted">>
    [] receipt \in {"rejected", "expired"} -> <<"submitted", receipt>>
    [] OTHER                               -> <<"submitted">>

FailureReceipts == {"rejected", "expired", "cancelled", "unresolved"}

\* Every path is a legal advance of an approved record, whatever the receipt says.
ASSUME PathsAreLegal ==
  \A receipt \in TerminalAnswers \cup {"accepted", "unresolved"} :
    CanAdvanceThrough("policy_approved", PostPolicyPath(receipt))

SubmittedStatus(receipt) == LET path == PostPolicyPath(receipt) IN path[Len(path)]

------------------------------------------------------------------------------

\* The pre-quote context: losses and session or day counts are never supplied here.
PreQuoteContext(p, env, breaker, placed, mode, eligible) ==
  [recomputed_edge_bps |-> p.recomputed_edge_bps,
   stake |-> SizeStake(p.kelly_fraction, env.max_stake),
   venue |-> p.venue, market_key |-> p.market_key,
   orders_this_run |-> placed, orders_this_session |-> 0, orders_this_day |-> 0,
   seconds_since_last_order |-> NeverOrdered, agent_eligible |-> eligible,
   breaker |-> breaker, live_guarded |-> mode = "live_guarded",
   realized_loss_session |-> 0, realized_loss_day |-> 0]

\* The post-quote context of the quote taken for the stake.
PostQuoteContext(p, env, quote) ==
  [executable_edge_bps |-> ExecutableEdgeBps(p.entry_prob_bps, quote.price),
   price |-> quote.price, slippage_bps |-> SlippageBps(p.reference_price, quote.price),
   quote_age_s |-> quote.age, stake |-> SizeStake(p.kelly_fraction, env.max_stake),
   quoted_size |-> quote.size]

\* run_execution_lane on one proposal: what is submitted and where the record ends.
\* An approved proposal of an agent that is not eligible was already denied before the quote.
LaneDecision(p, env, breaker, placed, mode, eligible, quote) ==
  LET pre  == PreQuoteDecision(PreQuoteContext(p, env, breaker, placed, mode, eligible), env)
      post == PostQuoteDecision(PostQuoteContext(p, env, quote), env)
  IN  IF pre = "denied" THEN [submit |-> FALSE, status |-> "rejected"]
      ELSE CASE post = "denied"         -> [submit |-> FALSE, status |-> "rejected"]
             [] post = "requires_human" -> [submit |-> FALSE, status |-> "awaiting_human"]
             [] OTHER                   -> [submit |-> TRUE,  status |-> "policy_approved"]

\* The events of one proposal, in order: the policy result, then for a submitted
\* order its submission and its receipt.
LaneEvents(submit) ==
  IF submit THEN <<"policy_result", "execution_submitted", "execution_receipt">>
            ELSE <<"policy_result">>

\* Mutant: only a rejection counts as a failure.
NextBreakerRejections(breaker, env, mode, receipt) ==
  IF mode # "live_guarded" THEN breaker
  ELSE IF receipt = "rejected" THEN RecordFailure(breaker, env.circuit_breaker_threshold, 0)
       ELSE RecordSuccess(breaker)

\* The breaker hears only of live orders.
NextBreaker(breaker, env, mode, receipt) ==
  IF mode # "live_guarded" THEN breaker
  ELSE IF receipt \in FailureReceipts
       THEN RecordFailure(breaker, env.circuit_breaker_threshold, 0)
       ELSE RecordSuccess(breaker)

\* resolve_approval: the gates again, with a fresh breaker and no order counted; the
\* human threshold does not apply any more.
ApprovalDecision(p, env, mode, eligible, quote) ==
  IF /\ PreQuoteReasons(PreQuoteContext(p, env, ClosedBreaker, 0, mode, eligible), env) = {}
     /\ PostQuoteReasons(PostQuoteContext(p, env, quote), env) = {}
  THEN "approved" ELSE "rejected"

ApprovalEvents(decision) ==
  IF decision = "approved" THEN <<"approval_audit", "execution_submitted", "execution_receipt">>
                           ELSE <<"approval_audit", "policy_result">>
==============================================================================
