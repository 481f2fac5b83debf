---- MODULE MCRiskArming ----
(* Arming on every interlock, history and bundle; losses on every short history of fills. *)
EXTENDS RiskArming, OrderSigning, SubmitReconcile

FullInterlock ==
  [isolated_funded_wallet |-> TRUE, operator_jurisdiction_comfort |-> TRUE, declared_max_capital_at_risk |-> 5,
   kill_switch_ready |-> TRUE, first_order_authorized |-> TRUE, ref |-> 9]
Interlocks ==
  {None, FullInterlock, DefaultInterlock, [FullInterlock EXCEPT !.ref = 0], [FullInterlock EXCEPT !.ref = None],
   [FullInterlock EXCEPT !.declared_max_capital_at_risk = 0]}
  \cup { [FullInterlock EXCEPT ![name] = FALSE] : name \in ToSet(OPERATOR_PRECONDITIONS) \ {"declared_max_capital_at_risk"} }

Bundle(attempt) ==
  [mode_a_passed |-> TRUE, gate_admitted |-> TRUE, preflight_ok |-> TRUE, provisioning_ok |-> TRUE, binding_verifies |-> TRUE,
   write_port |-> "port", order_auth |-> attempt, proof |-> None]
RiskCaps == [session |-> 5, daily |-> 3]
Reason(arming, session, rows) == _mode_b_arming_block_reason(arming, RiskCaps, "PRIVY", session, rows)

(* Only a complete interlock, recorded in this store for this session and this attempt, arms: a  *)
(* proof of another session or attempt, a store that does not know it or is not there, events     *)
(* changed after the fact and every failing technical condition are refused. A receipt is not     *)
(* used up: the same proof arms the same attempt again (operator_interlock_store.py:227). *)
ASSUME OnlyTheOperatorArms ==
  /\ \A interlock \in Interlocks, session, other \in {"s", "t"}, attempt, later \in 1 .. 2 :
       LET bound == BindInterlock(<<>>, session, interlock, Bundle(attempt))
           moved == IF bound.arming = None THEN None ELSE [bound.arming EXCEPT !.order_auth = later]
       IN  /\ (Reason(moved, other, bound.rows) = None) <=>
                (interlock = FullInterlock /\ other = session /\ later = attempt)
           /\ Reason(moved, other, <<>>) # None /\ Reason(moved, other, None) # None
           /\ BindInterlock(None, session, interlock, Bundle(attempt)) = [rows |-> None, arming |-> None]
  /\ LET bound == BindInterlock(<<>>, "s", FullInterlock, Bundle(1))
         arming == bound.arming
         forged == [arming.proof EXCEPT !.ref = 8, !.events = [i \in DOMAIN @ |-> [@[i] EXCEPT !.ref = 8]]]
     IN  /\ Reason([arming EXCEPT !.proof = forged], "s", bound.rows) = "operator_interlock_unproven"
         /\ \A condition \in {"mode_a_passed", "gate_admitted", "preflight_ok", "provisioning_ok", "binding_verifies"} :
              Reason([arming EXCEPT ![condition] = FALSE], "s", bound.rows) = "mode_b_not_armed"
         /\ \A port \in {"write_port", "order_auth"} :
              Reason([arming EXCEPT ![port] = None], "s", bound.rows) = "mode_b_write_port_missing"
         /\ _mode_b_arming_block_reason(arming, RiskCaps, "FAKE_LOCAL", "s", bound.rows) = "mode_b_legacy_signer"
         /\ \A cap \in DOMAIN RiskCaps :
              _mode_b_arming_block_reason(arming, [RiskCaps EXCEPT ![cap] = 0], "PRIVY", "s", bound.rows) = "mode_b_not_armed"

------------------------------------------------------------------------------
Fills == { [session |-> "s", net |-> net, day |-> ts \div 2, ts |-> ts] : net \in {-4, -1, 2}, ts \in 0 .. 3 }
FillSeqs == UNION { [1 .. n -> Fills] : n \in 1 .. 3 }
LiveAccumulator(fills) == FoldLeft(apply_realized_fill, NewAccumulator("s"), fills)
InTimeOrder(fills) == \A i \in 1 .. Len(fills) - 1 : fills[i].ts <= fills[i + 1].ts

(* The session loss of the running process and of a restarted one are always the same, and so is *)
(* the day's when fills arrive in order and the clock is still on the day of the last one. *)
ASSUME RestartKeepsTheLoss ==
  \A fills \in FillSeqs :
    LET live == LiveAccumulator(fills)
        ledger == FoldLeft(LAMBDA rows, fill : append_fill(rows, fill, 3), <<>>, fills)
        rebuilt == reconstruct_risk(ledger, "s", Last(fills).day)
    IN  /\ live.net_session = rebuilt.net_session
        /\ InTimeOrder(fills) => live = rebuilt

(* Where they part: a late fill of the day before counts on today's loss until the restart       *)
(* (risk.py:197, ledger.py:152), so a breach of the daily cap can end with a restart, or begin    *)
(* with one when the late fill was a gain; and midnight alone resets only the rebuilt one. *)
ASSUME LateFillsMoveDays ==
  /\ \E fills \in FillSeqs : LET live == LiveAccumulator(fills)
                                 rebuilt == reconstruct_risk(fills, "s", live.current_day)
                             IN  breaches_caps(live, RiskCaps) /\ ~breaches_caps(rebuilt, RiskCaps)
  /\ \E fills \in FillSeqs : LET live == LiveAccumulator(fills)
                                 rebuilt == reconstruct_risk(fills, "s", live.current_day)
                             IN  ~breaches_caps(live, RiskCaps) /\ breaches_caps(rebuilt, RiskCaps)
  /\ \E fills \in FillSeqs : LET live == LiveAccumulator(fills)
                             IN  InTimeOrder(fills) /\ breaches_caps(live, RiskCaps)
                                 /\ ~breaches_caps(reconstruct_risk(fills, "s", live.current_day + 1), RiskCaps)

------------------------------------------------------------------------------
(* Own orders against own orders (noncrossing.py). *)
OwnLegs ==
  { [token |-> t, side |-> d, price |-> p, kind |-> k[1], uncertain_state |-> k[2]] :
      t \in {"YES", "NO"}, d \in {"BUY", "SELL"}, p \in {400, 500},
      k \in {<<"open", None>>, <<"uncertain_cancel", None>>, <<"uncertain_cancel", "DEFINITIVELY_ABSENT">>} }

(* check_non_crossing: a set of own orders is admitted exactly when no two that may still rest   *)
(* could trade with each other. A cancel that was only requested leaves its order in the set; an *)
(* order proven absent changes no verdict. *)
ASSUME OwnOrdersNeverMeet ==
  \A legs \in kSubset(2, OwnLegs) \cup kSubset(3, { leg \in OwnLegs : leg.token = "YES" }) :
    LET verdict == check_non_crossing(legs, 100)
        gone == { leg \in legs : leg.uncertain_state = "DEFINITIVELY_ABSENT" }
    IN  /\ verdict = check_non_crossing(legs \ gone, 100)
        /\ (verdict = "REJECT") <=>
             \E bid, ask \in legs \ gone : /\ bid.side = "BUY" /\ ask.side = "SELL"
                                           /\ bid.token = ask.token /\ bid.price >= ask.price

FeeSnapshot(taker_only) == [fee_rate |-> 7, taker_only |-> taker_only]
OrderAt(action, price, role, side) == [action |-> action, price |-> price, role |-> role, side |-> side, size |-> 1000]

(* normalize: an order to sell a token is the order to buy the other one at the complement of its *)
(* price, whatever the tick and however the price was rounded to it; the fee, which is quadratic  *)
(* in the price, is the same for both. *)
ASSUME SellIsBuyOfTheOther ==
  \A tick \in {1000, 100}, price \in { 25 * n : n \in 0 .. 400 }, role \in {"MAKER", "TAKER"}, only \in BOOLEAN :
    LET sell == normalize(OrderAt("SELL", price, role, "yes"), FALSE, FeeSnapshot(only), tick)
        buy == normalize(OrderAt("BUY", OneDollar - _round_to_tick(price, tick), role, "no"), FALSE, FeeSnapshot(only), tick)
    IN  /\ sell = buy
        /\ sell # Refused => /\ sell.fee = taker_fee(FeeSnapshot(only), OneDollar - sell.price) \/ sell.fee = 0
                             /\ sell.price \in tick .. OneDollar - tick /\ sell.price % tick = 0

Rung(outcome, price, role) == normalize(OrderAt("BUY", price, role, IF outcome = "YES" THEN "yes" ELSE "no"), FALSE, FeeSnapshot(TRUE), 50)
LocksSomewhere(yes, no) ==
  \E i \in DOMAIN yes, j \in DOMAIN no :
    yes[i].size > 0 /\ no[j].size > 0 /\ SliceCost(yes[i], no[j]) >= 10 * OneDollar
Ladders(outcome, roles, prices) == UNION { [1 .. n -> { Rung(outcome, p, r) : p \in prices, r \in roles }] : n \in 1 .. 2 }

(* complementary_lock_check: while every order pays by the same rule its cost rises with its      *)
(* price, so walking both ladders from the dearest price finds every pair of own orders that      *)
(* together cost a dollar or more. *)
ASSUME LockFoundWhenCostFollowsPrice ==
  \A role \in {"MAKER", "TAKER"} :
    \A yes \in Ladders("YES", {role}, {4500, 5000, 5150}), no \in Ladders("NO", {role}, {4700, 4850, 5000}) :
      (complementary_lock_check(yes, no) = "REJECT") <=> LocksSomewhere(yes, no)

(* Makers pay nothing and takers do, so with both on one ladder the dearest price is not the      *)
(* dearest cost and the walk can pass a pair that locks, though noncrossing.py:459-461 calls      *)
(* dearest-against-dearest the adversarial pairing. Nothing is ever rejected without a lock. *)
ASSUME FeesHideALock ==
  /\ \E yes \in Ladders("YES", {"MAKER", "TAKER"}, {5000, 5100}), no \in Ladders("NO", {"MAKER"}, {4850}) :
       complementary_lock_check(yes, no) = "ADMIT" /\ LocksSomewhere(yes, no)
  /\ \A yes \in Ladders("YES", {"MAKER", "TAKER"}, {5000, 5100}), no \in Ladders("NO", {"MAKER"}, {4850, 4900}) :
       complementary_lock_check(yes, no) = "REJECT" => LocksSomewhere(yes, no)

------------------------------------------------------------------------------
(* Signing and submitting (mode_b_write_port.py, l2_transport.py, privy_control_plane.py). *)

(* resolve_order_amounts: what is signed never buys or sells more shares than were admitted, is   *)
(* short of them by at most a cent of a share (two where a float lies under its boundary), and    *)
(* trades at the admitted tick price; below a cent of a share both amounts are zero and still     *)
(* compile. *)
ASSUME AmountsNeverExceedTheIntent ==
  \A side \in {"BUY", "SELL"}, size \in 0 .. 45, tick \in {100, 1000}, price \in {100, 300, 1000, 9000} :
    \A amounts \in resolve_order_amounts(side, size, price, tick) :
      LET shares == IF side = "BUY" THEN amounts.taker ELSE amounts.maker
          dollars == IF side = "BUY" THEN amounts.maker ELSE amounts.taker
      IN  /\ shares <= OneDollar * (size \div 10) /\ shares + 2 * OneDollar > OneDollar * (size \div 10)
          /\ dollars * OneDollar = shares * _round_to_tick(price, tick)
          /\ (size < 10) => (shares = 0 /\ dollars = 0)

PinnedWallet ==
  [wallet_address |-> "wallet", wallet_ref |-> 1, chain_id |-> "eip155:137", quorum_ref |-> "quorum",
   quorum_threshold |-> 2, quorum_content |-> <<2, {"k1", "k2", "k3"}>>,
   policy_content |-> PolicyContent(TYPED_DATA_ONLY)]
GoodAuth == [request_expiry_ms |-> 2000, quorum_signatures |-> <<"q1", "q2">>, quorum_threshold |-> 2, idempotency_key |-> "i"]
DeskOrder ==
  [side |-> "BUY", native_price |-> 5000, tif |-> "GTC", post_only |-> TRUE, expiration |-> 0,
   token_id |-> "YES", neg_risk |-> FALSE]
DeskOrders ==
  {DeskOrder, [DeskOrder EXCEPT !.side = "SELL"], [DeskOrder EXCEPT !.neg_risk = TRUE], [DeskOrder EXCEPT !.tif = "FOK"],
   [DeskOrder EXCEPT !.tif = "FOK", !.post_only = FALSE], [DeskOrder EXCEPT !.tif = "GTD", !.expiration = 9]}
DeskAmounts == [maker |-> 500000, taker |-> 1000000]
Compiled(order) == PortOrder(NewPort("owner"), order, DeskAmounts, PinnedWallet, 1)
GoodReply(compiled) == [by |-> "wallet", digest |-> compiled.eip712_digest]

(* What a change between the compiler and the wire can look like. *)
Tamperings(c) ==
  {c, [c EXCEPT !.post_body.order.makerAmount = 1], [c EXCEPT !.post_body.owner = "other"],
   [c EXCEPT !.post_body.postOnly = ~@], [c EXCEPT !.typed_data.message.makerAmount = 1],
   [c EXCEPT !.typed_data.primaryType = "ClobAuth"], [c EXCEPT !.typed_data.message.signer = "other"],
   [c EXCEPT !.typed_data.domain = "elsewhere"],
   [c EXCEPT !.integrity_commitment_hash = None], [c EXCEPT !.eip712_digest.domain = "elsewhere"],
   [c EXCEPT !.post_body.order = Restrict(@, DOMAIN @ \ {"builder"})],
   [c EXCEPT !.post_body = ("extra" :> 1) @@ @]}
Auths ==
  {GoodAuth, [GoodAuth EXCEPT !.request_expiry_ms = 1000], [GoodAuth EXCEPT !.quorum_signatures = <<"q1", "q1">>],
   [GoodAuth EXCEPT !.quorum_threshold = 1, !.quorum_signatures = <<"q1">>], [GoodAuth EXCEPT !.idempotency_key = None]}
Replies(c) ==
  {None, GoodReply(c), [by |-> "wallet", digest |-> order_hash_from_typed_data(c.typed_data)],
   [by |-> "other", digest |-> c.eip712_digest], [by |-> "wallet", digest |-> None]}

(* submit_live_order: whatever is changed on the way, what reaches the venue is the body that was *)
(* committed to, under a signature by the bound wallet over the order it states, with a fresh     *)
(* quorum, after its record was persisted, and passes the venue gate. A refusal after the record  *)
(* leaves the record without an order. *)
ASSUME PostedIsWhatWasCommitted ==
  \A order \in DeskOrders :
    Compiled(order) # Refused =>
      \A c \in Tamperings(Compiled(order)), auth \in Auths :
        \A reply \in Replies(c) :
          LET done == submit_live_order(<<>>, c, PinnedWallet, auth, 1000, reply)
          IN  /\ (done.posted # None) <=> (c = Compiled(order) /\ auth = GoodAuth /\ reply = GoodReply(c))
              /\ done.posted # None =>
                   /\ done.store = <<build_presubmit_record(c)>>
                   /\ done.posted.order.signature = [by |-> "wallet", digest |-> order_hash_from_typed_data(c.typed_data)]
                   /\ Restrict(done.posted.order, _ORDER_REQUIRED) = Compiled(order).post_body.order
                   /\ validate_sendorder_fixture(done.posted) /\ validate_signed_order(c.typed_data)
              /\ (done.posted = None /\ c = Compiled(order)) => Len(done.store) = 1

(* The body and the typed data of one order are checked each against its own digest and never     *)
(* against each other: that they state the same order, and that the join key is the signed one's, *)
(* rests on the compiler alone, which gives both the same values in every case. *)
ASSUME CompilerKeepsBodyAndSignatureTogether ==
  \A order \in { o \in DeskOrders : Compiled(o) # Refused } :
    LET c == Compiled(order)
        apart == [c EXCEPT !.typed_data.message.makerAmount = 1, !.eip712_digest.message.makerAmount = 1]
    IN  /\ submit_live_order(<<>>, apart, PinnedWallet, GoodAuth, 1000, GoodReply(apart)).posted # None
        /\ \A field \in _SIGNED_ORDER_FIELDS \ {"side"} : c.post_body.order[field] = c.typed_data.message[field]
        /\ (c.post_body.order.side = "BUY") <=> (c.typed_data.message.side = 0)
        /\ c.venue_order_key = order_hash_from_typed_data(c.typed_data)

Ports(first, second, again) ==
  LET one == submit_order(NewPort("owner"), <<>>, first, DeskAmounts, PinnedWallet, GoodAuth, 1, GoodReply(Compiled(first)))
      port == IF again THEN one.port ELSE NewPort("owner")
  IN  submit_order(port, one.store, second, DeskAmounts, PinnedWallet, GoodAuth, 1,
                   GoodReply(PortOrder(port, second, DeskAmounts, PinnedWallet, 1)))

(* submit_order: the salt keeps the venue keys of one port's orders apart, but it counts from the *)
(* start of the port (mode_b_write_port.py:200): a new port in the same second gives the same     *)
(* order the same key, and orders that differ only in time in force share it as well. *)
ASSUME KeysRepeatAcrossPorts ==
  \A first, second \in { order \in DeskOrders : Compiled(order) # Refused } :
    /\ LET rows == Ports(first, second, TRUE).store IN Len(rows) = 2 /\ rows[1].venue_order_key # rows[2].venue_order_key
    /\ LET rows == Ports(first, second, FALSE).store
       IN  (rows[1].venue_order_key = rows[2].venue_order_key) <=>
             (first.side = second.side /\ first.neg_risk = second.neg_risk)

LiveQuorum == [ref |-> "quorum", threshold |-> 2, keys |-> {"k1", "k2", "k3"}]
WeakPolicies ==
  {None, [TYPED_DATA_ONLY EXCEPT !.default_action = "ALLOW"], [TYPED_DATA_ONLY EXCEPT !.owner_type = "user"],
   [TYPED_DATA_ONLY EXCEPT !.rules = @ \cup {<<"personal_sign", "*", "ALLOW">>}],
   [TYPED_DATA_ONLY EXCEPT !.rules = @ \ {<<"secp256k1_sign", "*", "DENY">>}]}
WeakQuorums ==
  {None, [LiveQuorum EXCEPT !.threshold = 1], [LiveQuorum EXCEPT !.keys = {"k1", "k2"}], [LiveQuorum EXCEPT !.ref = "other"]}
RepinnedTo(policy, quorum) ==
  [PinnedWallet EXCEPT !.policy_content = PolicyContent(policy), !.quorum_content = QuorumContent(quorum), !.quorum_threshold = quorum.threshold]

(* arm_mode_b: a wallet whose live policy or quorum moved from what was pinned never arms, and    *)
(* pinning a policy that allows more or has another owner does not help. What a pinned, drifted   *)
(* pair can still lose is a deny rule: under the default deny it says nothing. *)
ASSUME OnlyPinnedCustodyArms ==
  /\ arm_mode_b(PinnedWallet, TYPED_DATA_ONLY, LiveQuorum)
  /\ \A policy \in WeakPolicies : ~arm_mode_b(PinnedWallet, policy, LiveQuorum)
  /\ \A quorum \in WeakQuorums : ~arm_mode_b(PinnedWallet, TYPED_DATA_ONLY, quorum)
  /\ \A policy \in WeakPolicies \ {None} :
       arm_mode_b(RepinnedTo(policy, LiveQuorum), policy, LiveQuorum) <=>
         (policy.rules \subseteq TYPED_DATA_ONLY.rules /\ policy.default_action = "DENY" /\ policy.owner_type = "quorum")
  /\ \A chain \in {"eip155:1", None} : ~arm_mode_b([PinnedWallet EXCEPT !.chain_id = chain], TYPED_DATA_ONLY, LiveQuorum)
  /\ \A auth \in Auths, reply \in {None, [by |-> "wallet", digest |-> build_clob_auth_typed_data("wallet", 1, 0).message]} :
       LET minted == mint_l2_credentials(PinnedWallet, auth, 1000, reply, 1, 0, [api_key |-> 1, api_secret |-> 2, api_passphrase |-> 3])
       IN  (minted # Refused) <=> (auth = GoodAuth /\ reply # None)

------------------------------------------------------------------------------
(* An order of two units whose acknowledgement was lost (reconcile.py, l2_transport.py, runner.py). *)
(* The truth of it, and what the venue's three surfaces may then say: each may fail, the history   *)
(* may lag or hold an amount that cannot be read, and other orders' trades share the pages. *)
Truths ==
  { t \in [landed : BOOLEAN, matched : 0 .. 2, open : BOOLEAN] :
      (~t.landed => t.matched = 0 /\ ~t.open) /\ (t.matched = 2 => ~t.open) }
Trade(taker, size, makers) == [taker |-> taker, size |-> size, makers |-> makers]
OtherTrade == Trade("other", 2, <<[order_id |-> "third", matched_amount |-> 2]>>)
OurUnreadable == Trade("key", Malformed, <<>>)
OurTrades(n) ==
  {Trade("key", n, <<>>), Trade("other", 2, <<[order_id |-> "third", matched_amount |-> 1], [order_id |-> "key", matched_amount |-> n]>>)}
Histories(t) ==
  {None, <<>>, <<OtherTrade>>}
    \cup UNION { { <<OtherTrade, trade>> : trade \in OurTrades(n) } : n \in 1 .. t.matched }
    \cup IF t.matched = 0 THEN {} ELSE { <<trade, OurUnreadable>> : trade \in OurTrades(t.matched) }
Records(t) ==
  {None} \cup IF ~t.landed THEN {}
              ELSE { [status |-> s, size_matched |-> t.matched, original_size |-> o] : o \in {0, 2},
                       s \in IF t.open THEN {"live"} ELSE IF t.matched > 0 THEN {"matched", "filled", "canceled"}
                             ELSE {"canceled", "expired", "unmatched"} }
Readings(t) ==
  [orders : {None, 0} \cup IF t.open THEN {1} ELSE {}, order : Records(t), fills : Histories(t)]
LostAck == [venue_order_key |-> "key"]
StillAtRisk(t) == t.matched + IF t.open THEN 2 - t.matched ELSE 0

(* reconcile_uncertain_submit: an order that never landed is never called resolved, however       *)
(* silent the venue is, one amount that cannot be read voids the whole history, and nothing the   *)
(* venue can say releases a second submit. While the session is frozen the reserve covers         *)
(* everything the order can cost. *)
ASSUME SilenceProvesNothing ==
  \A t \in Truths : \A reading \in Readings(t) :
    LET verdict == assess_uncertain_submit(LostAck, reading)
        frozen == reconcile_and_freeze(LostAck, reading, 2)
    IN  /\ verdict.state = "RESOLVED" => t.landed
        /\ ~authorize_resubmit_against_venue_truth(LostAck, reading)
        /\ verdict.matched_fill_size <= t.matched
        /\ (reading.fills # None /\ OurUnreadable \in Range(reading.fills)) => verdict.matched_fill_size = 0
        /\ frozen.frozen => frozen.worst_case_exposure >= StillAtRisk(t)
        /\ retry_authorized_while(verdict.state, TRUE) = ~frozen.frozen

(* Once it is resolved the reserve is let go although the order can cost more than the verdict    *)
(* counted: a first partial fill resolves an order whose rest still rests at the venue, and a     *)
(* terminal status resolves one whose fills the history does not show yet. In no other way. *)
ASSUME ResolvedMayUndercount ==
  LET Short(t, reading) ==
        LET verdict == assess_uncertain_submit(LostAck, reading)
        IN  verdict.state = "RESOLVED" /\ verdict.matched_fill_size < StillAtRisk(t)
      Shown(reading) == assess_uncertain_submit(LostAck, reading).matched_fill_size
  IN  /\ \A t \in Truths : \A reading \in Readings(t) :
           Short(t, reading) => \/ t.open /\ Shown(reading) > 0
                                \/ ~t.open /\ Shown(reading) < t.matched
      /\ \E t \in Truths : \E reading \in Readings(t) : Short(t, reading) /\ t.open /\ reading.orders = 1
      /\ \E t \in Truths : \E reading \in Readings(t) :
           Short(t, reading) /\ ~t.open /\ t.matched = 2 /\ Shown(reading) = 0

(* _status_for and honest_venue_status read the same venue and can disagree on the same order:    *)
(* these are all the ways. The first calls a filled order expired when its history cannot be      *)
(* read, though its docstring says a status can never be fabricated (runner.py:2031), calls any   *)
(* partial fill filled, any order the venue closed empty expired, and keeps waiting for one that  *)
(* was never matched or whose history alone is missing. *)
ASSUME StatusesDisagree ==
  { <<_status_for(verdict.state, verdict.matched_fill_size), honest.status>> :
      <<verdict, honest>> \in UNION { { <<assess_uncertain_submit(LostAck, reading), honest_venue_status(reading.order, 2, FALSE)>> :
                                          reading \in Readings(t) } : t \in Truths } }
  = {<<"unresolved", "unresolved">>, <<"unresolved", "rejected">>, <<"unresolved", "partial">>,
     <<"expired", "expired">>, <<"expired", "rejected">>, <<"expired", "filled">>, <<"expired", "partial">>,
     <<"filled", "unresolved">>, <<"filled", "partial">>, <<"filled", "filled">>}

(* submit_with_durable_presubmit: wherever the process stops, an order that reached the venue is  *)
(* found again from the journal, and found frozen with its whole size reserved. *)
ASSUME RestartKeepsTheFreeze ==
  \A stops \in {"before", "persisted", "in the post", "after"}, session \in {"s", "t"} :
    LET done == submit_with_durable_presubmit(<<>>, {}, "s", LostAck, stops)
        found == recover_presubmit_records(done.rows, session)
    IN  /\ (session = "s" /\ "key" \in done.sent) => found = <<LostAck>>
        /\ session = "t" => found = <<>>
        /\ \A i \in DOMAIN found : LET state == reconstruct_uncertain_state(found[i], 2)
                                   IN  state.frozen /\ state.worst_case_exposure = 2

(* reconcile_ack_lost: after a restart only the history is asked, so the join resolves no more    *)
(* than the three surfaces do and with the same size; but one record without a key, or one page   *)
(* that cannot be read, ends it for every record of the session. *)
ASSUME JoinResolvesNoMore ==
  \A t \in Truths : \A reading \in Readings(t) :
    LET joined == reconcile_ack_lost(<<LostAck>>, [key |-> reading.fills])
        verdict == assess_uncertain_submit(LostAck, reading)
        rows == <<[session |-> "s", record |-> LostAck], [session |-> "s", record |-> [venue_order_key |-> NoKey]]>>
    IN  /\ joined.raised <=> reading.fills = None
        /\ ~joined.raised /\ joined.results[1].reconciled_state = "RESOLVED" =>
             verdict.state = "RESOLVED" /\ joined.results[1].reconciled_fill_size = verdict.matched_fill_size
        /\ reconcile_durable_ack_lost(rows, "s", [key |-> reading.fills]) = None
        /\ assess_uncertain_submit([venue_order_key |-> NoKey], reading).state = "AMBIGUOUS"
==============================================================================
