---- MODULE OrderSigning ----
(***************************************************************************)
(* From an admitted order to bytes on the wire, under dust_execution:      *)
(* noncrossing.py, sizing.py, feesnapshot.py, resting_order.py,            *)
(* mode_b_write_port.py, signing_compiler.py, order_commitment.py,         *)
(* privy_control_plane.py, wallet_binding.py, l2_transport.py, signer.py   *)
(* and clobv2_gate.py.                                                     *)
(*                                                                         *)
(* Prices are in ten-thousandths of a dollar, fees in hundred-thousandths, *)
(* sizes in thousandths of a share.  A hash is the value it hashes, a      *)
(* signature [by, digest]; addresses carry no case.                        *)
(***************************************************************************)
EXTENDS Absent, Integers, Sequences, FiniteSets, SequencesExt, FiniteSetsExt, Functions

OneDollar == 10000
VenueTicks == {1000, 100, 10, 1}
HalfEven(x, unit) ==
  LET q == x \div unit
      twice == 2 * (x % unit)
  IN  IF twice < unit \/ (twice = unit /\ q % 2 = 0) THEN q ELSE q + 1
Refused == None

----
(* noncrossing.py: a leg is [token, side, price, kind, uncertain_state]. *)
_validate_tick_size(tick) == tick > 0 /\ 2 * tick <= OneDollar
_round_to_tick(price, tick) == HalfEven(price, tick) * tick
_restable(price, tick) == price % tick = 0 /\ price \in tick .. OneDollar - tick
_leg_is_possibly_live(leg) ==
  leg.kind \in {"proposed", "open"} \/ leg.uncertain_state # "DEFINITIVELY_ABSENT"
check_non_crossing(legs, tick) ==
  LET live == { leg \in legs : _leg_is_possibly_live(leg) }
      Prices(token, side) == { leg.price : leg \in { x \in live : x.token = token /\ x.side = side } }
      Crosses(token) == /\ {} \notin {Prices(token, "BUY"), Prices(token, "SELL")}
                        /\ Max(Prices(token, "BUY")) >= Min(Prices(token, "SELL"))
  IN  IF ~_validate_tick_size(tick) THEN Refused
      ELSE IF \E leg \in legs : ~_restable(leg.price, tick) \/ leg.side \notin {"BUY", "SELL"} THEN Refused
      ELSE IF \E leg \in live : Crosses(leg.token) THEN "REJECT" ELSE "ADMIT"

(* feesnapshot.py: fee_rate in hundredths, so rate * p * (1 - p) is in units of 10^-10. *)
_FEE_MIN == 100000
round5(raw) == IF raw < _FEE_MIN THEN 0 ELSE HalfEven(raw, _FEE_MIN)
taker_fee(snapshot, price) == round5(snapshot.fee_rate * price * (OneDollar - price))
maker_fee(snapshot, price) == IF snapshot.taker_only THEN 0 ELSE taker_fee(snapshot, price)
(* info: None when get_market raises, or a record whose fee_rate is None when it cannot be read. *)
pin_fee_snapshot(info) ==
  IF info = None THEN Refused
  ELSE IF info.fee_rate = None THEN Refused
  ELSE IF info.fee_rate < 0 THEN Refused
  ELSE info

side_to_token(draw_market, side) ==
  IF side = "draw" THEN IF draw_market THEN "YES" ELSE Refused
  ELSE IF side \in {"yes", "over", "home", "away"} THEN "YES"
  ELSE IF side \in {"no", "under"} THEN "NO" ELSE Refused
Opposite(outcome) == IF outcome = "YES" THEN "NO" ELSE "YES"
normalize(order, draw_market, snapshot, tick) ==
  LET token == side_to_token(draw_market, order.side)
      rounded == _round_to_tick(order.price, tick)
      price == IF order.action = "BUY" THEN rounded ELSE OneDollar - rounded
  IN  IF \/ ~_validate_tick_size(tick) \/ order.role \notin {"MAKER", "TAKER"}
         \/ order.action \notin {"BUY", "SELL"} \/ token = Refused \/ ~_restable(price, tick) \/ snapshot = None
      THEN Refused
      ELSE [outcome |-> IF order.action = "BUY" THEN token ELSE Opposite(token), price |-> price,
            size |-> order.size, role |-> order.role,
            fee |-> IF order.role = "MAKER" THEN maker_fee(snapshot, price) ELSE taker_fee(snapshot, price)]

_validate_lock_leg(leg, expected) ==
  leg.outcome = expected /\ leg.fee # None /\ leg.price \in 0 .. OneDollar /\ leg.size >= 0
SliceCost(yes, no) == 10 * (yes.price + no.price) + yes.fee + no.fee
(* Shares paired before rung i when the ladder is walked from its dearest price. *)
PairedBefore(ladder, i) ==
  MapThenSumSet(LAMBDA j : ladder[j].size,
                { j \in DOMAIN ladder : ladder[j].price > ladder[i].price
                                          \/ (ladder[j].price = ladder[i].price /\ j < i) })
Meet(yes, i, no, j) ==
  Max({PairedBefore(yes, i), PairedBefore(no, j)})
    < Min({PairedBefore(yes, i) + yes[i].size, PairedBefore(no, j) + no[j].size})
complementary_lock_check(yes, no) ==
  IF \/ \E i \in DOMAIN yes : ~_validate_lock_leg(yes[i], "YES")
     \/ \E j \in DOMAIN no : ~_validate_lock_leg(no[j], "NO") THEN Refused
  ELSE IF \E i \in DOMAIN yes, j \in DOMAIN no :
            Meet(yes, i, no, j) /\ SliceCost(yes[i], no[j]) >= 10 * OneDollar THEN "REJECT"
  ELSE "ADMIT"

----
(* sizing.py (the fraction in hundredths) and resting_order.py. *)
resolve_dust_size(fixed_fraction, equity, max_notional, max_per_order) ==
  IF \E x \in {fixed_fraction, equity, max_notional, max_per_order} : x < 0 THEN Refused
  ELSE Min({fixed_fraction * equity, 100 * max_notional, 100 * max_per_order})
RestingOrder(o) ==
  IF /\ o.size > 0 /\ o.tick > 0 /\ o.client_order_id # None
     /\ o.native_price \in 1 .. OneDollar - 1 /\ o.native_price % o.tick = 0
     /\ (o.tif = "GTD") = (o.gtd_expiration_ts # None)
     /\ (o.tif = "GTD" => o.gtd_expiration_ts > 0)
  THEN o ELSE Refused
signed_amount(o) == IF o.side = "BUY" THEN o.size ELSE -o.size

(* mode_b_write_port.py.  The amounts are computed in floating point: where the exact value lies on
   a boundary the float may fall to either side of it, so the result is a set.  The correction of
   raw amounts with too many decimals only removes that noise. *)
_round_down(size, unit) == {size \div unit} \cup { size \div unit - 1 : x \in { y \in {size} : y > 0 /\ y % unit = 0 } }
_round_normal(price, tick) ==
  { HalfEven(price, tick) * tick }
    \cup { (price \div tick + k) * tick : k \in { y \in 0 .. 1 : 2 * (price % tick) = tick } }
resolve_order_amounts(side, size, price, tick) ==
  IF tick \notin VenueTicks \/ side \notin {"BUY", "SELL"} THEN {}
  ELSE { IF side = "BUY" THEN [maker |-> cents * p, taker |-> cents * OneDollar]
         ELSE [maker |-> cents * OneDollar, taker |-> cents * p] :
           cents \in _round_down(size, 10), p \in _round_normal(price, tick) }

----
(* signing_compiler.py *)
_ORDER_TYPES == {"GTC", "GTD", "FOK", "FAK"}
_RESTING_ORDER_TYPES == {"GTC", "GTD"}
_SUPPORTED_SIGNATURE_TYPE == 0
_SIGNED_ORDER_FIELDS ==
  {"salt", "maker", "signer", "tokenId", "makerAmount", "takerAmount", "side", "signatureType", "timestamp",
   "metadata", "builder"}
VerifyingContract(neg_risk) == IF neg_risk THEN "neg-risk exchange" ELSE "standard exchange"
order_hash_from_typed_data(typed) == [domain |-> typed.domain, message |-> typed.message]

_TOPLEVEL_REQUIRED == {"order", "owner", "orderType", "deferExec", "postOnly"}
_ORDER_REQUIRED == _SIGNED_ORDER_FIELDS \cup {"expiration"}
_ORDER_ALLOWED == _ORDER_REQUIRED \cup {"signature"}
_enforce_exact_set(body) ==
  /\ DOMAIN body = _TOPLEVEL_REQUIRED
  /\ _ORDER_REQUIRED \subseteq DOMAIN body.order /\ DOMAIN body.order \subseteq _ORDER_ALLOWED
integrity_commitment_over(body) ==
  IF ~_enforce_exact_set(body) THEN None
  ELSE [order |-> Restrict(body.order, _ORDER_REQUIRED), wrapper |-> Restrict(body, _TOPLEVEL_REQUIRED \ {"order"})]

AdmittedPostRoundingIntent(intent) == intent.native_price \in 0 .. OneDollar /\ intent.tif \in _ORDER_TYPES
compile(intent, market, binding) ==
  LET signer == IF binding.signer = None THEN binding.maker ELSE binding.signer
      message == [salt |-> binding.salt, maker |-> binding.maker, signer |-> signer, tokenId |-> market.token_id,
                  makerAmount |-> intent.maker_amount, takerAmount |-> intent.taker_amount,
                  side |-> IF intent.side = "BUY" THEN 0 ELSE 1,
                  signatureType |-> binding.signature_type, timestamp |-> binding.timestamp,
                  metadata |-> 0, builder |-> 0]
      typed == [primaryType |-> "Order", domain |-> VerifyingContract(market.neg_risk), message |-> message]
      order == [field \in _ORDER_REQUIRED |-> CASE field = "side" -> intent.side
                                                [] field = "expiration" -> intent.expiration
                                                [] OTHER -> message[field]]
      body == [order |-> order,
               owner |-> binding.owner, orderType |-> intent.tif, postOnly |-> intent.post_only,
               deferExec |-> intent.defer_exec]
  IN  IF \/ ~AdmittedPostRoundingIntent(intent) \/ binding.signature_type # _SUPPORTED_SIGNATURE_TYPE
         \/ (intent.post_only /\ intent.tif \notin _RESTING_ORDER_TYPES) THEN Refused
      ELSE [typed_data |-> typed, eip712_digest |-> order_hash_from_typed_data(typed), post_body |-> body,
            integrity_commitment_hash |-> integrity_commitment_over(body),
            venue_order_key |-> order_hash_from_typed_data(typed)]

----
(* order_commitment.py *)
from_payload(compiled) ==
  LET digest == integrity_commitment_over(compiled.post_body)
  IN  IF digest = None \/ digest # compiled.integrity_commitment_hash THEN Refused ELSE digest
verify_post_body_against_commitment(body, commitment) == integrity_commitment_over(body) = commitment
build_presubmit_record(compiled) ==
  [integrity_commitment_hash |-> compiled.integrity_commitment_hash, venue_order_key |-> compiled.venue_order_key]

----
(* wallet_binding.py and privy_control_plane.py: a policy is [rules, default_action, owner_type],
   a rule <<method, primary type, effect>>; its content leaves the owner out. *)
ALLOWED_SIGN_METHOD == "eth_signTypedData_v4"
TYPED_DATA_ONLY ==
  [rules |-> {<<ALLOWED_SIGN_METHOD, "Order", "ALLOW">>, <<ALLOWED_SIGN_METHOD, "ClobAuth", "ALLOW">>,
              <<"secp256k1_sign", "*", "DENY">>, <<"eth_sendTransaction", "*", "DENY">>},
   default_action |-> "DENY", owner_type |-> "quorum"]
PolicyContent(policy) == <<policy.default_action, policy.rules>>
QuorumContent(quorum) == <<quorum.threshold, quorum.keys>>
is_typed_data_only_default_deny(policy) ==
  /\ policy.default_action = "DENY"
  /\ { <<r[1], r[2]>> : r \in { x \in policy.rules : x[3] = "ALLOW" } }
       = { <<ALLOWED_SIGN_METHOD, type>> : type \in {"Order", "ClobAuth"} }
arm_mode_b(binding, live_policy, live_quorum) ==
  /\ live_policy # None /\ live_quorum # None
  /\ binding.chain_id = "eip155:137"
  /\ PolicyContent(live_policy) = binding.policy_content
  /\ is_typed_data_only_default_deny(live_policy) /\ live_policy.owner_type = "quorum"
  /\ live_quorum.ref = binding.quorum_ref /\ QuorumContent(live_quorum) = binding.quorum_content
  /\ binding.quorum_threshold = live_quorum.threshold
execute_with(pinned_binding_hash, live_binding) == pinned_binding_hash = live_binding

(* auth: [request_expiry_ms, quorum_signatures, quorum_threshold, idempotency_key]. *)
_validate_auth(auth, pinned_threshold, now) ==
  /\ auth.request_expiry_ms > now /\ pinned_threshold >= 1 /\ auth.quorum_threshold = pinned_threshold
  /\ Cardinality(ToSet(auth.quorum_signatures)) >= pinned_threshold /\ auth.idempotency_key # None
recover_signer_address(digest, signature) == IF signature.digest = digest THEN signature.by ELSE "another address"
(* reply: the provider's signature; None when it raises or answers without one. *)
SignedBy(claimed, digest, binding, auth, now, reply) ==
  IF \/ ~_validate_auth(auth, binding.quorum_threshold, now) \/ claimed # binding.wallet_address \/ reply = None
     \/ recover_signer_address(digest, reply) # binding.wallet_address
  THEN Refused ELSE reply
sign_typed_data(compiled, binding, auth, now, reply) ==
  LET digest == order_hash_from_typed_data(compiled.typed_data)
  IN  IF compiled.typed_data.primaryType # "Order" \/ digest # compiled.eip712_digest THEN Refused
      ELSE SignedBy(compiled.typed_data.message.signer, digest, binding, auth, now, reply)
build_clob_auth_typed_data(address, timestamp, nonce) ==
  [primaryType |-> "ClobAuth", message |-> [address |-> address, timestamp |-> timestamp, nonce |-> nonce]]
sign_clob_auth(typed, binding, auth, now, reply) ==
  IF typed.primaryType # "ClobAuth" THEN Refused
  ELSE SignedBy(typed.message.address, typed.message, binding, auth, now, reply)
(* creds: the fields the venue's auth client returns. *)
mint_l2_credentials(binding, auth, now, reply, timestamp, nonce, creds) ==
  LET typed == build_clob_auth_typed_data(binding.wallet_address, timestamp, nonce)
  IN  IF \/ sign_clob_auth(typed, binding, auth, now, reply) = Refused
         \/ ~({"api_key", "api_secret", "api_passphrase"} \subseteq DOMAIN creds) THEN Refused
      ELSE [creds |-> creds, derivation_ref |-> <<binding.wallet_ref, nonce>>]
mint_wallet(minted, key, wallet) == IF key = None THEN Refused ELSE IF key \in DOMAIN minted THEN minted ELSE (key :> wallet) @@ minted

----
(* l2_transport.py: [store, posted]; a refusal leaves posted None. *)
WithSignature(order, signature) ==
  [field \in DOMAIN order \cup {"signature"} |-> IF field = "signature" THEN signature ELSE order[field]]
submit_live_order(store, compiled, binding, auth, now, reply) ==
  LET commitment == from_payload(compiled)
      persisted == Append(store, build_presubmit_record(compiled))
      signature == sign_typed_data(compiled, binding, auth, now, reply)
      body == [compiled.post_body EXCEPT !.order = WithSignature(@, signature)]
  IN  IF commitment = Refused \/ compiled.venue_order_key = compiled.integrity_commitment_hash
      THEN [store |-> store, posted |-> None]
      ELSE IF signature = Refused \/ ~verify_post_body_against_commitment(body, commitment)
      THEN [store |-> persisted, posted |-> None]
      ELSE [store |-> persisted, posted |-> body]

(* The port: one counter of salts an instance, the clock in seconds. *)
NewPort(owner) == [owner |-> owner, salts |-> 0]
PortOrder(port, order, amounts, binding, now_s) ==
  compile([side |-> order.side, maker_amount |-> amounts.maker, taker_amount |-> amounts.taker,
           native_price |-> order.native_price, tif |-> order.tif, post_only |-> order.post_only,
           defer_exec |-> FALSE, expiration |-> order.expiration],
          [token_id |-> order.token_id, neg_risk |-> order.neg_risk],
          [salt |-> port.salts + 1, maker |-> binding.wallet_address, owner |-> port.owner, timestamp |-> now_s,
           signer |-> binding.wallet_address, signature_type |-> _SUPPORTED_SIGNATURE_TYPE])
submit_order(port, store, order, amounts, binding, auth, now_s, reply) ==
  LET compiled == PortOrder(port, order, amounts, binding, now_s)
      done == submit_live_order(store, compiled, binding, auth, 1000 * now_s, reply)
  IN  [port |-> IF AdmittedPostRoundingIntent(order) THEN [port EXCEPT !.salts = @ + 1] ELSE port,
       store |-> IF compiled = Refused THEN store ELSE done.store,
       posted |-> IF compiled = Refused THEN None ELSE done.posted]
_ack_fields_from_submit_result(response) ==
  [venue_order_id |-> response.order_id,
   accepted |-> IF response.success = None THEN response.order_id # None ELSE response.success]

----
(* signer.py *)
require_armed(inputs) == inputs.write_enabled /\ ~inputs.dry_run /\ inputs.write_client # None
SeamSubmit(inputs, signer_answers) ==
  [signed |-> require_armed(inputs) /\ signer_answers, sent |-> require_armed(inputs) /\ signer_answers]

----
(* clobv2_gate.py: keys that start with an underscore are commentary. *)
_exact_set(obj, required, optional) ==
  LET keys == DOMAIN obj \ {"_comment"}
  IN  required \subseteq keys /\ keys \subseteq required \cup optional
validate_signed_order(typed) ==
  /\ typed.domain \in { VerifyingContract(neg_risk) : neg_risk \in BOOLEAN }
  /\ _exact_set(typed.message, _SIGNED_ORDER_FIELDS, {}) /\ typed.message.signatureType = _SUPPORTED_SIGNATURE_TYPE
validate_sendorder_fixture(body) ==
  LET Get(key, default) == IF key \in DOMAIN body THEN body[key] ELSE default
  IN  /\ _exact_set(body, {"order", "owner"}, {"orderType", "deferExec", "postOnly"})
      /\ Get("orderType", "GTC") \in _ORDER_TYPES
      /\ Get("postOnly", FALSE) => Get("orderType", "GTC") \in _RESTING_ORDER_TYPES
      /\ _exact_set(body.order, _ORDER_ALLOWED \ {"metadata"}, {"metadata"})
      /\ body.order.signatureType = _SUPPORTED_SIGNATURE_TYPE /\ body.order.side \in {"BUY", "SELL"}
(* A missing response proves nothing; otherwise its parts are there or not. *)
validate_cancel_response(response) == response # None /\ response = {"canceled", "not_canceled"}
validate_get_orders_page(page) ==
  page # None /\ {"count", "next_cursor"} \subseteq page /\ page \cap {"data", "orders"} # {} /\ "bad order" \notin page
operator_production_smoke(operator_ran, operator_result) == IF operator_ran THEN operator_result ELSE None
evaluate_clobv2_gate(version, bodies, typed, cancel, page, smoke) ==
  /\ version = 2 /\ \A b \in bodies : validate_sendorder_fixture(b) /\ \A t \in typed : validate_signed_order(t)
  /\ validate_cancel_response(cancel) /\ validate_get_orders_page(page) /\ smoke = TRUE
====
