---- MODULE OrderSigningProofs ----
(***************************************************************************)
(* Theorems about the pure steps between an admitted order and the venue:  *)
(* compile, sign and post (OrderSigning), what an uncertain submit may be  *)
(* resolved to (SubmitReconcile) and what may arm real money (RiskArming), *)
(* for every order, binding, reply, reading, ledger and interlock.  A      *)
(* digest is the value it is taken of, so two digests are equal only when  *)
(* what they are taken of is: the theorems rest on the hash functions      *)
(* being free of collisions.                                               *)
(***************************************************************************)
EXTENDS OrderSigning, SubmitReconcile, RiskArming, TLAPS, FiniteSetTheorems

\* What compile gives: the typed data and the body of one order, the body with the signed values,
\* the digest of the typed data as its join key and the commitment over the body.
CompilerKeeps(intent, market, binding, compiled) ==
  /\ AdmittedPostRoundingIntent(intent)
  /\ binding.signature_type = _SUPPORTED_SIGNATURE_TYPE
  /\ intent.post_only => intent.tif \in _RESTING_ORDER_TYPES
  /\ DOMAIN compiled.post_body = _TOPLEVEL_REQUIRED /\ DOMAIN compiled.post_body.order = _ORDER_REQUIRED
  /\ compiled.typed_data.primaryType = "Order"
  /\ compiled.typed_data.domain = VerifyingContract(market.neg_risk)
  /\ compiled.typed_data.message =
       [salt |-> binding.salt, maker |-> binding.maker,
        signer |-> IF binding.signer = None THEN binding.maker ELSE binding.signer,
        tokenId |-> market.token_id, makerAmount |-> intent.maker_amount, takerAmount |-> intent.taker_amount,
        side |-> IF intent.side = "BUY" THEN 0 ELSE 1,
        signatureType |-> binding.signature_type, timestamp |-> binding.timestamp, metadata |-> 0, builder |-> 0]
  /\ \A field \in _SIGNED_ORDER_FIELDS \ {"side"} :
       compiled.post_body.order[field] = compiled.typed_data.message[field]
  /\ compiled.post_body.order.side = intent.side
  /\ compiled.post_body.order.expiration = intent.expiration
  /\ compiled.post_body.owner = binding.owner
  /\ compiled.post_body.orderType = intent.tif
  /\ compiled.post_body.postOnly = intent.post_only
  /\ compiled.integrity_commitment_hash = integrity_commitment_over(compiled.post_body)
  /\ compiled.eip712_digest = order_hash_from_typed_data(compiled.typed_data)
  /\ compiled.venue_order_key = order_hash_from_typed_data(compiled.typed_data)

\* Lemma: what compile (signing_compiler.py) gives of an intent it does not refuse, field by field.
LEMMA CompiledFields ==
    ASSUME NEW intent, NEW market, NEW binding, compile(intent, market, binding) # Refused
    PROVE  CompilerKeeps(intent, market, binding, compile(intent, market, binding))
<1> DEFINE signer == IF binding.signer = None THEN binding.maker ELSE binding.signer
           message == [salt |-> binding.salt, maker |-> binding.maker, signer |-> signer, tokenId |-> market.token_id,
                       makerAmount |-> intent.maker_amount, takerAmount |-> intent.taker_amount,
                       side |-> IF intent.side = "BUY" THEN 0 ELSE 1,
                       signatureType |-> binding.signature_type, timestamp |-> binding.timestamp,
                       metadata |-> 0, builder |-> 0]
           order == [field \in _ORDER_REQUIRED |-> CASE field = "side" -> intent.side
                                                     [] field = "expiration" -> intent.expiration
                                                     [] OTHER -> message[field]]
           typed == [primaryType |-> "Order", domain |-> VerifyingContract(market.neg_risk), message |-> message]
           body == [order |-> order, owner |-> binding.owner, orderType |-> intent.tif, postOnly |-> intent.post_only,
                    deferExec |-> intent.defer_exec]
           compiled == compile(intent, market, binding)
<1>1. /\ AdmittedPostRoundingIntent(intent)
      /\ binding.signature_type = _SUPPORTED_SIGNATURE_TYPE
      /\ intent.post_only => intent.tif \in _RESTING_ORDER_TYPES
      /\ compiled = [typed_data |-> typed, eip712_digest |-> order_hash_from_typed_data(typed), post_body |-> body,
                     integrity_commitment_hash |-> integrity_commitment_over(body),
                     venue_order_key |-> order_hash_from_typed_data(typed)]
  <2> HIDE DEF Refused
  <2> QED BY DEF compile
<1>2. /\ DOMAIN order = _ORDER_REQUIRED /\ order.side = intent.side /\ order.expiration = intent.expiration
      /\ \A field \in _SIGNED_ORDER_FIELDS \ {"side"} : order[field] = message[field]
  <2> HIDE DEF message
  <2>1. "side" \in _ORDER_REQUIRED /\ "expiration" \in _ORDER_REQUIRED
    BY DEF _ORDER_REQUIRED, _SIGNED_ORDER_FIELDS
  <2>2. \A field \in _SIGNED_ORDER_FIELDS \ {"side"} :
          field \in _ORDER_REQUIRED /\ field # "side" /\ field # "expiration"
    BY DEF _ORDER_REQUIRED, _SIGNED_ORDER_FIELDS
  <2> QED BY <2>1, <2>2
<1> HIDE DEF message, order, compiled
<1>3. DOMAIN body = _TOPLEVEL_REQUIRED
  BY DEF _TOPLEVEL_REQUIRED
<1>4. compiled.post_body = body /\ compiled.typed_data = typed
  BY <1>1
<1>5. compiled.typed_data.message = message
  BY <1>4
<1>6. CompilerKeeps(intent, market, binding, compiled)
  BY <1>1, <1>2, <1>3, <1>4, <1>5 DEF message, CompilerKeeps
<1> QED BY <1>6 DEF compiled

\* An order is posted only as it was committed to and signed, after its record.
PostedAsCommitted(store, compiled, binding, auth, now, reply, done) ==
  /\ done.store = Append(store, build_presubmit_record(compiled))
  /\ done.posted = [compiled.post_body EXCEPT !.order = WithSignature(@, reply)]
  /\ compiled.integrity_commitment_hash = integrity_commitment_over(compiled.post_body)
  /\ integrity_commitment_over(done.posted) = compiled.integrity_commitment_hash
  /\ compiled.integrity_commitment_hash # None
  /\ compiled.venue_order_key # compiled.integrity_commitment_hash
  /\ compiled.typed_data.primaryType = "Order"
  /\ compiled.eip712_digest = order_hash_from_typed_data(compiled.typed_data)
  /\ compiled.typed_data.message.signer = binding.wallet_address
  /\ reply # None
  /\ reply.digest = order_hash_from_typed_data(compiled.typed_data) /\ reply.by = binding.wallet_address
  /\ _validate_auth(auth, binding.quorum_threshold, now)

\* Lemma: a post of submit_live_order (l2_transport.py) has passed every check that comes before it.
LEMMA PostedFacts ==
    ASSUME NEW store, NEW compiled, NEW binding, NEW auth, NEW now, NEW reply,
           binding.wallet_address # "another address",
           submit_live_order(store, compiled, binding, auth, now, reply).posted # None
    PROVE  PostedAsCommitted(store, compiled, binding, auth, now, reply,
                             submit_live_order(store, compiled, binding, auth, now, reply))
<1> DEFINE commitment == from_payload(compiled)
           signature == sign_typed_data(compiled, binding, auth, now, reply)
           Body(by) == [compiled.post_body EXCEPT !.order = WithSignature(@, by)]
           kept == Append(store, build_presubmit_record(compiled))
           done == submit_live_order(store, compiled, binding, auth, now, reply)
<1>1. /\ commitment # None /\ compiled.venue_order_key # compiled.integrity_commitment_hash
      /\ signature # None /\ integrity_commitment_over(Body(signature)) = commitment
      /\ done.store = kept /\ done.posted = Body(signature)
  <2> HIDE DEF commitment, signature, kept
  <2> QED BY DEF submit_live_order, Refused, verify_post_body_against_commitment, commitment, signature, kept
<1>2. commitment = compiled.integrity_commitment_hash /\ commitment = integrity_commitment_over(compiled.post_body)
  BY <1>1 DEF from_payload, Refused
<1>3. /\ compiled.typed_data.primaryType = "Order"
      /\ compiled.eip712_digest = order_hash_from_typed_data(compiled.typed_data)
      /\ signature = SignedBy(compiled.typed_data.message.signer, order_hash_from_typed_data(compiled.typed_data),
                              binding, auth, now, reply)
  BY <1>1 DEF sign_typed_data, Refused
<1>4. /\ signature = reply /\ _validate_auth(auth, binding.quorum_threshold, now)
      /\ compiled.typed_data.message.signer = binding.wallet_address
      /\ recover_signer_address(order_hash_from_typed_data(compiled.typed_data), reply) = binding.wallet_address
  BY <1>1, <1>3 DEF SignedBy, Refused
<1>5. /\ reply.digest = order_hash_from_typed_data(compiled.typed_data) /\ reply.by = binding.wallet_address
  BY <1>4 DEF recover_signer_address
<1> HIDE DEF commitment, signature, Body, kept, done
<1>6. /\ integrity_commitment_over(done.posted) = commitment /\ done.posted = Body(reply)
  BY <1>1, <1>4
<1>7. /\ done.store = kept /\ done.posted = [compiled.post_body EXCEPT !.order = WithSignature(@, reply)]
      /\ integrity_commitment_over(done.posted) = compiled.integrity_commitment_hash
  BY <1>1, <1>2, <1>6 DEF Body
<1>8. PostedAsCommitted(store, compiled, binding, auth, now, reply, done)
  BY <1>1, <1>2, <1>3, <1>4, <1>5, <1>7, Zenon DEF PostedAsCommitted, kept
<1> QED BY <1>8 DEF done

\* Two bodies that say the same, but for a signature.
SayTheSame(body, other) ==
  /\ \A field \in _ORDER_REQUIRED : body.order[field] = other.order[field]
  /\ \A field \in _TOPLEVEL_REQUIRED \ {"order"} : body[field] = other[field]
  /\ DOMAIN body = _TOPLEVEL_REQUIRED /\ DOMAIN body.order \subseteq _ORDER_ALLOWED

\* Lemma: two bodies with the same commitment (integrity_commitment_over) send the same order.
LEMMA CommitmentSeesAll ==
    ASSUME NEW body, NEW other, integrity_commitment_over(body) # None,
           integrity_commitment_over(body) = integrity_commitment_over(other)
    PROVE  SayTheSame(body, other)
<1> DEFINE O(b) == Restrict(b.order, _ORDER_REQUIRED)
           W(b) == Restrict(b, _TOPLEVEL_REQUIRED \ {"order"})
<1>1. _enforce_exact_set(body) /\ _enforce_exact_set(other)
  BY DEF integrity_commitment_over
<1>2. [order |-> O(body), wrapper |-> W(body)] = [order |-> O(other), wrapper |-> W(other)]
  BY <1>1 DEF integrity_commitment_over
<1>3. O(body) = O(other) /\ W(body) = W(other)
  <2> HIDE DEF O, W
  <2> QED BY <1>2
<1>4. \A field \in _ORDER_REQUIRED : O(body)[field] = body.order[field] /\ O(other)[field] = other.order[field]
  BY DEF Restrict
<1>5. \A field \in _TOPLEVEL_REQUIRED \ {"order"} : W(body)[field] = body[field] /\ W(other)[field] = other[field]
  BY DEF Restrict
<1>6. DOMAIN body = _TOPLEVEL_REQUIRED /\ DOMAIN body.order \subseteq _ORDER_ALLOWED
  BY <1>1 DEF _enforce_exact_set
<1> HIDE DEF O, W
<1> QED BY <1>3, <1>4, <1>5, <1>6 DEF SayTheSame

\* What is true of a post: it is what was committed to and signed, field by field.
PostIsSound(store, compiled, binding, auth, now, reply, done) ==
  /\ PostedAsCommitted(store, compiled, binding, auth, now, reply, done)
  /\ SayTheSame(done.posted, compiled.post_body)
  /\ done.posted.order.signature = reply

\* Theorem: what submit_live_order posts is, field by field, the body that was compiled and committed to, with the
\* reply as its signature; the reply is by the bound wallet over the digest of the typed data, the approval was valid,
\* and the record of the order was in the store before the post: a submit that gets lost can always be looked up.
THEOREM PostedIsCommitted ==
    ASSUME NEW store, NEW compiled, NEW binding, NEW auth, NEW now, NEW reply,
           binding.wallet_address # "another address",
           submit_live_order(store, compiled, binding, auth, now, reply).posted # None
    PROVE  PostIsSound(store, compiled, binding, auth, now, reply,
                       submit_live_order(store, compiled, binding, auth, now, reply))
<1> DEFINE done == submit_live_order(store, compiled, binding, auth, now, reply)
<1>1. PostedAsCommitted(store, compiled, binding, auth, now, reply, done)
  BY PostedFacts
<1> HIDE DEF done
<1>2. /\ done.posted = [compiled.post_body EXCEPT !.order = WithSignature(@, reply)]
      /\ integrity_commitment_over(done.posted) # None
      /\ integrity_commitment_over(done.posted) = integrity_commitment_over(compiled.post_body)
  BY <1>1 DEF PostedAsCommitted
<1>3. SayTheSame(done.posted, compiled.post_body)
  <2> DEFINE sent == done.posted
             asked == compiled.post_body
  <2>1. integrity_commitment_over(sent) # None /\ integrity_commitment_over(sent) = integrity_commitment_over(asked)
    BY <1>2
  <2> HIDE DEF sent, asked
  <2>2. SayTheSame(sent, asked)
    BY <2>1, CommitmentSeesAll, Zenon
  <2> QED BY <2>2 DEF sent, asked
<1>4. "order" \in DOMAIN done.posted
  BY <1>3 DEF SayTheSame, _TOPLEVEL_REQUIRED
<1>5. done.posted.order = WithSignature(compiled.post_body.order, reply)
  BY <1>2, <1>4
<1>6. done.posted.order.signature = reply
  BY <1>5 DEF WithSignature
<1>7. PostIsSound(store, compiled, binding, auth, now, reply, done)
  BY <1>1, <1>3, <1>6 DEF PostIsSound
<1> QED BY <1>7 DEF done

\* Theorem: with an approval that is not valid, no reply, a reply by another wallet or over another digest, or a body
\* that is not the one committed to, submit_live_order posts nothing and leaves at most the record of the order.
THEOREM RefusedIsNotPosted ==
    ASSUME NEW store, NEW compiled, NEW binding, NEW auth, NEW now, NEW reply,
           \/ ~_validate_auth(auth, binding.quorum_threshold, now)
           \/ reply = None \/ reply.by # binding.wallet_address
           \/ reply.digest # order_hash_from_typed_data(compiled.typed_data)
           \/ integrity_commitment_over(compiled.post_body) = None
           \/ integrity_commitment_over(compiled.post_body) # compiled.integrity_commitment_hash,
           binding.wallet_address # "another address"
    PROVE  /\ submit_live_order(store, compiled, binding, auth, now, reply).posted = None
           /\ submit_live_order(store, compiled, binding, auth, now, reply).store
                \in {store, Append(store, build_presubmit_record(compiled))}
<1>1. submit_live_order(store, compiled, binding, auth, now, reply).posted = None
  <2> SUFFICES ASSUME submit_live_order(store, compiled, binding, auth, now, reply).posted # None
               PROVE  FALSE
    OBVIOUS
  <2>1. PostedAsCommitted(store, compiled, binding, auth, now, reply,
                          submit_live_order(store, compiled, binding, auth, now, reply))
    BY PostedFacts
  <2> QED BY <2>1 DEF PostedAsCommitted
<1>2. submit_live_order(store, compiled, binding, auth, now, reply).store
        \in {store, Append(store, build_presubmit_record(compiled))}
  <2> DEFINE kept == Append(store, build_presubmit_record(compiled))
             commitment == from_payload(compiled)
             signature == sign_typed_data(compiled, binding, auth, now, reply)
  <2> SUFFICES submit_live_order(store, compiled, binding, auth, now, reply).store \in {store, kept}
    OBVIOUS
  <2> HIDE DEF kept, commitment, signature
  <2> QED BY DEF submit_live_order, kept, commitment, signature
<1> QED BY <1>1, <1>2

\* An order the desk admitted, as the venue gets it and as the wallet signed it.
AsOrdered(port, order, amounts, binding, now_s, posted, signature) ==
  /\ order.native_price \in 0 .. OneDollar /\ order.tif \in _ORDER_TYPES
  /\ order.post_only => order.tif \in _RESTING_ORDER_TYPES
  /\ posted.order.tokenId = order.token_id /\ posted.order.side = order.side
  /\ posted.order.makerAmount = amounts.maker /\ posted.order.takerAmount = amounts.taker
  /\ posted.order.expiration = order.expiration /\ posted.order.salt = port.salts + 1
  /\ posted.order.maker = binding.wallet_address /\ posted.order.signer = binding.wallet_address
  /\ posted.order.timestamp = now_s
  /\ posted.orderType = order.tif /\ posted.postOnly = order.post_only /\ posted.owner = port.owner
  /\ posted.order.signature = signature /\ signature.by = binding.wallet_address
  /\ signature.digest.domain = VerifyingContract(order.neg_risk)
  /\ \A field \in _SIGNED_ORDER_FIELDS \ {"side"} : signature.digest.message[field] = posted.order[field]
  /\ signature.digest.message.side = IF order.side = "BUY" THEN 0 ELSE 1

\* What the port has compiled of it.
PortKeeps(port, order, amounts, binding, now_s, c) ==
  /\ order.native_price \in 0 .. OneDollar /\ order.tif \in _ORDER_TYPES
  /\ order.post_only => order.tif \in _RESTING_ORDER_TYPES
  /\ \A field \in _SIGNED_ORDER_FIELDS \ {"side"} : c.post_body.order[field] = c.typed_data.message[field]
  /\ c.typed_data.message =
       [salt |-> port.salts + 1, maker |-> binding.wallet_address, signer |-> binding.wallet_address,
        tokenId |-> order.token_id, makerAmount |-> amounts.maker, takerAmount |-> amounts.taker,
        side |-> IF order.side = "BUY" THEN 0 ELSE 1,
        signatureType |-> _SUPPORTED_SIGNATURE_TYPE, timestamp |-> now_s, metadata |-> 0, builder |-> 0]
  /\ c.typed_data.domain = VerifyingContract(order.neg_risk)
  /\ c.post_body.order.side = order.side /\ c.post_body.order.expiration = order.expiration
  /\ c.post_body.owner = port.owner /\ c.post_body.orderType = order.tif
  /\ c.post_body.postOnly = order.post_only
  /\ c.venue_order_key = order_hash_from_typed_data(c.typed_data)

\* Lemma: the digest of typed data is over its domain and its message.
LEMMA HashFields ==
    ASSUME NEW typed
    PROVE  /\ order_hash_from_typed_data(typed).message = typed.message
           /\ order_hash_from_typed_data(typed).domain = typed.domain
  BY DEF order_hash_from_typed_data

\* Lemma: the message the port has signed, field by field.
LEMMA MessageFields ==
    ASSUME NEW port, NEW order, NEW amounts, NEW binding, NEW now_s, NEW c,
           PortKeeps(port, order, amounts, binding, now_s, c)
    PROVE  /\ c.typed_data.message.tokenId = order.token_id /\ c.typed_data.message.makerAmount = amounts.maker
           /\ c.typed_data.message.takerAmount = amounts.taker /\ c.typed_data.message.salt = port.salts + 1
           /\ c.typed_data.message.maker = binding.wallet_address
           /\ c.typed_data.message.signer = binding.wallet_address /\ c.typed_data.message.timestamp = now_s
           /\ c.typed_data.message.side = IF order.side = "BUY" THEN 0 ELSE 1
  BY DEF PortKeeps

\* Lemma: what the port (mode_b_write_port.py) has compiled of an order, in the words of the order.
LEMMA PortFields ==
    ASSUME NEW port, NEW order, NEW amounts, NEW binding, NEW now_s,
           PortOrder(port, order, amounts, binding, now_s) # None
    PROVE  PortKeeps(port, order, amounts, binding, now_s, PortOrder(port, order, amounts, binding, now_s))
<1> DEFINE intent == [side |-> order.side, maker_amount |-> amounts.maker, taker_amount |-> amounts.taker,
                      native_price |-> order.native_price, tif |-> order.tif, post_only |-> order.post_only,
                      defer_exec |-> FALSE, expiration |-> order.expiration]
           market == [token_id |-> order.token_id, neg_risk |-> order.neg_risk]
           signing == [salt |-> port.salts + 1, maker |-> binding.wallet_address, owner |-> port.owner,
                       timestamp |-> now_s, signer |-> binding.wallet_address,
                       signature_type |-> _SUPPORTED_SIGNATURE_TYPE]
           c == PortOrder(port, order, amounts, binding, now_s)
<1>1. c = compile(intent, market, signing)
  BY DEF PortOrder
<1>2. /\ intent.side = order.side /\ intent.maker_amount = amounts.maker /\ intent.taker_amount = amounts.taker
      /\ intent.native_price = order.native_price /\ intent.tif = order.tif /\ intent.post_only = order.post_only
      /\ intent.expiration = order.expiration
  OBVIOUS
<1>3. market.token_id = order.token_id /\ market.neg_risk = order.neg_risk
  OBVIOUS
<1>4. /\ signing.salt = port.salts + 1 /\ signing.maker = binding.wallet_address
      /\ signing.owner = port.owner /\ signing.timestamp = now_s /\ signing.signer = binding.wallet_address
      /\ signing.signature_type = _SUPPORTED_SIGNATURE_TYPE
  OBVIOUS
<1>5. c # None
  OBVIOUS
<1> HIDE DEF intent, market, signing, c
<1>6. CompilerKeeps(intent, market, signing, c)
  BY <1>1, <1>5, CompiledFields DEF Refused
<1>7. /\ order.native_price \in 0 .. OneDollar /\ order.tif \in _ORDER_TYPES
      /\ order.post_only => order.tif \in _RESTING_ORDER_TYPES
      /\ \A field \in _SIGNED_ORDER_FIELDS \ {"side"} : c.post_body.order[field] = c.typed_data.message[field]
      /\ c.typed_data.domain = VerifyingContract(order.neg_risk)
      /\ c.post_body.order.side = order.side /\ c.post_body.order.expiration = order.expiration
      /\ c.post_body.owner = port.owner /\ c.post_body.orderType = order.tif
      /\ c.post_body.postOnly = order.post_only
      /\ c.venue_order_key = order_hash_from_typed_data(c.typed_data)
  BY <1>2, <1>3, <1>4, <1>6 DEF CompilerKeeps, AdmittedPostRoundingIntent
<1>8. c.typed_data.message =
        [salt |-> port.salts + 1, maker |-> binding.wallet_address, signer |-> binding.wallet_address,
         tokenId |-> order.token_id, makerAmount |-> amounts.maker, takerAmount |-> amounts.taker,
         side |-> IF order.side = "BUY" THEN 0 ELSE 1,
         signatureType |-> _SUPPORTED_SIGNATURE_TYPE, timestamp |-> now_s, metadata |-> 0, builder |-> 0]
  BY <1>2, <1>3, <1>4, <1>6 DEF CompilerKeeps
<1>9. PortKeeps(port, order, amounts, binding, now_s, c)
  BY <1>7, <1>8 DEF PortKeeps
<1> QED BY <1>9 DEF c

\* Lemma: what is posted of a compiled order, and what was signed, is the order.
LEMMA OrderedFields ==
    ASSUME NEW port, NEW order, NEW amounts, NEW binding, NEW now_s, NEW c, NEW posted, NEW reply,
           PortKeeps(port, order, amounts, binding, now_s, c), SayTheSame(posted, c.post_body),
           posted.order.signature = reply, reply.by = binding.wallet_address,
           reply.digest = order_hash_from_typed_data(c.typed_data)
    PROVE  AsOrdered(port, order, amounts, binding, now_s, posted, reply)
<1>0. reply.digest.message = c.typed_data.message /\ reply.digest.domain = c.typed_data.domain
  BY HashFields, Zenon
<1>1. /\ \A field \in _SIGNED_ORDER_FIELDS \ {"side"} : posted.order[field] = c.typed_data.message[field]
      /\ posted.order.side = order.side /\ posted.order.expiration = order.expiration
      /\ posted.owner = port.owner /\ posted.orderType = order.tif
      /\ posted.postOnly = order.post_only
  <2>1. /\ \A field \in _SIGNED_ORDER_FIELDS \ {"side"} : c.post_body.order[field] = c.typed_data.message[field]
        /\ c.post_body.order.side = order.side /\ c.post_body.order.expiration = order.expiration
        /\ c.post_body.owner = port.owner /\ c.post_body.orderType = order.tif
        /\ c.post_body.postOnly = order.post_only
    BY Zenon DEF PortKeeps
  <2>2. /\ \A field \in _ORDER_REQUIRED : posted.order[field] = c.post_body.order[field]
        /\ \A field \in _TOPLEVEL_REQUIRED \ {"order"} : posted[field] = c.post_body[field]
    BY Zenon DEF SayTheSame
  <2>3. /\ _SIGNED_ORDER_FIELDS \subseteq _ORDER_REQUIRED /\ {"side", "expiration"} \subseteq _ORDER_REQUIRED
        /\ {"owner", "orderType", "postOnly"} \subseteq _TOPLEVEL_REQUIRED \ {"order"}
    BY DEF _ORDER_REQUIRED, _TOPLEVEL_REQUIRED, _SIGNED_ORDER_FIELDS
  <2> QED BY <2>1, <2>2, <2>3
<1>2. {"tokenId", "makerAmount", "takerAmount", "salt", "maker", "signer", "timestamp"}
          \subseteq _SIGNED_ORDER_FIELDS \ {"side"}
  BY DEF _SIGNED_ORDER_FIELDS
<1>3. /\ c.typed_data.message.tokenId = order.token_id /\ c.typed_data.message.makerAmount = amounts.maker
      /\ c.typed_data.message.takerAmount = amounts.taker /\ c.typed_data.message.salt = port.salts + 1
      /\ c.typed_data.message.maker = binding.wallet_address
      /\ c.typed_data.message.signer = binding.wallet_address /\ c.typed_data.message.timestamp = now_s
      /\ c.typed_data.message.side = IF order.side = "BUY" THEN 0 ELSE 1
  BY MessageFields
<1>4. /\ posted.order.tokenId = order.token_id
      /\ posted.order.makerAmount = amounts.maker /\ posted.order.takerAmount = amounts.taker
      /\ posted.order.salt = port.salts + 1
      /\ posted.order.maker = binding.wallet_address /\ posted.order.signer = binding.wallet_address
      /\ posted.order.timestamp = now_s
  BY <1>1, <1>2, <1>3
<1>5. \A field \in _SIGNED_ORDER_FIELDS \ {"side"} : reply.digest.message[field] = posted.order[field]
  BY <1>0, <1>1
<1>6. reply.digest.message.side = IF order.side = "BUY" THEN 0 ELSE 1
  BY <1>0, <1>3
<1>7. /\ order.native_price \in 0 .. OneDollar /\ order.tif \in _ORDER_TYPES
      /\ order.post_only => order.tif \in _RESTING_ORDER_TYPES
      /\ reply.digest.domain = VerifyingContract(order.neg_risk)
  BY <1>0 DEF PortKeeps
<1> QED BY <1>1, <1>4, <1>5, <1>6, <1>7 DEF AsOrdered

\* Theorem: what submit_order of the port posts is the desk's order: token, side, amounts, expiration, type and
\* post-only flag, signed by the bound wallet for the exchange of its market, under a record whose key is the digest
\* that was signed, and the salt is used up.
THEOREM VenueGetsTheOrder ==
    ASSUME NEW port, NEW store, NEW order, NEW amounts, NEW binding, NEW auth, NEW now_s, NEW reply,
           binding.wallet_address # "another address",
           submit_order(port, store, order, amounts, binding, auth, now_s, reply).posted # None
    PROVE  LET done == submit_order(port, store, order, amounts, binding, auth, now_s, reply)
               record == build_presubmit_record(PortOrder(port, order, amounts, binding, now_s))
           IN  /\ AsOrdered(port, order, amounts, binding, now_s, done.posted, reply)
               /\ done.store = Append(store, record) /\ record.venue_order_key = reply.digest
               /\ _validate_auth(auth, binding.quorum_threshold, 1000 * now_s)
               /\ done.port = [port EXCEPT !.salts = @ + 1]
<1> DEFINE c == PortOrder(port, order, amounts, binding, now_s)
           made == submit_live_order(store, c, binding, auth, 1000 * now_s, reply)
           done == submit_order(port, store, order, amounts, binding, auth, now_s, reply)
           later == [port EXCEPT !.salts = @ + 1]
           record == build_presubmit_record(c)
<1>1. /\ c # None /\ made.posted # None /\ done.posted = made.posted /\ done.store = made.store
      /\ done.port = IF AdmittedPostRoundingIntent(order) THEN later ELSE port
  <2> HIDE DEF c, made, later
  <2> QED BY DEF submit_order, Refused, c, made, later
<1>2. PortKeeps(port, order, amounts, binding, now_s, c)
  <2>1. PortOrder(port, order, amounts, binding, now_s) # None
    BY <1>1
  <2> QED BY <2>1, PortFields, Zenon
<1>3. PostIsSound(store, c, binding, auth, 1000 * now_s, reply, made)
  <2> DEFINE now == 1000 * now_s
  <2> HIDE DEF c, now
  <2>1. submit_live_order(store, c, binding, auth, now, reply).posted # None
    BY <1>1 DEF now
  <2>2. PostIsSound(store, c, binding, auth, now, reply, submit_live_order(store, c, binding, auth, now, reply))
    BY <2>1, PostedIsCommitted, Zenon
  <2> QED BY <2>2 DEF now
<1> HIDE DEF c, made, done, later, record
<1>4. AdmittedPostRoundingIntent(order)
  BY <1>2 DEF PortKeeps, AdmittedPostRoundingIntent
<1>5. /\ reply.digest = order_hash_from_typed_data(c.typed_data) /\ reply.by = binding.wallet_address
      /\ _validate_auth(auth, binding.quorum_threshold, 1000 * now_s)
      /\ made.store = Append(store, build_presubmit_record(c))
  BY <1>3, Zenon DEF PostIsSound, PostedAsCommitted
<1>6. reply.digest.message = c.typed_data.message /\ reply.digest.domain = c.typed_data.domain
  BY <1>5, HashFields, Zenon
<1>7. AsOrdered(port, order, amounts, binding, now_s, made.posted, reply)
  <2>1. SayTheSame(made.posted, c.post_body) /\ made.posted.order.signature = reply
    BY <1>3, Zenon DEF PostIsSound
  <2> QED BY <1>2, <1>5, <2>1, OrderedFields, Zenon
<1>8. record.venue_order_key = reply.digest
  BY <1>2, <1>5 DEF record, build_presubmit_record, PortKeeps
<1>9. AsOrdered(port, order, amounts, binding, now_s, done.posted, reply)
  BY <1>1, <1>7
<1>10. done.store = Append(store, record) /\ done.port = later
  BY <1>1, <1>4, <1>5, Zenon DEF record
<1> QED BY <1>5, <1>8, <1>9, <1>10, Zenon DEF done, later, record, c

\* Theorem: two orders of the port made with different salts have different join keys, whatever they say: a record
\* never finds another order's fills.
THEOREM SaltsKeepKeysApart ==
    ASSUME NEW port, NEW other, port.salts \in Nat, other.salts \in Nat, port.salts # other.salts,
           NEW order, NEW amounts, NEW binding, NEW now_s, NEW order2, NEW amounts2, NEW binding2, NEW later_s,
           PortOrder(port, order, amounts, binding, now_s) # None,
           PortOrder(other, order2, amounts2, binding2, later_s) # None
    PROVE  PortOrder(port, order, amounts, binding, now_s).venue_order_key
             # PortOrder(other, order2, amounts2, binding2, later_s).venue_order_key
<1> DEFINE c == PortOrder(port, order, amounts, binding, now_s)
           d == PortOrder(other, order2, amounts2, binding2, later_s)
<1>1. PortKeeps(port, order, amounts, binding, now_s, c) /\ PortKeeps(other, order2, amounts2, binding2, later_s, d)
  BY PortFields
<1> HIDE DEF c, d
<1>2. c.typed_data.message.salt = port.salts + 1 /\ d.typed_data.message.salt = other.salts + 1
  BY <1>1, MessageFields
<1>3. /\ c.venue_order_key = order_hash_from_typed_data(c.typed_data)
      /\ d.venue_order_key = order_hash_from_typed_data(d.typed_data)
  BY <1>1 DEF PortKeeps
<1>4. c.typed_data.message.salt # d.typed_data.message.salt
  BY <1>2
<1>5. c.venue_order_key.message = c.typed_data.message /\ d.venue_order_key.message = d.typed_data.message
  BY <1>3, HashFields
<1>6. c.venue_order_key # d.venue_order_key
  BY <1>4, <1>5
<1> QED BY <1>6 DEF c, d

------------------------------------------------------------------------------
\* Lemma: rounding half to even ends within half a tick and leaves a price on the tick alone.
LEMMA NearestTick ==
    ASSUME NEW price \in Nat, NEW tick \in VenueTicks
    PROVE  /\ HalfEven(price, tick) \in Nat
           /\ 2 * (HalfEven(price, tick) * tick - price) <= tick /\ 2 * (price - HalfEven(price, tick) * tick) <= tick
           /\ price % tick = 0 => HalfEven(price, tick) * tick = price
<1>1. CASE tick = 1
  BY <1>1 DEF HalfEven
<1>2. CASE tick = 10
  BY <1>2 DEF HalfEven
<1>3. CASE tick = 100
  BY <1>3 DEF HalfEven
<1>4. CASE tick = 1000
  BY <1>4 DEF HalfEven
<1> QED BY <1>1, <1>2, <1>3, <1>4 DEF VenueTicks

\* Lemma: so does _round_normal (mode_b_write_port.py), to either side of a half.
LEMMA TickRounding ==
    ASSUME NEW price \in Nat, NEW tick \in VenueTicks, NEW p \in _round_normal(price, tick)
    PROVE  /\ p \in Nat /\ p % tick = 0 /\ 2 * (p - price) <= tick /\ 2 * (price - p) <= tick
           /\ price % tick = 0 => p = price
<1>1. \/ p = HalfEven(price, tick) * tick
      \/ \E k \in 0..1 : 2 * (price % tick) = tick /\ p = (price \div tick + k) * tick
  BY DEF _round_normal
<1>2. CASE p = HalfEven(price, tick) * tick
  <2>1. \A n \in Nat : (n * tick) % tick = 0 /\ n * tick \in Nat
    BY DEF VenueTicks
  <2> QED BY <1>2, <2>1, NearestTick
<1>3. ASSUME NEW k \in 0..1, 2 * (price % tick) = tick, p = (price \div tick + k) * tick
      PROVE  /\ p \in Nat /\ p % tick = 0 /\ 2 * (p - price) <= tick /\ 2 * (price - p) <= tick
             /\ price % tick = 0 => p = price
  <2>1. CASE tick = 1
    BY <1>3, <2>1
  <2>2. CASE tick = 10
    BY <1>3, <2>2
  <2>3. CASE tick = 100
    BY <1>3, <2>3
  <2>4. CASE tick = 1000
    BY <1>3, <2>4
  <2> QED BY <2>1, <2>2, <2>3, <2>4 DEF VenueTicks
<1> QED BY <1>1, <1>2, <1>3

\* What is signed: shares is at most the size, in whole cents of a share, and dollars their cost at a tick price.
AmountsOf(shares, dollars, size, price, tick) ==
  /\ shares \in Nat /\ dollars \in Nat
  /\ shares <= OneDollar * (size \div 10) /\ shares + 2 * OneDollar > OneDollar * (size \div 10)
  /\ shares % OneDollar = 0
  /\ \E p \in Nat : /\ dollars * OneDollar = shares * p
                    /\ p % tick = 0 /\ 2 * (p - price) <= tick /\ 2 * (price - p) <= tick
                    /\ price % tick = 0 => p = price

\* Theorem: resolve_order_amounts (mode_b_write_port.py) never signs more shares than the order has and less than two
\* hundredths of a share fewer than its whole hundredths, whichever way the floats fall, and prices them at a tick
\* within half a tick.
THEOREM AmountsNeverExceedTheOrder ==
    ASSUME NEW side, NEW size \in Nat, NEW price \in Nat, NEW tick,
           NEW amounts \in resolve_order_amounts(side, size, price, tick)
    PROVE  AmountsOf(IF side = "BUY" THEN amounts.taker ELSE amounts.maker,
                     IF side = "BUY" THEN amounts.maker ELSE amounts.taker, size, price, tick)
<1>1. tick \in VenueTicks
  BY DEF resolve_order_amounts
<1>2. PICK cents \in _round_down(size, 10), p \in _round_normal(price, tick) :
        amounts = IF side = "BUY" THEN [maker |-> cents * p, taker |-> cents * OneDollar]
                  ELSE [maker |-> cents * OneDollar, taker |-> cents * p]
  BY DEF resolve_order_amounts
<1>3. /\ p \in Nat /\ p % tick = 0 /\ 2 * (p - price) <= tick /\ 2 * (price - p) <= tick
      /\ price % tick = 0 => p = price
  BY <1>1, TickRounding
<1>4. cents \in Nat /\ cents <= size \div 10 /\ cents + 1 >= size \div 10
  BY DEF _round_down
<1> DEFINE shares == cents * OneDollar
           dollars == cents * p
<1>5. /\ (IF side = "BUY" THEN amounts.taker ELSE amounts.maker) = shares
      /\ (IF side = "BUY" THEN amounts.maker ELSE amounts.taker) = dollars
  <2> HIDE DEF shares, dollars
  <2>1. amounts = IF side = "BUY" THEN [maker |-> dollars, taker |-> shares] ELSE [maker |-> shares, taker |-> dollars]
    BY <1>2 DEF shares, dollars
  <2> QED BY <2>1
<1>6. AmountsOf(shares, dollars, size, price, tick)
  <2>1. /\ shares \in Nat /\ shares % OneDollar = 0
        /\ shares <= OneDollar * (size \div 10) /\ shares + 2 * OneDollar > OneDollar * (size \div 10)
    BY <1>4 DEF OneDollar
  <2>2. dollars \in Nat
    BY <1>3, <1>4
  <2>3. dollars * OneDollar = shares * p
    BY <1>3, <1>4 DEF OneDollar
  <2> HIDE DEF shares, dollars
  <2> QED BY <1>3, <2>1, <2>2, <2>3 DEF AmountsOf
<1> QED BY <1>5, <1>6

\* Lemma: the other outcome of a rounded price is on the tick.
LEMMA ComplementOnTick ==
    ASSUME NEW price \in 0 .. OneDollar, NEW tick \in VenueTicks
    PROVE  /\ OneDollar - _round_to_tick(price, tick) \in Nat
           /\ _round_to_tick(OneDollar - _round_to_tick(price, tick), tick) = OneDollar - _round_to_tick(price, tick)
<1> DEFINE n == HalfEven(price, tick)
           r == n * tick
<1>1. n \in Nat /\ 2 * (r - price) <= tick
  <2>1. price \in Nat
    BY DEF OneDollar
  <2> QED BY <2>1, NearestTick
<1>2. PICK whole \in Nat : OneDollar = whole * tick /\ tick \in Nat \ {0}
  <2>1. /\ 10000 = 10 * 1000 /\ 10000 = 100 * 100 /\ 10000 = 1000 * 10 /\ 10000 = 10000 * 1
        /\ tick \in {1000, 100, 10, 1}
    BY DEF VenueTicks
  <2> QED BY <2>1 DEF OneDollar
<1> HIDE DEF n
<1>3. n <= whole
  <2>1. price \in 0 .. 10000 /\ 10000 = whole * tick
    BY <1>2 DEF OneDollar
  <2>2. CASE tick = 1
    <3>1. 2 * (n * 1 - price) <= 1 /\ 10000 = whole * 1
      BY <1>1, <2>1, <2>2
    <3> QED BY <1>1, <1>2, <2>1, <3>1
  <2>3. CASE tick = 10
    <3>1. 2 * (n * 10 - price) <= 10 /\ 10000 = whole * 10
      BY <1>1, <2>1, <2>3
    <3> QED BY <1>1, <1>2, <2>1, <3>1
  <2>4. CASE tick = 100
    <3>1. 2 * (n * 100 - price) <= 100 /\ 10000 = whole * 100
      BY <1>1, <2>1, <2>4
    <3> QED BY <1>1, <1>2, <2>1, <3>1
  <2>5. CASE tick = 1000
    <3>1. 2 * (n * 1000 - price) <= 1000 /\ 10000 = whole * 1000
      BY <1>1, <2>1, <2>5
    <3> QED BY <1>1, <1>2, <2>1, <3>1
  <2> QED BY <2>2, <2>3, <2>4, <2>5 DEF VenueTicks
<1>4. OneDollar - r \in Nat /\ (OneDollar - r) % tick = 0
  <2>1. whole - n \in Nat /\ OneDollar - r = (whole - n) * tick
    BY <1>1, <1>2, <1>3
  <2>2. \A m \in Nat : (m * tick) % tick = 0 /\ m * tick \in Nat
    BY DEF VenueTicks
  <2> QED BY <2>1, <2>2
<1> DEFINE q == OneDollar - r
<1>5. q \in Nat /\ q % tick = 0
  BY <1>4
<1> HIDE DEF q
<1>6. HalfEven(q, tick) * tick = q
  BY <1>5, NearestTick
<1> QED BY <1>5, <1>6 DEF q, n, _round_to_tick

\* Theorem: normalize (noncrossing.py) gives a sale of one outcome as the purchase of the other one at the
\* complementary price, with the same fee and the same refusals.
THEOREM SellIsBuyOfTheOtherToken ==
    ASSUME NEW price \in 0 .. OneDollar, NEW tick \in VenueTicks, NEW role, NEW size, NEW draw_market, NEW snapshot,
           NEW side, NEW against, None \notin {"YES", "NO"},
           side_to_token(draw_market, side) \in {"YES", "NO"},
           side_to_token(draw_market, against) = Opposite(side_to_token(draw_market, side))
    PROVE  normalize([action |-> "SELL", price |-> price, role |-> role, side |-> side, size |-> size],
                     draw_market, snapshot, tick)
             = normalize([action |-> "BUY", price |-> OneDollar - _round_to_tick(price, tick), role |-> role,
                          side |-> against, size |-> size], draw_market, snapshot, tick)
<1> DEFINE rounded == _round_to_tick(price, tick)
           q == OneDollar - rounded
           token == side_to_token(draw_market, side)
           other == side_to_token(draw_market, against)
           sell == [action |-> "SELL", price |-> price, role |-> role, side |-> side, size |-> size]
           buy == [action |-> "BUY", price |-> q, role |-> role, side |-> against, size |-> size]
           refused == \/ ~_validate_tick_size(tick) \/ role \notin {"MAKER", "TAKER"} \/ ~_restable(q, tick)
                      \/ snapshot = None
           fee == IF role = "MAKER" THEN maker_fee(snapshot, q) ELSE taker_fee(snapshot, q)
           bought == [outcome |-> other, price |-> q, size |-> size, role |-> role, fee |-> fee]
<1>1. _round_to_tick(q, tick) = q
  BY ComplementOnTick
<1>2. token # Refused /\ other # Refused /\ other = Opposite(token)
  BY DEF Refused, Opposite
<1>3. /\ sell.action = "SELL" /\ sell.price = price /\ sell.role = role /\ sell.side = side /\ sell.size = size
      /\ buy.action = "BUY" /\ buy.price = q /\ buy.role = role /\ buy.side = against /\ buy.size = size
  OBVIOUS
<1> HIDE DEF rounded, token, other, sell, buy, fee
<1>4. normalize(sell, draw_market, snapshot, tick) = IF refused THEN Refused ELSE bought
  BY <1>2, <1>3 DEF normalize, rounded, token, other, fee
<1> HIDE DEF q
<1>5. normalize(buy, draw_market, snapshot, tick) = IF refused THEN Refused ELSE bought
  BY <1>1, <1>2, <1>3 DEF normalize, token, other, fee
<1> QED BY <1>4, <1>5 DEF sell, buy, q, rounded

------------------------------------------------------------------------------
\* Lemma: a set of prices has a least one.
LEMMA HasLeast ==
    ASSUME NEW S \in SUBSET (0 .. OneDollar), S # {}
    PROVE  \E x \in S : \A y \in S : x <= y
<1>1. S \in SUBSET Int /\ IsFiniteSet(S)
  <2>1. 0 \in Int /\ OneDollar \in Int
    BY DEF OneDollar
  <2>2. IsFiniteSet(0 .. OneDollar)
    BY <2>1, FS_Interval
  <2>3. IsFiniteSet(S)
    BY <2>2, FS_Subset
  <2>4. S \in SUBSET Int
    OBVIOUS
  <2> QED BY <2>3, <2>4
<1> DEFINE below(n) == { m \in S : m < n }
           place == [n \in S |-> Cardinality(below(n))]
           c == Cardinality(S)
           T == 0 .. (c - 1)
<1>2. c \in Nat
  BY <1>1, FS_CardinalityType
<1>3. ASSUME NEW n \in S PROVE IsFiniteSet(below(n)) /\ Cardinality(below(n)) \in T
  <2>1. below(n) \in SUBSET S /\ n \notin below(n)
    BY <1>1
  <2>2. IsFiniteSet(below(n)) /\ Cardinality(below(n)) <= c /\ Cardinality(below(n)) # c
    BY <1>1, <2>1, FS_Subset, <1>3
  <2>3. Cardinality(below(n)) \in Nat
    BY <2>2, FS_CardinalityType
  <2> QED BY <1>2, <2>2, <2>3
<1>4. ASSUME NEW m \in S, NEW n \in S, m < n PROVE Cardinality(below(m)) < Cardinality(below(n))
  <2>1. below(m) \in SUBSET below(n) /\ m \in below(n) /\ m \notin below(m)
    <3>1. m \in Int /\ n \in Int /\ \A k \in S : k \in Int
      BY <1>1
    <3>2. \A k \in below(m) : k \in below(n)
      BY <3>1, <1>4
    <3>3. m \in below(n) /\ m \notin below(m)
      BY <3>1, <1>4
    <3> HIDE DEF below
    <3> QED BY <3>2, <3>3
  <2>2. below(m) # below(n)
    BY <2>1
  <2>3. Cardinality(below(m)) <= Cardinality(below(n)) /\ Cardinality(below(m)) # Cardinality(below(n))
    BY <2>1, <2>2, <1>3, FS_Subset
  <2> QED BY <2>3, <1>2, <1>3
<1>5. \A m, n \in S : place[m] = place[n] => m = n
  <2> SUFFICES ASSUME NEW m \in S, NEW n \in S, m # n PROVE place[m] # place[n]
    OBVIOUS
  <2>1. m < n \/ n < m
    BY <1>1
  <2>2. place[m] < place[n] \/ place[n] < place[m]
    BY <2>1, <1>4
  <2>3. place[m] \in Int /\ place[n] \in Int
    BY <1>3
  <2> QED BY <2>2, <2>3
<1>6. place \in Injection(S, T)
  <2>1. place \in [S -> T]
    BY <1>3
  <2> HIDE DEF place, T
  <2> QED BY <2>1, <1>5 DEF Injection, IsInjective
<1>7. c > 0
  <2>1. c # 0
    BY <1>1, FS_EmptySet
  <2> QED BY <1>2, <2>1
<1>8. IsFiniteSet(T) /\ Cardinality(T) = c
  <2> DEFINE last == c - 1
  <2>1. last \in Int /\ 0 \in Int /\ last >= 0 /\ last - 0 + 1 = c
    BY <1>2, <1>7
  <2> HIDE DEF last
  <2>2. IsFiniteSet(0 .. last) /\ Cardinality(0 .. last) = IF 0 > last THEN 0 ELSE last - 0 + 1
    BY <2>1, FS_Interval, Zenon
  <2>3. Cardinality(0 .. last) = c
    BY <2>1, <2>2
  <2> QED BY <2>2, <2>3 DEF last
<1>9. place \in Surjection(S, T)
  <2> HIDE DEF place, T, c
  <2> QED BY <1>6, <1>8, <1>1, FS_Injection DEF c
<1>10. PICK x \in S : place[x] = 0
  <2>1. 0 \in T
    BY <1>2, <1>7
  <2> HIDE DEF place, T
  <2> QED BY <2>1, <1>9 DEF Surjection
<1>11. below(x) = {}
  <2>1. IsFiniteSet(below(x)) /\ Cardinality(below(x)) = 0
    BY <1>3, <1>10
  <2> QED BY <2>1, FS_EmptySet
<1> QED BY <1>1, <1>11

\* Lemma: a set of prices has a greatest one.
LEMMA HasGreatest ==
    ASSUME NEW S \in SUBSET (0 .. OneDollar), S # {}
    PROVE  \E x \in S : \A y \in S : x >= y
<1> DEFINE N == { OneDollar - x : x \in S }
<1>1. N \in SUBSET (0 .. OneDollar) /\ N # {}
  <2>1. \A x \in S : OneDollar - x \in 0 .. OneDollar
    <3> SUFFICES ASSUME NEW x \in S PROVE OneDollar - x \in 0 .. OneDollar
      OBVIOUS
    <3>1. x \in 0 .. OneDollar
      OBVIOUS
    <3> QED BY <3>1 DEF OneDollar
  <2>2. PICK x \in S : TRUE
    OBVIOUS
  <2>3. OneDollar - x \in N
    BY <2>2
  <2> QED BY <2>1, <2>3
<1> HIDE DEF N
<1>2. PICK n \in N : \A m \in N : n <= m
  BY <1>1, HasLeast
<1>3. PICK x \in S : n = OneDollar - x
  BY DEF N
<1>4. \A y \in S : OneDollar - x <= OneDollar - y
  BY <1>2, <1>3 DEF N
<1> QED BY <1>4 DEF OneDollar

\* The prices of the live own orders on one side of one token.
SidePrices(legs, token, side) ==
  { leg.price : leg \in { x \in { y \in legs : _leg_is_possibly_live(y) } : x.token = token /\ x.side = side } }

\* Two own orders that may both still rest and could trade with each other.
CouldMeet(legs) ==
  \E bid, ask \in legs : /\ _leg_is_possibly_live(bid) /\ _leg_is_possibly_live(ask)
                         /\ bid.side = "BUY" /\ ask.side = "SELL" /\ bid.token = ask.token /\ bid.price >= ask.price

\* Lemma: the best bid reaches the best ask just when some bid reaches some ask.
LEMMA ExtremesMeet ==
    ASSUME NEW legs, NEW token, \A leg \in legs : leg.price \in 0 .. OneDollar,
           SidePrices(legs, token, "BUY") # {}, SidePrices(legs, token, "SELL") # {}
    PROVE  Max(SidePrices(legs, token, "BUY")) >= Min(SidePrices(legs, token, "SELL")) <=>
             \E bid \in SidePrices(legs, token, "BUY"), ask \in SidePrices(legs, token, "SELL") : bid >= ask
<1> DEFINE B == SidePrices(legs, token, "BUY")
           S == SidePrices(legs, token, "SELL")
<1>1. B \in SUBSET (0 .. OneDollar) /\ S \in SUBSET (0 .. OneDollar) /\ B # {} /\ S # {}
  BY DEF SidePrices
<1> HIDE DEF B, S
<1>2. Max(B) \in B /\ \A y \in B : Max(B) >= y
  <2>1. \E x \in B : \A y \in B : x >= y
    BY <1>1, HasGreatest
  <2> QED BY <2>1 DEF Max
<1>3. Min(S) \in S /\ \A y \in S : Min(S) <= y
  <2>1. \E x \in S : \A y \in S : x <= y
    BY <1>1, HasLeast
  <2> QED BY <2>1 DEF Min
<1>4. \A x \in B \cup S : x \in Int
  BY <1>1 DEF OneDollar
<1>5. Max(B) >= Min(S) <=> \E bid \in B, ask \in S : bid >= ask
  BY <1>2, <1>3, <1>4
<1> QED BY <1>5 DEF B, S

\* Theorem: check_non_crossing (noncrossing.py) refuses legs it cannot read, and rejects the others just when two of
\* them that may both be live could trade with each other, an uncertain order counted as live until proved absent.
THEOREM OwnOrdersNeverCross ==
    ASSUME NEW legs, NEW tick \in Nat, None \notin {"REJECT", "ADMIT"}
    PROVE  /\ check_non_crossing(legs, tick) \in {Refused, "REJECT", "ADMIT"}
           /\ check_non_crossing(legs, tick) = Refused <=>
                \/ ~_validate_tick_size(tick)
                \/ \E leg \in legs : ~_restable(leg.price, tick) \/ leg.side \notin {"BUY", "SELL"}
           /\ check_non_crossing(legs, tick) # Refused =>
                (check_non_crossing(legs, tick) = "REJECT" <=> CouldMeet(legs))
<1> DEFINE B(token) == SidePrices(legs, token, "BUY")
           S(token) == SidePrices(legs, token, "SELL")
           live == { leg \in legs : _leg_is_possibly_live(leg) }
           Crosses(token) == {} \notin {B(token), S(token)} /\ Max(B(token)) >= Min(S(token))
           bad == \/ ~_validate_tick_size(tick)
                  \/ \E leg \in legs : ~_restable(leg.price, tick) \/ leg.side \notin {"BUY", "SELL"}
           verdict == check_non_crossing(legs, tick)
<1>1. verdict = IF ~_validate_tick_size(tick) THEN Refused
                ELSE IF \E leg \in legs : ~_restable(leg.price, tick) \/ leg.side \notin {"BUY", "SELL"} THEN Refused
                ELSE IF \E leg \in live : Crosses(leg.token) THEN "REJECT" ELSE "ADMIT"
  BY DEF check_non_crossing, SidePrices
<1> HIDE DEF B, S, verdict
<1>2. /\ verdict \in {Refused, "REJECT", "ADMIT"} /\ (verdict = Refused <=> bad)
      /\ ~bad => (verdict = "REJECT" <=> \E leg \in live : Crosses(leg.token))
  <2> HIDE DEF live, Crosses
  <2> QED BY <1>1 DEF Refused
<1>3. ASSUME ~bad PROVE (\E leg \in live : Crosses(leg.token)) <=> CouldMeet(legs)
  <2>1. \A leg \in legs : leg.price \in 0 .. OneDollar
    <3> SUFFICES ASSUME NEW leg \in legs PROVE leg.price \in 0 .. OneDollar
      OBVIOUS
    <3>1. leg.price \in tick .. (OneDollar - tick)
      BY <1>3 DEF _restable
    <3> DEFINE p == leg.price
    <3>2. p \in tick .. (10000 - tick)
      BY <3>1 DEF OneDollar
    <3> HIDE DEF p, bad
    <3>3. p \in 0 .. 10000
      BY <3>2
    <3> QED BY <3>3 DEF p, OneDollar
  <2>2. \A token : {} \notin {B(token), S(token)} =>
          (Max(B(token)) >= Min(S(token)) <=> \E bid \in B(token), ask \in S(token) : bid >= ask)
    BY <2>1, ExtremesMeet DEF B, S
  <2>3. \A token : Crosses(token) <=> \E bid \in B(token), ask \in S(token) : bid >= ask
    BY <2>2
  <2>4. \A token, p : /\ p \in B(token) <=> \E x \in live : x.token = token /\ x.side = "BUY" /\ x.price = p
                      /\ p \in S(token) <=> \E x \in live : x.token = token /\ x.side = "SELL" /\ x.price = p
    BY DEF B, S, SidePrices
  <2> HIDE DEF Crosses, live
  <2>5. CouldMeet(legs) <=> \E bid, ask \in live : /\ bid.side = "BUY" /\ ask.side = "SELL"
                                                   /\ bid.token = ask.token /\ bid.price >= ask.price
    BY DEF CouldMeet, live
  <2> QED BY <2>3, <2>4, <2>5
<1> QED BY <1>2, <1>3 DEF verdict

------------------------------------------------------------------------------
\* The amounts of the order in its fill history, as they came.
AmountsOnRecord(trades, key) == FlattenSeq([i \in DOMAIN trades |-> MatchedAmounts(trades[i], key)])

\* Theorem: reconcile_uncertain_submit (reconcile.py) resolves only on a terminal status or on a readable fill history
\* under the order's own key; nothing ever authorises a second submit, and without a resolution the whole intended
\* exposure stays counted and new submits stay frozen.
THEOREM SilenceNeverReleases ==
    ASSUME NEW record, NEW reading, NEW intended
    PROVE  /\ reconcile_uncertain_submit(record, reading) \in {"AMBIGUOUS", "RESOLVED"}
           /\ ~authorize_resubmit_against_venue_truth(record, reading)
           /\ reconcile_uncertain_submit(record, reading) = "RESOLVED" =>
                /\ record.venue_order_key # NoKey
                /\ \/ reading.order # None /\ reading.order.status \in _TERMINAL_ORDER_STATUSES
                   \/ /\ reading.fills # None
                      /\ \A i \in DOMAIN AmountsOnRecord(reading.fills, record.venue_order_key) :
                           AmountsOnRecord(reading.fills, record.venue_order_key)[i] \notin {None, Malformed}
           /\ \/ /\ reconcile_uncertain_submit(record, reading) = "RESOLVED"
                 /\ ~reconcile_and_freeze(record, reading, intended).frozen
              \/ /\ reconcile_and_freeze(record, reading, intended).frozen
                 /\ reconcile_and_freeze(record, reading, intended).worst_case_exposure = intended
                 /\ ~retry_authorized_while(reconcile_uncertain_submit(record, reading), TRUE)
<1> DEFINE key == record.venue_order_key
           size == _fill_history_evidence(reading, key)
           terminal == _terminal_status_evidence(reading)
           state == reconcile_uncertain_submit(record, reading)
           amounts == AmountsOnRecord(reading.fills, key)
           freeze == reconcile_and_freeze(record, reading, intended)
<1>1. state = IF key = NoKey THEN "AMBIGUOUS" ELSE IF size # None \/ terminal THEN "RESOLVED" ELSE "AMBIGUOUS"
  <2> HIDE DEF key, size, terminal
  <2> QED BY DEF reconcile_uncertain_submit, assess_uncertain_submit, key, size, terminal
<1>2. size # None => reading.fills # None /\ \A i \in DOMAIN amounts : amounts[i] \notin {None, Malformed}
  <2>1. size # None => reading.fills # None /\ _match_fill_size(reading.fills, key) # None
    BY DEF _fill_history_evidence
  <2>2. _match_fill_size(reading.fills, key) # None => \A i \in DOMAIN amounts : _coerce_fill_amount(amounts[i]) # None
    BY Zenon DEF _match_fill_size, AmountsOnRecord
  <2>3. \A a : _coerce_fill_amount(a) # None => a \notin {None, Malformed}
    BY DEF _coerce_fill_amount
  <2> QED BY <2>1, <2>2, <2>3
<1>3. terminal => reading.order # None /\ reading.order.status \in _TERMINAL_ORDER_STATUSES
  BY DEF _terminal_status_evidence
<1> HIDE DEF key, size, terminal, state, amounts, freeze
<1>4. state \in {"AMBIGUOUS", "RESOLVED"}
  BY <1>1
<1>5. ~authorize_resubmit_against_venue_truth(record, reading)
  BY <1>4 DEF authorize_resubmit_against_venue_truth, duplicate_resubmit_authorized, state
<1>6. freeze = [state |-> state, frozen |-> freezes_new_submits(state), presubmit_record |-> record,
                worst_case_exposure |-> worst_case_uncertain_exposure(state, intended)]
  BY DEF freeze, state, reconcile_and_freeze, FrozenUncertainState
<1>7. /\ freeze.frozen = freezes_new_submits(state)
      /\ freeze.worst_case_exposure = worst_case_uncertain_exposure(state, intended)
  BY <1>6
<1>8. \/ state = "RESOLVED" /\ ~freeze.frozen
      \/ freeze.frozen /\ freeze.worst_case_exposure = intended /\ ~retry_authorized_while(state, TRUE)
  BY <1>4, <1>7 DEF freezes_new_submits, worst_case_uncertain_exposure, retry_authorized_while
<1>9. state = "RESOLVED" => /\ key # NoKey
                            /\ \/ reading.order # None /\ reading.order.status \in _TERMINAL_ORDER_STATUSES
                               \/ reading.fills # None /\ \A i \in DOMAIN amounts : amounts[i] \notin {None, Malformed}
  BY <1>1, <1>2, <1>3
<1> QED BY <1>4, <1>5, <1>8, <1>9 DEF key, state, amounts, freeze

\* Theorem: _mode_b_arming_block_reason (runner.py) has no reason against real money only when every condition holds
\* and the durable store has a row, for this very session and signing attempt, of the operator's canonical events.
THEOREM ArmedOnlyOnRecord ==
    ASSUME NEW arming, NEW caps, NEW signer_mode, NEW session, NEW rows,
           None \notin {"mode_b_not_armed", "mode_b_legacy_signer", "mode_b_write_port_missing",
                        "operator_interlock_unproven"},
           _mode_b_arming_block_reason(arming, caps, signer_mode, session, rows) = None
    PROVE  /\ arming # None /\ arming.mode_a_passed /\ arming.gate_admitted /\ arming.preflight_ok
           /\ arming.provisioning_ok /\ arming.binding_verifies /\ caps.session > 0 /\ caps.daily > 0
           /\ signer_mode # "FAKE_LOCAL" /\ arming.write_port # None /\ arming.order_auth # None
           /\ arming.proof # None /\ rows # None
           /\ interlock_events_are_canonical(arming.proof.events)
           /\ \E i \in DOMAIN rows :
                /\ rows[i].digest = <<session, arming.proof.events, arming.proof.ref, arming.order_auth>>
                /\ rows[i].receipt = arming.proof.receipt
<1>1. /\ arming # None /\ arming.mode_a_passed /\ arming.gate_admitted /\ arming.preflight_ok
      /\ arming.provisioning_ok /\ arming.binding_verifies /\ authorize_mode_b(caps)
      /\ signer_mode # "FAKE_LOCAL" /\ arming.write_port # None /\ arming.order_auth # None
      /\ arming.proof # None /\ rows # None
      /\ interlock_events_are_canonical(arming.proof.events)
      /\ VerifyInterlock(rows, session, arming.proof.events, arming.proof.ref, _arming_attempt_ref(arming),
                         arming.proof.receipt)
  BY DEF _mode_b_arming_block_reason
<1>2. _arming_attempt_ref(arming) = arming.order_auth
  BY <1>1 DEF _arming_attempt_ref
<1>3. \E i \in DOMAIN rows :
        /\ rows[i].digest = <<session, arming.proof.events, arming.proof.ref, arming.order_auth>>
        /\ rows[i].receipt = arming.proof.receipt
  BY <1>1, <1>2 DEF VerifyInterlock, interlock_binding_digest
<1> QED BY <1>1, <1>3 DEF authorize_mode_b

\* What the operator can have asserted.
Interlock(interlock) ==
  /\ interlock.isolated_funded_wallet \in BOOLEAN /\ interlock.operator_jurisdiction_comfort \in BOOLEAN
  /\ interlock.kill_switch_ready \in BOOLEAN /\ interlock.first_order_authorized \in BOOLEAN
  /\ interlock.declared_max_capital_at_risk \in Int \cup {None}

\* Everything has been asserted, under a reference.
Complete(interlock) ==
  /\ interlock # None
  /\ interlock.isolated_funded_wallet /\ interlock.operator_jurisdiction_comfort
  /\ interlock.kill_switch_ready /\ interlock.first_order_authorized
  /\ interlock.declared_max_capital_at_risk # None /\ interlock.declared_max_capital_at_risk > 0
  /\ interlock.ref \notin {None, 0}

\* Lemma: the five preconditions of the operator's interlock, by place.
LEMMA Preconditions ==
    /\ DOMAIN OPERATOR_PRECONDITIONS = 1 .. 5 /\ Len(OPERATOR_PRECONDITIONS) = 5
    /\ \A i \in 1 .. 5 : OPERATOR_PRECONDITIONS[i] \in
         {"isolated_funded_wallet", "operator_jurisdiction_comfort", "declared_max_capital_at_risk",
          "kill_switch_ready", "first_order_authorized"}
    /\ OPERATOR_PRECONDITIONS[1] = "isolated_funded_wallet"
    /\ OPERATOR_PRECONDITIONS[2] = "operator_jurisdiction_comfort"
    /\ OPERATOR_PRECONDITIONS[3] = "declared_max_capital_at_risk"
    /\ OPERATOR_PRECONDITIONS[4] = "kill_switch_ready" /\ OPERATOR_PRECONDITIONS[5] = "first_order_authorized"
  BY DEF OPERATOR_PRECONDITIONS

\* Lemma: an event of the gate says whether its precondition is satisfied, and under which reference.
LEMMA EventFields ==
    ASSUME NEW event, NEW no, NEW name, NEW said, NEW ref, NEW first,
           event = [sequence_no |-> no, precondition |-> name, satisfied |-> said, ref |-> ref,
                    first_order_authorized |-> first]
    PROVE  event.satisfied = said /\ event.ref = ref
  BY SMT

\* The gate's events are one to a precondition, numbered, with what was asserted of it.
GateEventsOf(effective) ==
  [i \in DOMAIN OPERATOR_PRECONDITIONS |->
    [sequence_no |-> i, precondition |-> OPERATOR_PRECONDITIONS[i],
     satisfied |-> satisfied_by_precondition(effective, OPERATOR_PRECONDITIONS[i]),
     ref |-> effective.ref, first_order_authorized |-> effective.first_order_authorized]]

\* Lemma: what the gate (evaluate_operator_interlock) says of an interlock.
LEMMA GateEvents ==
    ASSUME NEW interlock, interlock # None, Interlock(interlock)
    PROVE  /\ evaluate_operator_interlock(interlock).events = GateEventsOf(interlock)
           /\ evaluate_operator_interlock(interlock).armed <=>
                \A i \in 1 .. 5 : GateEventsOf(interlock)[i].satisfied
           /\ DOMAIN GateEventsOf(interlock) = 1 .. 5 /\ Len(GateEventsOf(interlock)) = 5
           /\ \A i \in 1 .. 5 :
                GateEventsOf(interlock)[i] =
                  [sequence_no |-> i, precondition |-> OPERATOR_PRECONDITIONS[i],
                   satisfied |-> satisfied_by_precondition(interlock, OPERATOR_PRECONDITIONS[i]),
                   ref |-> interlock.ref, first_order_authorized |-> interlock.first_order_authorized]
<1> DEFINE events == GateEventsOf(interlock)
<1>1. DOMAIN events = 1 .. 5 /\ Len(events) = 5
  BY Preconditions DEF GateEventsOf
<1>2. \A i \in 1 .. 5 :
        events[i] = [sequence_no |-> i, precondition |-> OPERATOR_PRECONDITIONS[i],
                     satisfied |-> satisfied_by_precondition(interlock, OPERATOR_PRECONDITIONS[i]),
                     ref |-> interlock.ref, first_order_authorized |-> interlock.first_order_authorized]
  BY Preconditions, Zenon DEF GateEventsOf
<1> HIDE DEF events
<1>3. evaluate_operator_interlock(interlock) =
        [armed |-> \A i \in DOMAIN events : events[i].satisfied, events |-> events]
  BY Zenon DEF evaluate_operator_interlock, events, GateEventsOf
<1>4. /\ evaluate_operator_interlock(interlock).events = events
      /\ evaluate_operator_interlock(interlock).armed = \A i \in DOMAIN events : events[i].satisfied
  <2> DEFINE all == \A i \in DOMAIN events : events[i].satisfied
  <2>1. evaluate_operator_interlock(interlock) = [armed |-> all, events |-> events]
    BY <1>3
  <2> HIDE DEF all
  <2>2. /\ evaluate_operator_interlock(interlock).armed = all
        /\ evaluate_operator_interlock(interlock).events = events
    BY <2>1, SMT
  <2> QED BY <2>2 DEF all
<1> QED BY <1>1, <1>2, <1>4, Zenon DEF events

\* Lemma: the preconditions are satisfied just when everything has been asserted.
LEMMA SatisfiedMeans ==
    ASSUME NEW interlock, interlock # None, Interlock(interlock)
    PROVE  (\A i \in 1 .. 5 : satisfied_by_precondition(interlock, OPERATOR_PRECONDITIONS[i]))
             <=> /\ interlock.isolated_funded_wallet /\ interlock.operator_jurisdiction_comfort
                 /\ interlock.kill_switch_ready /\ interlock.first_order_authorized
                 /\ interlock.declared_max_capital_at_risk # None /\ interlock.declared_max_capital_at_risk > 0
<1> DEFINE S(i) == satisfied_by_precondition(interlock, OPERATOR_PRECONDITIONS[i])
<1>1. S(1) = interlock.isolated_funded_wallet
  BY Preconditions DEF satisfied_by_precondition
<1>2. S(2) = interlock.operator_jurisdiction_comfort
  BY Preconditions DEF satisfied_by_precondition
<1>3. S(3) <=> interlock.declared_max_capital_at_risk # None /\ interlock.declared_max_capital_at_risk > 0
  BY Preconditions DEF satisfied_by_precondition
<1>4. S(4) = interlock.kill_switch_ready
  BY Preconditions DEF satisfied_by_precondition
<1>5. S(5) = interlock.first_order_authorized
  BY Preconditions DEF satisfied_by_precondition
<1> HIDE DEF S
<1>6. (\A i \in 1 .. 5 : S(i)) <=> S(1) /\ S(2) /\ S(3) /\ S(4) /\ S(5)
  <2>1. \A i : i \in 1 .. 5 <=> i = 1 \/ i = 2 \/ i = 3 \/ i = 4 \/ i = 5
    OBVIOUS
  <2> QED BY <2>1, Zenon
<1> QED BY <1>1, <1>2, <1>3, <1>4, <1>5, <1>6, Zenon DEF S

\* Lemma: the gate is armed with canonical events just when the interlock is complete.
LEMMA GateIsTheInterlock ==
    ASSUME NEW interlock, interlock # None, Interlock(interlock)
    PROVE  LET gate == evaluate_operator_interlock(interlock)
           IN  /\ gate.armed /\ interlock_events_are_canonical(gate.events) <=> Complete(interlock)
               /\ gate.events[1].ref = interlock.ref
<1> DEFINE gate == evaluate_operator_interlock(interlock)
           events == GateEventsOf(interlock)
<1>1. /\ gate.events = events /\ (gate.armed <=> \A i \in 1 .. 5 : events[i].satisfied)
      /\ DOMAIN events = 1 .. 5 /\ Len(events) = 5
      /\ \A i \in 1 .. 5 :
           events[i] = [sequence_no |-> i, precondition |-> OPERATOR_PRECONDITIONS[i],
                        satisfied |-> satisfied_by_precondition(interlock, OPERATOR_PRECONDITIONS[i]),
                        ref |-> interlock.ref, first_order_authorized |-> interlock.first_order_authorized]
  BY GateEvents, Zenon
<1> HIDE DEF gate, events
<1>2. \A i \in 1 .. 5 : /\ events[i].satisfied = satisfied_by_precondition(interlock, OPERATOR_PRECONDITIONS[i])
                        /\ events[i].ref = interlock.ref
  <2> TAKE i \in 1 .. 5
  <2> DEFINE said == satisfied_by_precondition(interlock, OPERATOR_PRECONDITIONS[i])
             name == OPERATOR_PRECONDITIONS[i]
             event == events[i]
             ref == interlock.ref
             first == interlock.first_order_authorized
  <2>1. event = [sequence_no |-> i, precondition |-> name, satisfied |-> said, ref |-> ref,
                 first_order_authorized |-> first]
    BY <1>1, Zenon
  <2> HIDE DEF said, name, event, ref, first
  <2>2. event.satisfied = said /\ event.ref = ref
    BY <2>1, EventFields
  <2> QED BY <2>2, Zenon DEF said, event, ref
<1>3. gate.armed <=> \A i \in 1 .. 5 : satisfied_by_precondition(interlock, OPERATOR_PRECONDITIONS[i])
  BY <1>1, <1>2, Zenon
<1>4. 1 \in 1 .. 5 /\ Len(OPERATOR_PRECONDITIONS) = 5
  BY Preconditions
<1>5. {events[i].ref : i \in DOMAIN events} = {interlock.ref}
  <2>1. DOMAIN events = 1 .. 5 /\ \A i \in 1 .. 5 : events[i].ref = interlock.ref
    BY <1>1, <1>2, Zenon
  <2>2. \A ref : (\E i \in DOMAIN events : ref = events[i].ref) <=> ref = interlock.ref
    BY <1>4, <2>1, Zenon
  <2> QED BY <2>2
<1>6. ASSUME Complete(interlock) PROVE gate.armed /\ interlock_events_are_canonical(gate.events)
  <2>1. gate.armed /\ \A i \in 1 .. 5 : satisfied_by_precondition(interlock, OPERATOR_PRECONDITIONS[i])
    BY <1>3, <1>6, SatisfiedMeans, Zenon DEF Complete
  <2>2. interlock.first_order_authorized = TRUE /\ interlock.ref \notin {None, 0}
    BY <1>6, Zenon DEF Complete, Interlock
  <2>3. \A i \in 1 .. 5 : satisfied_by_precondition(interlock, OPERATOR_PRECONDITIONS[i]) = TRUE
    BY <2>1, Preconditions, Zenon DEF satisfied_by_precondition, Interlock
  <2>4. \A i \in DOMAIN events :
          events[i] = [sequence_no |-> i, precondition |-> OPERATOR_PRECONDITIONS[i], satisfied |-> TRUE,
                       ref |-> interlock.ref, first_order_authorized |-> TRUE]
    BY <1>1, <2>2, <2>3, Zenon
  <2>5. interlock.ref \in {events[i].ref : i \in DOMAIN events} \ {None, 0}
    BY <1>5, <2>2, Zenon
  <2>6. interlock_events_are_canonical(events)
    BY <1>1, <1>4, <2>4, <2>5, Zenon DEF interlock_events_are_canonical
  <2> QED BY <1>1, <2>1, <2>6, Zenon
<1>7. ASSUME gate.armed, interlock_events_are_canonical(gate.events) PROVE Complete(interlock)
  <2>1. \E ref \in {events[i].ref : i \in DOMAIN events} \ {None, 0} : TRUE
    BY <1>1, <1>7, Zenon DEF interlock_events_are_canonical
  <2>2. interlock.ref \notin {None, 0}
    BY <1>5, <2>1, Zenon
  <2> QED BY <1>3, <1>7, <2>2, SatisfiedMeans, Zenon DEF Complete
<1>8. gate.events[1].ref = interlock.ref
  BY <1>1, <1>2, <1>4, Zenon
<1> QED BY <1>6, <1>7, <1>8, Zenon DEF gate

\* What the facade hands over: a bundle that carries the proof of the interlock and the row that proves it, or nothing.
Bound(rows, session, interlock, arming, bound) ==
  LET events == GateEventsOf(interlock)
      digest == <<session, events, interlock.ref, _arming_attempt_ref(arming)>>
      receipt == Receipt(session, digest)
  IN  /\ bound.rows = Append(rows, [digest |-> digest, receipt |-> receipt])
      /\ bound.arming = [arming EXCEPT !.proof = [events |-> events, ref |-> interlock.ref, receipt |-> receipt]]
      /\ interlock_events_are_canonical(events)

\* Theorem: given a store, the facade (BindInterlock) records a complete interlock and binds the proof of it into the
\* bundle; of any other, and of a complete one without a store, it records nothing and hands over no bundle: there is no
\* partly proved interlock.
THEOREM InterlockIsAllOrNothing ==
    ASSUME NEW Row, NEW rows \in Seq(Row) \cup {None}, NEW session, NEW interlock, NEW arming,
           interlock # None, Interlock(interlock)
    PROVE  IF Complete(interlock) /\ rows # None
           THEN Bound(rows, session, interlock, arming, BindInterlock(rows, session, interlock, arming))
           ELSE BindInterlock(rows, session, interlock, arming) = [rows |-> rows, arming |-> None]
<1> DEFINE gate == evaluate_operator_interlock(interlock)
           ref == gate.events[1].ref
           events == GateEventsOf(interlock)
           canonical == interlock_events_are_canonical(gate.events)
           attempt == _arming_attempt_ref(arming)
           issued == RecordInterlock(rows, session, gate.events, ref, attempt)
           bound == BindInterlock(rows, session, interlock, arming)
<1>1. (gate.armed /\ canonical <=> Complete(interlock)) /\ ref = interlock.ref /\ gate.events = events
  BY GateIsTheInterlock, GateEvents, Zenon
<1>2. bound = IF ~gate.armed \/ rows = None \/ ~canonical THEN [rows |-> rows, arming |-> None]
              ELSE [rows |-> issued.rows,
                    arming |-> [arming EXCEPT !.proof =
                                 [events |-> gate.events, ref |-> ref, receipt |-> issued.receipt]]]
  BY Zenon DEF BindInterlock
<1>3. ASSUME Complete(interlock), rows # None PROVE Bound(rows, session, interlock, arming, bound)
  <2> DEFINE digest == <<session, events, interlock.ref, attempt>>
             receipt == Receipt(session, digest)
             kept == Append(rows, [digest |-> digest, receipt |-> receipt])
  <2>1. interlock_events_are_canonical(events)
    BY <1>1, <1>3, Zenon
  <2>2. issued = RecordInterlock(rows, session, events, interlock.ref, attempt)
    BY <1>1, Zenon
  <2>3. issued = [rows |-> kept, receipt |-> receipt]
    BY <2>1, <2>2, Zenon DEF RecordInterlock, interlock_binding_digest
  <2> HIDE DEF gate, ref, issued, canonical, kept, receipt, digest, events, bound, attempt
  <2>4. issued.rows = kept /\ issued.receipt = receipt
    BY <2>3
  <2>5. bound = [rows |-> kept, arming |-> [arming EXCEPT !.proof =
                                              [events |-> events, ref |-> interlock.ref, receipt |-> receipt]]]
    BY <1>1, <1>2, <1>3, <2>4, Zenon
  <2> DEFINE made == [arming EXCEPT !.proof = [events |-> events, ref |-> interlock.ref, receipt |-> receipt]]
  <2> HIDE DEF made
  <2>6. bound = [rows |-> kept, arming |-> made]
    BY <2>5, Zenon DEF made
  <2>7. bound.rows = kept /\ bound.arming = made
    BY <2>6
  <2> QED BY <2>1, <2>7, Zenon DEF Bound, made, kept, receipt, digest, events, attempt
<1>4. ASSUME ~(Complete(interlock) /\ rows # None) PROVE bound = [rows |-> rows, arming |-> None]
  BY <1>1, <1>2, <1>4, Zenon
<1> QED BY <1>3, <1>4, Zenon DEF bound

\* Every row's receipt is the one that was issued for its digest.
Issued(rows) == \A i \in DOMAIN rows : rows[i].receipt = Receipt(rows[i].digest[1], rows[i].digest)

\* Theorem: the interlock store keeps to one receipt for one digest, so a receipt it verifies vouches for one session,
\* one set of events, one reference and one signing attempt: a proof cannot arm another session.
THEOREM ReceiptVouchesOnce ==
    ASSUME NEW Row, NEW rows \in Seq(Row), Issued(rows),
           NEW session, NEW events, NEW ref, NEW attempt, NEW session2, NEW events2, NEW ref2, NEW attempt2, NEW receipt
    PROVE  /\ Issued(RecordInterlock(rows, session, events, ref, attempt).rows)
           /\ VerifyInterlock(rows, session, events, ref, attempt, receipt)
                /\ VerifyInterlock(rows, session2, events2, ref2, attempt2, receipt)
                => session = session2 /\ events = events2 /\ ref = ref2 /\ attempt = attempt2
<1> DEFINE digest == <<session, events, ref, attempt>>
           digest2 == <<session2, events2, ref2, attempt2>>
           row == [digest |-> digest, receipt |-> Receipt(session, digest)]
           kept == Append(rows, row)
<1>1. digest[1] = session /\ digest2[1] = session2
  OBVIOUS
<1>2. digest = digest2 => session = session2 /\ events = events2 /\ ref = ref2 /\ attempt = attempt2
  OBVIOUS
<1>3. RecordInterlock(rows, session, events, ref, attempt).rows \in {rows, kept}
  <2> HIDE DEF kept
  <2> QED BY DEF RecordInterlock, interlock_binding_digest, kept
<1>4. row.digest = digest /\ row.receipt = Receipt(session, digest)
  <2> HIDE DEF digest
  <2> QED OBVIOUS
<1> HIDE DEF digest, digest2, row
<1>5. Issued(kept)
  <2>1. /\ DOMAIN kept = 1 .. Len(rows) + 1 /\ DOMAIN rows = 1 .. Len(rows) /\ Len(rows) \in Nat
        /\ kept[Len(rows) + 1] = row /\ \A i \in 1 .. Len(rows) : kept[i] = rows[i]
    OBVIOUS
  <2> HIDE DEF kept
  <2>2. ASSUME NEW i \in DOMAIN kept PROVE kept[i].receipt = Receipt(kept[i].digest[1], kept[i].digest)
    <3>1. CASE i = Len(rows) + 1
      BY <1>1, <1>4, <2>1, <3>1
    <3>2. CASE i # Len(rows) + 1
      <4>1. i \in DOMAIN rows
        BY <2>1, <2>2, <3>2
      <4> QED BY <2>1, <4>1 DEF Issued
    <3> QED BY <3>1, <3>2
  <2> QED BY <2>2 DEF Issued
<1>6. ASSUME VerifyInterlock(rows, session, events, ref, attempt, receipt),
             VerifyInterlock(rows, session2, events2, ref2, attempt2, receipt)
      PROVE  digest = digest2
  <2>1. PICK i \in DOMAIN rows : rows[i].digest = digest /\ rows[i].receipt = receipt
    BY <1>6 DEF VerifyInterlock, interlock_binding_digest, digest
  <2>2. PICK j \in DOMAIN rows : rows[j].digest = digest2 /\ rows[j].receipt = receipt
    BY <1>6 DEF VerifyInterlock, interlock_binding_digest, digest2
  <2>3. Receipt(session, digest) = Receipt(session2, digest2)
    BY <1>1, <2>1, <2>2 DEF Issued
  <2> QED BY <2>3 DEF Receipt
<1> QED BY <1>2, <1>3, <1>5, <1>6

\* What else the arming chain asks of a bundle.
OtherwiseReady(arming, caps, signer_mode) ==
  /\ arming.mode_a_passed /\ arming.gate_admitted /\ arming.preflight_ok /\ arming.provisioning_ok
  /\ authorize_mode_b(caps) /\ arming.binding_verifies
  /\ signer_mode # "FAKE_LOCAL" /\ arming.write_port # None /\ arming.order_auth # None

\* Lemma: binding a proof leaves the other fields of a bundle alone.
LEMMA ProofField ==
    ASSUME NEW arming, NEW proof, "proof" \in DOMAIN arming
    PROVE  /\ [arming EXCEPT !.proof = proof].proof = proof
           /\ \A field : field # "proof" /\ field \in DOMAIN arming =>
                          [arming EXCEPT !.proof = proof][field] = arming[field]
           /\ DOMAIN [arming EXCEPT !.proof = proof] = DOMAIN arming
  OBVIOUS

\* Theorem: a bundle the facade has bound passes the interlock's part of the arming chain (runner.py): it arms just
\* when everything else the chain asks for is there.
THEOREM BoundInterlockArms ==
    ASSUME NEW Row, NEW rows \in Seq(Row), NEW session, NEW interlock, NEW arming, NEW bound, NEW caps, NEW signer_mode,
           Bound(rows, session, interlock, arming, bound),
           {"mode_a_passed", "gate_admitted", "preflight_ok", "provisioning_ok", "binding_verifies", "write_port",
            "order_auth", "proof"} \subseteq DOMAIN arming,
           None \notin {bound.rows, bound.arming, bound.arming.proof, "mode_b_not_armed", "mode_b_legacy_signer",
                        "mode_b_write_port_missing", "operator_interlock_unproven"}
    PROVE  _mode_b_arming_block_reason(bound.arming, caps, signer_mode, session, bound.rows) = None
             <=> OtherwiseReady(arming, caps, signer_mode)
<1> DEFINE events == GateEventsOf(interlock)
           digest == <<session, events, interlock.ref, _arming_attempt_ref(arming)>>
           receipt == Receipt(session, digest)
           proof == [events |-> events, ref |-> interlock.ref, receipt |-> receipt]
           row == [digest |-> digest, receipt |-> receipt]
           armed == bound.arming
<1>1. /\ bound.rows = Append(rows, row) /\ armed = [arming EXCEPT !.proof = proof]
      /\ interlock_events_are_canonical(events)
  BY Zenon DEF Bound
<1>2. proof.events = events /\ proof.ref = interlock.ref /\ proof.receipt = receipt
  <2> HIDE DEF events, receipt
  <2> QED OBVIOUS
<1>3. row.digest = digest /\ row.receipt = receipt
  <2> HIDE DEF digest, receipt
  <2> QED OBVIOUS
<1> HIDE DEF proof, row, events, digest, receipt, armed
<1>4. /\ armed.proof = proof
      /\ armed.mode_a_passed = arming.mode_a_passed /\ armed.gate_admitted = arming.gate_admitted
      /\ armed.preflight_ok = arming.preflight_ok /\ armed.provisioning_ok = arming.provisioning_ok
      /\ armed.binding_verifies = arming.binding_verifies /\ armed.write_port = arming.write_port
      /\ armed.order_auth = arming.order_auth
  BY <1>1, ProofField
<1>5. _arming_attempt_ref(armed) = _arming_attempt_ref(arming)
  BY <1>4 DEF _arming_attempt_ref
<1>6. bound.rows[Len(rows) + 1] = row /\ Len(rows) + 1 \in DOMAIN bound.rows
  BY <1>1
<1>7. VerifyInterlock(bound.rows, session, events, interlock.ref, _arming_attempt_ref(armed), receipt)
  BY <1>3, <1>5, <1>6, Zenon DEF VerifyInterlock, interlock_binding_digest, digest
<1>8. /\ armed # None /\ armed.proof # None /\ bound.rows # None
      /\ interlock_events_are_canonical(armed.proof.events)
      /\ VerifyInterlock(bound.rows, session, armed.proof.events, armed.proof.ref, _arming_attempt_ref(armed),
                         armed.proof.receipt)
  <2>1. armed.proof.events = events /\ armed.proof.ref = interlock.ref /\ armed.proof.receipt = receipt
    BY <1>2, <1>4
  <2>2. armed # None /\ armed.proof # None /\ bound.rows # None
    BY DEF armed
  <2> QED BY <1>1, <1>7, <2>1, <2>2
<1>9. OtherwiseReady(armed, caps, signer_mode) <=> OtherwiseReady(arming, caps, signer_mode)
  BY <1>4 DEF OtherwiseReady
<1>10. _mode_b_arming_block_reason(armed, caps, signer_mode, session, bound.rows) = None
         <=> OtherwiseReady(armed, caps, signer_mode)
  BY <1>8 DEF _mode_b_arming_block_reason, OtherwiseReady
<1> QED BY <1>9, <1>10 DEF armed
====
