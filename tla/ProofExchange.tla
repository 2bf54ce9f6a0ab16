---------------------------- MODULE ProofExchange ----------------------------
(***************************************************************************)
(* Proofs between parties: a signer mints proofs, the channel may deliver  *)
(* one as minted or with a part of another, and a verifier fetches the key *)
(* and runs the verification pipeline while the signer rotates its key and *)
(* time passes.  The retention of nonces is ReplayAdmission's subject;     *)
(* here a consumed nonce stays consumed.                                   *)
(***************************************************************************)
EXTENDS DetachedProof, FiniteSets

CONSTANTS
    Checks,        \* verifications
    ExchangeSettings, \* [checks, minting, expectations, changes]: the verifications made,
                   \* what signers are asked to prove (see Mint), what a verifier checks
                   \* against (see Receive), whether time passes and the key is rotated
    DrawnNonces,        \* the nonces the signer draws, in order
    WebDocument,   \* the verification methods the web signer publishes first
    NextKey,       \* the key it rotates to
    KeyOfDid,      \* the key of each did:key
    Skew,          \* timestampSkewSeconds
    ExchangeTime        \* bound on the clock

VARIABLES
    pdoc,       \* the web signer's verification methods
    minted,     \* the proofs signed so far, with what was proved and the key
    pnonces,    \* the nonces consumed
    check,      \* check[c]: a verification
    ptime,
    pset        \* the setting of this behaviour; it never changes

exchangeVars == <<pdoc, minted, pnonces, check, ptime, pset>>

Idle == [stage |-> "idle", mode |-> "none", proof |-> None, request |-> None, response |-> None,
         did |-> None, audience |-> None, key |-> None, keys |-> {}, began |-> 0, result |-> "none"]

ExchangeInit ==
    /\ pset \in ExchangeSettings
    /\ pdoc = WebDocument
    /\ minted = {}
    /\ pnonces = {}
    /\ check = [c \in Checks |-> Idle]
    /\ ptime = 1

-----------------------------------------------------------------------------
(* The signer.                                                             *)

\* The web signer signs with the key it publishes, a did:key signer with its own.
SigningKey(did) == IF did \in DOMAIN KeyOfDid THEN KeyOfDid[did] ELSE The(pdoc[1].jwk).x

\* The identity a generator holds.
Signer(did) == [did |-> did, kid |-> ProofKid(Just(did), IF did \in DOMAIN KeyOfDid THEN "z" ELSE "k"),
                key |-> SigningKey(did)]

\* generateRequestProof for a call; createProofResponse; or, for the layer, which no
\* longer holds the arguments, generateProof with the hash it computed before.
Mint(job) ==
    LET nonce == DrawnNonces[Cardinality(minted) + 1]
        identity == Signer(job.did)
        session == [audience |-> job.audience, sessionId |-> "s"]
        proof ==
            CASE job.form = "request" ->
                   generateRequestProof(identity, job.call.method, The(job.call.params).of,
                                        job.audience, "s", nonce, ptime)
              [] job.form = "response" ->
                   generateProof(identity, job.call, job.response, session, job.options,
                                 job.envelope, None, nonce, ptime)
              [] job.form = "layer" ->
                   generateProof(identity, ToolRequest(job.call.method, None), job.response, session,
                                 job.options, job.envelope, Just(requestHash(job.call)), nonce, ptime)
    IN /\ Cardinality(minted) < Len(DrawnNonces)
       /\ minted' = minted \cup {[proof |-> proof, job |-> job, key |-> identity.key]}
       /\ UNCHANGED <<pdoc, pnonces, check, ptime>>

\* The signer replaces its published key.
RotateSigner ==
    /\ pset.changes /\ pdoc = WebDocument
    /\ pdoc' = [pdoc EXCEPT ![1].jwk = {[The(@) EXCEPT !.x = NextKey]}]
    /\ UNCHANGED <<minted, pnonces, check, ptime>>

-----------------------------------------------------------------------------
(* The channel: a proof arrives as minted, with one part of another proof, *)
(* or with one part removed.                                               *)

Delivered(m) ==
    LET p == m.proof IN
    {p, [p EXCEPT !.meta.prf = None], [p EXCEPT !.meta.responseHash = None], [p EXCEPT !.jws = None],
     [p EXCEPT !.jws = {[j EXCEPT !.embedded = None] : j \in @}]}
    \cup UNION {LET q == n.proof IN
       {[p EXCEPT !.meta = q.meta], [p EXCEPT !.meta.nonce = q.meta.nonce],
        [p EXCEPT !.meta.did = q.meta.did], [p EXCEPT !.meta.kid = q.meta.kid],
        [p EXCEPT !.meta.requestHash = q.meta.requestHash],
        [p EXCEPT !.meta.responseHash = q.meta.responseHash],
        [p EXCEPT !.meta.ts = q.meta.ts], [p EXCEPT !.meta.audience = q.meta.audience],
        [p EXCEPT !.jws = {[j EXCEPT !.embedded = The(q.jws).embedded] : j \in @}],
        [p EXCEPT !.jws = {[j EXCEPT !.signature = The(q.jws).signature] : j \in @}]} : n \in minted}

-----------------------------------------------------------------------------
(* The verifier.                                                           *)

\* verificationMethodJwk: the key a method publishes, if usable.
MethodKey(method) == method.jwk

resolveDID(did) ==
    IF did \in DOMAIN KeyOfDid
    THEN <<[id |-> ProofKid(Just(did), "z"),
            jwk |-> {[kty |-> "OKP", crv |-> "Ed25519", x |-> KeyOfDid[did], kid |-> None]}]>>
    ELSE IF did = "did:web:signer" THEN pdoc ELSE <<>>

\* The key of the matching method; a key without a kid takes the method's id.
KeyOfMethod(method) ==
    {[kty |-> jwk.kty, crv |-> jwk.crv, x |-> jwk.x,
      kid |-> IF jwk.kid = None THEN method.id ELSE The(jwk.kid)] : jwk \in MethodKey(method)}

fetchPublicKeyFromDID(did, kid) ==
    LET methods == resolveDID(did)
        found == {i \in DOMAIN methods : matchesKid(did, kid, methods[i].id)}
    IN IF didOfKid(kid) \notin {None, Just(did)} \/ found = {} THEN None
       ELSE {k \in KeyOfMethod(methods[CHOOSE i \in found : \A j \in found : i <= j]) : isValidEd25519JWK(k)}

PublishedKeys(did) == {k.x : k \in UNION {KeyOfMethod(resolveDID(did)[i]) : i \in DOMAIN resolveDID(did)}}

Ended(r, result) == [r EXCEPT !.stage = "done", !.result = result]

\* A proof arrives, extracted from _meta, on the path the caller chose: its own
\* generator, a holder's key, or a key still to be fetched; a detached verification
\* is given the payload as minted.
Receive(c, m, e) ==
    /\ check[c].stage = "idle"
    /\ \E p \in Delivered(m) :
         LET r == [Idle EXCEPT !.mode = e.mode, !.proof = Just(p), !.request = e.request,
                       !.response = e.response, !.did = e.did, !.audience = e.audience]
         IN check' = [check EXCEPT ![c] =
              IF extractProofFromMeta(e.key :> p) = None THEN Ended(r, "INVALID_PROOF_STRUCTURE")
              ELSE IF e.mode = "own" THEN
                   Ended([r EXCEPT !.keys = {SigningKey(The(e.did))}],
                         IF OwnProof(Signer(The(e.did)), p, The(e.request), e.response) THEN "valid" ELSE "invalid")
              ELSE IF e.mode = "holder" THEN
                   IF The(e.did) \notin DOMAIN KeyOfDid THEN Ended(r, "not_applicable")
                   ELSE IF p.meta.did # The(e.did) \/ {p.meta.audience} # e.audience THEN Ended(r, "unbound")
                   ELSE [r EXCEPT !.stage = "pipeline", !.keys = {KeyOfDid[The(e.did)]},
                            !.key = {[kty |-> "OKP", crv |-> "Ed25519", x |-> KeyOfDid[The(e.did)],
                                      kid |-> ProofKid(e.did, "z")]}]
              ELSE IF e.mode = "detached" /\ buildProofJwsPayload(p.meta) # buildProofJwsPayload(m.proof.meta)
              THEN Ended(r, "INVALID_JWS_PAYLOAD")
              ELSE [r EXCEPT !.stage = "fetch"]]
    /\ UNCHANGED <<pdoc, minted, pnonces, ptime>>

FetchKey(c) ==
    LET r == check[c]  meta == The(r.proof).meta
        key == fetchPublicKeyFromDID(meta.did, meta.kid)
    IN /\ r.stage = "fetch"
       /\ check' = [check EXCEPT ![c] =
            IF key = None THEN Ended(r, "DID_RESOLUTION")
            ELSE [r EXCEPT !.stage = "pipeline", !.key = key, !.keys = PublishedKeys(meta.did)]]
       /\ UNCHANGED <<pdoc, minted, pnonces, ptime>>

\* The kid names a key of the claimed DID, which is the expected one, and the
\* audience is expected.
validateSigner(meta, did, audience) ==
    IF didOfKid(meta.kid) \notin {None, Just(meta.did)} THEN "KID_DID_MISMATCH"
    ELSE IF did # None /\ did # {meta.did} THEN "DID_MISMATCH"
    ELSE IF audience # None /\ meta.audience \notin audience THEN "AUDIENCE_MISMATCH" ELSE "ok"

InSkew(ts, now) == now - ts <= Skew /\ ts - now <= Skew

\* verifyProof, verifyProofDetached (which has nothing to compare content with) and
\* verifyProofArtifact (which neither reads the clock nor spends the nonce).
Begin(c) ==
    LET r == check[c]  meta == The(r.proof).meta
        signer == validateSigner(meta, IF r.mode = "verify" THEN r.did ELSE None,
                                 IF r.mode = "verify" THEN r.audience ELSE None)
    IN /\ r.stage = "pipeline"
       /\ check' = [check EXCEPT ![c] =
            IF signer # "ok" THEN Ended(r, signer)
            ELSE IF r.mode # "artifact" /\ ~ InSkew(meta.ts, ptime) THEN Ended(r, "TIMESTAMP_SKEW_EXCEEDED")
            ELSE [r EXCEPT !.stage = "signature", !.began = ptime]]
       /\ UNCHANGED <<pdoc, minted, pnonces, ptime>>

\* verifySignature over the payload rebuilt from the meta, then validateContentBinding.
Conclude(c) ==
    LET r == check[c]  p == The(r.proof)
        bound == r.mode \in {"verify", "holder", "artifact"} /\ r.request # None
    IN /\ r.stage = "signature"
       /\ check' = [check EXCEPT ![c] =
            IF ~ verifyJWS(The(p.jws), The(r.key), buildProofJwsPayload(p.meta), p.meta.kid)
            THEN Ended(r, "INVALID_JWS_SIGNATURE")
            ELSE IF bound /\ findContentBindingMismatch(p.meta, The(r.request), r.response) # "none"
            THEN Ended(r, "CONTENT_BINDING_MISMATCH")
            ELSE IF r.mode = "artifact" THEN Ended(r, "valid") ELSE [r EXCEPT !.stage = "nonce"]]
       /\ UNCHANGED <<pdoc, minted, pnonces, ptime>>

\* consumeNonce, last: only a proof that passed everything spends its nonce.
ConsumeProofNonce(c) ==
    LET r == check[c]  pair == <<The(r.proof).meta.did, The(r.proof).meta.nonce>>
    IN /\ r.stage = "nonce"
       /\ pnonces' = pnonces \cup {pair}
       /\ check' = [check EXCEPT ![c] = Ended(r, IF pair \in pnonces THEN "NONCE_REPLAY_DETECTED" ELSE "valid")]
       /\ UNCHANGED <<pdoc, minted, ptime>>

ExchangeTick ==
    /\ pset.changes /\ ptime < ExchangeTime
    /\ ptime' = ptime + 1
    /\ UNCHANGED <<pdoc, minted, pnonces, check>>

ExchangeNext ==
    /\ \/ \E job \in pset.minting : Mint(job)
       \/ RotateSigner
       \/ \E c \in pset.checks, m \in minted, e \in pset.expectations : Receive(c, m, e)
       \/ \E c \in Checks : FetchKey(c) \/ Begin(c) \/ Conclude(c) \/ ConsumeProofNonce(c)
       \/ ExchangeTick
    /\ UNCHANGED pset

-----------------------------------------------------------------------------
(* Properties.                                                             *)

CallName(request) ==
    IF request.method = "tools/call" THEN The(request.params).of["name"] ELSE request.method

CallArgs(request) ==
    IF request.params = None THEN EmptyObject
    ELSE LET p == The(request.params).of IN
         IF request.method # "tools/call" THEN p
         ELSE IF "arguments" \in DOMAIN p THEN p["arguments"].of ELSE EmptyObject

\* The call a request stands for: its tool and business arguments.
BusinessCall(request) == <<CallName(request), withoutKeys(CallArgs(request), ControlArgs)>>

\* A proof over the arguments as sent needs a verifier that still has the control
\* arguments: it can leave them out, it cannot put them back.
HeldAsSent(m, r) ==
    LET sent == CallArgs(m.job.call) IN
    m.job.form # "request" /\ DOMAIN sent \cap ControlArgs # {} => CallArgs(The(r.request)) = sent

SameContent(m, r) ==
    /\ BusinessCall(m.job.call) = BusinessCall(The(r.request))
    /\ LET covered(d) == IF m.job.envelope /\ isJsonObject(d) THEN Object(withoutKeys(d.of, {"_meta"})) ELSE d
       IN {covered(d) : d \in m.job.response} = {covered(d) : d \in r.response}

\* Whatever the channel does, a verification that succeeds is about an exchange its
\* signer really proved: with a key the DID published when the key was fetched, with
\* every claim as minted, for the audience and DID expected, over the same tool,
\* arguments and response as the verifier holds, and once per nonce (verifyProof,
\* verifyProofArtifact, verifyProofDetached, assertHolderBinding).
BoundToExchange ==
    \A c \in Checks : check[c].result = "valid" =>
        LET r == check[c]  p == The(r.proof) IN
        /\ \E m \in minted :
              /\ m.proof.meta = p.meta /\ m.key \in r.keys
              /\ r.mode # "detached" /\ r.request # None => SameContent(m, r)
              /\ r.mode \in {"verify", "holder"} => m.job.did \in r.did \cup (IF r.did = None THEN {m.job.did} ELSE {})
                                          /\ m.job.audience \in r.audience \cup (IF r.audience = None THEN {m.job.audience} ELSE {})
        /\ \A d \in Checks \ {c} : check[d].result = "valid" /\ {r.mode, check[d].mode} \cap {"artifact", "own"} = {} =>
              The(check[d].proof).meta.nonce # p.meta.nonce

\* An exchange the verifier should accept, delivered as minted.
Honest(c, m) ==
    LET r == check[c] IN
    /\ r.stage = "done" /\ r.proof = Just(m.proof) /\ m.key \in r.keys
    /\ r.mode = "verify" => r.did \subseteq {m.job.did}
    /\ r.mode \in {"verify", "holder"} => (r.audience = None \/ m.job.audience \in r.audience)
    /\ r.mode \notin {"artifact", "own"} => r.began > 0
    /\ r.mode = "own" => r.did = Just(m.job.did)
    /\ r.request # None /\ r.mode # "detached" => SameContent(m, r) /\ HeldAsSent(m, r)
    /\ \A d \in Checks \ {c} : \A p \in check[d].proof : p.meta.nonce # m.proof.meta.nonce

\* A proof delivered as minted, in time and for the first time, is accepted: the
\* shapes in which signer and verifier write the call, the profile and the members of
\* _meta never come between them, as long as the verifier has the control arguments
\* that were hashed and the key is listed under the identifier the proof names
\* (alternateRequestShapes, computeCanonicalHashes, verifyJWS).
HonestProofVerifies ==
    \A c \in Checks : \A m \in minted :
        Honest(c, m) /\ (\A k \in check[c].key : k.kid = m.proof.meta.kid) => check[c].result = "valid"

\* Verification decides an exchange by its content: whatever is accepted was proved
\* by its signer, and whatever was proved and delivered as minted is accepted.
ProofsDecide == BoundToExchange /\ HonestProofVerifies

\* A document may list a method's id relative to the DID, and the key found for a
\* proof's kid then verifies that proof (fetchPublicKeyFromDID sets the key's kid "so
\* downstream kid-matching works").
PublishedKeyVerifies ==
    \A c \in Checks : \A m \in minted : Honest(c, m) => check[c].result = "valid"
=============================================================================
