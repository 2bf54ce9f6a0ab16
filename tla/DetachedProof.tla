---------------------------- MODULE DetachedProof ----------------------------
(***************************************************************************)
(* Detached proofs: the hashes a proof binds, its meta and JWS, how the    *)
(* generator mints one and which content and signature a verifier takes.   *)
(*                                                                         *)
(* A JSON object is a function from member names to values; canonical JSON *)
(* followed by SHA-256 is injective, so a hash is the value hashed.  What  *)
(* may be absent is a set with at most one member.                         *)
(***************************************************************************)
EXTENDS Integers, Sequences, TLC

CONSTANTS
    ControlArgs,    \* argument names that start with "_kyaos"
    EnvelopeProfile \* the prf value of an envelope-profile proof

None == {}
Just(x) == {x}
The(s) == CHOOSE x \in s : TRUE

Object(members) == [kind |-> "object", of |-> members]
Array(items) == [kind |-> "array", of |-> items]
EmptyObject == <<>>

isJsonObject(value) == value.kind = "object"

withoutKeys(members, drop) == [k \in DOMAIN members \ drop |-> members[k]]

-----------------------------------------------------------------------------
(* The covered request: one call written in several shapes.                *)

ToolRequest(method, params) == [method |-> method, params |-> params]

\* The tool call a request describes, if it describes one.
asToolCall(request) ==
    LET named == request.method = "tools/call" /\ (\E p \in request.params :
                    isJsonObject(p) /\ "name" \in DOMAIN p.of)
        params == IF request.params = None THEN EmptyObject ELSE The(request.params).of
        args == IF "arguments" \in DOMAIN params THEN params["arguments"] ELSE Object(EmptyObject)
    IN IF named
       THEN {[name |-> params["name"], args |-> a.of, params |-> params] :
               a \in {x \in {args} : isJsonObject(x)}}
       ELSE IF \A p \in request.params : isJsonObject(p)
       THEN {[name |-> request.method, args |-> params,
              params |-> ("name" :> request.method) @@ ("arguments" :> Object(params))]}
       ELSE None

\* The tools/call request without its _meta and control arguments.
coveredToolCall(call) ==
    ToolRequest("tools/call",
        Just(Object(("arguments" :> Object(withoutKeys(call.args, ControlArgs)))
                    @@ withoutKeys(call.params, {"_meta"}))))

\* The same call in its other shapes.
alternateRequestShapes(request) ==
    UNION {{coveredToolCall(c), ToolRequest(c.name, Just(Object(c.args))),
            ToolRequest(c.name, Just(Object(withoutKeys(c.args, ControlArgs))))} :
           c \in asToolCall(request)}

\* toHolderBindingRequest: the legacy shape without control arguments.
toHolderBindingRequest(toolName, args) ==
    ToolRequest(toolName, Just(Object(withoutKeys(args, ControlArgs))))

-----------------------------------------------------------------------------
(* Hashes.                                                                 *)

\* Mutant of canonicalResponseBody: the envelope is hashed with its _meta.
EnvelopeWithMeta(data, envelope) == data

\* The part of a response an envelope or a body profile covers.
canonicalResponseBody(data, envelope) ==
    IF envelope /\ isJsonObject(data) THEN Object(withoutKeys(data.of, {"_meta"})) ELSE data

requestHash(request) ==
    IF request.params = None THEN [method |-> request.method]
    ELSE [method |-> request.method, params |-> The(request.params)]

\* computeCanonicalHashes.
computeCanonicalHashes(request, response, envelope) ==
    [requestHash |-> requestHash(request),
     responseHash |-> {canonicalResponseBody(data, envelope) : data \in response}]

acceptedRequestHashes(request) ==
    {requestHash(shape) : shape \in {request} \cup alternateRequestShapes(request)}

\* Mutant of findContentBindingMismatch: the response is compared only where given.
MismatchIfGiven(meta, request, response) ==
    LET hashes == computeCanonicalHashes(request, response, meta.prf # None)
    IN IF meta.requestHash \notin acceptedRequestHashes(request) THEN "request"
       ELSE IF response # None /\ meta.responseHash # None /\ meta.responseHash # hashes.responseHash
       THEN "response" ELSE "none"

\* How the content received fails to match the hashes a proof binds.
findContentBindingMismatch(meta, request, response) ==
    LET hashes == computeCanonicalHashes(request, response, meta.prf # None)
    IN IF meta.requestHash \notin acceptedRequestHashes(request) THEN "request"
       ELSE IF meta.responseHash = None /\ response # None THEN "response-unexpected"
       ELSE IF meta.responseHash # None /\ response = None THEN "response-missing"
       ELSE IF meta.responseHash # hashes.responseHash THEN "response" ELSE "none"

-----------------------------------------------------------------------------
(* Meta, payload and signature.                                            *)

\* A key identifier: absolute, naming its DID, or a fragment.
ProofKid(owner, fragment) == [owner |-> owner, fragment |-> fragment]

\* ProofMeta; options are the optional claims the caller passes.
ProofMeta(did, kid, ts, nonce, audience, sessionId, hashes, prf, options) ==
    [did |-> did, kid |-> kid, ts |-> ts, nonce |-> nonce, audience |-> audience,
     sessionId |-> sessionId, requestHash |-> hashes.requestHash,
     responseHash |-> hashes.responseHash, prf |-> prf, options |-> options]

\* The claims the signature covers; an empty optional claim is left out.
buildProofJwsPayload(meta) ==
    [aud |-> meta.audience, sub |-> meta.did, iss |-> meta.did, requestHash |-> meta.requestHash,
     responseHash |-> meta.responseHash, ts |-> meta.ts, nonce |-> meta.nonce,
     sessionId |-> meta.sessionId, prf |-> meta.prf,
     options |-> withoutKeys(meta.options, {k \in DOMAIN meta.options : meta.options[k] = ""})]

\* A compact JWS: protected header, embedded payload if any, and a signature, which
\* is the key and what it signed.
Jws(alg, kid, key, payload) ==
    [alg |-> alg, kid |-> kid, embedded |-> Just(payload),
     signature |-> [key |-> key, alg |-> alg, kid |-> kid, over |-> payload]]

\* validateDetachedProof: the required fields, a positive ts and a known profile.
validateDetachedProof(proof) ==
    /\ proof.jws # None
    /\ \A f \in {"did", "nonce", "audience", "sessionId"} : proof.meta[f] # ""
    /\ proof.meta.ts > 0
    /\ proof.meta.prf \subseteq {EnvelopeProfile}
    /\ "outcome" \in DOMAIN proof.meta.options =>
          proof.meta.options["outcome"] \in {"allowed", "denied", "step_up_required", "needs_authorization"}

isValidEd25519JWK(jwk) == jwk.kty = "OKP" /\ jwk.crv = "Ed25519" /\ jwk.x # ""

\* verifyEd25519 over the header and a payload.
Signs(jws, jwk, payload) == jws.signature = [key |-> jwk.x, alg |-> jws.alg, kid |-> jws.kid, over |-> payload]

\* verifyJWS with a detached payload: key, key id, algorithm and protected key id,
\* then the signature; a payload the JWS embeds must be the signed one.
verifyJWS(jws, jwk, payload, expectedKid) ==
    /\ isValidEd25519JWK(jwk)
    /\ jwk.kid = expectedKid
    /\ jws.alg = "EdDSA"
    /\ jws.kid = expectedKid
    /\ Signs(jws, jwk, payload)
    /\ \A embedded \in jws.embedded : embedded # payload => Signs(jws, jwk, embedded)

-----------------------------------------------------------------------------
(* Minting.                                                                *)

\* generateProof: the identity signs the claims; the profile is the only source of prf,
\* and a request hash computed earlier replaces the one of the request at hand.
generateProof(identity, request, response, session, options, envelope, precomputed, nonce, now) ==
    LET computed == computeCanonicalHashes(request, response, envelope)
        hashes == IF precomputed = None THEN computed
                  ELSE [computed EXCEPT !.requestHash = The(precomputed)]
        meta == ProofMeta(identity.did, identity.kid, now, nonce, session.audience,
                    session.sessionId, hashes, IF envelope THEN Just(EnvelopeProfile) ELSE None, options)
    IN [meta |-> meta, jws |-> Just(Jws("EdDSA", identity.kid, identity.key, buildProofJwsPayload(meta)))]

\* generateRequestProof: over the arguments without the control ones, with no response.
generateRequestProof(identity, toolName, args, audience, sessionId, nonce, now) ==
    generateProof(identity, toHolderBindingRequest(toolName, args), None,
        [audience |-> audience, sessionId |-> sessionId], EmptyObject, FALSE, None, nonce, now)

\* ProofGenerator.verifyProof: the generator checks a proof of its own.
OwnProof(identity, proof, request, response) ==
    /\ validateDetachedProof(proof)
    /\ proof.meta.did = identity.did /\ proof.meta.kid = identity.kid
    /\ findContentBindingMismatch(proof.meta, request, response) = "none"
    /\ verifyJWS(The(proof.jws), [kty |-> "OKP", crv |-> "Ed25519", x |-> identity.key, kid |-> identity.kid],
                 buildProofJwsPayload(proof.meta), identity.kid)

-----------------------------------------------------------------------------
(* Keys and the proof member of _meta.                                     *)

didOfKid(kid) == kid.owner

\* verificationMethodMatcher: an absolute kid matches its method or the fragment the
\* document lists for it; a relative one is resolved against the DID.
matchesKid(did, kid, methodId) ==
    IF kid.owner # None
    THEN methodId = kid \/ (kid.fragment # "" /\ methodId = ProofKid(None, kid.fragment))
    ELSE methodId \in {ProofKid(None, kid.fragment), ProofKid(Just(did), kid.fragment)}

\* extractProofFromMeta: the canonical member, then the earlier names of it.
extractProofFromMeta(meta) ==
    LET present == {k \in {"org.kya-os/response-proof", "org.kya-os/proof", "proof"} : k \in DOMAIN meta}
        key == IF "org.kya-os/response-proof" \in present THEN "org.kya-os/response-proof"
               ELSE IF "org.kya-os/proof" \in present THEN "org.kya-os/proof" ELSE "proof"
    IN IF present = {} THEN None ELSE {p \in {meta[key]} : validateDetachedProof(p)}
=============================================================================
