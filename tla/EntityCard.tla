------------------------------ MODULE EntityCard ------------------------------
(***************************************************************************)
(* The KYA-OS entity card: its schema and builder, the surfaces it is      *)
(* emitted on, the pure parts of resolving it from one of them             *)
(* (src/src/card/schema.ts, build.ts, builder.ts, emit.ts, resolve.ts,     *)
(* cimd.ts, middleware.ts), and what the per-request proof computes        *)
(* without waiting (src/src/card/proof).                                   *)
(*                                                                         *)
(* An optional field holds a set of at most one value, empty where it is   *)
(* absent.  Display names and timestamps are left out.                     *)
(***************************************************************************)
EXTENDS Dids

CONSTANTS
    LowerCase,      \* LowerCase[t]: the lower-case form of a host token that has another
    MaxTtlSec,      \* MAX_TTL_SEC
    SkewSec         \* skewSec

ASSUME CardProofAssumption == MaxTtlSec \in Nat \ {0} /\ SkewSec \in Nat

Some(x) == {x}
Absent == {}
Only(option) == CHOOSE x \in option : TRUE

-----------------------------------------------------------------------------
(* The schema.                                                             *)

EntityTypes == {"mcp", "agent", "client", "verifier", "human"}

Did(did) == did.method \in {"key", "web"}

\* A capability is a plain name, or one with the credentials that attest it; an
\* attestation is [vc, subject].
Capability(name, vcs) == [name |-> name, attestations |-> vcs]
capabilityNames(caps) == {c.name : c \in Range(caps)}

StatusEntry(list, index) == [statusListCredential |-> list, statusListIndex |-> index]

EmptyCard ==
    [id |-> OtherDid(""), entityType |-> "mcp", key |-> Absent, capabilities |-> <<>>,
     responsibleParty |-> Absent, delegationRef |-> Absent, attestations |-> Absent,
     proofProfile |-> Absent, cimd |-> Absent, revocation |-> Absent]

\* EntityCardSchema.parse, FALSE where it throws.
parseCard(card) ==
    /\ Did(card.id) /\ card.entityType \in EntityTypes
    /\ \A party \in card.responsibleParty : Did(party)
    /\ \A i \in 1..Len(card.capabilities) : card.capabilities[i].name # ""
    /\ \A a \in card.attestations : \A s \in a.subject : Did(s)
    /\ \A entry \in card.revocation : entry.statusListIndex \in Nat

-----------------------------------------------------------------------------
(* CardBuilder: each call returns the builder; build() is buildCard of what *)
(* was collected.                                                          *)

card(did, entityType) == [EmptyCard EXCEPT !.id = did, !.entityType = entityType]

capability(b, name) == [b EXCEPT !.capabilities = Append(@, Capability(name, Absent))]

\* A second credential for a name joins the first attested entry of that name.
attestedCapability(b, name, vc) ==
    LET at == SelectInSeq(b.capabilities, LAMBDA c : c.name = name /\ c.attestations # {}) IN
    IF at = 0 THEN [b EXCEPT !.capabilities = Append(@, Capability(name, {vc}))]
    ELSE [b EXCEPT !.capabilities[at].attestations = @ \cup {vc}]

attestation(b, a) == [b EXCEPT !.attestations = @ \cup {a}]

accountableTo(b, party, via) ==
    [b EXCEPT !.responsibleParty = Some(party), !.delegationRef = IF via = Absent THEN @ ELSE via]

usesProof(b) == [b EXCEPT !.proofProfile = Some("org.kya-os/proof.v1")]

BuilderField(b, cimd, revocation, key) ==
    [b EXCEPT !.cimd = IF cimd = Absent THEN @ ELSE cimd,
              !.revocation = IF revocation = Absent THEN @ ELSE revocation,
              !.key = IF key = Absent THEN @ ELSE key]

\* The card of the collected facts.
buildCard(b) == [f \in DOMAIN EmptyCard |-> b[f]]

-----------------------------------------------------------------------------
(* did:web locations.  A DID that does not decode throws.                  *)

Url(scheme, host, path) == [scheme |-> scheme, host |-> host, path |-> path]
BadCardUrl == Url("", <<>>, <<>>)
Https(host, path) == Url("https", AuthorityHost(host), path)

Decodes(did) == ~ Contains(did.id, Undecodable) /\ ~ Contains(did.path, Undecodable)

WebLocation(did, root, name) ==
    IF did.method # "web" \/ ~ Decodes(did) THEN BadCardUrl
    ELSE Https(did.id, IF did.path = <<>> THEN <<".well-known", root>> ELSE Append(did.path, name))

didWebToCardUrl(did) == WebLocation(did, "kya-os-card.json", "card.json")
didWebToDidDocUrl(did) == WebLocation(did, "did.json", "did.json")

toLowerCase(token) == IF token \in DOMAIN LowerCase THEN LowerCase[token] ELSE token
LowerHost(host) == [i \in 1..Len(host) |-> toLowerCase(host[i])]

\* The host is compared without case; tokens are decoded already.
normalizeDid(did) == IF did.method # "web" THEN did ELSE WebDid(LowerHost(did.id), did.path)

-----------------------------------------------------------------------------
(* Emitting.                                                               *)

\* A serviceEndpoint override, or the conventional URL.
CardUrlOf(c, override) == IF override # Absent THEN Only(override) ELSE didWebToCardUrl(c.id)

ServiceType == "KyaOsEntityCard"
toDidServiceEntry(c, override) ==
    [id |-> "#kya-os-card", type |-> ServiceType, serviceEndpoint |-> CardUrlOf(c, override)]

\* The public projection: no credentials, keys or attestations.
cardSummary(c) ==
    [EmptyCard EXCEPT !.id = c.id, !.entityType = c.entityType,
        !.capabilities = [i \in 1..Len(c.capabilities) |-> Capability(c.capabilities[i].name, Absent)],
        !.responsibleParty = c.responsibleParty, !.delegationRef = c.delegationRef,
        !.proofProfile = c.proofProfile, !.revocation = c.revocation]

NoMeta == [ref |-> Absent, summary |-> Absent]
toServerCardMeta(c, byRef, override) ==
    IF byRef THEN [NoMeta EXCEPT !.ref = Some(CardUrlOf(c, override))]
    ELSE [NoMeta EXCEPT !.summary = Some(cardSummary(c))]

toCatalogEntry(c) == [meta |-> toServerCardMeta(c, TRUE, Absent)]

\* Absent where toA2AExtension throws.
toA2AExtension(c, override) ==
    IF c.entityType # "agent" THEN Absent
    ELSE Some([id |-> c.id, cardUrl |-> CardUrlOf(c, override), proofProfile |-> c.proofProfile])

toAgentFacts(c) ==
    [id |-> c.id, owner |-> c.responsibleParty, capabilities |-> capabilityNames(c.capabilities),
     delegationRef |-> c.delegationRef]

\* withKyaOsCard: what a server mounts; a did:key card has no service entry and
\* cannot be mounted by reference.
withKyaOsCard(c, byRef) ==
    IF byRef /\ c.id.method # "web" THEN [serviceEntry |-> Absent, serverMeta |-> NoMeta]
    ELSE [serviceEntry |-> IF c.id.method = "web" THEN Some(toDidServiceEntry(c, Absent)) ELSE Absent,
          serverMeta |-> toServerCardMeta(c, byRef, Absent)]

\* mountDidDocument: the entry replaces those with its id.
appendService(services, entry) == {s \in services : s.id # entry.id} \cup {entry}

-----------------------------------------------------------------------------
(* Resolving, the pure parts.                                              *)

\* The endpoint of a DID document's card service; it has one, as appendService
\* leaves it, or none.
cardEndpointFromDidDoc(services) == {s.serviceEndpoint : s \in {x \in services : x.type = ServiceType}}

\* fetchCard's checks of a body: its schema, and its identity where one is expected.
CardAccepted(c, expected) ==
    parseCard(c) /\ \A did \in expected : normalizeDid(c.id) = normalizeDid(did)

-----------------------------------------------------------------------------
(* Client ID metadata documents.                                           *)

\* An origin as URL parsing leaves it, Absent for what is no https URL.
HttpsOrigin(url) == IF url.scheme = "https" THEN Some(LowerHost(url.host)) ELSE Absent

sameUrl(a, b) == a # BadCardUrl /\ [a EXCEPT !.host = LowerHost(@)] = [b EXCEPT !.host = LowerHost(@)]

bindClientId(did) ==
    IF did.method # "web" \/ ~ Decodes(did) \/ did.id = <<>> THEN BadCardUrl ELSE Https(did.id, did.path)

didFromClientId(url) ==
    IF url.scheme # "https" THEN OtherDid("") ELSE WebDid(LowerHost(url.host), url.path)

\* The DID a document speaks for: a declared did:web must be on its own origin.
didFromMeta(meta) ==
    IF meta.did = Absent THEN didFromClientId(meta.client_id)
    ELSE LET declared == Only(meta.did) IN
         IF declared.method = "web" /\ (\/ HttpsOrigin(bindClientId(declared)) = Absent
                                        \/ HttpsOrigin(bindClientId(declared)) # HttpsOrigin(meta.client_id))
         THEN OtherDid("") ELSE declared

toClientMetadata(c, jwksUri) ==
    [client_id |-> bindClientId(c.id), did |-> Some(c.id), jwks_uri |-> Some(jwksUri)]

\* A card that does not parse where cardFromClientMetadata throws.
cardFromClientMetadata(meta) ==
    [EmptyCard EXCEPT !.id = didFromMeta(meta), !.entityType = "client",
        !.cimd = {[clientId |-> meta.client_id, jwksUri |-> u] : u \in meta.jwks_uri}]

\* The Ed25519 keys of a DID document.
didKeyedJwks(doc) == KeysOf(doc)

aliasListed(alsoKnownAs, url) == \E aka \in alsoKnownAs : sameUrl(aka, url)

\* verifyCimdBind against a document: one origin, the client_id is the DID's own URL
\* where the DID is expected, and the document lists it.
verifyCimdBind(cimd, docId, alsoKnownAs, expected) ==
    LET did == IF expected = Absent THEN docId ELSE Only(expected)
        origin == HttpsOrigin(bindClientId(did))
    IN /\ docId = did /\ origin # Absent
       /\ HttpsOrigin(cimd.clientId) = origin /\ HttpsOrigin(cimd.jwksUri) = origin
       /\ expected # Absent => sameUrl(bindClientId(did), cimd.clientId)
       /\ aliasListed(alsoKnownAs, cimd.clientId)

-----------------------------------------------------------------------------
(* The per-request proof (proof/build.ts, canonical.ts, http-sig.ts,       *)
(* signer.ts, types.ts and the checks of verify.ts).                       *)
(*                                                                         *)
(* A digest is the value it is of, a signature the key and what was        *)
(* signed, a thumbprint the key itself.  A key is [kty, name]: "OKP" and   *)
(* "EC" are usable, "weak" is an Ed25519 point of small order and "bad" a  *)
(* JWK that cannot be hashed.                                              *)

\* The request without params._meta.
computeRequestHash(req) == [method |-> req.method, params |-> req.params]

coveredClaims(meta) ==
    [prf |-> meta.prf, alg |-> meta.alg, did |-> meta.did, kid |-> meta.kid,
     audience |-> meta.audience, nonce |-> meta.nonce, created |-> meta.created,
     expires |-> meta.expires, requestHash |-> meta.requestHash, cnf |-> meta.cnf]

\* The RFC 9421 signature base: the covered components and the parameters.
httpSignatureBase(meta) ==
    [contentDigest |-> meta.requestHash, audience |-> meta.audience, nonce |-> meta.nonce,
     cnf |-> meta.cnf, created |-> meta.created, expires |-> meta.expires,
     keyid |-> meta.kid, alg |-> meta.alg]

detachedJwsSign(key, alg, kid, claims) ==
    [header |-> [alg |-> alg, kid |-> kid], key |-> key, over |-> claims]

\* ed25519SignerFromJwk and es256SignerFromJwk.
SignerFromJwk(did, kid, key) ==
    [did |-> did, kid |-> kid, key |-> key, jkt |-> Some(key),
     alg |-> IF key.kty = "EC" THEN "ES256" ELSE "EdDSA", raw |-> TRUE]

\* buildCardProof, Absent where it throws.  ctx is [audience, nonce, ttl, cnfJkt, now].
buildCardProof(req, signer, ctx) ==
    LET unsigned ==
            [prf |-> "org.kya-os/proof.v1", alg |-> signer.alg, did |-> signer.did,
             kid |-> signer.kid, audience |-> ctx.audience, nonce |-> ctx.nonce,
             created |-> ctx.now, expires |-> ctx.now + ctx.ttl,
             requestHash |-> computeRequestHash(req),
             cnf |-> IF ctx.cnfJkt # Absent THEN ctx.cnfJkt ELSE signer.jkt]
        jws == detachedJwsSign(signer.key, signer.alg, signer.kid, coveredClaims(unsigned))
        httpSig == IF signer.raw THEN Some([key |-> signer.key, over |-> httpSignatureBase(unsigned)])
                   ELSE Absent
    IN IF ctx.ttl > MaxTtlSec THEN Absent
       ELSE Some([jws |-> jws, httpSig |-> httpSig] @@ unsigned)

\* CardProofMetaSchema.
CardProofMetaSchema(meta) ==
    /\ meta.prf \in {"org.kya-os/proof.v1", "org.kya-os/proof@1"}
    /\ meta.alg \in {"EdDSA", "ES256"}
    /\ Did(meta.did) /\ Did(meta.kid.did) /\ meta.kid.fragment # "" /\ Did(meta.audience)
    /\ meta.nonce # "" /\ meta.created \in Nat /\ meta.expires \in Nat

\* The proof of a request's _meta, under either key.
readCardProof(meta) == IF meta.proof # Absent THEN meta.proof ELSE meta.legacyProof

keyMatchesAlg(key, alg) == IF alg = "ES256" THEN key.kty = "EC" ELSE key.kty \in {"OKP", "weak"}

checkWindow(meta, t) ==
    /\ meta.created < meta.expires /\ meta.expires - meta.created <= MaxTtlSec
    /\ meta.created <= t + SkewSec /\ meta.expires >= t - SkewSec

verifyDetachedJws(meta, key) ==
    /\ meta.jws.header = [alg |-> meta.alg, kid |-> meta.kid]
    /\ key.kty # "weak"
    /\ meta.jws.key = key /\ meta.jws.over = coveredClaims(meta)

\* verifyHttpSignature of a proof that came by header.
verifyHttpSignature(meta, key) ==
    \E sig \in meta.httpSig : key.kty # "weak" /\ sig.key = key /\ sig.over = httpSignatureBase(meta)

\* checkCnfFusion: whether it adds no reason, and the assurance it returns.
CnfAccepted(meta, key, tokenCnfJkt) ==
    /\ key.kty # "bad"
    /\ \A jkt \in meta.cnf : jkt = key
    /\ tokenCnfJkt # Absent => meta.cnf = tokenCnfJkt
CnfLevel(meta, key, tokenCnfJkt) ==
    IF tokenCnfJkt # Absent /\ meta.cnf = tokenCnfJkt /\ meta.cnf = Some(key) THEN "L3" ELSE "L3-minus"

AssuranceRank ==
    [level \in {"none", "L3-minus", "L3"} |-> IF level = "L3" THEN 2 ELSE IF level = "none" THEN 0 ELSE 1]
=============================================================================
