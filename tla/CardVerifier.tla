----------------------------- MODULE CardVerifier -----------------------------
(***************************************************************************)
(* Discovering and verifying an entity card while its subject changes:     *)
(* resolveCard (src/src/card/resolve.ts), verifyCard (verify.ts) with      *)
(* verifyCardProof (proof/verify.ts), evaluateDelegationChain              *)
(* (delegation.ts) and createRevocationChecker (revocation.ts) behind its  *)
(* seams, and the request gate requireProof (middleware.ts).  Every await  *)
(* of these functions is a step; between them the subject moves or revises *)
(* its card, rotates its key, and the issuer revokes or reissues its       *)
(* status list.                                                            *)
(***************************************************************************)
EXTENDS EntityCard, CardDelegation

CONSTANTS
    Jobs,           \* calls of the verifier
    Holder,         \* the did:web DID whose card is verified
    CardSettings,   \* what a behaviour may start from: see the fields below
    Uses,           \* invocations to measure delegation chains with
    ListLength,     \* entries of the status list
    ListTtl,        \* lifetime of a status list credential
    CardTime        \* bound on the clock

InputForms == {"did", "agentFacts", "cardUrl", "a2a", "serverMeta", "cimd", "request"}

\* The cards a setting has, those given as a summary included.
Summaries(input) == IF input.form = "serverMeta" THEN input.ref.summary ELSE {}
CardsOf(s) == {s.card} \cup s.revised \cup Range(s.pages) \cup UNION {Summaries(i) : i \in s.inputs}

\* A setting has the holder's own card and keys, cards and credentials with at most
\* one status entry, and no foreign page where another spelling of the holder's DID
\* leads to.
SettingSound(s) ==
    /\ s.card.id = Holder /\ \A kid \in DOMAIN s.keys : kid.did = Holder
    /\ \A c \in CardsOf(s) : \A e, f \in c.revocation : e = f
    /\ s.chain \in Seq(Range(s.chain)) /\ \A vc \in Range(s.chain) : IsHop(vc)
    /\ \A i \in s.inputs : i.form \in InputForms /\ \A c \in Summaries(i) :
          normalizeDid(c.id) = Holder => didWebToCardUrl(c.id) \notin DOMAIN s.pages \ {didWebToCardUrl(Holder)}

ASSUME CardAssumption ==
    /\ Holder.method = "web" /\ ListTtl \in Nat /\ CardTime \in Nat /\ ListLength \in Nat \ {0}
    /\ \A use \in Uses : use.amount \in Decimals /\ use.at \in Nat
    /\ \A s \in CardSettings : SettingSound(s)

VARIABLES
    cset,       \* the setting: [jobs, inputs, card, pages, revised, urls, keys, stored, revocable,
                \* faults, changes, deps, chain, ctx, proofs, request, host]; host "any": whoever
                \* serves the status list may serve superseded or altered ones
    ctime,      \* the clock, seconds
    site,       \* the holder's site: [services, aka, pages], pages[url] a card
    statusList,     \* the published status list: [bits, from, until, kept], kept the superseded
                    \* versions its host still serves
    ckeys,      \* the keys the holder's DID document lists: kid -> key
    nonces,     \* consumed (did, nonce) pairs
    job         \* job[j]: see NoJob

cardVars == <<cset, ctime, site, statusList, ckeys, nonces, job>>

NoResult == [ok |-> FALSE, level |-> "L1", did |-> Absent, gate |-> "none"]

NoJob ==
    [stage |-> "idle", input |-> "none", url |-> BadCardUrl, expected |-> Absent, card |-> EmptyCard,
     proof |-> Absent, key |-> Absent, clean |-> TRUE, level |-> "none", proofOk |-> FALSE,
     verified |-> {}, unverified |-> {}, fresh |-> TRUE, accountable |-> TRUE, attested |-> TRUE,
     hops |-> {}, started |-> [bits |-> {}, gone |-> {}, keys |-> {}, nonces |-> {}], seen |-> {},
     result |-> NoResult]

Failed(r) == [r EXCEPT !.stage = "failed"]

\* Who publishes what at first: the holder's mounted document and card.
MountedServices(c) ==
    LET mount == withKyaOsCard(c, FALSE) IN
    IF mount.serviceEntry = Absent THEN {} ELSE appendService({}, Only(mount.serviceEntry))

\* The pages with c at a URL of its own.
PageAt(pages, url, c) == [u \in DOMAIN pages \cup {url} |-> IF u = url THEN c ELSE pages[u]]

CardInit ==
    /\ cset \in CardSettings /\ ctime = 1
    /\ site = [services |-> MountedServices(cset.card), aka |-> {bindClientId(Holder)},
               pages |-> PageAt(cset.pages, didWebToCardUrl(Holder), cset.card)]
    /\ statusList = [bits |-> {}, from |-> 0, until |-> ListTtl, kept |-> {}]
    /\ ckeys = cset.keys
    /\ nonces = {}
    /\ job = [j \in Jobs |-> NoJob]

-----------------------------------------------------------------------------
(* The holder and its issuer.                                              *)

Unmoved == UNCHANGED <<cset, ctime, nonces, job>>

\* The card moves to another URL of the holder, or of a host it chose; the DID
\* document follows.
MoveCard(url) ==
    /\ url \in cset.urls /\ url \notin DOMAIN site.pages
    /\ site' = [site EXCEPT
                  !.services = appendService(@, toDidServiceEntry(cset.card, Some(url))),
                  !.pages = PageAt([u \in DOMAIN @ \ {didWebToCardUrl(Holder)} |-> @[u]], url, cset.card)]
    /\ Unmoved /\ UNCHANGED <<statusList, ckeys>>

\* The card is revised in place.
ReviseCard(c) ==
    /\ c \in cset.revised
    /\ \E u \in DOMAIN site.pages :
         site.pages[u] = cset.card /\ site' = [site EXCEPT !.pages[u] = c]
    /\ Unmoved /\ UNCHANGED <<statusList, ckeys>>

RotateKey(kid) ==
    /\ "rotate" \in cset.changes /\ kid \in DOMAIN ckeys /\ ckeys[kid].name # "new"
    /\ ckeys' = [ckeys EXCEPT ![kid] = [kty |-> "OKP", name |-> "new"]]
    /\ Unmoved /\ UNCHANGED <<site, statusList>>

\* The versions the host keeps once the current one is replaced.
Superseded ==
    IF cset.host = "any"
    THEN statusList.kept \cup {[bits |-> statusList.bits, from |-> statusList.from, until |-> statusList.until]}
    ELSE {}

Revoke(index) ==
    /\ index \in cset.revocable \ statusList.bits
    /\ statusList' = [statusList EXCEPT !.bits = @ \cup {index}, !.kept = Superseded]
    /\ Unmoved /\ UNCHANGED <<site, ckeys>>

ReissueList ==
    /\ "reissue" \in cset.changes /\ statusList.from < ctime
    /\ statusList' = [statusList EXCEPT !.from = ctime, !.until = ctime + ListTtl, !.kept = Superseded]
    /\ Unmoved /\ UNCHANGED <<site, ckeys>>

CardTick ==
    /\ "tick" \in cset.changes /\ ctime < CardTime
    /\ ctime' = ctime + 1
    /\ UNCHANGED <<cset, site, statusList, ckeys, nonces, job>>

-----------------------------------------------------------------------------
(* Status lists.                                                           *)

deps == cset.deps

\* A published version as the issuer signed it.
SignedList(v) ==
    [bits |-> v.bits, from |-> Some(v.from), until |-> Some(v.until),
     purpose |-> "revocation", issuer |-> Holder, method |-> Holder, signed |-> TRUE]

\* What a fetch of the list may return: the published credential, one with another
\* purpose or no window, a superseded one its host still serves, and one altered on
\* its way.  A host other than "any" that alters a list meets a wired
\* verifyStatusList.
ListReplies ==
    LET list == SignedList(statusList) IN
    {list} \cup (IF cset.faults
                 THEN {[list EXCEPT !.purpose = "suspension"], [list EXCEPT !.until = Some(Unparsed)]}
                 ELSE {})
           \cup {SignedList(v) : v \in statusList.kept}
           \cup (IF deps.listProof \/ cset.host = "any"
                 THEN {[list EXCEPT !.bits = {}, !.signed = FALSE],
                       [list EXCEPT !.bits = {}, !.method = OtherDid("other")]}
                 ELSE {})

\* The Data Integrity proof: its method is the issuer's, and it covers the document.
verifyEddsaJcs2022(list) == list.method = list.issuer /\ list.signed

\* Mutant of isLive: the end of the window is not looked at.
LiveSince(list, t) == \A f \in list.from : f # Unparsed /\ f <= t

isLive(list, t) ==
    /\ \A u \in list.until : u # Unparsed /\ u >= t
    /\ \A f \in list.from : f # Unparsed /\ f <= t

FailClosed == [revoked |-> TRUE, fresh |-> FALSE]

\* Mutant of RevocationStatus: a list that is not accepted reads as not revoked.
StatusFailOpen(list, index) ==
    IF (deps.listProof => verifyEddsaJcs2022(list)) /\ list.purpose = "revocation" /\ index < ListLength
    THEN [revoked |-> index \in list.bits, fresh |-> isLive(list, ctime)]
    ELSE [revoked |-> FALSE, fresh |-> FALSE]

\* createRevocationChecker after its fetch; whatever throws reads as revoked.
RevocationStatus(list, index) ==
    IF (deps.listProof => verifyEddsaJcs2022(list)) /\ list.purpose = "revocation" /\ index < ListLength
    THEN [revoked |-> index \in list.bits, fresh |-> isLive(list, ctime)]
    ELSE FailClosed

\* A check of one entry: the reply, or a failed fetch.
StatusReads(entry) ==
    {RevocationStatus(list, entry.statusListIndex) : list \in ListReplies}
    \cup (IF cset.faults THEN {FailClosed} ELSE {})

-----------------------------------------------------------------------------
(* resolveCard.                                                            *)

\* The revoked entries no version within its lifetime still shows as valid.
Gone == {i \in statusList.bits : \A v \in statusList.kept : i \notin v.bits => v.until < ctime}

\* What is published when a verification begins.
Started == [bits |-> statusList.bits, gone |-> Gone, keys |-> {ckeys[k] : k \in DOMAIN ckeys}, nonces |-> nonces]

FetchFrom(r, url, expected) ==
    IF url.scheme # "https" THEN Failed(r)
    ELSE [r EXCEPT !.stage = "fetch", !.url = url, !.expected = expected]

Got(r, c) == [r EXCEPT !.stage = "capabilities", !.card = c]

\* resolveDidWeb, up to the DID document.
ByDid(r, did) ==
    IF didWebToDidDocUrl(did) = BadCardUrl THEN Failed(r)
    ELSE [r EXCEPT !.stage = "didDoc", !.url = didWebToDidDocUrl(did), !.expected = Some(did)]

\* Mutant of resolveInlineSummary: a did:web summary is taken as presented.
SummaryAsPresented(r, summary) ==
    IF parseCard(summary) THEN [Got(r, summary) EXCEPT !.expected = Some(summary.id)] ELSE Failed(r)

\* A did:web summary only names where the card is.
resolveInlineSummary(r, summary) ==
    IF summary.id.method = "web"
    THEN FetchFrom(r, didWebToCardUrl(summary.id), Some(summary.id))
    ELSE IF parseCard(summary) THEN Got(r, summary) ELSE Failed(r)

resolveFromServerMeta(r, meta) ==
    IF meta.ref # Absent THEN FetchFrom(r, Only(meta.ref), Absent)
    ELSE IF meta.summary # Absent THEN resolveInlineSummary(r, Only(meta.summary)) ELSE Failed(r)

\* A client metadata document served from its client_id.
ByClientMetadata(r, meta) ==
    LET c == cardFromClientMetadata(meta) IN
    IF ~ parseCard(c) \/ c.cimd = Absent THEN Failed(r)
    ELSE [r EXCEPT !.stage = "bind", !.card = c, !.url = meta.client_id]

\* resolveCard up to its first fetch, by the form of the reference.
ResolveCard(j, input) ==
    /\ job[j].stage = "idle" /\ j \in cset.jobs /\ input \in cset.inputs
    /\ LET ref == input.ref  r == [NoJob EXCEPT !.input = input.form, !.started = Started] IN
       job' = [job EXCEPT ![j] =
          CASE input.form \in {"did", "agentFacts"} -> ByDid(r, ref.id)
            [] input.form = "cardUrl" -> FetchFrom(r, ref.url, Absent)
            [] input.form = "a2a" -> IF ref = Absent THEN Failed(r) ELSE FetchFrom(r, Only(ref).cardUrl, Absent)
            [] input.form = "serverMeta" -> resolveFromServerMeta(r, ref)
            [] input.form = "cimd" -> ByClientMetadata(r, ref)
            [] input.form = "request" -> [r EXCEPT !.stage = "proof"]]
    /\ UNCHANGED <<cset, ctime, site, statusList, ckeys, nonces>>

World == <<cset, ctime, site, statusList, ckeys>>

\* Only the holder's site answers for the holder's host; a fetch may fail.
FetchDidDoc(j) ==
    LET r == job[j]
        endpoint == IF r.url = didWebToDidDocUrl(Holder) THEN cardEndpointFromDidDoc(site.services) ELSE Absent
    IN /\ r.stage = "didDoc"
       /\ job' = [job EXCEPT ![j] = IF endpoint = Absent THEN Failed(r)
                                    ELSE FetchFrom(r, Only(endpoint), r.expected)]
       /\ UNCHANGED World /\ UNCHANGED nonces

FetchCard(j) ==
    LET r == job[j] IN
    /\ r.stage = "fetch"
    /\ job' = [job EXCEPT ![j] =
                 IF r.url \in DOMAIN site.pages /\ CardAccepted(site.pages[r.url], r.expected)
                 THEN Got(r, site.pages[r.url]) ELSE Failed(r)]
    /\ UNCHANGED World /\ UNCHANGED nonces

\* The DID document of a client's card, and the bind to it.
BindClient(j) ==
    LET r == job[j] IN
    /\ r.stage = "bind"
    /\ job' = [job EXCEPT ![j] =
                 IF /\ r.card.id = Holder
                    /\ verifyCimdBind(Only(r.card.cimd), Holder, site.aka, Some(r.card.id))
                 THEN [Got(r, r.card) EXCEPT !.expected = Some(r.card.id)] ELSE Failed(r)]
    /\ UNCHANGED World /\ UNCHANGED nonces

-----------------------------------------------------------------------------
(* verifyCard: capabilities, the proof, accountability, attestations and   *)
(* revocation, one await after the other.                                  *)

\* checkCapabilities; the wired verifier is external: it verifies what a trusted
\* issuer attests and has not revoked.
CheckCapabilities(j) ==
    LET r == job[j]
        good == {c \in Range(r.card.capabilities) :
                    \E vc \in c.attestations : vc.trusted /\ vc.index \notin statusList.bits}
    IN /\ r.stage = "capabilities"
       /\ job' = [job EXCEPT ![j] =
            IF deps.capabilities
            THEN [r EXCEPT !.stage = "proof", !.verified = {c.name : c \in good},
                           !.unverified = {c.name : c \in Range(r.card.capabilities) \ good}]
            ELSE [r EXCEPT !.stage = "proof", !.unverified = capabilityNames(r.card.capabilities)]]
       /\ UNCHANGED World /\ UNCHANGED nonces

\* recomputeProof, and readCardProof for the gate: the schema check and kid binding
\* of verifyCardProof, up to its first await.
BeginProof(j) ==
    LET r == job[j] IN
    /\ r.stage = "proof"
    /\ \E meta \in cset.proofs :
         LET presented == readCardProof(meta) IN
         job' = [job EXCEPT ![j] =
            IF presented = Absent \/ ~ deps.proof
            THEN [r EXCEPT !.stage = "accountability",
                           !.result.gate = IF r.input = "request" THEN "proof_missing" ELSE "none"]
            ELSE LET proof == Only(presented) IN
                 IF ~ CardProofMetaSchema(proof) THEN [r EXCEPT !.stage = "accountability", !.clean = FALSE]
                 ELSE [r EXCEPT !.stage = "key", !.proof = presented,
                                !.clean = (proof.kid.did = proof.did)]]
    /\ UNCHANGED World /\ UNCHANGED nonces

\* deps.resolveKey: the holder's key of that kid, a key some store has under it, or
\* a failure.
ResolveKey(j) ==
    LET r == job[j]  proof == Only(r.proof)
        found == {ckeys[k] : k \in {kid \in DOMAIN ckeys : kid = proof.kid}}
                 \cup (IF deps.didKeys THEN cset.stored ELSE {})
    IN /\ r.stage = "key"
       /\ \/ \E key \in found :
               job' = [job EXCEPT ![j] = [r EXCEPT !.stage = "membership", !.key = Some(key)]]
          \/ /\ found = {} \/ cset.faults
             /\ job' = [job EXCEPT ![j] = [r EXCEPT !.stage = "claims", !.clean = FALSE]]
       /\ UNCHANGED World /\ UNCHANGED nonces

\* Mutant of MembershipOk: the resolver's key is not looked up in the DID document.
MembershipAssumed(key, did) ==
    IF ~ deps.didKeys THEN deps.trustResolveKey ELSE did = Holder /\ key.kty # "bad"

\* assertDidMembership: the key is one the DID publishes.
MembershipOk(key, did) ==
    IF ~ deps.didKeys THEN deps.trustResolveKey
    ELSE did = Holder /\ key.kty # "bad" /\ key \in {ckeys[k] : k \in DOMAIN ckeys}

AssertDidMembership(j) ==
    LET r == job[j] IN
    /\ r.stage = "membership"
    /\ job' = [job EXCEPT ![j] = [r EXCEPT !.stage = "claims",
                 !.clean = @ /\ MembershipOk(Only(r.key), Only(r.proof).did)]]
    /\ UNCHANGED World /\ UNCHANGED nonces

\* Algorithm, audience, request hash, window, signature and confirmation key.
ClaimsOk(proof, key) ==
    /\ keyMatchesAlg(key, proof.alg)
    /\ proof.audience = deps.audience
    /\ proof.requestHash = computeRequestHash(cset.request)
    /\ checkWindow(proof, ctime)
    /\ verifyDetachedJws(proof, key)
    /\ CnfAccepted(proof, key, deps.tokenCnf)

CheckClaims(j) ==
    LET r == job[j] IN
    /\ r.stage = "claims"
    /\ job' = [job EXCEPT ![j] =
         IF r.clean /\ r.key # Absent /\ ClaimsOk(Only(r.proof), Only(r.key))
         THEN [r EXCEPT !.stage = "nonce", !.level = CnfLevel(Only(r.proof), Only(r.key), deps.tokenCnf)]
         ELSE [r EXCEPT !.stage = "accountability", !.clean = FALSE]]
    /\ UNCHANGED World /\ UNCHANGED nonces

\* consumeNonce, only for a proof without a reason against it; without a seam, or
\* where the cache throws, the proof is refused.
ConsumeNonce(j) ==
    LET r == job[j]  pair == <<Only(r.proof).did, Only(r.proof).nonce>>
        accepted == [r EXCEPT !.stage = "accountability", !.proofOk = TRUE]
        refused == [r EXCEPT !.stage = "accountability", !.clean = FALSE]
    IN /\ r.stage = "nonce"
       /\ \/ /\ deps.nonceSeam /\ pair \notin nonces
             /\ nonces' = nonces \cup {pair}
             /\ job' = [job EXCEPT ![j] = accepted]
          \/ /\ pair \in nonces \/ ~ deps.nonceSeam \/ cset.faults
             /\ job' = [job EXCEPT ![j] = refused]
             /\ UNCHANGED nonces
       /\ UNCHANGED World

\* requireProof answers once the proof is recomputed.
GateAnswer(r) ==
    IF r.result.gate = "proof_missing" THEN "proof_missing"
    ELSE IF ~ r.proofOk THEN "proof_invalid"
    ELSE IF deps.minLevel # Absent /\ AssuranceRank[r.level] < AssuranceRank[Only(deps.minLevel)]
    THEN "proof_level_insufficient" ELSE "ok"

proofDid(r) == IF r.proofOk THEN Some(Only(r.proof).did) ELSE Absent

\* The accountability verifier is external: it evaluates the chain delegationRef
\* names, and joins its root to the responsible party and its leaf to the proof.
ChainJoins(r) ==
    /\ validateDelegationChain(cset.chain, cset.ctx, ctime)
    /\ responsiblePartyOf(cset.chain) = Only(r.card.responsibleParty)
    /\ \A did \in proofDid(r) : leafInvokerOf(cset.chain) = did

CheckAccountability(j) ==
    LET r == job[j] IN
    /\ r.stage = "accountability"
    /\ job' = [job EXCEPT ![j] =
         IF r.input = "request" THEN [r EXCEPT !.stage = "done", !.result.gate = GateAnswer(r)]
         ELSE IF r.card.responsibleParty = Absent THEN [r EXCEPT !.stage = "attestations"]
         ELSE IF ~ deps.accountability \/ ~ ChainJoins(r)
         THEN [r EXCEPT !.stage = "attestations", !.accountable = FALSE]
         ELSE [r EXCEPT !.stage = "hops", !.hops = StatusHops(cset.chain),
                        !.fresh = (StatusHops(cset.chain) # {})]]
    /\ UNCHANGED World /\ UNCHANGED nonces

\* evaluateRevocationChain: one hop, root first; the first revoked one ends it.
CheckHop(j) ==
    LET r == job[j]
        hop == Min(r.hops)
        entry == statusEntryOf(cset.chain[hop])
    IN
    /\ r.stage = "hops"
    /\ IF r.hops = {} THEN job' = [job EXCEPT ![j] = [r EXCEPT !.stage = "attestations"]]
       ELSE \E read \in StatusReads(entry) :
              job' = [job EXCEPT ![j] =
                IF read.revoked
                THEN [r EXCEPT !.stage = "attestations", !.accountable = FALSE, !.fresh = FALSE]
                ELSE [r EXCEPT !.hops = @ \ {hop}, !.fresh = @ /\ read.fresh,
                               !.seen = @ \cup {[index |-> entry.statusListIndex, live |-> read.fresh]}]]
    /\ UNCHANGED World /\ UNCHANGED nonces

\* checkAttestations; the wired verifier is external.
CheckAttestations(j) ==
    LET r == job[j] IN
    /\ r.stage = "attestations"
    /\ job' = [job EXCEPT ![j] = [r EXCEPT !.stage = "revocation",
         !.attested = (\A a \in r.card.attestations : deps.attestations /\ a.vc.trusted)]]
    /\ UNCHANGED World /\ UNCHANGED nonces

deriveConformanceLevel(verified, unverified, proofOk, fresh) ==
    IF verified = {} \/ unverified # {} THEN "L1"
    ELSE IF proofOk /\ fresh THEN "L3" ELSE "L2"

\* verifyCard's result, the level demoted on revocation.
Verdict(r, read) ==
    LET verified == IF read.revoked THEN {} ELSE r.verified
        unverified == IF read.revoked THEN r.verified \cup r.unverified ELSE r.unverified
    IN [ok |-> r.accountable /\ r.attested /\ ~ read.revoked,
        level |-> deriveConformanceLevel(verified, unverified, r.proofOk, read.fresh /\ r.fresh),
        did |-> proofDid(r), gate |-> "none"]

\* checkCardRevocation; unchecked without a checker or an entry.
CheckCardRevocation(j) ==
    LET r == job[j]
        reads == IF deps.checker /\ r.card.revocation # Absent
                 THEN StatusReads(Only(r.card.revocation)) ELSE {[revoked |-> FALSE, fresh |-> TRUE]}
    IN /\ r.stage = "revocation"
       /\ \E read \in reads :
            job' = [job EXCEPT ![j] = [r EXCEPT !.stage = "done", !.result = Verdict(r, read),
              !.seen = @ \cup {[index |-> e.statusListIndex, live |-> read.fresh] :
                                e \in IF deps.checker THEN r.card.revocation ELSE {}}]]
       /\ UNCHANGED World /\ UNCHANGED nonces

JobStep(j) ==
    \/ \E input \in cset.inputs : ResolveCard(j, input)
    \/ FetchDidDoc(j) \/ FetchCard(j) \/ BindClient(j)
    \/ CheckCapabilities(j)
    \/ BeginProof(j) \/ ResolveKey(j) \/ AssertDidMembership(j) \/ CheckClaims(j) \/ ConsumeNonce(j)
    \/ CheckAccountability(j) \/ CheckHop(j) \/ CheckAttestations(j) \/ CheckCardRevocation(j)

CardNext ==
    \/ \E j \in Jobs : JobStep(j)
    \/ \E url \in cset.urls : MoveCard(url)
    \/ \E c \in cset.revised : ReviseCard(c)
    \/ \E kid \in DOMAIN ckeys : RotateKey(kid)
    \/ \E index \in cset.revocable : Revoke(index)
    \/ ReissueList
    \/ CardTick

CardSpec == CardInit /\ [][CardNext]_cardVars

-----------------------------------------------------------------------------
(* Properties.                                                             *)

Past(j, stages) == job[j].stage \notin {"idle", "didDoc", "fetch", "bind", "failed"} \cup stages

\* A card obtained by a DID, a did:web summary or client metadata is that DID's: it
\* names it, and only the DID's own site or a page its DID document pointed to can
\* have supplied it, whatever the subject moved or revised between the two fetches
\* (resolveDidWeb, resolveInlineSummary, didFromMeta, verifyCimdBind).
CardIsTheDids ==
    \A j \in Jobs : Past(j, {}) /\ job[j].expected # Absent =>
        /\ normalizeDid(job[j].card.id) = normalizeDid(Only(job[j].expected))
        /\ normalizeDid(job[j].card.id) = Holder =>
             \/ job[j].card \in {cset.card} \cup cset.revised
             \/ job[j].input = "cimd" /\ HttpsOrigin(job[j].url) = HttpsOrigin(bindClientId(Holder))

\* A card whose own entry, or whose delegation chain, was revoked before the
\* verification began is not ok, and the former stays at L1, while the list's host
\* serves the current list or fails, or alters it before a wired verifyStatusList.
\* A host may also serve a superseded list; its signature holds, its bit is read, and
\* L2 accepts it (revocation.ts:22-28).  Then verifyStatusList and isLive still keep
\* the card from being ok at L3 once every version without the revocation expired.
\* Without verifyStatusList such a host can clear a revocation (revocation.ts:105-107):
\* nothing is said (checkCardRevocation, evaluateRevocationChain, demoteOnRevocation,
\* createRevocationChecker).
RevokedCardRefused ==
    \A j \in Jobs : job[j].stage = "done" /\ job[j].input # "request" =>
        LET r == job[j]
            Listed(bits) == deps.checker /\ \E e \in r.card.revocation : e.statusListIndex \in bits
            ChainListed(bits) == r.card.responsibleParty # Absent
                /\ \E i \in 1..Len(cset.chain) : \E s \in cset.chain[i].status : s.statusListIndex \in bits
        IN
        /\ cset.host = "current" =>
             /\ Listed(r.started.bits) => ~ r.result.ok /\ r.result.level = "L1"
             /\ ChainListed(r.started.bits) => ~ r.result.ok
        /\ deps.listProof =>
             /\ Listed(r.started.gone) => r.result.level # "L3"
             /\ ChainListed(r.started.gone) => ~ (r.result.ok /\ r.result.level = "L3")

\* Level L3, or a pass of the request gate, was earned: the holder itself signed this
\* request for this audience with a key it published since the verification began,
\* in a proof not used before; L3 also has every capability attested, every status
\* read live, and the gate's minimum is met (verifyCardProof, deriveConformanceLevel,
\* requireProof).
AssuranceEarned ==
    \A j \in Jobs :
        LET r == job[j]  proof == Only(r.proof) IN
        job[j].stage = "done" /\ (r.result.level = "L3" \/ r.result.gate = "ok") =>
            /\ proof.jws.over.requestHash = computeRequestHash(cset.request)
            /\ proof.jws.over.audience = deps.audience
            /\ proof.jws.over.nonce = proof.nonce /\ proof.jws.over.did = proof.did
            /\ proof.did = Holder
            /\ proof.jws.key \in r.started.keys \cup {ckeys[k] : k \in DOMAIN ckeys}
            /\ <<proof.did, proof.nonce>> \notin r.started.nonces
            /\ proof.expires - proof.created <= MaxTtlSec
            /\ \A q \in Jobs \ {j} : job[q].proofOk => Only(job[q].proof).nonce # proof.nonce
            /\ r.result.level = "L3" =>
                 /\ \A c \in Range(r.card.capabilities) : \E vc \in c.attestations : vc.trusted
                 /\ \A s \in r.seen : s.live
            /\ r.result.gate = "ok" /\ deps.minLevel = Some("L3") => deps.tokenCnf = Some(proof.jws.key)

\* Within a delegation chain a verification accepted, whatever the leaf authorises
\* from then on is authorised by every credential above it (attenuates,
\* caveatNarrows, decimalLte, expiryReasons).
ChainConfines ==
    \A j \in Jobs :
        job[j].stage \in {"hops", "attestations"} /\ job[j].card.responsibleParty # Absent /\ job[j].accountable =>
            \A use \in Uses : use.at >= ctime /\ Permits(cset.chain[Len(cset.chain)], use) =>
                \A i \in 1..Len(cset.chain) : Permits(cset.chain[i], use)

\* A card that is accepted stands: it is the DID's own, and neither it nor its
\* delegation had been revoked when the verification began, as far as the lists the
\* host serves can show.
CardStands == CardIsTheDids /\ RevokedCardRefused
=============================================================================
