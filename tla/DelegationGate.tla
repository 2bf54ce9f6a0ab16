--------------------------- MODULE DelegationGate ---------------------------
(***************************************************************************)
(* wrapWithDelegation and the policy gate behind it: tool calls that       *)
(* present a delegation credential, or none and rely on a durable grant    *)
(* (src/src/middleware/with-kya-os.delegation-gate.ts, .grants.ts,         *)
(* .delegation-verify.ts, .policy-gate.ts), the chain walk and the         *)
(* credential verifier they use (src/src/delegation/chain-enforcement.ts,  *)
(* vc-verifier.ts), the caches of signatures and of status answers         *)
(* (utils/ttl-cache.ts, status-cache.ts) and the grant store               *)
(* (providers/grant-store.ts).  Calls interleave at every await; meanwhile *)
(* credentials and grants are revoked, issuer keys rotate and time passes. *)
(*                                                                         *)
(* What a signature proves is a fact about a credential: x.authentic says  *)
(* that it was made with the key of x.signer, the DID in the credential's  *)
(* issuer.  How audit records are delivered belongs to AuditTrail, outcome *)
(* proofs to ProofLayer; how a proof's nonce is admitted belongs to        *)
(* ReplayAdmission, and is one step here.                                  *)
(***************************************************************************)
EXTENDS ScopeMatcher, FiniteSetsExt, SequencesExt

CONSTANTS
    Calls,        \* tool calls
    Request,      \* Request[c]: what call c carries
    Creds,        \* credentials
    Cred,         \* Cred[x]: what credential x says, and who really signed it
    HonestChain,  \* HonestChain[x]: the true ancestors of x, root first
    Answers,      \* chains a resolver that is not honest may return
    Server,       \* identity.did of the verifying server
    KeyDids,      \* DIDs that encode their key (did:key)
    Risk,         \* Risk[action]: how RiskClassifier rates an action
    Quorum,       \* stepUpQuorum
    Approvers,    \* stepUpApprovers; empty: anyone may approve
    Settings,     \* what a behaviour may start from
    MaxChain,     \* maxChainLength
    MaxEntries,   \* capacity of the signature and of the status cache
    Latency,      \* the longest a status or key request takes
    MaxTime,      \* the latest instant that matters
    None

ASSUME GateAssumption ==
    /\ Quorum \in Nat \ {0} /\ MaxChain \in Nat \ {0}
    /\ MaxEntries \in Nat /\ Latency \in Nat /\ MaxTime \in Nat
    /\ None \notin Creds
    /\ \A c \in Calls :
         /\ Request[c].cred \in Creds \cup {None}
         /\ Request[c].scope \in Values
         /\ IsFiniteSet(Request[c].approvals)
    /\ \A x \in Creds :
         /\ Cred[x].authority \in Authorities
         /\ {Cred[x].notBefore, Cred[x].expires, Cred[x].jwtExp} \subseteq Int
         /\ HonestChain[x] \in Seq(Creds)
    /\ Answers \subseteq Seq(Creds)
    /\ \A s \in Settings :
         /\ s.horizon \in 0 .. MaxTime /\ s.calls \subseteq Calls
         /\ s.mode \in {"off", "warn", "enforce"}
         /\ s.policy \in {"none", "unmatched", "matched"}
         /\ {s.sigTtl, s.statusTtl} \subseteq Nat

\* A time after the horizon: no expiry, not revoked.
Never == MaxTime + 1

VARIABLES
    now,          \* the clock
    revokedAt,    \* revokedAt[x]: when the status bit of x was set
    graphAt,      \* graphAt[id]: since when the revocation checker reports it revoked
    rotatedAt,    \* rotatedAt[d]: when DID d stopped publishing its key
    sigCache,     \* signature results, oldest first
    statusCache,  \* status answers, oldest first
    store,        \* the grant store, in insertion order
    bound,        \* number of grants bound so far
    dead,         \* the grants (by number) that were revoked
    spent,        \* nonces of holder proofs that were admitted
    pc, at, out,  \* each call's control point, locals and outcome
    setting       \* the setting of this behaviour; it never changes

worldVars == <<now, revokedAt, graphAt, rotatedAt>>
cacheVars == <<sigCache, statusCache>>
grantVars == <<store, bound, dead>>
vars == <<worldVars, cacheVars, grantVars, spent, pc, at, out, setting>>

Mode == setting.mode
Faulty(part) == part \in setting.faults

-----------------------------------------------------------------------------
(* Array.prototype.filter and deletions from an insertion-ordered Map,     *)
(* stated without recursion by the position of each element that stays.    *)

\* The k-th smallest of a finite set of positions.
Kth(places, k) == CHOOSE i \in places : Cardinality({j \in places : j <= i}) = k

\* What remains of s when only the elements of kept stay.
Filter(s, kept) ==
    LET places == {i \in DOMAIN s : s[i] \in kept}
    IN [k \in 1 .. Cardinality(places) |-> s[Kth(places, k)]]

-----------------------------------------------------------------------------
(* TtlCache: sequences of [key, value, until].                             *)

\* Mutant of CacheHits: an entry is served for as long as it is kept.
CacheHitsEver(cache, key) == {e \in Range(cache) : e.key = key}

\* get: an entry is served up to its expiry, the boundary included.
CacheHits(cache, key) == {e \in Range(cache) : e.key = key /\ now <= e.until}

\* An expired entry is deleted when it is read.
CacheRead(cache, key) == Filter(cache, {e \in Range(cache) : e.key = key => now <= e.until})

\* set: the key moves to the end, and the oldest entries make room.
CacheSet(cache, key, value, ttl) ==
    LET others == Filter(cache, {e \in Range(cache) : e.key # key})
        n == Len(others)
        room == IF n < MaxEntries THEN others ELSE SubSeq(others, n - MaxEntries + 2, n)
    IN IF ttl <= 0 \/ MaxEntries = 0 THEN cache
       ELSE Append(room, [key |-> key, value |-> value, until |-> now + ttl])

-----------------------------------------------------------------------------
(* Pure checks of one credential and of a chain.                           *)

\* The validity window of a credential includes its last instant.
InWindow(x) == Cred[x].notBefore <= now /\ now <= Cred[x].expires

\* validateBasicProperties: schema, subject shape and status, and the window.
Basic(x) == Cred[x].wellFormed /\ InWindow(x)

\* validateJwtTimeBounds: a JWT is expired at its exp.
JwtInWindow(x) == now < Cred[x].jwtExp

\* prepareVcJwtCredential: and it names its signer.
JwtPrepared(x) == JwtInWindow(x) /\ Basic(x) /\ Cred[x].issMatches

\* verifyDelegationAudience, and a re-delegation must have an audience.
AudienceOK(x) ==
    /\ Cred[x].audience = {} \/ Server \in Cred[x].audience
    /\ Cred[x].parent # None => Cred[x].audience # {}

\* Mutant of Linked: a child is who it claims to be issued by.
LinkedByClaim(chain, k) ==
    LET x == Cred[chain[k]] IN
    IF k = 1 THEN x.parent = None /\ x.signer \in setting.trusted
    ELSE LET parent == Cred[chain[k - 1]] IN
         /\ x.parent = parent.id
         /\ x.issuer = parent.subject
         /\ ValidateScopeAttenuation(parent.authority, x.authority)

\* The k-th credential of a chain: a root is signed by a trusted issuer; any
\* other names its parent, is issued and signed by the parent's subject, and
\* narrows its scopes.
Linked(chain, k) ==
    LET x == Cred[chain[k]] IN
    IF k = 1 THEN x.parent = None /\ x.signer \in setting.trusted
    ELSE LET parent == Cred[chain[k - 1]] IN
         /\ x.parent = parent.id
         /\ x.issuer = parent.subject
         /\ x.signer = parent.subject
         /\ ValidateScopeAttenuation(parent.authority, x.authority)

\* The earliest deadline of the chain, and of the JWT.
Earliest(evidence, chain) ==
    Min({Cred[x].expires : x \in Range(chain)}
        \cup IF evidence.form = "jwt" THEN {Cred[evidence.cred].jwtExp} ELSE {})

-----------------------------------------------------------------------------
(* The grant store.                                                        *)

Active(g) == g.status = "active" /\ now < g.expires

\* activeGrants and coversScopes: copies, in insertion order.
ActiveGrants(scope) == Filter(store, {g \in Range(store) : Active(g) /\ scope \in g.scopes})

\* bind replaces the grant of the same id in place.
BindGrant(grants, g) ==
    IF \E k \in DOMAIN grants : grants[k].id = g.id
    THEN [k \in DOMAIN grants |-> IF grants[k].id = g.id THEN g ELSE grants[k]]
    ELSE Append(grants, g)

\* Mutant of GrantScopes: only what the delegation lists.
DelegatedScopes(scope, x) == Cred[x].authority.flat

\* The required scope is kept beside the delegated ones: the delegation may have
\* granted it through a pattern, and the store looks scopes up exactly.
GrantScopes(scope, x) == {scope} \cup Cred[x].authority.flat

-----------------------------------------------------------------------------
(* A call.                                                                 *)

Local ==
    [started |-> 0, path |-> "presented", grants |-> <<>>, grant |-> None,
     evidence |-> [cred |-> None, form |-> "object"], chain |-> <<>>, k |-> 0,
     sig |-> "none", stat |-> "none", begun |-> 0, valid |-> FALSE,
     proved |-> FALSE, seen |-> {}, gone |-> {}]

Goto(c, point, locals) ==
    /\ pc' = [pc EXCEPT ![c] = point]
    /\ at' = [at EXCEPT ![c] = locals]

\* The call is answered; what it rested on is kept for the properties.
Answer(c, kind) ==
    /\ out' = [out EXCEPT ![c] =
                 [kind |-> kind, chain |-> at[c].chain, started |-> at[c].started,
                  path |-> at[c].path, grant |-> at[c].grant]]
    /\ Goto(c, "done", [Local EXCEPT !.seen = at[c].seen, !.gone = at[c].gone,
                                !.proved = at[c].proved])

\* verifyDelegation begins: an object goes to the chain walk, a JWT to its envelope.
Verify(c, evidence, locals) ==
    LET x == evidence.cred
        key == <<"jwt", x>>
        fresh == [locals EXCEPT !.evidence = evidence, !.chain = <<>>, !.k = 0, !.valid = FALSE]
    IN
    \/ /\ evidence.form = "object"
       /\ Goto(c, "resolve", fresh)
       /\ UNCHANGED cacheVars
    \/ /\ evidence.form = "jwt" /\ ~JwtPrepared(x)
       /\ Goto(c, "verdict", fresh)
       /\ UNCHANGED cacheVars
    \/ /\ evidence.form = "jwt" /\ JwtPrepared(x)
       /\ Goto(c, "envelope",
               [fresh EXCEPT !.begun = now,
                             !.sig = IF CacheHits(sigCache, key) # {} THEN "good" ELSE "pending",
                             !.stat = "good"])
       /\ sigCache' = CacheRead(sigCache, key)
       /\ UNCHANGED statusCache

\* resolveAgentGrant needs a proof of a did:key, and holder binding switched on.
MayProve(c) ==
    /\ Mode # "off" /\ Request[c].proof # None
    /\ Request[c].proof.by \in KeyDids

\* The call arrives, with a delegation or without one.
Start(c) ==
    LET r == Request[c]
        locals == [Local EXCEPT !.started = now,
                                !.seen = {g.no : g \in {h \in Range(store) : Active(h)}},
                                !.gone = dead]
    IN
    /\ pc[c] = "idle" /\ c \in setting.calls
    /\ \/ /\ r.cred # None
          /\ Verify(c, [cred |-> r.cred, form |-> r.form], locals)
       \/ /\ r.cred = None /\ MayProve(c)
          /\ Goto(c, "holder", [locals EXCEPT !.path = "agent"])
          /\ UNCHANGED cacheVars
       \/ /\ r.cred = None /\ ~MayProve(c)
          /\ Goto(c, "lookup", [locals EXCEPT !.path = "session"])
          /\ UNCHANGED cacheVars
    /\ UNCHANGED <<worldVars, grantVars, spent, out, setting>>

\* No request is pending any more.
Answered(c) == [at[c] EXCEPT !.sig = "none", !.stat = "none", !.begun = 0]

\* The envelope of a JWT is verified, or not.
EnvelopeVerified(c) ==
    /\ pc[c] = "envelope" /\ at[c].sig # "pending"
    /\ Goto(c, IF at[c].sig = "good" THEN "resolve" ELSE "verdict", Answered(c))
    /\ UNCHANGED <<worldVars, cacheVars, grantVars, spent, out, setting>>

\* resolveDelegationChain's answer with the presented leaf at its end: a copy of
\* the leaf may only come last, and is replaced by the one presented.
ChainWith(answer, x) ==
    LET copies == {k \in DOMAIN answer : Cred[answer[k]].id = Cred[x].id} IN
    IF copies = {} THEN Append(answer, x)
    ELSE IF Min(copies) = Len(answer) THEN Append(Front(answer), x) ELSE <<>>

\* The chain of the credential: itself, or what the resolver says; no answer, an
\* unusable one and one that is too long are refused.
ResolveChain(c) ==
    LET x == at[c].evidence.cred IN
    /\ pc[c] = "resolve"
    /\ \E answer \in IF Cred[x].parent = None THEN {<<>>}
                     ELSE IF Faulty("resolver") THEN Answers ELSE {HonestChain[x]} :
         LET chain == ChainWith(answer, x) IN
         IF (Cred[x].parent # None => answer # <<>>) /\ Len(chain) \in 1 .. MaxChain
         THEN Goto(c, "walk", [at[c] EXCEPT !.chain = chain, !.k = 1])
         ELSE Goto(c, "verdict", at[c])
    /\ UNCHANGED <<worldVars, cacheVars, grantVars, spent, out, setting>>

Envelope(c) == at[c].evidence.form = "jwt" /\ at[c].k = Len(at[c].chain)

\* The bit may have been read at any moment since the request.
BitReads(x, since) ==
    {revoked \in BOOLEAN : IF revoked THEN revokedAt[x] <= now ELSE revokedAt[x] >= since}

\* checkCredentialStatus: what the answer to a status request means.
StatusResult(revoked) == IF revoked THEN "bad" ELSE "good"

\* verifyDelegationCredential of the next credential: the basic checks, then the
\* signature and the status at once, each from its cache or requested.  The
\* signature of a leaf whose envelope was verified is skipped.
BeginVerify(c) ==
    LET chain == at[c].chain
        k == at[c].k
        x == chain[k]
        sigHit == Envelope(c) \/ CacheHits(sigCache, <<"di", x>>) # {}
        hits == CacheHits(statusCache, x)
        newId == \A j \in 1 .. k - 1 : Cred[chain[j]].id # Cred[x].id
    IN
    /\ pc[c] = "walk"
    /\ IF newId /\ (Cred[x].listed => setting.statusList) /\ Basic(x)
       THEN /\ Goto(c, "verify",
                    [at[c] EXCEPT
                       !.begun = now,
                       !.sig = IF sigHit THEN "good" ELSE "pending",
                       !.stat = CASE ~Cred[x].listed -> "good"
                                  [] Cred[x].listed /\ hits = {} -> "pending"
                                  [] OTHER -> StatusResult(\E e \in hits : e.value)])
            /\ sigCache' = IF Envelope(c) THEN sigCache ELSE CacheRead(sigCache, <<"di", x>>)
            /\ statusCache' = IF Cred[x].listed THEN CacheRead(statusCache, x) ELSE statusCache
       ELSE Goto(c, "verdict", at[c]) /\ UNCHANGED cacheVars
    /\ UNCHANGED <<worldVars, grantVars, spent, out, setting>>

\* verifySignature, whose key may have been read at any moment since the request:
\* the results it may have.
SignatureResults(x, since) ==
    (IF Cred[x].authentic /\ rotatedAt[Cred[x].signer] >= since THEN {"good"} ELSE {})
    \cup (IF ~Cred[x].authentic \/ rotatedAt[Cred[x].signer] <= now \/ Faulty("did")
          THEN {"bad"} ELSE {})

\* The key request is answered and the signature checked.  Only a valid result
\* is cached.
SignatureArrives(c) ==
    LET envelope == pc[c] = "envelope"
        x == IF envelope THEN at[c].evidence.cred ELSE at[c].chain[at[c].k]
    IN
    /\ pc[c] \in {"envelope", "verify"} /\ at[c].sig = "pending"
    /\ \E result \in SignatureResults(x, at[c].begun) :
         /\ at' = [at EXCEPT ![c].sig = result]
         /\ sigCache' = IF result = "bad" THEN sigCache
                        ELSE CacheSet(sigCache, <<IF envelope THEN "jwt" ELSE "di", x>>, TRUE,
                                      setting.sigTtl)
    /\ UNCHANGED <<worldVars, statusCache, grantVars, spent, pc, out, setting>>

\* The status request is answered: withStatusCache keeps the answer from its
\* arrival; a request that throws is not cached and refuses the credential.
StatusArrives(c) ==
    LET x == at[c].chain[at[c].k] IN
    /\ pc[c] = "verify" /\ at[c].stat = "pending"
    /\ \/ \E revoked \in BitReads(x, at[c].begun) :
            /\ at' = [at EXCEPT ![c].stat = StatusResult(revoked)]
            /\ statusCache' = CacheSet(statusCache, x, revoked, setting.statusTtl)
       \/ /\ Faulty("status")
          /\ at' = [at EXCEPT ![c].stat = "bad"]
          /\ UNCHANGED statusCache
    /\ UNCHANGED <<worldVars, sigCache, grantVars, spent, pc, out, setting>>

\* combineVerificationResult: both answers are good.
Verified(c) == at[c].sig = "good" /\ at[c].stat = "good"

\* Both answers are in: the rest of the walk's checks, then the next credential,
\* the revocation checker, or the verdict.
Combine(c) ==
    LET chain == at[c].chain
        k == at[c].k
        accepted == Verified(c) /\ AudienceOK(chain[k]) /\ Linked(chain, k)
    IN
    /\ pc[c] = "verify" /\ at[c].sig # "pending" /\ at[c].stat # "pending"
    /\ \/ ~accepted /\ Goto(c, "verdict", Answered(c))
       \/ accepted /\ k < Len(chain) /\ Goto(c, "walk", [Answered(c) EXCEPT !.k = k + 1])
       \/ /\ accepted /\ k = Len(chain)
          /\ IF setting.checker THEN Goto(c, "check", [Answered(c) EXCEPT !.k = 1])
             ELSE Goto(c, "verdict", [Answered(c) EXCEPT !.valid = TRUE])
    /\ UNCHANGED <<worldVars, cacheVars, grantVars, spent, out, setting>>

\* The revocation checker is asked about every credential, root first; a checker
\* that throws refuses.
CheckRevocation(c) ==
    LET k == at[c].k
        live == graphAt[Cred[at[c].chain[k]].id] > now
    IN
    /\ pc[c] = "check"
    /\ \/ live /\ k < Len(at[c].chain) /\ Goto(c, "check", [at[c] EXCEPT !.k = k + 1])
       \/ live /\ k = Len(at[c].chain) /\ Goto(c, "verdict", [at[c] EXCEPT !.valid = TRUE])
       \/ (~live \/ Faulty("checker")) /\ Goto(c, "verdict", at[c])
    /\ UNCHANGED <<worldVars, cacheVars, grantVars, spent, out, setting>>

-----------------------------------------------------------------------------
(* The gate around the verification.                                       *)

Leaf(c) == Cred[at[c].evidence.cred]

\* After holder binding the scope is checked; the grant is bound next.
CheckScope(c, locals) ==
    IF ScopeSatisfies(Request[c].scope, Leaf(c).authority)
    THEN Goto(c, "bind", locals) /\ UNCHANGED out
    ELSE Answer(c, "refused")

\* A presented delegation is refused, or its holder is asked to prove possession,
\* where the mode and the agent's DID allow it.
Presented(c) ==
    LET applicable == Mode # "off" /\ Leaf(c).agent \in KeyDids IN
    /\ pc[c] = "verdict" /\ at[c].path = "presented"
    /\ \/ ~at[c].valid /\ Answer(c, "refused")
       \/ at[c].valid /\ ~applicable /\ CheckScope(c, at[c])
       \/ /\ at[c].valid /\ applicable /\ Request[c].proof = None
          /\ IF Mode = "enforce" THEN Answer(c, "refused") ELSE CheckScope(c, at[c])
       \/ /\ at[c].valid /\ applicable /\ Request[c].proof # None
          /\ Goto(c, "holder", at[c]) /\ UNCHANGED out
    /\ UNCHANGED <<worldVars, cacheVars, grantVars, spent, setting>>

\* assertHolderBinding: the proof names the subject, is addressed to this server,
\* covers this request and verifies (p.good), and its nonce is admitted last.
HolderBinding(c) ==
    LET p == Request[c].proof
        agent == at[c].path = "agent"
        ok == (agent \/ p.by = Leaf(c).agent) /\ p.good /\ p.nonce \notin spent
    IN
    /\ pc[c] = "holder"
    /\ spent' = IF ok THEN spent \cup {p.nonce} ELSE spent
    /\ \/ /\ agent
          /\ Goto(c, "lookup", IF ok THEN [at[c] EXCEPT !.proved = TRUE]
                               ELSE [at[c] EXCEPT !.path = "session"])
          /\ UNCHANGED out
       \/ ~agent /\ (ok \/ Mode = "warn") /\ CheckScope(c, [at[c] EXCEPT !.proved = ok])
       \/ ~agent /\ ~ok /\ Mode = "enforce" /\ Answer(c, "refused")
    /\ UNCHANGED <<worldVars, cacheVars, grantVars, setting>>

\* getByAgent, or getBySession: the grants that may authorize the call, copied;
\* a store that throws fails the call.
Lookup(c) ==
    LET r == Request[c]
        mine == {g \in Range(store) :
                   IF at[c].path = "agent" THEN g.agent = r.proof.by
                   ELSE r.session # None /\ g.session = r.session}
    IN
    /\ pc[c] = "lookup"
    /\ \/ /\ Goto(c, "iterate", [at[c] EXCEPT !.grants = Filter(ActiveGrants(r.scope), mine)])
          /\ UNCHANGED out
       \/ /\ Faulty("store") /\ (at[c].path = "agent" \/ r.session # None)
          /\ Answer(c, "failed")
    /\ UNCHANGED <<worldVars, cacheVars, grantVars, spent, setting>>

\* Mutants of Permitted: a session's grant is portable; enforce trusts a session.
PermittedAnywhere(c, g) ==
    at[c].path = "agent" \/ ~(Mode = "enforce" /\ g.agent \in KeyDids)
PermittedBySession(c, g) ==
    at[c].path = "agent" => g.session \in {None, Request[c].session}

\* A session's grant is used from that session only; under enforce the session
\* alone is not enough for a did:key agent.
Permitted(c, g) ==
    IF at[c].path = "agent" THEN g.session \in {None, Request[c].session}
    ELSE ~(Mode = "enforce" /\ g.agent \in KeyDids)

\* The signed challenge that asks for a delegation.
Challenge(c) == Answer(c, "challenged")

\* The next grant: skipped, or its evidence is verified again (authorizeGrant).
\* After the agent's grants come the session's, then the challenge.
NextGrant(c) ==
    LET grants == at[c].grants
        g == Head(grants)
        rest == [at[c] EXCEPT !.grants = Tail(grants)]
    IN
    /\ pc[c] = "iterate"
    /\ \/ /\ grants = <<>> /\ at[c].path = "agent"
          /\ Goto(c, "lookup", [at[c] EXCEPT !.path = "session"])
          /\ UNCHANGED <<cacheVars, out>>
       \/ /\ grants = <<>> /\ at[c].path = "session"
          /\ Challenge(c)
          /\ UNCHANGED cacheVars
       \/ /\ grants # <<>> /\ ~(Permitted(c, g) /\ Active(g))
          /\ Goto(c, "iterate", rest)
          /\ UNCHANGED <<cacheVars, out>>
       \/ /\ grants # <<>> /\ Permitted(c, g) /\ Active(g)
          /\ Verify(c, g.evidence, [rest EXCEPT !.grant = g])
          /\ UNCHANGED out
    /\ UNCHANGED <<worldVars, grantVars, spent, setting>>

\* The grant's evidence was verified again, and still says what the grant says.
GrantVerified(c) ==
    LET g == at[c].grant
        granted == /\ at[c].valid
                   /\ Leaf(c).agent = g.agent /\ Leaf(c).controller = g.user
                   /\ ScopeSatisfies(Request[c].scope, Leaf(c).authority)
    IN
    /\ pc[c] = "verdict" /\ at[c].path # "presented"
    /\ IF granted THEN Goto(c, "policy", at[c])
       ELSE Goto(c, "iterate", [at[c] EXCEPT !.grant = None])
    /\ UNCHANGED <<worldVars, cacheVars, grantVars, spent, out, setting>>

\* The grant bindGrantOnSuccess makes of a verified delegation.
NewGrant(c) ==
    LET scopes == GrantScopes(Request[c].scope, at[c].evidence.cred)
        session == Request[c].session
    IN [id |-> <<Leaf(c).agent, session, scopes>>, no |-> bound + 1,
        agent |-> Leaf(c).agent, user |-> Leaf(c).controller, session |-> session,
        scopes |-> scopes, evidence |-> at[c].evidence, status |-> "active",
        expires |-> Earliest(at[c].evidence, at[c].chain), chain |-> at[c].chain]

\* A grant without a session could not be found without holder binding.
Findable(c) == Mode # "off" \/ Request[c].session # None

\* The audit records of the decision, without which the call fails; then
\* bindGrantOnSuccess: best effort, and not at all when nothing could resolve it.
Bind(c) ==
    /\ pc[c] = "bind"
    /\ \/ /\ Findable(c)
          /\ store' = BindGrant(store, NewGrant(c)) /\ bound' = bound + 1
          /\ Goto(c, "policy", at[c]) /\ UNCHANGED out
       \/ /\ ~Findable(c) \/ Faulty("store")
          /\ Goto(c, "policy", at[c]) /\ UNCHANGED <<store, bound, out>>
       \/ Faulty("audit") /\ Answer(c, "failed") /\ UNCHANGED <<store, bound>>
    /\ UNCHANGED <<worldVars, cacheVars, dead, spent, setting>>

\* The grants that count for this exact action.
Approving(c) ==
    {g \in Request[c].approvals :
        /\ g.approve /\ g.action = Request[c].action /\ g.signed
        /\ Approvers = {} \/ g.by \in Approvers}

\* Mutant of QuorumMet: approvals are counted, not approvers.
QuorumOfGrants(c) == Cardinality(Approving(c)) >= Quorum

\* verifyApprovalQuorum: distinct approvers.
QuorumMet(c) == Cardinality({g.by : g \in Approving(c)}) >= Quorum

\* RiskClassifier: the verbs of a tool's name and its hints.
RiskOf(c) == Risk[Request[c].action]

\* DefaultPolicyEngine, which is never told of approvals.
Decision(c) ==
    CASE setting.policy = "unmatched" \/ RiskOf(c) = "unknown" -> "deny"
      [] setting.policy = "matched" /\ RiskOf(c) = "high" -> "step_up"
      [] OTHER -> "allow"

\* The audit record of a grant's use, withPolicyGate with the default engine and
\* its audit records, then the handler.
Policy(c) ==
    LET gated == setting.policy # "none" IN
    /\ pc[c] = "policy"
    /\ \/ gated /\ Decision(c) = "deny" /\ Answer(c, "denied")
       \/ gated /\ Decision(c) = "step_up" /\ ~QuorumMet(c) /\ Answer(c, "step_up")
       \/ gated /\ Decision(c) = "step_up" /\ QuorumMet(c) /\ Answer(c, "ran")
       \/ gated /\ Decision(c) = "allow" /\ Answer(c, "ran")
       \/ ~gated /\ Answer(c, "ran")
       \/ Faulty("audit") /\ (gated \/ at[c].path # "presented") /\ Answer(c, "failed")
    /\ UNCHANGED <<worldVars, cacheVars, grantVars, spent, setting>>

-----------------------------------------------------------------------------
(* What happens around the calls.                                          *)

\* Time passes; a status or key request does not take longer than Latency.
Tick ==
    /\ now < setting.horizon
    /\ \A c \in Calls :
         at[c].sig = "pending" \/ at[c].stat = "pending" => now - at[c].begun < Latency
    /\ now' = now + 1
    /\ UNCHANGED <<revokedAt, graphAt, rotatedAt, cacheVars, grantVars, spent, pc, at, out, setting>>

\* The issuer sets the status bit of a credential.
SetStatusBit(x) ==
    /\ x \in setting.revoked /\ Cred[x].listed /\ revokedAt[x] = Never
    /\ revokedAt' = [revokedAt EXCEPT ![x] = now]
    /\ UNCHANGED <<now, graphAt, rotatedAt, cacheVars, grantVars, spent, pc, at, out, setting>>

\* A delegation is revoked in the graph behind the revocation checker.
RevokeInGraph(id) ==
    /\ id \in setting.graphed /\ graphAt[id] = Never
    /\ graphAt' = [graphAt EXCEPT ![id] = now]
    /\ UNCHANGED <<now, revokedAt, rotatedAt, cacheVars, grantVars, spent, pc, at, out, setting>>

\* A DID that does not encode its key publishes another one.
RotateKey(d) ==
    /\ d \in setting.rotated /\ d \notin KeyDids /\ rotatedAt[d] = Never
    /\ rotatedAt' = [rotatedAt EXCEPT ![d] = now]
    /\ UNCHANGED <<now, revokedAt, graphAt, cacheVars, grantVars, spent, pc, at, out, setting>>

\* GrantStore.revoke: the record stays, marked.
RevokeGrant(k) ==
    /\ "grant" \in setting.events /\ store[k].status = "active"
    /\ store' = [store EXCEPT ![k].status = "revoked"]
    /\ dead' = dead \cup {store[k].no}
    /\ UNCHANGED <<worldVars, cacheVars, bound, spent, pc, at, out, setting>>

\* GrantStore.cleanup drops the expired records.
Cleanup ==
    /\ "cleanup" \in setting.events /\ \E g \in Range(store) : g.expires <= now
    /\ store' = Filter(store, {g \in Range(store) : now < g.expires})
    /\ UNCHANGED <<worldVars, cacheVars, bound, dead, spent, pc, at, out, setting>>

\* Every call is answered.
Quiet == (\A c \in setting.calls : pc[c] = "done") /\ UNCHANGED vars

-----------------------------------------------------------------------------
Dids == {Cred[x].signer : x \in Creds}
Ids == {Cred[x].id : x \in Creds}

Init ==
    /\ setting \in Settings
    /\ now = 0
    /\ revokedAt = [x \in Creds |-> Never]
    /\ graphAt = [id \in Ids |-> Never]
    /\ rotatedAt = [d \in Dids |-> Never]
    /\ sigCache = <<>> /\ statusCache = <<>>
    /\ store = <<>> /\ bound = 0 /\ dead = {}
    /\ spent = {}
    /\ pc = [c \in Calls |-> "idle"]
    /\ at = [c \in Calls |-> Local]
    /\ out = [c \in Calls |-> [kind |-> "none"]]

CallStep(c) ==
    \/ Start(c) \/ EnvelopeVerified(c) \/ ResolveChain(c)
    \/ BeginVerify(c) \/ SignatureArrives(c) \/ StatusArrives(c) \/ Combine(c)
    \/ CheckRevocation(c) \/ Presented(c) \/ HolderBinding(c)
    \/ Lookup(c) \/ NextGrant(c) \/ GrantVerified(c) \/ Bind(c) \/ Policy(c)

Next ==
    \/ \E c \in Calls : CallStep(c)
    \/ Tick
    \/ \E x \in Creds : SetStatusBit(x)
    \/ \E id \in Ids : RevokeInGraph(id)
    \/ \E d \in Dids : RotateKey(d)
    \/ \E k \in DOMAIN store : RevokeGrant(k)
    \/ Cleanup
    \/ Quiet

Spec == Init /\ [][Next]_vars

-----------------------------------------------------------------------------
(* Properties.                                                             *)

Ran == {c \in Calls : out[c].kind = "ran"}
RanLeaf(c) == Cred[Last(out[c].chain)]

\* Who really holds a scope, from who signed what: a credential conveys it when
\* it was signed for this server by a trusted issuer, or by the subject of a
\* credential that conveys it and that it names as its parent.  One without
\* scopes leaves them to its children.
Conveys(x, scope) ==
    /\ Cred[x].authentic /\ AudienceOK(x)
    /\ ScopeAuthority(Cred[x].authority) = {} \/ ScopeSatisfies(scope, Cred[x].authority)

\* An unbroken line of such credentials leads from a trusted issuer to x.
Entitled(x, scope) ==
    LET given == {y \in Creds : Conveys(y, scope)} IN
    \E n \in 1 .. MaxChain : \E line \in [1 .. n -> given] :
        /\ line[n] = x
        /\ Cred[line[1]].parent = None /\ Cred[line[1]].signer \in setting.trusted
        /\ \A k \in 2 .. n :
             LET above == Cred[line[k - 1]] IN
             above.id = Cred[line[k]].parent /\ above.subject = Cred[line[k]].signer

\* The handler runs only for an agent that a trusted issuer's credential, or an
\* unbroken line of re-delegations below it, really gives the tool's scope, no
\* matter which chain the resolver returned.
AuthorityGenuine ==
    \A c \in Ran : Entitled(Last(out[c].chain), Request[c].scope)

\* How much older than its call an answer may be that a cache served: its time
\* in the cache and the time it took to arrive.
Slack(ttl) == IF ttl = 0 THEN 0 ELSE ttl + Latency

\* A call that comes after a credential of its chain expired, was revoked by its
\* status bit or in the graph, or lost its issuer's key does not run, whether the
\* credential was presented or kept as a grant's evidence; the caches delay the
\* effect by no more than the time they declare plus one request.
RevokedIsRefused ==
    \A c \in Ran : \A x \in Range(out[c].chain) :
        LET start == out[c].started IN
        /\ start <= Cred[x].expires
        /\ Cred[x].listed => revokedAt[x] + Slack(setting.statusTtl) >= start
        /\ setting.checker => graphAt[Cred[x].id] >= start
        /\ rotatedAt[Cred[x].signer] + Slack(setting.sigTtl) >= start

\* Under enforce, a call on the authority of a did:key agent ran only with that
\* agent's own proof of this request, and no proof served two such calls, whichever
\* way the calls went and however they interleaved.
HolderProved ==
    Mode = "enforce" =>
        \A c \in Ran : RanLeaf(c).agent \in KeyDids =>
            /\ Request[c].proof # None
            /\ Request[c].proof.by = RanLeaf(c).agent /\ Request[c].proof.good
            /\ \A d \in Ran \ {c} : RanLeaf(d).agent \in KeyDids =>
                 Request[d].proof.nonce # Request[c].proof.nonce

\* A grant that was bound in one session never authorizes a call of another, and
\* a grant that was revoked before a call began never authorizes it: only a grant
\* bound anew can.
GrantConfined ==
    \A c \in Ran : out[c].grant # None =>
        /\ out[c].grant.session \in {None, Request[c].session}
        /\ out[c].grant.no \notin at[c].gone
        /\ Request[c].scope \in out[c].grant.scopes

\* An action rated high ran behind the policy gate only when enough distinct
\* approvers signed exactly that action.
ApprovedBeforeRun ==
    \A c \in Ran : setting.policy # "none" /\ RiskOf(c) = "high" =>
        \E who \in SUBSET {g.by : g \in Request[c].approvals} :
            /\ Cardinality(who) = Quorum
            /\ Approvers # {} => who \subseteq Approvers
            /\ \A a \in who : \E g \in Request[c].approvals :
                 g.by = a /\ g.approve /\ g.signed /\ g.action = Request[c].action

\* The grant would authorize the call now, on one of the two paths.
Usable(c, g) ==
    LET r == Request[c] IN
    /\ Active(g) /\ ScopeSatisfies(r.scope, Cred[g.evidence.cred].authority)
    /\ \/ r.session # None /\ g.session = r.session
          /\ ~(Mode = "enforce" /\ g.agent \in KeyDids)
       \/ /\ at[c].proved /\ g.agent = r.proof.by /\ g.session \in {None, r.session}
    /\ g.evidence.form = "jwt" => now < Cred[g.evidence.cred].jwtExp
    /\ \A x \in Range(g.chain) :
         /\ now <= Cred[x].expires /\ revokedAt[x] = Never
         /\ graphAt[Cred[x].id] = Never /\ rotatedAt[Cred[x].signer] = Never

\* The no-paste retry: a call without a delegation is not challenged while a grant
\* that was there when the call began, and still is, authorizes it.
RetryResolves ==
    [][\A c \in Calls :
         out'[c].kind = "challenged" /\ out[c].kind = "none" /\ setting.faults = {} =>
            \A g \in Range(store) : g.no \in at[c].seen => ~Usable(c, g)]_vars

\* A call that ran had authority when it began: really delegated from a trusted
\* issuer, and neither expired nor revoked beyond what the caches declare.
AuthoritySound == AuthorityGenuine /\ RevokedIsRefused

\* A call that ran kept to what was granted and approved for it: its session's or its
\* agent's grant, and the approvals of exactly this action.
RunsWithinGrant == GrantConfined /\ ApprovedBeforeRun
=============================================================================
