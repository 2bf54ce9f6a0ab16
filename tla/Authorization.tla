---------------------------- MODULE Authorization ----------------------------
(***************************************************************************)
(* Obtaining authority that is missing: the handshake that authorises an   *)
(* agent or hands it a resume token, and the OIDC adapter that keeps a     *)
(* pending flow until the callback of an identity provider exchanges its   *)
(* code.  Handshakes, callbacks, the provider, the reputation service and  *)
(* the delegations interleave at every await, and time passes between.     *)
(*                                                                         *)
(* Tokens, verifiers and codes are numbers drawn once.  A PKCE challenge   *)
(* is its verifier, which only this adapter knows.                         *)
(***************************************************************************)
EXTENDS Integers, Sequences, FiniteSets

CONSTANTS
    Handshakes,      \* calls of verifyOrHints
    Callbacks,       \* calls of verifyAuthorization
    AuthSettings,    \* [flows, handshakes, service, minScore, policy, faults]
    Adapters,        \* types of the registered adapters
    AdapterScopes,   \* scopes of the adapter's configuration
    TicksPerSecond,
    FlowTtl,         \* resumeTokenTtlMs
    SweepEvery, SweepInterval,   \* of the pending flow store
    StoreTtl,        \* ttl of the resume token store
    AdvertisedTtl,   \* resumeTokenTtl of the handshake's configuration
    MaxFlows,        \* bound on the flows initiated
    AuthTime         \* bound on the clock

ASSUME AuthAssumption ==
    /\ TicksPerSecond \in Nat \ {0} /\ FlowTtl \in Nat /\ StoreTtl \in Nat /\ AdvertisedTtl \in Nat /\ AuthTime \in Nat
    /\ \A s \in AuthSettings : s.handshakes \subseteq Handshakes /\ s.minScore \subseteq Nat
                              /\ s.standings \subseteq [score: SUBSET Nat, delegated: BOOLEAN]

VARIABLES
    pending,     \* pending[token]: [flow, expiresAt]
    flowSweep,   \* [writes, last]: writesSinceSweep and lastSweepAt
    initiated,   \* the flows initiated, with the expiry advertised
    codes,       \* authorization codes issued; a code remembers if it was redeemed
    callback,    \* callback[c]
    resumes,     \* the resume token store, in insertion order
    created,     \* every resume token created, and when the store was last swept
    handshake,   \* handshake[h]
    standing,    \* [score, delegated]: what the services know of the agent now
    authTime,
    aset         \* the setting of this behaviour; it never changes

authVars == <<pending, flowSweep, initiated, codes, callback, resumes, created, handshake,
              standing, authTime, aset>>

NoFlow == [token |-> 0, agent |-> "", scopes |-> {}, state |-> "", verifier |-> 0, redirect |-> ""]

IdleCallback == [stage |-> "idle", token |-> 0, code |-> 0, flow |-> NoFlow, at |-> 0,
                 result |-> "none", agent |-> "", scopes |-> {}]

IdleHandshake == [stage |-> "idle", score |-> {}, token |-> 0, told |-> 0, exact |-> FALSE,
                  result |-> "none", worthy |-> FALSE, delegated |-> FALSE]

AuthInit ==
    /\ aset \in AuthSettings
    /\ pending = <<>>
    /\ flowSweep = [writes |-> 0, last |-> 0]
    /\ initiated = {}
    /\ codes = {}
    /\ callback = [c \in Callbacks |-> IdleCallback]
    /\ resumes = <<>>
    /\ created = [tokens |-> {}, swept |-> 0, fulfilled |-> {}]
    /\ handshake = [h \in Handshakes |-> IdleHandshake]
    /\ standing = [score |-> {}, delegated |-> FALSE]
    /\ authTime = 0

-----------------------------------------------------------------------------
(* The pending flow store.                                                 *)

evictExpired(flows, now) == [t \in {u \in DOMAIN flows : flows[u].expiresAt > now} |-> flows[t]]

\* put: insert, and sweep after so many writes or so long.
Put(token, flow, now) ==
    LET inserted == [t \in DOMAIN pending \cup {token} |->
                       IF t = token THEN [flow |-> flow, expiresAt |-> now + FlowTtl] ELSE pending[t]]
        due == flowSweep.writes + 1 >= SweepEvery \/ now - flowSweep.last >= SweepInterval
    IN /\ pending' = IF due THEN evictExpired(inserted, now) ELSE inserted
       /\ flowSweep' = IF due THEN [writes |-> 0, last |-> now]
                       ELSE [flowSweep EXCEPT !.writes = @ + 1]

Remove(token) == [t \in DOMAIN pending \ {token} |-> pending[t]]

\* The flow a token stands for, if it is known and alive.
Live(token, now) == {pending[t].flow : t \in {u \in DOMAIN pending \cap {token} : pending[u].expiresAt > now}}

\* Mutant of Consumed: the flow is read and stays.
ReadOnly(token) == pending

\* consume: read and removed in one step.
Consumed(token) == Remove(token)

\* get, through pendingVerifierFor: an expired flow is dropped.
PeekFlow(token) ==
    /\ token \in DOMAIN pending
    /\ pending' = IF Live(token, authTime) = {} THEN Remove(token) ELSE pending
    /\ UNCHANGED <<flowSweep, initiated, codes, callback, resumes, created, handshake, standing, authTime>>

CleanupFlows ==
    /\ pending' = evictExpired(pending, authTime)
    /\ UNCHANGED <<flowSweep, initiated, codes, callback, resumes, created, handshake, standing, authTime>>

-----------------------------------------------------------------------------
(* The OIDC adapter.                                                       *)

requirementMatchesAdapter(type, protection) == protection.type = type

\* AuthorizationServerRegistry.resolve: the adapter of the requirement's type.
resolve(protection) == {t \in Adapters : protection.type # "none" /\ requirementMatchesAdapter(t, protection)}

\* The challenge of a PKCE verifier, and the check of one against the other.
computeS256Challenge(verifier) == <<"S256", verifier>>
verifyS256Challenge(verifier, challenge) == computeS256Challenge(verifier) = challenge

\* buildAuthorizeUrl: what the user's browser brings to the provider.
buildAuthorizeUrl(flow) ==
    [redirect |-> flow.redirect, scopes |-> flow.scopes, state |-> flow.state,
     challenge |-> computeS256Challenge(flow.verifier)]

\* initiateFlow: a fresh verifier and token, the flow kept, its expiry advertised in
\* whole seconds.
InitiateFlow(params) ==
    LET token == Cardinality(initiated) + 1
        scopes == AdapterScopes \cup UNION params.protection.requiredScopes
        flow == [token |-> token, agent |-> params.agent, scopes |-> scopes, state |-> params.state,
                 verifier |-> token, redirect |-> params.redirect]
    IN /\ resolve(params.protection) = {"oauth"}
       /\ Cardinality(initiated) < MaxFlows
       /\ Put(token, flow, authTime)
       /\ initiated' = initiated \cup {[flow |-> flow, url |-> buildAuthorizeUrl(flow), expires |-> authTime + FlowTtl,
                                        told |-> (authTime + FlowTtl) \div TicksPerSecond]}
       /\ UNCHANGED <<codes, callback, resumes, created, handshake, standing, authTime>>

\* The user follows the authorization URL of a flow; the provider issues a code bound
\* to its challenge and redirect URI, and will grant some of the scopes.
Consent(f, scope) ==
    /\ \A k \in codes : k.challenge # f.url.challenge
    /\ codes' = codes \cup {[code |-> f.flow.token, challenge |-> f.url.challenge,
                             redirect |-> f.url.redirect, scope |-> scope, redeemed |-> FALSE]}
    /\ UNCHANGED <<pending, flowSweep, initiated, callback, resumes, created, handshake, standing, authTime>>

Refuse(r, reason) == [r EXCEPT !.stage = "done", !.result = reason]

\* verifyAuthorization: the flow is consumed first; then a missing code or another
\* state ends it, and the token is gone.
ReceiveCallback(c, token, code, state) ==
    LET found == Live(token, authTime)
        r == [IdleCallback EXCEPT !.token = token, !.code = code, !.at = authTime]
    IN /\ callback[c].stage = "idle"
       /\ pending' = Consumed(token)
       /\ callback' = [callback EXCEPT ![c] =
            IF found = {} THEN Refuse(r, "unknown")
            ELSE IF code = 0 THEN Refuse(r, "missing code")
            ELSE IF \A flow \in found : flow.state # state THEN Refuse(r, "state mismatch")
            ELSE [r EXCEPT !.stage = "exchange", !.flow = CHOOSE flow \in found : TRUE]]
       /\ UNCHANGED <<flowSweep, initiated, codes, resumes, created, handshake, standing, authTime>>

\* tokenResponseProblem and grantedScopesOf: the scopes of a usable response, which
\* are the requested ones if it names none.
grantedScopesOf(scope, requested) == IF scope = {} THEN requested ELSE UNION scope

Redeemable(k, r) ==
    /\ k.code = r.code /\ ~ k.redeemed
    /\ verifyS256Challenge(r.flow.verifier, k.challenge)
    /\ k.redirect = r.flow.redirect

\* The token exchange.  The provider redeems a code once, with its verifier and
\* redirect URI; it, or its answer, may fail.
ExchangeCode(c, answer) ==
    LET r == callback[c]
        redeemed == {k \in codes : Redeemable(k, r)}
    IN /\ r.stage = "exchange"
       /\ answer \in {"arrives"} \cup (IF aset.faults THEN {"lost", "refused"} ELSE {})
       /\ codes' = IF answer = "refused" THEN codes
                   ELSE (codes \ redeemed) \cup {[k EXCEPT !.redeemed = TRUE] : k \in redeemed}
       /\ callback' = [callback EXCEPT ![c] =
            IF answer # "arrives" \/ redeemed = {} THEN Refuse(r, "exchange failed")
            ELSE [Refuse(r, "valid") EXCEPT !.agent = r.flow.agent,
                    !.scopes = grantedScopesOf((CHOOSE k \in redeemed : TRUE).scope, r.flow.scopes)]]
       /\ UNCHANGED <<pending, flowSweep, initiated, resumes, created, handshake, standing, authTime>>

-----------------------------------------------------------------------------
(* The handshake.                                                          *)

\* Whether an agent of this standing deserves to pass the reputation gate.
Worthy(s) ==
    \/ aset.minScore = {}
    \/ ~ aset.service
    \/ \E x \in s.score : \A min \in aset.minScore : x >= min
    \/ s.score = {} /\ aset.policy = "allow"

\* What was true of the agent at some time during a handshake.
Observe(r, s) == [r EXCEPT !.worthy = @ \/ Worthy(s), !.delegated = @ \/ s.delegated]

\* verifyOrHints: with a service and a minimum, the reputation first.
Ask(h) ==
    /\ handshake[h].stage = "idle"
    /\ handshake' = [handshake EXCEPT ![h] = Observe([@ EXCEPT
          !.stage = IF aset.service /\ aset.minScore # {} THEN "reputation" ELSE "delegation"], standing)]
    /\ UNCHANGED <<pending, flowSweep, initiated, codes, callback, resumes, created, standing, authTime>>

\* Mutant of fetchAgentReputation: an unreachable service lets the agent through.
ReputationAssumed(answer) == IF answer = "fault" THEN aset.minScore ELSE standing.score

\* fetchAgentReputation: an agent the service does not know, and one it cannot be
\* asked about, have no score; a record without a score counts as zero.
fetchAgentReputation(answer) ==
    IF answer = "fault" THEN {} ELSE IF answer = "no score" /\ standing.score # {} THEN {0} ELSE standing.score

\* The policy for agents without a score, and the minimum for the others.
ReputationPasses(score) ==
    IF score = {} THEN aset.policy = "allow" ELSE \A s \in score, min \in aset.minScore : s >= min

\* The gate's judgement on a score.
Judge(r, score) ==
    [r EXCEPT !.score = score, !.stage = IF ReputationPasses(score) THEN "delegation" ELSE "create",
              !.worthy = @ \/ (aset.policy = "allow" /\ score = {})]

FetchReputation(h, answer) ==
    LET score == fetchAgentReputation(answer)
    IN /\ handshake[h].stage = "reputation"
       /\ answer \in {"record", "no score"} \cup (IF aset.faults THEN {"fault"} ELSE {})
       /\ handshake' = [handshake EXCEPT ![h] = Judge(@, score)]
       /\ UNCHANGED <<pending, flowSweep, initiated, codes, callback, resumes, created, standing, authTime>>

\* delegationVerifier.verify, which may fail.
VerifyDelegation(h, answer) ==
    /\ handshake[h].stage = "delegation"
    /\ answer \in {"answers"} \cup (IF aset.faults THEN {"fault"} ELSE {})
    /\ handshake' = [handshake EXCEPT ![h] =
          IF answer = "answers" /\ standing.delegated
          THEN [@ EXCEPT !.stage = "done", !.result = "authorized"] ELSE [@ EXCEPT !.stage = "create"]]
    /\ UNCHANGED <<pending, flowSweep, initiated, codes, callback, resumes, created, standing, authTime>>

\* sweepExpired: from the front to the first token that is alive.
sweepExpired(store, now) ==
    LET live == {i \in DOMAIN store : now <= store[i].expiresAt}
        first == CHOOSE i \in live : \A j \in live : i <= j
    IN IF live = {} THEN <<>> ELSE SubSeq(store, first, Len(store))

\* create.
CreateToken(h) ==
    LET entry == [token |-> Cardinality(created.tokens) + 1, expiresAt |-> authTime + StoreTtl]
    IN /\ handshake[h].stage = "create"
       /\ resumes' = Append(sweepExpired(resumes, authTime), entry)
       /\ created' = [created EXCEPT !.tokens = @ \cup {entry}, !.swept = authTime]
       /\ handshake' = [handshake EXCEPT ![h] = [@ EXCEPT !.stage = "tell", !.token = entry.token]]
       /\ UNCHANGED <<pending, flowSweep, initiated, codes, callback, standing, authTime>>

\* A token of the store that get would return.
LiveToken(token) ==
    {i \in DOMAIN resumes : resumes[i].token = token /\ authTime <= resumes[i].expiresAt}

\* Mutant of storedExpiry: the store is not asked.
NeverAsked(token, answer) == {}

\* storedExpiry: what the store reports, if it answers with a time to come.
storedExpiry(token, answer) ==
    IF answer = "fault" THEN {}
    ELSE {resumes[i].expiresAt : i \in {j \in LiveToken(token) : resumes[j].expiresAt > authTime}}

\* The rest of buildNeedsAuthorizationError: the expiry advertised.
TellToken(h, answer) ==
    LET token == handshake[h].token
        expiry == storedExpiry(token, answer)
        at == IF expiry = {} THEN authTime + AdvertisedTtl ELSE CHOOSE e \in expiry : TRUE
    IN /\ handshake[h].stage = "tell"
       /\ answer \in {"answers"} \cup (IF aset.faults THEN {"fault"} ELSE {})
       /\ handshake' = [handshake EXCEPT ![h] = [@ EXCEPT
             !.stage = "done", !.result = "needs_authorization", !.told = at \div TicksPerSecond,
             !.exact = (answer = "answers" /\ \E e \in created.tokens :
                                               e.token = token /\ e.expiresAt > authTime)]]
       /\ UNCHANGED <<pending, flowSweep, initiated, codes, callback, resumes, created, standing, authTime>>

\* The store, a Map in its insertion order, after delete(token).
WithoutToken(token) ==
    LET k == CHOOSE i \in DOMAIN resumes : resumes[i].token = token
    IN [i \in 1..(Len(resumes) - 1) |-> resumes[IF i < k THEN i ELSE i + 1]]

\* get: an expired token is dropped.
ResumeGet(token) ==
    /\ \E i \in DOMAIN resumes : resumes[i].token = token
    /\ resumes' = IF LiveToken(token) = {} THEN WithoutToken(token) ELSE resumes
    /\ UNCHANGED <<pending, flowSweep, initiated, codes, callback, created, handshake, standing, authTime>>

fulfill(token) ==
    /\ \E i \in DOMAIN resumes : resumes[i].token = token
    /\ resumes' = WithoutToken(token)
    /\ created' = [created EXCEPT !.fulfilled = @ \cup {token}]
    /\ UNCHANGED <<pending, flowSweep, initiated, codes, callback, handshake, standing, authTime>>

-----------------------------------------------------------------------------
(* The services and the clock.                                             *)

\* The agent gains or loses reputation or its delegation.
StandingChanges(s) ==
    /\ standing' = s /\ s # standing
    /\ handshake' = [h \in Handshakes |->
          IF handshake[h].stage \in {"idle", "done"} THEN handshake[h]
          ELSE Observe(handshake[h], s)]
    /\ UNCHANGED <<pending, flowSweep, initiated, codes, callback, resumes, created, authTime>>

AuthTick ==
    /\ authTime < AuthTime
    /\ authTime' = authTime + 1
    /\ UNCHANGED <<pending, flowSweep, initiated, codes, callback, resumes, created, handshake, standing>>

AuthNext ==
    /\ \/ \E p \in aset.flows : InitiateFlow(p)
       \/ \E f \in initiated, s \in aset.scopes : Consent(f, s)
       \/ \E c \in Callbacks, f \in initiated, k \in {0} \cup {x.code : x \in codes}, s \in aset.states :
             ReceiveCallback(c, f.flow.token, k, s)
       \/ \E c \in Callbacks, a \in {"arrives", "lost", "refused"} : ExchangeCode(c, a)
       \/ \E t \in DOMAIN pending : PeekFlow(t)
       \/ aset.flows # {} /\ CleanupFlows
       \/ \E h \in aset.handshakes : Ask(h)
       \/ \E h \in Handshakes, a \in {"record", "no score", "fault"} : FetchReputation(h, a)
       \/ \E h \in Handshakes, a \in {"answers", "fault"} : VerifyDelegation(h, a) \/ TellToken(h, a)
       \/ \E h \in Handshakes : CreateToken(h)
       \/ \E e \in created.tokens : ResumeGet(e.token) \/ fulfill(e.token)
       \/ \E s \in aset.standings : StandingChanges(s)
       \/ AuthTick
    /\ UNCHANGED aset

AuthSpec == AuthInit /\ [][AuthNext]_authVars

-----------------------------------------------------------------------------
(* Properties.                                                             *)

\* A flow reaches the token exchange at most once, however many callbacks arrive for
\* it; a callback that succeeds does so for the agent that started the flow, with the
\* code this very flow obtained, before the flow expired, and with the scopes the
\* provider granted (consume, verifyAuthorization, initiateFlow).  The flow is consumed
\* before the exchange (oidc-adapter.ts:121), so an exchange that fails leaves nothing to
\* retry; pending-flow-store.ts:17 says it is deleted only after one that succeeds.
FlowRedeemedOnce ==
    /\ \A c, d \in Callbacks :
         c # d /\ callback[c].flow # NoFlow /\ callback[d].flow # NoFlow => callback[c].token # callback[d].token
    /\ \A c \in Callbacks : callback[c].result = "valid" =>
         \E f \in initiated, k \in codes :
            /\ f.flow.token = callback[c].token /\ callback[c].at < f.expires
            /\ k.challenge = f.url.challenge /\ k.redeemed /\ callback[c].agent = f.flow.agent
            /\ callback[c].scopes = IF k.scope = {} THEN f.flow.scopes ELSE UNION k.scope

\* An agent is authorised only if during its handshake it held a delegation and, where
\* a minimum is set, deserved to pass: it was known with a sufficient score, or unknown
\* under the policy that allows unknown agents; a service that fails makes it unknown
\* (verifyOrHints).
AuthorizedOnMerit ==
    \A h \in Handshakes : handshake[h].result = "authorized" => handshake[h].worthy /\ handshake[h].delegated

\* No token is lost before the end it was advertised with, whatever else the stores
\* evict: a callback that is told the flow is unknown came after the advertised expiry
\* or after another callback, and a resume token whose store could be asked is found
\* until the second advertised, unless it was fulfilled; and the sweep leaves no token
\* that had expired when it ran (put, consume, create, storedExpiry, sweepExpired).
KeptAsAdvertised ==
    /\ \A c \in Callbacks : callback[c].result = "unknown" =>
         \E f \in initiated : /\ f.flow.token = callback[c].token
                              /\ \/ callback[c].at >= f.told * TicksPerSecond
                                 \/ \E d \in Callbacks \ {c} : callback[d].token = callback[c].token
    /\ \A h \in Handshakes :
         (handshake[h].told # 0 /\ handshake[h].exact /\ authTime < handshake[h].told * TicksPerSecond
            /\ handshake[h].token \notin created.fulfilled) => LiveToken(handshake[h].token) # {}
    /\ \A i \in DOMAIN resumes : created.swept <= resumes[i].expiresAt

\* Whoever comes out of a flow or of a handshake as authorised earned it: the flow
\* was redeemed once and by its own agent, the handshake passed on its merits
\* (verifyAuthorization, verifyOrHints).
AuthorizationEarned == FlowRedeemedOnce /\ AuthorizedOnMerit
=============================================================================
