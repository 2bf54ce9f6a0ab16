------------------------ MODULE DelegationGateProofs ------------------------
(***************************************************************************)
(* Machine-checked proofs about DelegationGate, for any calls, credentials,*)
(* chains a resolver may return, grants, caches and delays: whoever runs   *)
(* had the authority, kept to what was granted, and proved who it is.      *)
(***************************************************************************)
EXTENDS DelegationGate, ScopeChainProofs, SequenceTheorems

-----------------------------------------------------------------------------
(* The inductive invariant: types.                                         *)

Points == {"idle", "envelope", "resolve", "walk", "verify", "check", "verdict",
           "holder", "bind", "lookup", "iterate", "policy", "done"}
Walking == {"walk", "verify", "check"}
Verifying == {"envelope", "resolve"} \cup Walking
Kinds == {"refused", "failed", "challenged", "denied", "step_up", "ran"}
Paths == {"presented", "agent", "session"}
Replies == {"none", "pending", "good", "bad"}

Forms == {"object"} \cup {Request[c].form : c \in Calls}
Sessions == {Request[c].session : c \in Calls}
Agents == {Cred[x].agent : x \in Creds}
Users == {Cred[x].controller : x \in Creds}
ScopeSets == SUBSET (Values \cup Resources)
Evidences == [cred: Creds, form: Forms]
Deadlines == {Earliest(e, s) : e \in Evidences, s \in Seq(Creds)}

Grants ==
    [id: Agents \X Sessions \X ScopeSets, no: Nat, agent: Agents, user: Users,
     session: Sessions, scopes: ScopeSets, evidence: Evidences,
     status: {"active", "revoked"}, expires: Deadlines, chain: Seq(Creds)]

Locals ==
    [started: Nat, path: Paths, grants: Seq(Grants), grant: Grants \cup {None},
     evidence: [cred: Creds \cup {None}, form: Forms], chain: Seq(Creds), k: Nat,
     sig: Replies, stat: Replies, begun: Nat, valid: BOOLEAN, proved: BOOLEAN,
     seen: SUBSET Nat, gone: SUBSET Nat]

Outcomes ==
    [kind: {"none"}] \cup
    [kind: Kinds, chain: Seq(Creds), started: Nat, path: Paths, grant: Grants \cup {None}]

WorldType ==
    /\ setting \in Settings /\ now \in 0 .. setting.horizon
    /\ revokedAt \in [Creds -> Nat] /\ graphAt \in [Ids -> Nat] /\ rotatedAt \in [Dids -> Nat]

CallType ==
    /\ pc \in [Calls -> Points] /\ at \in [Calls -> Locals] /\ out \in [Calls -> Outcomes]

-----------------------------------------------------------------------------
(* The inductive invariant: what the answers, cached or not, are worth.    *)

\* At time t, or since, the key of x was still published, its bit not set, its
\* delegation not revoked; a cache may have added its slack.
KeyStood(x, t) == rotatedAt[Cred[x].signer] + Slack(setting.sigTtl) >= t
StatusStood(x, t) == Cred[x].listed => revokedAt[x] + Slack(setting.statusTtl) >= t
GraphStood(x, t) == graphAt[Cred[x].id] >= t

SignedSince(x, t) == Cred[x].authentic /\ KeyStood(x, t)

SigEntries == [key: {"jwt", "di"} \X Creds, value: {TRUE}, until: Nat]
StatusEntries == [key: Creds, value: BOOLEAN, until: Nat]

\* A cached signature was valid, with a key that was published until the entry's
\* lifetime and one request before its end.
SigEntryOK(e) ==
    LET x == e.key[2] IN
    /\ setting.sigTtl > 0 /\ e.until <= now + setting.sigTtl
    /\ Cred[x].authentic
    /\ rotatedAt[Cred[x].signer] + setting.sigTtl + Latency >= e.until

StatusEntryOK(e) ==
    /\ setting.statusTtl > 0 /\ e.until <= now + setting.statusTtl
    /\ ~e.value => revokedAt[e.key] + setting.statusTtl + Latency >= e.until

CachesSound ==
    /\ sigCache \in Seq(SigEntries) /\ \A e \in Range(sigCache) : SigEntryOK(e)
    /\ statusCache \in Seq(StatusEntries) /\ \A e \in Range(statusCache) : StatusEntryOK(e)

\* A request is answered within Latency.
Pending(c) == at[c].sig = "pending" \/ at[c].stat = "pending"
Timely(c) ==
    /\ at[c].started <= now /\ at[c].begun <= now
    /\ Pending(c) => at[c].started <= at[c].begun /\ now <= at[c].begun + Latency
    /\ out[c].kind # "none" => out[c].started <= now

-----------------------------------------------------------------------------
(* The inductive invariant: what the walk has established.                 *)

\* Credential j of the chain passed all its checks.
Passed(chain, j, t) ==
    /\ SignedSince(chain[j], t) /\ StatusStood(chain[j], t) /\ t <= Cred[chain[j]].expires
    /\ AudienceOK(chain[j]) /\ Linked(chain, j)

\* The chain leads to x.
LeadsTo(chain, x) == Len(chain) \in 1 .. MaxChain /\ chain[Len(chain)] = x

Vetted(chain, x, t) ==
    /\ LeadsTo(chain, x)
    /\ \A j \in 1 .. Len(chain) : Passed(chain, j, t)
    /\ setting.checker => \A j \in 1 .. Len(chain) : GraphStood(chain[j], t)

\* While a credential is verified: what the walk has seen so far.
Underway(c, L) ==
    LET x == L.evidence.cred
        t == L.started
        y == L.chain[L.k]
    IN
    /\ ~L.valid
    /\ L.evidence.form = "jwt" /\ (pc[c] = "envelope" => L.sig = "good") => SignedSince(x, t)
    /\ pc[c] = "envelope" => L.evidence.form = "jwt" /\ L.stat = "good"
    /\ pc[c] \in Walking => LeadsTo(L.chain, x) /\ L.k \in 1 .. Len(L.chain)
    /\ pc[c] \in {"walk", "verify"} => \A j \in 1 .. L.k - 1 : Passed(L.chain, j, t)
    /\ pc[c] = "verify" =>
         /\ t <= Cred[y].expires
         /\ L.sig = "good" => SignedSince(y, t)
         /\ L.stat = "good" => StatusStood(y, t)
    /\ pc[c] = "check" =>
         /\ \A j \in 1 .. Len(L.chain) : Passed(L.chain, j, t)
         /\ \A j \in 1 .. L.k - 1 : GraphStood(L.chain[j], t)

\* At point p with locals L: the call goes on only with a vetted chain, and past the
\* scope check.
Held(c, p, L) ==
    /\ \/ p \in Verifying \cup {"verdict", "bind", "policy"}
       \/ p = "holder" /\ L.path = "presented"
       => L.evidence \in Evidences
    /\ L.valid => Vetted(L.chain, L.evidence.cred, L.started)
    /\ p = "holder" /\ L.path = "presented" => L.valid
    /\ p \in {"bind", "policy"} =>
         L.valid /\ ScopeSatisfies(Request[c].scope, Cred[L.evidence.cred].authority)

Walked(c) ==
    /\ pc[c] \in Verifying => Underway(c, at[c])
    /\ Held(c, pc[c], at[c])
    /\ out[c].kind = "ran" =>
         /\ Vetted(out[c].chain, Last(out[c].chain), out[c].started)
         /\ ScopeSatisfies(Request[c].scope, RanLeaf(c).authority)

-----------------------------------------------------------------------------
(* The inductive invariant: grants and proofs.                             *)

\* No two records of the store have an id or a number in common; what is active was
\* not revoked.
StoreSound ==
    /\ store \in Seq(Grants) /\ bound \in Nat /\ dead \subseteq 1 .. bound
    /\ \A i \in DOMAIN store :
         /\ store[i].no \in 1 .. bound
         /\ store[i].status = "active" => store[i].no \notin dead
    /\ \A i, j \in DOMAIN store :
         i # j => store[i].id # store[j].id /\ store[i].no # store[j].no

\* A grant the call may use, found on the path it is on.
Offered(c, L, g) ==
    /\ g.no \notin L.gone /\ Request[c].scope \in g.scopes
    /\ IF L.path = "agent" THEN g.agent = Request[c].proof.by
       ELSE Request[c].session # None /\ g.session = Request[c].session

\* Permitted, for locals L.
MayUse(c, L, g) ==
    IF L.path = "agent" THEN g.session \in {None, Request[c].session}
    ELSE ~(Mode = "enforce" /\ g.agent \in KeyDids)

\* The grants in hand, and the one being used.
Handed(c, p, L) ==
    /\ L.gone \subseteq dead
    /\ p = "idle" => L = Local
    /\ p = "bind" => L.path = "presented"
    /\ p \in {"lookup", "iterate"} => L.path # "presented"
    /\ p = "holder" => L.path # "session"
    /\ \A k \in DOMAIN L.grants : Offered(c, L, L.grants[k])
    /\ L.path = "presented" \/ p \in {"holder", "lookup"} => L.grants = <<>>
    /\ L.path = "presented" \/ p \in {"holder", "lookup", "iterate"} => L.grant = None
    /\ L.path # "presented" /\ p \in Verifying \cup {"verdict", "policy"} =>
         Offered(c, L, L.grant) /\ MayUse(c, L, L.grant) /\ L.evidence = L.grant.evidence
    /\ L.path # "presented" /\ p = "policy" => Cred[L.evidence.cred].agent = L.grant.agent

Entrusted(c) ==
    /\ Handed(c, pc[c], at[c])
    /\ pc[c] # "done" => out[c].kind = "none"
    /\ out[c].kind = "ran" /\ out[c].grant # None =>
         /\ out[c].grant.session \in {None, Request[c].session}
         /\ out[c].grant.no \notin at[c].gone /\ Request[c].scope \in out[c].grant.scopes

\* What a proof of possession has shown.
Shown(c, p, L) ==
    /\ L.proved => /\ Request[c].proof # None /\ Request[c].proof.good
                   /\ Request[c].proof.nonce \in spent
    /\ p = "holder" => Request[c].proof # None
    /\ L.path = "agent" /\ p # "holder" => L.proved
    /\ /\ Mode = "enforce" /\ L.path = "presented" /\ p \in {"bind", "policy"}
       /\ Cred[L.evidence.cred].agent \in KeyDids
       => L.proved /\ Request[c].proof.by = Cred[L.evidence.cred].agent

Proven(c) ==
    /\ Shown(c, pc[c], at[c])
    /\ Mode = "enforce" /\ out[c].kind = "ran" /\ RanLeaf(c).agent \in KeyDids
       => at[c].proved /\ Request[c].proof.by = RanLeaf(c).agent

\* Enough approvers signed the action of the call.
Quorate(c) ==
    \E who \in SUBSET {g.by : g \in Request[c].approvals} :
        /\ Cardinality(who) = Quorum
        /\ Approvers # {} => who \subseteq Approvers
        /\ \A a \in who : \E g \in Request[c].approvals :
             g.by = a /\ g.approve /\ g.signed /\ g.action = Request[c].action

\* A call that ran was approved, as ApprovedBeforeRun says.
Approved(c) ==
    out[c].kind = "ran" /\ setting.policy # "none" /\ RiskOf(c) = "high" => Quorate(c)

CallInv(c) == Timely(c) /\ Walked(c) /\ Entrusted(c) /\ Proven(c) /\ Approved(c)

\* No proof was admitted for two calls.
ProofOnce ==
    \A c, d \in Calls : c # d /\ at[c].proved /\ at[d].proved =>
        Request[c].proof.nonce # Request[d].proof.nonce

TypeOK == WorldType /\ CallType

GateInv ==
    /\ TypeOK /\ CachesSound /\ StoreSound /\ ProofOnce
    /\ \A c \in Calls : CallInv(c)

-----------------------------------------------------------------------------
(* Subsequences.                                                           *)

\* The k-th smallest of a finite set of numbers exists: ranks are an injection of the
\* set into as many numbers as it has elements.
LEMMA KthExists ==
    ASSUME NEW places \in SUBSET Nat, IsFiniteSet(places), NEW k \in 1 .. Cardinality(places)
    PROVE  /\ Kth(places, k) \in places
           /\ Cardinality({j \in places : j <= Kth(places, k)}) = k
<1> DEFINE upto(i) == {j \in places : j <= i}
           rank == [i \in places |-> Cardinality(upto(i))]
           n == Cardinality(places)
<1>1. n \in Nat  BY FS_CardinalityType
<1>2. ASSUME NEW i \in places
      PROVE  /\ IsFiniteSet(upto(i)) /\ i \in upto(i) /\ upto(i) \subseteq places
             /\ Cardinality(upto(i)) \in 1 .. n
  <2>1. i \in upto(i) /\ upto(i) \in SUBSET places  OBVIOUS
  <2> HIDE DEF upto
  <2>2. IsFiniteSet(upto(i)) /\ Cardinality(upto(i)) <= n  BY <2>1, FS_Subset
  <2>3. Cardinality(upto(i)) \in Nat /\ Cardinality(upto(i)) # 0
    BY <2>1, <2>2, FS_CardinalityType, FS_EmptySet
  <2> QED  BY <1>1, <2>1, <2>2, <2>3
<1>3. ASSUME NEW i \in places, NEW j \in places, i < j
      PROVE  Cardinality(upto(i)) # Cardinality(upto(j))
  <2>0. i \in Nat /\ j \in Nat /\ \A m \in places : m \in Nat  OBVIOUS
  <2>1. upto(i) \subseteq upto(j)
    <3> SUFFICES ASSUME NEW m \in places, m <= i PROVE m <= j  OBVIOUS
    <3> QED  BY <1>3, <2>0
  <2>3. j \notin upto(i)  BY <1>3, <2>0
  <2>4. j \in upto(j)  BY <2>0
  <2>2. IsFiniteSet(upto(j))  BY <1>2
  <2> HIDE DEF upto
  <2> QED  BY <2>1, <2>2, <2>3, <2>4, FS_Subset
<1>4. rank \in Injection(places, 1 .. n)
  <2>1. rank \in [places -> 1 .. n]  BY <1>2
  <2>2. ASSUME NEW i \in places, NEW j \in places, rank[i] = rank[j]
        PROVE  i = j
    <3>1. ~(i < j) /\ ~(j < i)  BY <1>3, <2>2
    <3> QED  BY <3>1
  <2> HIDE DEF rank
  <2> QED  BY <2>1, <2>2 DEF Injection, IsInjective
<1>5. IsFiniteSet(1 .. n) /\ Cardinality(1 .. n) = n
  <2> SUFFICES ASSUME NEW m \in Nat PROVE IsFiniteSet(1 .. m) /\ Cardinality(1 .. m) = m
    BY <1>1
  <2> QED  BY FS_Interval
<1>6. rank \in Surjection(places, 1 .. n)
  <2> HIDE DEF rank
  <2> QED  BY <1>4, <1>5, FS_Injection
<1>7. \E i \in places : Cardinality(upto(i)) = k  BY <1>6 DEF Surjection
<1> QED  BY <1>7 DEF Kth

\* t keeps elements of s that belong to kept, no position of s twice.
KeptFrom(t, s, kept) ==
    \E from \in [DOMAIN t -> DOMAIN s] :
        /\ \A k \in DOMAIN t : t[k] = s[from[k]] /\ t[k] \in kept
        /\ \A k, l \in DOMAIN t : k # l => from[k] # from[l]

\* Array.prototype.filter keeps only what was there and belongs to the set.
LEMMA FilterKeeps ==
    ASSUME NEW S, NEW s \in Seq(S), NEW kept
    PROVE  Filter(s, kept) \in Seq(S) /\ KeptFrom(Filter(s, kept), s, kept)
<1> DEFINE places == {i \in DOMAIN s : s[i] \in kept}
           n == Cardinality(places)
           t == [k \in 1 .. n |-> s[Kth(places, k)]]
           from == [k \in 1 .. n |-> Kth(places, k)]
<1>1. places \in SUBSET Nat /\ places \in SUBSET (1 .. Len(s)) /\ Len(s) \in Nat  OBVIOUS
<1>2. IsFiniteSet(places)
  <2>1. IsFiniteSet(1 .. Len(s))  BY <1>1, FS_Interval
  <2> HIDE DEF places
  <2> QED  BY <1>1, <2>1, FS_Subset
<1>3. n \in Nat  BY <1>2, FS_CardinalityType
<1>4. ASSUME NEW k \in 1 .. n
      PROVE  /\ Kth(places, k) \in places
             /\ Cardinality({j \in places : j <= Kth(places, k)}) = k
  <2> HIDE DEF places
  <2> QED  BY <1>1, <1>2, KthExists
<1>5. \A k \in 1 .. n : Kth(places, k) \in DOMAIN s /\ s[Kth(places, k)] \in kept  BY <1>4
<1> HIDE DEF places, n
<1>6. t \in Seq(S) /\ DOMAIN t = 1 .. n  BY <1>3, <1>5, <1>1
<1>7. from \in [DOMAIN t -> DOMAIN s]  BY <1>5, <1>6
<1>8. \A k \in DOMAIN t : t[k] = s[from[k]] /\ t[k] \in kept  BY <1>5, <1>6
<1>9. \A k, l \in DOMAIN t : k # l => from[k] # from[l]
  <2> SUFFICES ASSUME NEW k \in 1 .. n, NEW l \in 1 .. n, from[k] = from[l] PROVE k = l
    BY <1>6
  <2>1. Kth(places, k) = Kth(places, l)  OBVIOUS
  <2> QED  BY <1>4, <2>1
<1>10. KeptFrom(t, s, kept)
  <2> HIDE DEF from, t
  <2> QED  BY <1>7, <1>8, <1>9 DEF KeptFrom
<1>11. Filter(s, kept) = t  BY DEF Filter, t, n, places
<1> QED  BY <1>6, <1>10, <1>11

-----------------------------------------------------------------------------
(* A step of the world: what was established stays so.                     *)

\* Time goes on, and whatever is revoked or rotated now is so from now on.
Later ==
    /\ setting' = setting /\ WorldType' /\ now <= now'
    /\ \A x \in Creds : revokedAt'[x] = revokedAt[x] \/ revokedAt'[x] >= now
    /\ \A id \in Ids : graphAt'[id] = graphAt[id] \/ graphAt'[id] >= now
    /\ \A d \in Dids : rotatedAt'[d] = rotatedAt[d] \/ rotatedAt'[d] >= now
    /\ dead \subseteq dead' /\ spent \subseteq spent'

\* The numbers in a typed state.
LEMMA Numbers ==
    ASSUME WorldType
    PROVE  /\ now \in Nat /\ Latency \in Nat /\ MaxChain \in Nat
           /\ setting.sigTtl \in Nat /\ setting.statusTtl \in Nat
           /\ Slack(setting.sigTtl) \in Nat /\ Slack(setting.statusTtl) \in Nat
           /\ \A x \in Creds :
                /\ revokedAt[x] \in Nat /\ graphAt[Cred[x].id] \in Nat
                /\ rotatedAt[Cred[x].signer] \in Nat
                /\ Cred[x].id \in Ids /\ Cred[x].signer \in Dids
                /\ Cred[x].expires \in Int
<1>1. setting \in Settings /\ now \in 0 .. setting.horizon  BY DEF WorldType
<1>2. setting.horizon \in Nat /\ setting.sigTtl \in Nat /\ setting.statusTtl \in Nat
  BY <1>1, GateAssumption
<1>3. Latency \in Nat /\ MaxChain \in Nat  BY GateAssumption
<1>4. now \in Nat  BY <1>1, <1>2
<1>5. \A x \in Creds : Cred[x].id \in Ids /\ Cred[x].signer \in Dids  BY DEF Ids, Dids
<1>6. \A x \in Creds : Cred[x].expires \in Int  BY GateAssumption
<1> QED  BY <1>2, <1>3, <1>4, <1>5, <1>6 DEF WorldType, Slack

\* What stood at a time that is past stands for good.
LEMMA StoodLater ==
    ASSUME WorldType, Later, NEW x \in Creds, NEW t \in Nat, t <= now
    PROVE  /\ SignedSince(x, t) => SignedSince(x, t)'
           /\ StatusStood(x, t) => StatusStood(x, t)'
           /\ GraphStood(x, t) => GraphStood(x, t)'
<1>1. setting' = setting /\ WorldType'  BY DEF Later
<1>2. /\ rotatedAt'[Cred[x].signer] \in Nat /\ revokedAt'[x] \in Nat
      /\ graphAt'[Cred[x].id] \in Nat
  BY <1>1, Numbers DEF WorldType
<1>3. /\ Slack(setting'.sigTtl) = Slack(setting.sigTtl)
      /\ Slack(setting'.statusTtl) = Slack(setting.statusTtl)
  BY <1>1
<1>4. /\ rotatedAt[Cred[x].signer] \in Nat /\ revokedAt[x] \in Nat
      /\ graphAt[Cred[x].id] \in Nat /\ now \in Nat
      /\ Slack(setting.sigTtl) \in Nat /\ Slack(setting.statusTtl) \in Nat
      /\ Cred[x].id \in Ids /\ Cred[x].signer \in Dids
  BY Numbers
<1>5. KeyStood(x, t) => KeyStood(x, t)'  BY <1>2, <1>3, <1>4 DEF KeyStood, Later
<1>6. StatusStood(x, t) => StatusStood(x, t)'  BY <1>2, <1>3, <1>4 DEF StatusStood, Later
<1>7. GraphStood(x, t) => GraphStood(x, t)'  BY <1>2, <1>4 DEF GraphStood, Later
<1> QED  BY <1>5, <1>6, <1>7 DEF SignedSince

LEMMA PassedLater ==
    ASSUME WorldType, Later, NEW chain \in Seq(Creds), NEW j \in 1 .. Len(chain),
           NEW t \in Nat, t <= now, Passed(chain, j, t)
    PROVE  Passed(chain, j, t)'
<1>1. chain[j] \in Creds  OBVIOUS
<1>2. SignedSince(chain[j], t)' /\ StatusStood(chain[j], t)'  BY <1>1, StoodLater DEF Passed
<1>3. setting' = setting  BY DEF Later
<1>4. Linked(chain, j)' <=> Linked(chain, j)  BY <1>3 DEF Linked
<1>5. AudienceOK(chain[j])' <=> AudienceOK(chain[j])  BY DEF AudienceOK
<1> QED  BY <1>2, <1>4, <1>5 DEF Passed

LEMMA VettedLater ==
    ASSUME WorldType, Later, NEW chain \in Seq(Creds), NEW x, NEW t \in Nat, t <= now,
           Vetted(chain, x, t)
    PROVE  Vetted(chain, x, t)'
<1>1. setting' = setting  BY DEF Later
<1>2. \A j \in 1 .. Len(chain) : Passed(chain, j, t)'  BY PassedLater DEF Vetted
<1>3. setting.checker => \A j \in 1 .. Len(chain) : GraphStood(chain[j], t)'
  BY StoodLater DEF Vetted
<1>4. LeadsTo(chain, x)' <=> LeadsTo(chain, x)  BY DEF LeadsTo
<1> QED  BY <1>1, <1>2, <1>3, <1>4 DEF Vetted

LEMMA EntriesLater ==
    ASSUME WorldType, Later
    PROVE  /\ \A e \in SigEntries : SigEntryOK(e) => SigEntryOK(e)'
           /\ \A e \in StatusEntries : StatusEntryOK(e) => StatusEntryOK(e)'
<1>1. setting' = setting /\ WorldType' /\ now <= now' /\ now' \in Nat
  BY Numbers DEF Later, WorldType
<1>2. ASSUME NEW e \in SigEntries, SigEntryOK(e)
      PROVE  SigEntryOK(e)'
  <2>1. PICK x \in Creds : x = e.key[2]  BY DEF SigEntries
  <2>2. e.until \in Nat  BY DEF SigEntries
  <2>3. /\ rotatedAt[Cred[x].signer] \in Nat /\ Cred[x].signer \in Dids
        /\ setting.sigTtl \in Nat /\ Latency \in Nat /\ now \in Nat
        /\ rotatedAt'[Cred[x].signer] \in Nat
    BY <1>1, Numbers DEF WorldType
  <2> QED  BY <1>1, <1>2, <2>1, <2>2, <2>3 DEF SigEntryOK, Later
<1>3. ASSUME NEW e \in StatusEntries, StatusEntryOK(e)
      PROVE  StatusEntryOK(e)'
  <2>1. e.until \in Nat /\ e.key \in Creds  BY DEF StatusEntries
  <2>2. /\ revokedAt[e.key] \in Nat /\ revokedAt'[e.key] \in Nat
        /\ setting.statusTtl \in Nat /\ Latency \in Nat /\ now \in Nat
    BY <1>1, <2>1, Numbers DEF WorldType
  <2> QED  BY <1>1, <1>3, <2>1, <2>2 DEF StatusEntryOK, Later
<1> QED  BY <1>2, <1>3

\* Caches that are left alone, or only lose entries, stay sound.
LEMMA CachesLater ==
    ASSUME TypeOK, Later, CachesSound,
           sigCache' \in Seq(SigEntries), Range(sigCache') \subseteq Range(sigCache),
           statusCache' \in Seq(StatusEntries), Range(statusCache') \subseteq Range(statusCache)
    PROVE  CachesSound'
<1>1. WorldType  BY DEF TypeOK
<1>2. Range(sigCache) \subseteq SigEntries /\ Range(statusCache) \subseteq StatusEntries
  BY DEF CachesSound, Range
<1>3. \A e \in Range(sigCache') : SigEntryOK(e)'  BY <1>1, <1>2, EntriesLater DEF CachesSound
<1>4. \A e \in Range(statusCache') : StatusEntryOK(e)'
  BY <1>1, <1>2, EntriesLater DEF CachesSound
<1> QED  BY <1>3, <1>4 DEF CachesSound

-----------------------------------------------------------------------------
(* A step of one call leaves the others alone.                             *)

Untouched(d) == pc'[d] = pc[d] /\ at'[d] = at[d] /\ out'[d] = out[d]

\* The outcome of a call that ran.
LEMMA RanOutcome ==
    ASSUME CallType, NEW d \in Calls, out[d].kind = "ran"
    PROVE  /\ out[d].chain \in Seq(Creds) /\ out[d].started \in Nat
           /\ out[d].grant \in Grants \cup {None}
<1>1. out[d] \in Outcomes  BY DEF CallType
<1> QED  BY <1>1 DEF Outcomes

LEMMA LocalType ==
    ASSUME CallType, NEW d \in Calls
    PROVE  /\ at[d] \in Locals /\ pc[d] \in Points
           /\ at[d].started \in Nat /\ at[d].begun \in Nat /\ at[d].k \in Nat
           /\ at[d].chain \in Seq(Creds) /\ at[d].valid \in BOOLEAN /\ at[d].proved \in BOOLEAN
           /\ at[d].grants \in Seq(Grants) /\ at[d].grant \in Grants \cup {None}
           /\ at[d].path \in Paths /\ at[d].sig \in Replies /\ at[d].stat \in Replies
           /\ at[d].gone \subseteq Nat /\ at[d].seen \subseteq Nat
<1>1. at[d] \in Locals /\ pc[d] \in Points  BY DEF CallType
<1> QED  BY <1>1 DEF Locals

LEMMA UnderwayLater ==
    ASSUME TypeOK, Later, NEW d \in Calls, Untouched(d), at[d].started <= now,
           pc[d] \in Verifying, at[d].evidence \in Evidences, Underway(d, at[d])
    PROVE  Underway(d, at[d])'
<1> DEFINE L == at[d]
<1>1. WorldType /\ CallType  BY DEF TypeOK
<1>2. PICK t \in Nat : t = L.started /\ t <= now  BY <1>1, LocalType
<1>3. PICK chain \in Seq(Creds) : chain = L.chain  BY <1>1, LocalType
<1>4. PICK x \in Creds : x = L.evidence.cred  BY DEF Evidences
<1>5. SignedSince(x, t) => SignedSince(x, t)'  BY <1>1, <1>2, StoodLater
<1>6. \A j \in 1 .. Len(chain) : Passed(chain, j, t) => Passed(chain, j, t)'
  BY <1>1, <1>2, PassedLater
<1>7. \A j \in 1 .. Len(chain) :
        /\ SignedSince(chain[j], t) => SignedSince(chain[j], t)'
        /\ StatusStood(chain[j], t) => StatusStood(chain[j], t)'
        /\ GraphStood(chain[j], t) => GraphStood(chain[j], t)'
  BY <1>1, <1>2, StoodLater
<1>8. pc[d] \in Walking => LeadsTo(chain, x) /\ L.k \in 1 .. Len(chain)
  BY <1>3, <1>4 DEF Underway
<1>9. L.k \in Nat /\ Len(chain) \in Nat  BY <1>1, LocalType
<1>10. at'[d] = at[d] /\ pc'[d] = pc[d]  BY DEF Untouched
<1>11. LeadsTo(chain, x)' <=> LeadsTo(chain, x)  BY DEF LeadsTo
<1>12. pc[d] \in {"walk", "verify"} => \A j \in 1 .. L.k - 1 : Passed(chain, j, t)'
  BY <1>2, <1>3, <1>6, <1>8, <1>9 DEF Underway, Walking
<1>13. pc[d] = "verify" =>
         \E n \in 1 .. Len(chain) :
            /\ n = L.k /\ t <= Cred[chain[n]].expires
            /\ L.sig = "good" => SignedSince(chain[n], t)'
            /\ L.stat = "good" => StatusStood(chain[n], t)'
  <2> SUFFICES ASSUME pc[d] = "verify", NEW n \in 1 .. Len(chain), n = L.k
               PROVE  /\ t <= Cred[chain[n]].expires
                      /\ L.sig = "good" => SignedSince(chain[n], t)'
                      /\ L.stat = "good" => StatusStood(chain[n], t)'
    BY <1>8 DEF Walking
  <2>1. /\ t <= Cred[chain[n]].expires
        /\ L.sig = "good" => SignedSince(chain[n], t)
        /\ L.stat = "good" => StatusStood(chain[n], t)
    BY <1>2, <1>3 DEF Underway
  <2> QED  BY <1>7, <2>1
<1>14. pc[d] = "check" =>
         /\ \A j \in 1 .. Len(chain) : Passed(chain, j, t)'
         /\ \A j \in 1 .. L.k - 1 : GraphStood(chain[j], t)'
  BY <1>2, <1>3, <1>6, <1>7, <1>8, <1>9 DEF Underway, Walking
<1>15. L.evidence.form = "jwt" /\ (pc[d] = "envelope" => L.sig = "good") => SignedSince(x, t)'
  BY <1>2, <1>4, <1>5 DEF Underway
<1>16. at'[d].started = t /\ at'[d].chain = chain /\ at'[d].evidence.cred = x
  BY <1>2, <1>3, <1>4, <1>10
<1>17. ~L.valid /\ (pc[d] = "envelope" => L.evidence.form = "jwt" /\ L.stat = "good")
  BY DEF Underway
<1> QED
  BY <1>8, <1>10, <1>11, <1>12, <1>13, <1>14, <1>15, <1>16, <1>17 DEF Underway

\* Nothing that holds of a call is lost by a step that does not move it.
LEMMA CallLater ==
    ASSUME TypeOK, Later, NEW d \in Calls, Untouched(d), CallInv(d),
           Pending(d) => now' <= at[d].begun + Latency
    PROVE  CallInv(d)'
<1>1. WorldType /\ CallType /\ now \in Nat /\ now' \in Nat /\ now <= now' /\ setting' = setting
  BY Numbers DEF TypeOK, Later, WorldType
<1>2. at'[d] = at[d] /\ pc'[d] = pc[d] /\ out'[d] = out[d]  BY DEF Untouched
<1>3. at[d].started \in Nat /\ at[d].begun \in Nat /\ at[d].started <= now /\ at[d].begun <= now
  BY <1>1, LocalType DEF CallInv, Timely
<1>4. out[d].kind # "none" => out[d].started \in Nat /\ out[d].started <= now
  <2>1. out[d] \in Outcomes  BY <1>1 DEF CallType
  <2> QED  BY <2>1 DEF CallInv, Timely, Outcomes
<1>5. Timely(d)'
  <2>1. Pending(d)' <=> Pending(d)  BY <1>2 DEF Pending
  <2> QED  BY <1>1, <1>2, <1>3, <1>4, <2>1 DEF CallInv, Timely
<1>6. Walked(d)'
  <2>1. pc[d] \in Verifying => Underway(d, at[d])'
    <3> SUFFICES ASSUME pc[d] \in Verifying PROVE Underway(d, at[d])'  OBVIOUS
    <3>1. at[d].evidence \in Evidences /\ Underway(d, at[d])  BY DEF CallInv, Walked, Held
    <3> QED  BY <1>3, <3>1, UnderwayLater
  <2>2. at[d].valid => Vetted(at[d].chain, at[d].evidence.cred, at[d].started)'
    <3> SUFFICES ASSUME at[d].valid
                 PROVE  Vetted(at[d].chain, at[d].evidence.cred, at[d].started)'
      OBVIOUS
    <3>1. PICK chain \in Seq(Creds) : chain = at[d].chain  BY <1>1, LocalType
    <3>2. PICK t \in Nat : t = at[d].started  BY <1>3
    <3>3. PICK x : x = at[d].evidence.cred  OBVIOUS
    <3>4. Vetted(chain, x, t)  BY <3>1, <3>2, <3>3 DEF CallInv, Walked, Held
    <3>5. Vetted(chain, x, t)'  BY <1>1, <1>3, <3>2, <3>4, VettedLater
    <3>6. at'[d].chain = chain /\ at'[d].evidence.cred = x /\ at'[d].started = t
      BY <1>2, <3>1, <3>2, <3>3
    <3> QED  BY <3>5, <3>6
  <2>3. out[d].kind = "ran" => Vetted(out[d].chain, Last(out[d].chain), out[d].started)'
    <3> SUFFICES ASSUME out[d].kind = "ran"
                 PROVE  Vetted(out[d].chain, Last(out[d].chain), out[d].started)'
      OBVIOUS
    <3>1. PICK chain \in Seq(Creds) : chain = out[d].chain  BY <1>1, RanOutcome
    <3>2. PICK t \in Nat : t = out[d].started /\ t <= now  BY <1>4
    <3>3. PICK x : x = Last(chain)  OBVIOUS
    <3>4. Vetted(chain, x, t)  BY <3>1, <3>2, <3>3 DEF CallInv, Walked, Held
    <3>5. Vetted(chain, x, t)'  BY <1>1, <3>2, <3>4, VettedLater
    <3>6. out'[d].chain = chain /\ out'[d].started = t  BY <1>2, <3>1, <3>2
    <3>7. Last(out'[d].chain) = x  BY <3>3, <3>6
    <3> QED  BY <3>5, <3>6, <3>7
  <2>4. RanLeaf(d)' = RanLeaf(d)  BY <1>2 DEF RanLeaf
  <2> QED  BY <1>2, <2>1, <2>2, <2>3, <2>4 DEF CallInv, Walked, Held
<1>7. Entrusted(d)'
  <2>1. \A g : /\ Offered(d, at[d], g)' <=> Offered(d, at[d], g)
              /\ MayUse(d, at[d], g)' <=> MayUse(d, at[d], g)
    BY <1>1, <1>2 DEF Offered, MayUse, Mode
  <2>2. dead \subseteq dead'  BY DEF Later
  <2> QED  BY <1>2, <2>1, <2>2 DEF CallInv, Entrusted, Handed
<1>8. Proven(d)'
  <2>1. RanLeaf(d)' = RanLeaf(d)  BY <1>2 DEF RanLeaf
  <2>2. spent \subseteq spent'  BY DEF Later
  <2> QED  BY <1>1, <1>2, <2>1, <2>2 DEF CallInv, Proven, Shown, Mode
<1>9. Approved(d)'  BY <1>1, <1>2 DEF CallInv, Approved, Quorate, RiskOf
<1> QED  BY <1>5, <1>6, <1>7, <1>8, <1>9 DEF CallInv

\* A step of call c moves that call and no other.
Moves(c) == CallType' /\ \A d \in Calls \ {c} : Untouched(d)

LEMMA Assembled ==
    ASSUME GateInv, Later, now' = now, NEW c \in Calls, Moves(c), CachesSound', StoreSound',
           CallInv(c)', at'[c].proved => at[c].proved
    PROVE  GateInv'
<1>1. TypeOK'  BY DEF Moves, TypeOK, Later
<1>2. \A d \in Calls \ {c} : CallInv(d)'
  <2> SUFFICES ASSUME NEW d \in Calls \ {c} PROVE CallInv(d)'  OBVIOUS
  <2>1. Pending(d) => now' <= at[d].begun + Latency  BY DEF GateInv, CallInv, Timely
  <2> QED  BY <2>1, CallLater DEF GateInv, Moves
<1>3. ProofOnce'
  <2>1. \A d \in Calls : at'[d].proved => at[d].proved  BY DEF Moves, Untouched
  <2> QED  BY <2>1 DEF GateInv, ProofOnce
<1> QED  BY <1>1, <1>2, <1>3 DEF GateInv

-----------------------------------------------------------------------------
(* The steps around the calls.                                             *)

LEMMA EnvironmentAssembled ==
    ASSUME GateInv, Later, UNCHANGED <<pc, at, out, spent>>, CachesSound', StoreSound',
           \A c \in Calls : Pending(c) => now' <= at[c].begun + Latency
    PROVE  GateInv'
<1>1. TypeOK'  BY DEF GateInv, TypeOK, CallType, Later
<1>2. \A c \in Calls : CallInv(c)'
  BY CallLater DEF GateInv, Untouched
<1>3. ProofOnce'  BY DEF GateInv, ProofOnce
<1> QED  BY <1>1, <1>2, <1>3 DEF GateInv

LEMMA SameCaches ==
    ASSUME GateInv, Later, UNCHANGED cacheVars
    PROVE  CachesSound'
<1>1. sigCache' = sigCache /\ statusCache' = statusCache  BY DEF cacheVars
<1> QED  BY <1>1, CachesLater DEF GateInv, CachesSound

LEMMA SameStore ==
    ASSUME StoreSound, UNCHANGED grantVars
    PROVE  StoreSound'
BY DEF StoreSound, grantVars

\* Nothing but the calls, the caches and the store moved: the world is as it was.
LEMMA SameWorld ==
    ASSUME TypeOK, UNCHANGED <<worldVars, setting>>, dead \subseteq dead', spent \subseteq spent'
    PROVE  Later
<1>1. now' = now /\ revokedAt' = revokedAt /\ graphAt' = graphAt /\ rotatedAt' = rotatedAt
  BY DEF worldVars
<1>2. WorldType /\ now \in Nat  BY Numbers DEF TypeOK
<1> QED  BY <1>1, <1>2 DEF Later, WorldType

LEMMA TickKeeps ==
    ASSUME GateInv, Tick
    PROVE  GateInv'
<1>1. WorldType /\ now \in Nat /\ Latency \in Nat  BY Numbers DEF GateInv, TypeOK
<1>2. now' = now + 1 /\ now < setting.horizon /\ UNCHANGED <<revokedAt, graphAt, rotatedAt, setting>>
      /\ UNCHANGED <<pc, at, out, spent, cacheVars, grantVars>>
  BY DEF Tick
<1>3. setting.horizon \in Nat  BY <1>1, GateAssumption DEF WorldType
<1>4. Later  BY <1>1, <1>2, <1>3 DEF Later, WorldType, grantVars
<1>5. ASSUME NEW c \in Calls, Pending(c)
      PROVE  now' <= at[c].begun + Latency
  <2>1. now - at[c].begun < Latency  BY <1>5 DEF Tick, Pending
  <2>2. at[c].begun \in Nat  BY LocalType DEF GateInv, TypeOK
  <2> QED  BY <1>1, <1>2, <2>1, <2>2
<1> QED  BY <1>2, <1>4, <1>5, SameCaches, SameStore, EnvironmentAssembled DEF GateInv

LEMMA WorldKeeps ==
    ASSUME GateInv,
           \/ \E x \in Creds : SetStatusBit(x)
           \/ \E id \in Ids : RevokeInGraph(id)
           \/ \E d \in Dids : RotateKey(d)
    PROVE  GateInv'
<1>1. WorldType /\ now \in Nat /\ Latency \in Nat  BY Numbers DEF GateInv, TypeOK
<1>2. UNCHANGED <<now, pc, at, out, spent, setting, cacheVars, grantVars>>
  BY DEF SetStatusBit, RevokeInGraph, RotateKey
<1>3. Later
  <2>1. CASE \E x \in Creds : SetStatusBit(x)
    <3>1. PICK x \in Creds : SetStatusBit(x)  BY <2>1
    <3>2. revokedAt' = [revokedAt EXCEPT ![x] = now] /\ UNCHANGED <<graphAt, rotatedAt>>
      BY <3>1 DEF SetStatusBit
    <3> QED  BY <1>1, <1>2, <3>2 DEF Later, WorldType, grantVars
  <2>2. CASE \E id \in Ids : RevokeInGraph(id)
    <3>1. PICK id \in Ids : RevokeInGraph(id)  BY <2>2
    <3>2. graphAt' = [graphAt EXCEPT ![id] = now] /\ UNCHANGED <<revokedAt, rotatedAt>>
      BY <3>1 DEF RevokeInGraph
    <3> QED  BY <1>1, <1>2, <3>2 DEF Later, WorldType, grantVars
  <2>3. CASE \E d \in Dids : RotateKey(d)
    <3>1. PICK d \in Dids : RotateKey(d)  BY <2>3
    <3>2. rotatedAt' = [rotatedAt EXCEPT ![d] = now] /\ UNCHANGED <<revokedAt, graphAt>>
      BY <3>1 DEF RotateKey
    <3> QED  BY <1>1, <1>2, <3>2 DEF Later, WorldType, grantVars
  <2> QED  BY <2>1, <2>2, <2>3
<1>4. \A c \in Calls : Pending(c) => now' <= at[c].begun + Latency
  BY <1>2 DEF GateInv, CallInv, Timely
<1> QED  BY <1>2, <1>3, <1>4, SameCaches, SameStore, EnvironmentAssembled DEF GateInv

LEMMA StutterKeeps ==
    ASSUME GateInv, UNCHANGED vars
    PROVE  GateInv'
<1>1. UNCHANGED <<worldVars, cacheVars, grantVars, spent, pc, at, out, setting>>  BY DEF vars
<1>2. Later  BY <1>1, SameWorld DEF GateInv, grantVars
<1>3. \A c \in Calls : Pending(c) => now' <= at[c].begun + Latency
  BY <1>1 DEF GateInv, CallInv, Timely, worldVars
<1> QED  BY <1>1, <1>2, <1>3, SameCaches, SameStore, EnvironmentAssembled DEF GateInv

LEMMA RevokeGrantKeeps ==
    ASSUME GateInv, NEW k \in DOMAIN store, RevokeGrant(k)
    PROVE  GateInv'
<1>1. UNCHANGED <<worldVars, cacheVars, bound, spent, pc, at, out, setting>>  BY DEF RevokeGrant
<1>2. Later  BY <1>1, SameWorld DEF GateInv, RevokeGrant
<1>3. \A c \in Calls : Pending(c) => now' <= at[c].begun + Latency
  BY <1>1 DEF GateInv, CallInv, Timely, worldVars
<1>4. StoreSound'
  <2>1. StoreSound /\ store \in Seq(Grants) /\ Len(store) \in Nat /\ k \in 1 .. Len(store)
    BY DEF GateInv, StoreSound
  <2>2. PICK g \in Grants : g = [store[k] EXCEPT !.status = "revoked"]
    <3>1. store[k] \in Grants  BY <2>1
    <3> QED  BY <3>1 DEF Grants
  <2>3. /\ g.id = store[k].id /\ g.no = store[k].no /\ g.status = "revoked" /\ g.no \in Nat
    <3>1. store[k] \in Grants  BY <2>1
    <3> QED  BY <2>2, <3>1 DEF Grants
  <2>4. store' = [store EXCEPT ![k] = g]  BY <2>2 DEF RevokeGrant
  <2>5. /\ store' \in Seq(Grants) /\ DOMAIN store' = DOMAIN store
        /\ \A i \in DOMAIN store : store'[i] = IF i = k THEN g ELSE store[i]
    BY <2>1, <2>4
  <2>6. dead' = dead \cup {g.no} /\ bound' = bound  BY <1>1, <2>3 DEF RevokeGrant
  <2>7. g.no \in 1 .. bound  BY <2>1, <2>3 DEF StoreSound
  <2>8. dead' \subseteq 1 .. bound' /\ bound' \in Nat  BY <2>1, <2>6, <2>7 DEF StoreSound
  <2>9. ASSUME NEW i \in DOMAIN store
        PROVE  /\ store'[i].no = store[i].no /\ store'[i].id = store[i].id
               /\ store'[i].no \in 1 .. bound'
               /\ store'[i].status = "active" => store'[i].no \notin dead'
    <3>1. store[i].no \in 1 .. bound /\ (store[i].status = "active" => store[i].no \notin dead)
      BY <2>1 DEF StoreSound
    <3>2. CASE i = k
      BY <2>3, <2>5, <2>6, <3>1, <3>2
    <3>3. CASE i # k
      <4>1. store[i].no # g.no  BY <2>1, <2>3, <3>3 DEF StoreSound
      <4> QED  BY <2>5, <2>6, <3>1, <3>3, <4>1
    <3> QED  BY <3>2, <3>3
  <2>10. \A i, j \in DOMAIN store :
            i # j => store'[i].id # store'[j].id /\ store'[i].no # store'[j].no
    BY <2>1, <2>9 DEF StoreSound
  <2> QED  BY <2>5, <2>8, <2>9, <2>10 DEF StoreSound
<1> QED  BY <1>1, <1>2, <1>3, <1>4, SameCaches, EnvironmentAssembled

LEMMA CleanupKeeps ==
    ASSUME GateInv, Cleanup
    PROVE  GateInv'
<1>1. UNCHANGED <<worldVars, cacheVars, bound, dead, spent, pc, at, out, setting>>  BY DEF Cleanup
<1>2. Later  BY <1>1, SameWorld DEF GateInv
<1>3. \A c \in Calls : Pending(c) => now' <= at[c].begun + Latency
  BY <1>1 DEF GateInv, CallInv, Timely, worldVars
<1>4. StoreSound'
  <2>1. StoreSound /\ store \in Seq(Grants)  BY DEF GateInv, StoreSound
  <2>2. PICK kept : store' = Filter(store, kept)  BY DEF Cleanup
  <2>3. store' \in Seq(Grants) /\ KeptFrom(store', store, kept)  BY <2>1, <2>2, FilterKeeps
  <2>4. PICK from \in [DOMAIN store' -> DOMAIN store] :
            /\ \A k \in DOMAIN store' : store'[k] = store[from[k]] /\ store'[k] \in kept
            /\ \A k, l \in DOMAIN store' : k # l => from[k] # from[l]
    BY <2>3 DEF KeptFrom
  <2> QED  BY <1>1, <2>1, <2>3, <2>4 DEF StoreSound
<1> QED  BY <1>1, <1>2, <1>3, <1>4, SameCaches, EnvironmentAssembled

-----------------------------------------------------------------------------
(* The walk: steps that verify credentials.                                *)

Fields == {"started", "path", "grants", "grant", "evidence", "chain", "k", "sig", "stat", "begun",
           "valid", "proved", "seen", "gone"}
\* M says what L says, except for the given fields.
Same(L, M, fields) == \A f \in Fields \ fields : M[f] = L[f]

LEMMA MoveOf ==
    ASSUME CallType, NEW c \in Calls, NEW p \in Points, NEW M \in Locals, Goto(c, p, M),
           out' = out
    PROVE  Moves(c) /\ pc'[c] = p /\ at'[c] = M
BY DEF CallType, Goto, Moves, Untouched

WalkFields == {"chain", "k", "sig", "stat", "begun", "valid"}
WalkStep(c) ==
    /\ pc[c] \in Verifying /\ pc'[c] \in Verifying \cup {"verdict"}
    /\ Moves(c) /\ out' = out /\ Same(at[c], at'[c], WalkFields)
    /\ UNCHANGED <<worldVars, grantVars, spent, setting>>

LEMMA SameFields ==
    ASSUME NEW c, Same(at[c], at'[c], WalkFields)
    PROVE  /\ at'[c].started = at[c].started /\ at'[c].path = at[c].path
           /\ at'[c].grants = at[c].grants /\ at'[c].grant = at[c].grant
           /\ at'[c].evidence = at[c].evidence /\ at'[c].proved = at[c].proved
           /\ at'[c].seen = at[c].seen /\ at'[c].gone = at[c].gone
BY DEF Same, Fields, WalkFields

\* A request that is still pending was sent before; a new one is sent now.
LEMMA TimelyStep ==
    ASSUME TypeOK, NEW c \in Calls, Timely(c), UNCHANGED <<worldVars, out>>,
           at'[c].started = at[c].started,
           \/ at'[c].begun = at[c].begun /\ (Pending(c)' => Pending(c))
           \/ at'[c].begun = now
           \/ at'[c].begun = 0 /\ ~Pending(c)'
    PROVE  Timely(c)'
<1>1. now \in Nat /\ Latency \in Nat /\ now' = now  BY Numbers DEF TypeOK, worldVars
<1>2. at[c].begun \in Nat /\ at[c].started \in Nat  BY LocalType DEF TypeOK
<1> QED  BY <1>1, <1>2 DEF Timely

\* What a call holds, it holds while the setting stays and what is dead stays dead.
LEMMA HandsLater ==
    ASSUME setting' = setting, dead \subseteq dead', spent \subseteq spent', NEW c, NEW p, NEW L
    PROVE  /\ Handed(c, p, L) => Handed(c, p, L)'
           /\ Shown(c, p, L) => Shown(c, p, L)'
<1>1. \A g : /\ Offered(c, L, g)' <=> Offered(c, L, g)
            /\ MayUse(c, L, g)' <=> MayUse(c, L, g)
  BY DEF Offered, MayUse, Mode
<1>2. Handed(c, p, L) => Handed(c, p, L)'  BY <1>1 DEF Handed
<1>3. Shown(c, p, L) => Shown(c, p, L)'  BY DEF Shown, Mode
<1> QED  BY <1>2, <1>3

LEMMA WalkAssembled ==
    ASSUME GateInv, NEW c \in Calls, WalkStep(c), CachesSound', Timely(c)',
           pc'[c] \in Verifying => Underway(c, at[c])',
           at'[c].valid => Vetted(at[c].chain, at[c].evidence.cred, at[c].started)'
    PROVE  GateInv'
<1>1. TypeOK /\ CallInv(c) /\ CallType /\ WorldType  BY DEF GateInv, TypeOK
<1>2. Later  BY <1>1, SameWorld DEF WalkStep, grantVars
<1>3. /\ at'[c].started = at[c].started /\ at'[c].path = at[c].path
      /\ at'[c].grants = at[c].grants /\ at'[c].grant = at[c].grant
      /\ at'[c].evidence = at[c].evidence /\ at'[c].proved = at[c].proved
      /\ at'[c].gone = at[c].gone
  BY SameFields DEF WalkStep
<1>4. now' = now /\ setting' = setting /\ dead' = dead /\ spent' = spent /\ out' = out
  BY DEF WalkStep, worldVars, grantVars
<1>5. pc[c] \in Verifying /\ pc'[c] \in Verifying \cup {"verdict"}  BY DEF WalkStep
<1>6. RanLeaf(c)' = RanLeaf(c)  BY <1>4 DEF RanLeaf
<1>7. Walked(c)'
  <2>1. at'[c].evidence \in Evidences  BY <1>1, <1>3, <1>5 DEF CallInv, Walked, Held
  <2>2. out[c].kind = "ran" => Vetted(out[c].chain, Last(out[c].chain), out[c].started)'
    <3> SUFFICES ASSUME out[c].kind = "ran"
                 PROVE  Vetted(out[c].chain, Last(out[c].chain), out[c].started)'
      OBVIOUS
    <3>1. PICK chain \in Seq(Creds) : chain = out[c].chain  BY <1>1, RanOutcome
    <3>2. PICK t \in Nat : t = out[c].started /\ t <= now
      BY <1>1, RanOutcome DEF CallInv, Timely
    <3>3. PICK x : x = Last(chain)  OBVIOUS
    <3>4. Vetted(chain, x, t)  BY <1>1, <3>1, <3>2, <3>3 DEF CallInv, Walked, Held
    <3>5. Vetted(chain, x, t)'  BY <1>1, <1>2, <3>2, <3>4, VettedLater
    <3> QED  BY <1>4, <3>1, <3>2, <3>3, <3>5
  <2>3. out[c].kind = "ran" => ScopeSatisfies(Request[c].scope, RanLeaf(c).authority)
    BY <1>1 DEF CallInv, Walked, Held
  <2> QED  BY <1>4, <1>5, <1>6, <2>1, <2>2, <2>3 DEF Walked, Held, Verifying, Walking
<1>8. Entrusted(c)'
  <2>2. Handed(c, pc[c], at[c])'
    <3>1. PICK L : L = at[c]  OBVIOUS
    <3>2. PICK M : M = at'[c]  OBVIOUS
    <3>3. PICK p : p = pc[c]  OBVIOUS
    <3>4. PICK q : q = pc'[c]  OBVIOUS
    <3>5. Handed(c, p, L)  BY <1>1, <3>1, <3>3 DEF CallInv, Entrusted
    <3>6. Handed(c, q, M)
      BY <1>3, <1>5, <3>1, <3>2, <3>3, <3>4, <3>5 DEF Handed, Offered, MayUse, Verifying, Walking
    <3>7. Handed(c, q, M)'  BY <1>4, <3>6, HandsLater
    <3> QED  BY <3>2, <3>4, <3>7
  <2>3. pc[c] # "done" /\ out[c].kind = "none"
    BY <1>1, <1>5 DEF CallInv, Entrusted, Verifying, Walking
  <2> QED  BY <1>4, <2>2, <2>3 DEF Entrusted
<1>9. Proven(c)'
  BY <1>1, <1>3, <1>4, <1>5, <1>6 DEF CallInv, Proven, Shown, Mode, Verifying, Walking
<1>10. Approved(c)'  BY <1>1, <1>4 DEF CallInv, Approved, Quorate, RiskOf
<1> QED
  BY <1>2, <1>3, <1>4, <1>7, <1>8, <1>9, <1>10, SameStore, Assembled DEF CallInv, GateInv, WalkStep

LEMMA SameChain ==
    ASSUME NEW L, NEW M, NEW N, NEW F, NEW G, Same(L, M, F), Same(M, N, G)
    PROVE  Same(L, N, F \cup G)
BY DEF Same

LEMMA SameMore ==
    ASSUME NEW L, NEW M, NEW F, NEW G, F \subseteq G, Same(L, M, F)
    PROVE  Same(L, M, G)
BY DEF Same

LEMMA AnsweredFields ==
    ASSUME CallType, NEW c \in Calls
    PROVE  /\ Answered(c) \in Locals /\ Same(at[c], Answered(c), {"sig", "stat", "begun"})
           /\ Answered(c).sig = "none" /\ Answered(c).stat = "none" /\ Answered(c).begun = 0
<1>1. at[c] \in Locals  BY LocalType
<1>2. "none" \in Replies /\ 0 \in Nat  BY DEF Replies
<1> QED  BY <1>1, <1>2 DEF Answered, Locals, Same, Fields

WithReplies(L, t, s, r) == [L EXCEPT !.begun = t, !.sig = s, !.stat = r]

LEMMA RepliesFields ==
    ASSUME NEW L \in Locals, NEW t \in Nat, NEW s \in Replies, NEW r \in Replies
    PROVE  /\ WithReplies(L, t, s, r) \in Locals
           /\ Same(L, WithReplies(L, t, s, r), {"sig", "stat", "begun"})
           /\ WithReplies(L, t, s, r).begun = t
           /\ WithReplies(L, t, s, r).sig = s /\ WithReplies(L, t, s, r).stat = r
BY DEF Locals, Same, Fields, WithReplies

LEMMA ChainFields ==
    ASSUME NEW L \in Locals, NEW chain \in Seq(Creds)
    PROVE  LET M == [L EXCEPT !.chain = chain, !.k = 1] IN
           M \in Locals /\ Same(L, M, {"chain", "k"}) /\ M.chain = chain /\ M.k = 1
BY DEF Locals, Same, Fields

LEMMA StepFields ==
    ASSUME NEW L \in Locals, NEW n \in Nat
    PROVE  LET M == [L EXCEPT !.k = n] IN M \in Locals /\ Same(L, M, {"k"}) /\ M.k = n
BY DEF Locals, Same, Fields

LEMMA ValidFields ==
    ASSUME NEW L \in Locals
    PROVE  LET M == [L EXCEPT !.valid = TRUE] IN
           M \in Locals /\ Same(L, M, {"valid"}) /\ M.valid = TRUE
BY DEF Locals, Same, Fields

LEMMA SigFields ==
    ASSUME NEW L \in Locals, NEW s \in Replies
    PROVE  LET M == [L EXCEPT !.sig = s] IN M \in Locals /\ Same(L, M, {"sig"}) /\ M.sig = s
BY DEF Locals, Same, Fields

LEMMA StatFields ==
    ASSUME NEW L \in Locals, NEW s \in Replies
    PROVE  LET M == [L EXCEPT !.stat = s] IN M \in Locals /\ Same(L, M, {"stat"}) /\ M.stat = s
BY DEF Locals, Same, Fields

\* What an unchanged world has established it still has.
LEMMA SameStood ==
    ASSUME UNCHANGED <<worldVars, setting>>, NEW chain, NEW x, NEW t
    PROVE  /\ SignedSince(x, t)' <=> SignedSince(x, t)
           /\ StatusStood(x, t)' <=> StatusStood(x, t)
           /\ GraphStood(x, t)' <=> GraphStood(x, t)
           /\ LeadsTo(chain, x)' <=> LeadsTo(chain, x)
           /\ \A j : Passed(chain, j, t)' <=> Passed(chain, j, t)
           /\ Vetted(chain, x, t)' <=> Vetted(chain, x, t)
<1>1. now' = now /\ revokedAt' = revokedAt /\ graphAt' = graphAt /\ rotatedAt' = rotatedAt
      /\ setting' = setting
  BY DEF worldVars
<1>2. \A y : /\ SignedSince(y, t)' <=> SignedSince(y, t)
             /\ StatusStood(y, t)' <=> StatusStood(y, t)
             /\ GraphStood(y, t)' <=> GraphStood(y, t)
  BY <1>1 DEF SignedSince, StatusStood, GraphStood, KeyStood
<1>3. \A j : Passed(chain, j, t)' <=> Passed(chain, j, t)
  <2> SUFFICES ASSUME NEW j PROVE Passed(chain, j, t)' <=> Passed(chain, j, t)  OBVIOUS
  <2>1. Linked(chain, j)' <=> Linked(chain, j)  BY <1>1 DEF Linked
  <2>2. AudienceOK(chain[j])' <=> AudienceOK(chain[j])  BY DEF AudienceOK
  <2> QED  BY <1>2, <2>1, <2>2 DEF Passed
<1>4. LeadsTo(chain, x)' <=> LeadsTo(chain, x)  BY DEF LeadsTo
<1>5. Vetted(chain, x, t)' <=> Vetted(chain, x, t)  BY <1>1, <1>2, <1>3, <1>4 DEF Vetted
<1> QED  BY <1>2, <1>3, <1>4, <1>5

\* The common start of every step of the walk.
LEMMA WalkStart ==
    ASSUME GateInv, NEW c \in Calls, pc[c] \in Verifying
    PROVE  /\ TypeOK /\ CallType /\ WorldType /\ CallInv(c) /\ Underway(c, at[c])
           /\ at[c].evidence \in Evidences /\ at[c].valid = FALSE /\ at[c].started <= now
           /\ at[c] \in Locals /\ at[c].started \in Nat /\ at[c].chain \in Seq(Creds)
           /\ at[c].begun <= now /\ at[c].begun \in Nat
<1>1. TypeOK /\ CallType /\ WorldType /\ CallInv(c)  BY DEF GateInv, TypeOK
<1>2. Underway(c, at[c]) /\ at[c].evidence \in Evidences  BY <1>1 DEF CallInv, Walked, Held
<1>3. at[c].valid \in BOOLEAN /\ ~at[c].valid  BY <1>1, <1>2, LocalType DEF Underway
<1> QED  BY <1>1, <1>2, <1>3, LocalType DEF CallInv, Timely

\* The walk goes to point p with locals M and leaves the world as it is.
WalksTo(c, p, M) ==
    /\ Goto(c, p, M) /\ UNCHANGED <<worldVars, grantVars, spent, out, setting>>

LEMMA WalkStepOf ==
    ASSUME CallType, NEW c \in Calls, pc[c] \in Verifying,
           NEW p \in Verifying \cup {"verdict"}, NEW M \in Locals,
           Same(at[c], M, WalkFields), WalksTo(c, p, M)
    PROVE  WalkStep(c) /\ pc'[c] = p /\ at'[c] = M
<1>1. p \in Points  BY DEF Points, Verifying, Walking
<1>2. out' = out /\ Goto(c, p, M)  BY DEF WalksTo
<1>3. Moves(c) /\ pc'[c] = p /\ at'[c] = M  BY <1>1, <1>2, MoveOf
<1> QED  BY <1>3 DEF WalkStep, WalksTo

LEMMA EnvelopeVerifiedKeeps ==
    ASSUME GateInv, NEW c \in Calls, EnvelopeVerified(c)
    PROVE  GateInv'
<1>1. pc[c] = "envelope" /\ pc[c] \in Verifying /\ at[c].sig # "pending"
  BY DEF EnvelopeVerified, Verifying
<1>2. /\ TypeOK /\ CallType /\ CallInv(c) /\ Underway(c, at[c]) /\ at[c].valid = FALSE
  BY <1>1, WalkStart
<1>3. PICK M \in Locals : /\ M = Answered(c) /\ Same(at[c], M, {"sig", "stat", "begun"})
                          /\ M.sig = "none" /\ M.stat = "none" /\ M.begun = 0
  BY <1>2, AnsweredFields
<1>4. PICK p \in {"resolve", "verdict"} :
         p = (IF at[c].sig = "good" THEN "resolve" ELSE "verdict")
  OBVIOUS
<1>5. WalksTo(c, p, M)  BY <1>3, <1>4 DEF EnvelopeVerified, WalksTo
<1>6. p \in Verifying \cup {"verdict"}  BY DEF Verifying
<1>7. Same(at[c], M, WalkFields)  BY <1>3, SameMore DEF WalkFields
<1>8. WalkStep(c) /\ pc'[c] = p /\ at'[c] = M  BY <1>1, <1>2, <1>5, <1>6, <1>7, WalkStepOf
<1>9. CachesSound'
  BY <1>2, SameCaches, SameWorld DEF EnvelopeVerified, grantVars
<1>10. M.valid = FALSE /\ M.started = at[c].started /\ M.evidence = at[c].evidence
  BY <1>2, <1>3 DEF Same, Fields
<1>11. Timely(c)'
  <2>1. ~Pending(c)'  BY <1>3, <1>8 DEF Pending
  <2> QED  BY <1>2, <1>3, <1>8, <1>10, <2>1, TimelyStep DEF CallInv, EnvelopeVerified
<1>12. ASSUME p = "resolve" PROVE Underway(c, at[c])'
  <2>1. PICK x : x = at[c].evidence.cred  OBVIOUS
  <2>2. PICK t : t = at[c].started  OBVIOUS
  <2>3. at[c].sig = "good"  BY <1>4, <1>12
  <2>4. SignedSince(x, t)  BY <1>1, <1>2, <2>1, <2>2, <2>3 DEF Underway
  <2>5. SignedSince(x, t)'  BY <2>4, SameStood DEF EnvelopeVerified
  <2>6. at'[c].evidence.cred = x /\ at'[c].started = t /\ ~at'[c].valid /\ pc'[c] = "resolve"
    BY <1>8, <1>10, <1>12, <2>1, <2>2
  <2> QED  BY <2>5, <2>6 DEF Underway, Walking
<1> QED
  BY <1>8, <1>9, <1>10, <1>11, <1>12, WalkAssembled DEF Verifying, Walking

\* A resolver's answer, completed with the presented credential, leads to it.
LEMMA ChainWithLeads ==
    ASSUME NEW answer \in Seq(Creds), NEW x \in Creds, Len(ChainWith(answer, x)) \in 1 .. MaxChain
    PROVE  ChainWith(answer, x) \in Seq(Creds) /\ LeadsTo(ChainWith(answer, x), x)
<1> DEFINE copies == {k \in DOMAIN answer : Cred[answer[k]].id = Cred[x].id}
<1>1. CASE copies = {}
  <2>1. ChainWith(answer, x) = Append(answer, x)  BY <1>1 DEF ChainWith
  <2> QED  BY <2>1 DEF LeadsTo
<1>2. CASE copies # {} /\ Min(copies) = Len(answer)
  <2>1. ChainWith(answer, x) = Append(Front(answer), x)  BY <1>2 DEF ChainWith
  <2>2. Len(answer) \in Nat /\ Len(answer) # 0  BY <1>2
  <2>3. Front(answer) \in Seq(Creds)  BY <2>2, SubSeqProperties DEF Front
  <2> QED  BY <2>1, <2>3 DEF LeadsTo
<1>3. CASE copies # {} /\ Min(copies) # Len(answer)
  <2>1. ChainWith(answer, x) = <<>>  BY <1>3 DEF ChainWith
  <2>2. MaxChain \in Nat  BY GateAssumption
  <2> QED  BY <2>1, <2>2
<1> QED  BY <1>1, <1>2, <1>3

LEMMA ResolveChainKeeps ==
    ASSUME GateInv, NEW c \in Calls, ResolveChain(c)
    PROVE  GateInv'
<1>1. pc[c] = "resolve" /\ pc[c] \in Verifying  BY DEF ResolveChain, Verifying
<1>2. /\ TypeOK /\ CallType /\ CallInv(c) /\ Underway(c, at[c]) /\ at[c].valid = FALSE
      /\ at[c] \in Locals /\ at[c].evidence \in Evidences
  BY <1>1, WalkStart
<1>3. PICK x \in Creds : x = at[c].evidence.cred  BY <1>2 DEF Evidences
<1>4. UNCHANGED <<worldVars, cacheVars, grantVars, spent, out, setting>>  BY DEF ResolveChain
<1>5. CachesSound'  BY <1>2, <1>4, SameCaches, SameWorld DEF grantVars
<1>6. PICK answer \in Seq(Creds) :
        \/ /\ Len(ChainWith(answer, x)) \in 1 .. MaxChain
           /\ Goto(c, "walk", [at[c] EXCEPT !.chain = ChainWith(answer, x), !.k = 1])
        \/ Goto(c, "verdict", at[c])
  <2>1. PICK answer \in IF Cred[x].parent = None THEN {<<>>}
                        ELSE IF Faulty("resolver") THEN Answers ELSE {HonestChain[x]} :
          \/ /\ Len(ChainWith(answer, x)) \in 1 .. MaxChain
             /\ Goto(c, "walk", [at[c] EXCEPT !.chain = ChainWith(answer, x), !.k = 1])
          \/ Goto(c, "verdict", at[c])
    BY <1>3 DEF ResolveChain
  <2>2. <<>> \in Seq(Creds)  OBVIOUS
  <2>3. answer \in Seq(Creds)  BY <2>1, <2>2, GateAssumption
  <2> QED  BY <2>1, <2>3
<1>7. CASE Goto(c, "verdict", at[c])
  <2>1. WalksTo(c, "verdict", at[c])  BY <1>4, <1>7 DEF WalksTo
  <2>2. Same(at[c], at[c], WalkFields)  BY DEF Same
  <2>3. WalkStep(c) /\ pc'[c] = "verdict" /\ at'[c] = at[c]
    BY <1>1, <1>2, <2>1, <2>2, WalkStepOf
  <2>4. Timely(c)'  BY <1>2, <1>4, <2>3, TimelyStep DEF Pending, CallInv
  <2> QED  BY <1>2, <1>5, <2>3, <2>4, WalkAssembled DEF Verifying, Walking
<1>8. CASE /\ Len(ChainWith(answer, x)) \in 1 .. MaxChain
           /\ Goto(c, "walk", [at[c] EXCEPT !.chain = ChainWith(answer, x), !.k = 1])
  <2>1. PICK chain \in Seq(Creds) : chain = ChainWith(answer, x) /\ LeadsTo(chain, x)
    BY <1>8, ChainWithLeads
  <2>2. PICK M \in Locals : /\ M = [at[c] EXCEPT !.chain = chain, !.k = 1]
                            /\ Same(at[c], M, {"chain", "k"}) /\ M.chain = chain /\ M.k = 1
    <3> DEFINE N == [at[c] EXCEPT !.chain = chain, !.k = 1]
    <3>1. at[c] \in Locals  BY <1>2
    <3>2. N \in Locals /\ Same(at[c], N, {"chain", "k"}) /\ N.chain = chain /\ N.k = 1
      BY <3>1, ChainFields
    <3> HIDE DEF N
    <3>3. N = [at[c] EXCEPT !.chain = chain, !.k = 1]  BY DEF N
    <3> QED  BY <3>2, <3>3
  <2>3. WalksTo(c, "walk", M)  BY <1>4, <1>8, <2>1, <2>2 DEF WalksTo
  <2>4. Same(at[c], M, WalkFields)  BY <2>2, SameMore DEF WalkFields
  <2>5. WalkStep(c) /\ pc'[c] = "walk" /\ at'[c] = M
    BY <1>1, <1>2, <2>3, <2>4, WalkStepOf DEF Verifying, Walking
  <2>6. /\ M.valid = FALSE /\ M.started = at[c].started /\ M.evidence = at[c].evidence
        /\ M.sig = at[c].sig /\ M.stat = at[c].stat /\ M.begun = at[c].begun
    BY <1>2, <2>2 DEF Same, Fields
  <2>7. Timely(c)'  BY <1>2, <1>4, <2>5, <2>6, TimelyStep DEF Pending, CallInv
  <2>8. Underway(c, at[c])'
    <3>1. PICK t : t = at[c].started  OBVIOUS
    <3>2. at[c].evidence.form = "jwt" => SignedSince(x, t)
      BY <1>1, <1>2, <1>3, <3>1 DEF Underway
    <3>3. at[c].evidence.form = "jwt" => SignedSince(x, t)'  BY <1>4, <3>2, SameStood
    <3>4. LeadsTo(chain, x)'  BY <1>4, <2>1, SameStood
    <3>5. /\ at'[c].evidence = at[c].evidence /\ at'[c].evidence.cred = x /\ at'[c].started = t
          /\ at'[c].chain = chain /\ at'[c].k = 1 /\ ~at'[c].valid /\ pc'[c] = "walk"
      BY <1>3, <2>2, <2>5, <2>6, <3>1
    <3>6. 1 \in 1 .. Len(chain)  BY <2>1 DEF LeadsTo
    <3> QED  BY <3>3, <3>4, <3>5, <3>6 DEF Underway, Walking
  <2> QED  BY <1>2, <1>5, <2>5, <2>6, <2>7, <2>8, WalkAssembled
<1> QED  BY <1>6, <1>7, <1>8

\* Reading a cache deletes, and never adds.
LEMMA CacheReadKeeps ==
    ASSUME NEW E, NEW cache \in Seq(E), NEW key
    PROVE  CacheRead(cache, key) \in Seq(E) /\ Range(CacheRead(cache, key)) \subseteq Range(cache)
<1>1. PICK kept : CacheRead(cache, key) = Filter(cache, kept)  BY DEF CacheRead
<1>2. PICK t \in Seq(E) : t = CacheRead(cache, key) /\ KeptFrom(t, cache, kept)
  BY <1>1, FilterKeeps
<1>3. Range(t) \subseteq Range(cache)  BY <1>2 DEF KeptFrom, Range
<1> QED  BY <1>2, <1>3

\* Setting an entry adds that one, unless its lifetime is nothing.
LEMMA CacheSetKeeps ==
    ASSUME NEW E, NEW cache \in Seq(E), NEW key, NEW value, NEW ttl \in Nat,
           [key |-> key, value |-> value, until |-> now + ttl] \in E
    PROVE  /\ CacheSet(cache, key, value, ttl) \in Seq(E)
           /\ \A e \in Range(CacheSet(cache, key, value, ttl)) :
                \/ e \in Range(cache)
                \/ ttl > 0 /\ e = [key |-> key, value |-> value, until |-> now + ttl]
<1> DEFINE others == Filter(cache, {e \in Range(cache) : e.key # key})
           n == Len(others)
           room == IF n < MaxEntries THEN others ELSE SubSeq(others, n - MaxEntries + 2, n)
           entry == [key |-> key, value |-> value, until |-> now + ttl]
<1>1. CASE ttl <= 0 \/ MaxEntries = 0
  <2>1. CacheSet(cache, key, value, ttl) = cache  BY <1>1 DEF CacheSet
  <2> QED  BY <2>1
<1>2. CASE ~(ttl <= 0 \/ MaxEntries = 0)
  <2>1. others \in Seq(E) /\ Range(others) \subseteq Range(cache)
    <3>1. PICK kept : kept = {e \in Range(cache) : e.key # key}  OBVIOUS
    <3>2. PICK t \in Seq(E) : t = others /\ KeptFrom(t, cache, kept)  BY <3>1, FilterKeeps
    <3> HIDE DEF others, n, room, entry
    <3>3. Range(t) \subseteq Range(cache)  BY <3>2 DEF KeptFrom, Range
    <3> QED  BY <3>2, <3>3
  <2>2. n \in Nat /\ MaxEntries \in Nat /\ MaxEntries >= 1  BY <1>2, <2>1, GateAssumption
  <2> HIDE DEF others
  <2>3. room \in Seq(E) /\ Range(room) \subseteq Range(others)
    <3>1. CASE n < MaxEntries  BY <2>1, <3>1
    <3>2. CASE ~(n < MaxEntries)
      <4>1. PICK m \in Int : m = n - MaxEntries + 2 /\ m >= 1  BY <2>2, <3>2
      <4>2. \A i \in m .. n : others[i] \in E  BY <2>1, <2>2, <4>1
      <4>3. /\ SubSeq(others, m, n) \in Seq(E)
            /\ Len(SubSeq(others, m, n)) = IF m <= n THEN n - m + 1 ELSE 0
            /\ \A i \in 1 .. n - m + 1 : SubSeq(others, m, n)[i] = others[m + i - 1]
        BY <2>2, <4>1, <4>2, SubSeqProperties
      <4>4. PICK s \in Seq(E) : s = SubSeq(others, m, n)  BY <4>3
      <4>5. DOMAIN s = 1 .. (IF m <= n THEN n - m + 1 ELSE 0)  BY <4>3, <4>4
      <4>6. DOMAIN others = 1 .. n  BY <2>1
      <4>7. \A i \in DOMAIN s : s[i] = others[m + i - 1] /\ m + i - 1 \in DOMAIN others
        BY <2>2, <4>1, <4>3, <4>4, <4>5, <4>6
      <4>8. room = s  BY <3>2, <4>1, <4>4
      <4>9. Range(s) \subseteq Range(others)  BY <4>7 DEF Range
      <4> QED  BY <4>8, <4>9
    <3> QED  BY <3>1, <3>2
  <2>4. CacheSet(cache, key, value, ttl) = Append(room, entry)
    BY <1>2 DEF CacheSet, others
  <2> HIDE DEF room, entry
  <2>5. entry \in E  BY DEF entry
  <2>6. Append(room, entry) \in Seq(E)  BY <2>3, <2>5
  <2>7. \A i \in DOMAIN Append(room, entry) :
          \/ Append(room, entry)[i] = entry
          \/ i \in DOMAIN room /\ Append(room, entry)[i] = room[i]
    BY <2>3, <2>5
  <2>8. \A e \in Range(Append(room, entry)) : e = entry \/ e \in Range(room)
    BY <2>7 DEF Range
  <2> QED  BY <1>2, <2>1, <2>3, <2>4, <2>6, <2>8 DEF entry
<1> QED  BY <1>1, <1>2

\* A signature answered from the cache is as good as its slack says.
LEMMA SignatureHit ==
    ASSUME WorldType, CachesSound, NEW x \in Creds, NEW kind, NEW t \in Nat, t <= now,
           CacheHits(sigCache, <<kind, x>>) # {}
    PROVE  SignedSince(x, t)
<1>1. PICK e \in Range(sigCache) : e.key = <<kind, x>> /\ now <= e.until  BY DEF CacheHits
<1>2. SigEntryOK(e) /\ e.key[2] = x  BY <1>1 DEF CachesSound
<1>3. e \in SigEntries  BY <1>1 DEF CachesSound, Range
<1>4. e.until \in Nat  BY <1>3 DEF SigEntries
<1>5. /\ rotatedAt[Cred[x].signer] \in Nat /\ now \in Nat /\ setting.sigTtl \in Nat /\ Latency \in Nat
  BY Numbers
<1>6. Slack(setting.sigTtl) = setting.sigTtl + Latency  BY <1>2, <1>5 DEF SigEntryOK, Slack
<1> QED  BY <1>1, <1>2, <1>4, <1>5, <1>6 DEF SigEntryOK, SignedSince, KeyStood

\* So is a status answered from the cache, when it says that the bit was not set.
LEMMA StatusHit ==
    ASSUME WorldType, CachesSound, NEW x \in Creds, NEW t \in Nat, t <= now,
           CacheHits(statusCache, x) # {}, ~\E e \in CacheHits(statusCache, x) : e.value
    PROVE  StatusStood(x, t)
<1>1. PICK e \in Range(statusCache) : e.key = x /\ now <= e.until /\ ~e.value  BY DEF CacheHits
<1>2. StatusEntryOK(e)  BY <1>1 DEF CachesSound
<1>3. e \in StatusEntries  BY <1>1 DEF CachesSound, Range
<1>4. e.until \in Nat  BY <1>3 DEF StatusEntries
<1>5. /\ revokedAt[x] \in Nat /\ now \in Nat /\ setting.statusTtl \in Nat /\ Latency \in Nat
  BY Numbers
<1>6. Slack(setting.statusTtl) = setting.statusTtl + Latency
  BY <1>2, <1>5 DEF StatusEntryOK, Slack
<1> QED  BY <1>1, <1>2, <1>4, <1>5, <1>6 DEF StatusEntryOK, StatusStood

LEMMA BeginVerifyKeeps ==
    ASSUME GateInv, NEW c \in Calls, BeginVerify(c)
    PROVE  GateInv'
<1>1. pc[c] = "walk" /\ pc[c] \in Verifying  BY DEF BeginVerify, Verifying, Walking
<1>2. /\ TypeOK /\ CallType /\ WorldType /\ CallInv(c) /\ Underway(c, at[c])
      /\ at[c].valid = FALSE /\ at[c] \in Locals /\ at[c].evidence \in Evidences
      /\ at[c].started \in Nat /\ at[c].started <= now
  BY <1>1, WalkStart
<1>3. UNCHANGED <<worldVars, grantVars, spent, out, setting>>  BY DEF BeginVerify
<1>4. PICK chain \in Seq(Creds) : chain = at[c].chain  BY <1>2, LocalType
<1>5. PICK k \in 1 .. Len(chain) : k = at[c].k  BY <1>1, <1>2, <1>4 DEF Underway, Walking
<1>6. PICK x \in Creds : x = chain[k]  BY <1>4, <1>5
<1>7. PICK t \in Nat : t = at[c].started /\ t <= now  BY <1>2
<1>8. PICK leaf \in Creds : leaf = at[c].evidence.cred  BY <1>2 DEF Evidences
<1>9. LeadsTo(chain, leaf) /\ \A j \in 1 .. k - 1 : Passed(chain, j, t)
  BY <1>1, <1>2, <1>4, <1>5, <1>7, <1>8 DEF Underway, Walking
<1>10. at[c].evidence.form = "jwt" => SignedSince(leaf, t)
  BY <1>1, <1>2, <1>7, <1>8 DEF Underway
<1>11. CASE Goto(c, "verdict", at[c]) /\ UNCHANGED cacheVars
  <2>1. WalksTo(c, "verdict", at[c])  BY <1>3, <1>11 DEF WalksTo
  <2>2. Same(at[c], at[c], WalkFields)  BY DEF Same
  <2>3. WalkStep(c) /\ pc'[c] = "verdict" /\ at'[c] = at[c]
    BY <1>1, <1>2, <2>1, <2>2, WalkStepOf
  <2>4. Timely(c)'  BY <1>2, <1>3, <2>3, TimelyStep DEF Pending, CallInv
  <2>5. CachesSound'  BY <1>2, <1>3, <1>11, SameCaches, SameWorld DEF grantVars
  <2> QED  BY <1>2, <2>3, <2>4, <2>5, WalkAssembled DEF Verifying, Walking
<1>12. CASE
    /\ Basic(x)
    /\ Goto(c, "verify",
            [at[c] EXCEPT
               !.begun = now,
               !.sig = IF Envelope(c) \/ CacheHits(sigCache, <<"di", x>>) # {} THEN "good"
                       ELSE "pending",
               !.stat = CASE ~Cred[x].listed -> "good"
                          [] Cred[x].listed /\ CacheHits(statusCache, x) = {} -> "pending"
                          [] OTHER -> StatusResult(\E e \in CacheHits(statusCache, x) : e.value)])
    /\ sigCache' = IF Envelope(c) THEN sigCache ELSE CacheRead(sigCache, <<"di", x>>)
    /\ statusCache' = IF Cred[x].listed THEN CacheRead(statusCache, x) ELSE statusCache
  <2>1. PICK s \in Replies :
           s = IF Envelope(c) \/ CacheHits(sigCache, <<"di", x>>) # {} THEN "good" ELSE "pending"
    BY DEF Replies
  <2>2. PICK r \in Replies :
           r = CASE ~Cred[x].listed -> "good"
                 [] Cred[x].listed /\ CacheHits(statusCache, x) = {} -> "pending"
                 [] OTHER -> StatusResult(\E e \in CacheHits(statusCache, x) : e.value)
    BY DEF Replies, StatusResult
  <2>3. PICK b \in Nat : b = now  BY <1>2, Numbers
  <2>4. PICK M \in Locals : /\ M = WithReplies(at[c], b, s, r)
                            /\ Same(at[c], M, {"sig", "stat", "begun"})
                            /\ M.begun = b /\ M.sig = s /\ M.stat = r
    <3> DEFINE W == WithReplies(at[c], b, s, r)
    <3>1. at[c] \in Locals  BY <1>2
    <3>2. /\ W \in Locals /\ Same(at[c], W, {"sig", "stat", "begun"})
          /\ W.begun = b /\ W.sig = s /\ W.stat = r
      <4>1. \E L \in Locals : L = at[c]  BY <3>1
      <4>2. PICK L \in Locals : L = at[c]  BY <4>1
      <4>3. /\ WithReplies(L, b, s, r) \in Locals
            /\ Same(L, WithReplies(L, b, s, r), {"sig", "stat", "begun"})
            /\ WithReplies(L, b, s, r).begun = b
            /\ WithReplies(L, b, s, r).sig = s /\ WithReplies(L, b, s, r).stat = r
        BY RepliesFields
      <4> QED  BY <4>2, <4>3
    <3> HIDE DEF W
    <3>3. \E M \in Locals : M = W /\ Same(at[c], M, {"sig", "stat", "begun"})
                            /\ M.begun = b /\ M.sig = s /\ M.stat = r
      BY <3>2
    <3> QED  BY <3>3 DEF W
  <2>5. Goto(c, "verify", M)  BY <1>12, <2>1, <2>2, <2>3, <2>4 DEF WithReplies
  <2>6. WalksTo(c, "verify", M)  BY <1>3, <2>5 DEF WalksTo
  <2>7. Same(at[c], M, WalkFields)  BY <2>4, SameMore DEF WalkFields
  <2>8. WalkStep(c) /\ pc'[c] = "verify" /\ at'[c] = M
    BY <1>1, <1>2, <2>6, <2>7, WalkStepOf DEF Verifying, Walking
  <2>9. /\ M.valid = FALSE /\ M.started = t /\ M.evidence = at[c].evidence
        /\ M.chain = chain /\ M.k = k
    BY <1>2, <1>4, <1>5, <1>7, <2>4 DEF Same, Fields
  <2>10. Timely(c)'  BY <1>2, <1>3, <1>7, <2>3, <2>4, <2>8, <2>9, TimelyStep DEF CallInv
  <2>11. CachesSound'
    <3>1. sigCache' \in Seq(SigEntries) /\ Range(sigCache') \subseteq Range(sigCache)
      BY <1>12, CacheReadKeeps DEF GateInv, CachesSound
    <3>2. statusCache' \in Seq(StatusEntries) /\ Range(statusCache') \subseteq Range(statusCache)
      BY <1>12, CacheReadKeeps DEF GateInv, CachesSound
    <3>3. Later  BY <1>2, <1>3, SameWorld DEF grantVars
    <3> QED  BY <1>2, <3>1, <3>2, <3>3, CachesLater DEF GateInv
  <2>12. t <= Cred[x].expires
    <3>1. now <= Cred[x].expires  BY <1>12 DEF Basic, InWindow
    <3>2. now \in Nat /\ Cred[x].expires \in Int  BY <1>2, Numbers
    <3> QED  BY <1>7, <3>1, <3>2
  <2>13. s = "good" => SignedSince(x, t)
    <3>1. CASE Envelope(c)
      <4>1. at[c].evidence.form = "jwt" /\ k = Len(chain)  BY <1>4, <1>5, <3>1 DEF Envelope
      <4>2. x = leaf  BY <1>6, <1>9, <4>1 DEF LeadsTo
      <4> QED  BY <1>10, <4>1, <4>2
    <3>2. CASE CacheHits(sigCache, <<"di", x>>) # {}
      BY <1>2, <1>7, <3>2, SignatureHit DEF GateInv
    <3> QED  BY <2>1, <3>1, <3>2
  <2>14. r = "good" => StatusStood(x, t)
    <3>1. CASE ~Cred[x].listed  BY <3>1 DEF StatusStood
    <3>2. CASE Cred[x].listed /\ CacheHits(statusCache, x) # {} /\ r = "good"
      <4>1. ~\E e \in CacheHits(statusCache, x) : e.value  BY <2>2, <3>2 DEF StatusResult
      <4> QED  BY <1>2, <1>7, <3>2, <4>1, StatusHit DEF GateInv
    <3> QED  BY <2>2, <3>1, <3>2
  <2>15. Underway(c, at[c])'
    <3>1. UNCHANGED <<worldVars, setting>>  BY <1>3
    <3>2. LeadsTo(chain, leaf)' /\ \A j \in 1 .. k - 1 : Passed(chain, j, t)'
      BY <1>9, <3>1, SameStood
    <3>3. at[c].evidence.form = "jwt" => SignedSince(leaf, t)'  BY <1>10, <3>1, SameStood
    <3>4. s = "good" => SignedSince(x, t)'  BY <2>13, <3>1, SameStood
    <3>5. r = "good" => StatusStood(x, t)'  BY <2>14, <3>1, SameStood
    <3>6. /\ at'[c].evidence = at[c].evidence /\ at'[c].evidence.cred = leaf
          /\ at'[c].started = t /\ at'[c].chain = chain /\ at'[c].k = k /\ ~at'[c].valid
          /\ at'[c].sig = s /\ at'[c].stat = r /\ pc'[c] = "verify"
          /\ at'[c].chain[at'[c].k] = x
      BY <1>6, <1>8, <2>4, <2>8, <2>9
    <3> QED  BY <2>12, <3>2, <3>3, <3>4, <3>5, <3>6 DEF Underway, Walking
  <2> QED  BY <1>2, <2>8, <2>9, <2>10, <2>11, <2>15, WalkAssembled
<1> QED  BY <1>4, <1>5, <1>6, <1>11, <1>12 DEF BeginVerify

\* A reply changes the locals and nothing else.
LEMMA ReplyInPlace ==
    ASSUME CallType, NEW c \in Calls, pc[c] \in Verifying, NEW M \in Locals,
           at' = [at EXCEPT ![c] = M], Same(at[c], M, WalkFields),
           UNCHANGED <<worldVars, grantVars, spent, pc, out, setting>>
    PROVE  WalkStep(c) /\ pc'[c] = pc[c] /\ at'[c] = M
<1>1. pc' = [pc EXCEPT ![c] = pc[c]]  BY DEF CallType
<1>2. WalksTo(c, pc[c], M)  BY <1>1 DEF WalksTo, Goto
<1> QED  BY <1>2, WalkStepOf

\* A valid signature is kept with a key that was published when it was asked for.
LEMMA SigCacheGrows ==
    ASSUME TypeOK, Later, now' = now, CachesSound, NEW x \in Creds, NEW kind \in {"jwt", "di"},
           Cred[x].authentic, rotatedAt[Cred[x].signer] + Latency >= now,
           rotatedAt' = rotatedAt,
           sigCache' = CacheSet(sigCache, <<kind, x>>, TRUE, setting.sigTtl),
           statusCache' = statusCache
    PROVE  CachesSound'
<1>1. WorldType  BY DEF TypeOK
<1>2. PICK ttl \in Nat : ttl = setting.sigTtl  BY <1>1, Numbers
<1>3. PICK e \in SigEntries : e = [key |-> <<kind, x>>, value |-> TRUE, until |-> now + ttl]
  <2>1. now + ttl \in Nat  BY <1>1, <1>2, Numbers
  <2> QED  BY <2>1 DEF SigEntries
<1>4. sigCache \in Seq(SigEntries)  BY DEF CachesSound
<1>5. /\ sigCache' \in Seq(SigEntries)
      /\ \A f \in Range(sigCache') : f \in Range(sigCache) \/ (ttl > 0 /\ f = e)
  <2>1. PICK key : key = <<kind, x>>  OBVIOUS
  <2>2. PICK value : value = TRUE  OBVIOUS
  <2>3. [key |-> key, value |-> value, until |-> now + ttl] = e  BY <1>3, <2>1, <2>2
  <2>4. /\ CacheSet(sigCache, key, value, ttl) \in Seq(SigEntries)
        /\ \A f \in Range(CacheSet(sigCache, key, value, ttl)) :
             \/ f \in Range(sigCache)
             \/ ttl > 0 /\ f = [key |-> key, value |-> value, until |-> now + ttl]
    BY <1>4, <2>3, CacheSetKeeps
  <2>5. PICK s \in Seq(SigEntries) :
          /\ s = CacheSet(sigCache, key, value, ttl)
          /\ \A f \in Range(s) : f \in Range(sigCache) \/ (ttl > 0 /\ f = e)
    BY ONLY <2>3, <2>4
  <2>6. sigCache' = s  BY <1>2, <2>1, <2>2, <2>5
  <2> QED  BY ONLY <2>5, <2>6
<1>6. \A f \in Range(sigCache) : SigEntryOK(f)'
  <2>1. Range(sigCache) \subseteq SigEntries  BY <1>4 DEF Range
  <2> QED  BY <1>1, <2>1, EntriesLater DEF CachesSound
<1>7. ttl > 0 => SigEntryOK(e)'
  <2>1. e.key[2] = x /\ e.until = now + ttl  BY <1>3
  <2>2. setting'.sigTtl = ttl  BY <1>2 DEF Later
  <2>3. rotatedAt[Cred[x].signer] \in Nat /\ now \in Nat /\ Latency \in Nat  BY <1>1, Numbers
  <2> QED  BY <1>2, <2>1, <2>2, <2>3 DEF SigEntryOK
<1>8. \A f \in Range(sigCache') : SigEntryOK(f)'  BY <1>5, <1>6, <1>7
<1>9. statusCache' \in Seq(StatusEntries) /\ \A f \in Range(statusCache') : StatusEntryOK(f)'
  <2>1. Range(statusCache) \subseteq StatusEntries  BY DEF CachesSound, Range
  <2> QED  BY <1>1, <2>1, EntriesLater DEF CachesSound
<1> QED  BY <1>5, <1>8, <1>9 DEF CachesSound

\* So is the answer of a status list, with a bit that was read since it was asked for.
LEMMA StatusCacheGrows ==
    ASSUME TypeOK, Later, now' = now, CachesSound, NEW x \in Creds, NEW revoked \in BOOLEAN,
           ~revoked => revokedAt[x] + Latency >= now,
           revokedAt' = revokedAt,
           statusCache' = CacheSet(statusCache, x, revoked, setting.statusTtl),
           sigCache' = sigCache
    PROVE  CachesSound'
<1>1. WorldType  BY DEF TypeOK
<1>2. PICK ttl \in Nat : ttl = setting.statusTtl  BY <1>1, Numbers
<1>3. PICK e \in StatusEntries : e = [key |-> x, value |-> revoked, until |-> now + ttl]
  <2>1. now + ttl \in Nat  BY <1>1, <1>2, Numbers
  <2> QED  BY <2>1 DEF StatusEntries
<1>4. statusCache \in Seq(StatusEntries)  BY DEF CachesSound
<1>5. /\ statusCache' \in Seq(StatusEntries)
      /\ \A f \in Range(statusCache') : f \in Range(statusCache) \/ (ttl > 0 /\ f = e)
  <2>1. [key |-> x, value |-> revoked, until |-> now + ttl] \in StatusEntries  BY <1>3
  <2>2. /\ CacheSet(statusCache, x, revoked, ttl) \in Seq(StatusEntries)
        /\ \A f \in Range(CacheSet(statusCache, x, revoked, ttl)) :
             \/ f \in Range(statusCache)
             \/ ttl > 0 /\ f = [key |-> x, value |-> revoked, until |-> now + ttl]
    BY <1>4, <2>1, CacheSetKeeps
  <2>3. PICK s \in Seq(StatusEntries) :
          /\ s = CacheSet(statusCache, x, revoked, ttl)
          /\ \A f \in Range(s) : f \in Range(statusCache) \/ (ttl > 0 /\ f = e)
    BY ONLY <1>3, <2>2
  <2>4. statusCache' = s  BY <1>2, <2>3
  <2> QED  BY ONLY <2>3, <2>4
<1>6. \A f \in Range(statusCache) : StatusEntryOK(f)'
  <2>1. Range(statusCache) \subseteq StatusEntries  BY <1>4 DEF Range
  <2> QED  BY <1>1, <2>1, EntriesLater DEF CachesSound
<1>7. ttl > 0 => StatusEntryOK(e)'
  <2>1. e.key = x /\ e.until = now + ttl /\ e.value = revoked  BY <1>3
  <2>2. setting'.statusTtl = ttl  BY <1>2 DEF Later
  <2>3. revokedAt[x] \in Nat /\ now \in Nat /\ Latency \in Nat  BY <1>1, Numbers
  <2> QED  BY <1>2, <2>1, <2>2, <2>3 DEF StatusEntryOK
<1>8. \A f \in Range(statusCache') : StatusEntryOK(f)'  BY <1>5, <1>6, <1>7
<1>9. sigCache' \in Seq(SigEntries) /\ \A f \in Range(sigCache') : SigEntryOK(f)'
  <2>1. Range(sigCache) \subseteq SigEntries  BY DEF CachesSound, Range
  <2> QED  BY <1>1, <2>1, EntriesLater DEF CachesSound
<1> QED  BY <1>5, <1>8, <1>9 DEF CachesSound

LEMMA SignatureArrivesKeeps ==
    ASSUME GateInv, NEW c \in Calls, SignatureArrives(c)
    PROVE  GateInv'
<1>1. /\ pc[c] \in {"envelope", "verify"} /\ pc[c] \in Verifying /\ at[c].sig = "pending"
  BY DEF SignatureArrives, Verifying, Walking
<1>2. /\ TypeOK /\ CallType /\ WorldType /\ CallInv(c) /\ Underway(c, at[c])
      /\ at[c].valid = FALSE /\ at[c] \in Locals /\ at[c].evidence \in Evidences
  BY <1>1, WalkStart
<1>3. UNCHANGED <<worldVars, statusCache, grantVars, spent, pc, out, setting>>
  BY DEF SignatureArrives
<1>4. PICK t \in Nat : t = at[c].started /\ t <= now  BY <1>1, WalkStart
<1>5. PICK b \in Nat : b = at[c].begun /\ t <= b /\ now <= b + Latency
  BY <1>1, <1>2, <1>4, LocalType DEF CallInv, Timely, Pending
<1>6. PICK leaf \in Creds : leaf = at[c].evidence.cred  BY <1>2 DEF Evidences
<1>7. PICK chain \in Seq(Creds) : chain = at[c].chain  BY <1>2, LocalType
<1>8. PICK k \in Nat : k = at[c].k  BY <1>2, LocalType
<1>9. pc[c] = "verify" =>
         /\ LeadsTo(chain, leaf) /\ k \in 1 .. Len(chain)
         /\ \A j \in 1 .. k - 1 : Passed(chain, j, t)
         /\ t <= Cred[chain[k]].expires
         /\ at[c].stat = "good" => StatusStood(chain[k], t)
         /\ at[c].evidence.form = "jwt" => SignedSince(leaf, t)
  BY <1>2, <1>4, <1>6, <1>7, <1>8 DEF Underway, Walking
<1>10. pc[c] = "envelope" => at[c].evidence.form = "jwt" /\ at[c].stat = "good"
  BY <1>2 DEF Underway
<1>11. PICK x \in Creds :
          x = IF pc[c] = "envelope" THEN at[c].evidence.cred ELSE at[c].chain[at[c].k]
  BY <1>1, <1>6, <1>7, <1>8, <1>9
<1>12. PICK kind \in {"jwt", "di"} : kind = IF pc[c] = "envelope" THEN "jwt" ELSE "di"
  OBVIOUS
<1>13. PICK result \in SignatureResults(x, b) :
          /\ at' = [at EXCEPT ![c].sig = result]
          /\ sigCache' = IF result = "bad" THEN sigCache
                         ELSE CacheSet(sigCache, <<kind, x>>, TRUE, setting.sigTtl)
  BY <1>5, <1>11, <1>12 DEF SignatureArrives
<1>14. result \in {"good", "bad"} /\ result \in Replies
  BY DEF SignatureResults, Replies
<1>15. result = "good" => Cred[x].authentic /\ rotatedAt[Cred[x].signer] >= b
  BY DEF SignatureResults
<1>16. /\ rotatedAt[Cred[x].signer] \in Nat /\ now \in Nat /\ Latency \in Nat
       /\ Slack(setting.sigTtl) \in Nat
  BY <1>2, Numbers
<1>17. result = "good" => SignedSince(x, t) /\ rotatedAt[Cred[x].signer] + Latency >= now
  BY <1>5, <1>15, <1>16 DEF SignedSince, KeyStood
<1>18. PICK M \in Locals : /\ M = [at[c] EXCEPT !.sig = result]
                           /\ Same(at[c], M, {"sig"}) /\ M.sig = result
  <2> DEFINE N == [at[c] EXCEPT !.sig = result]
  <2>1. N \in Locals /\ Same(at[c], N, {"sig"}) /\ N.sig = result
    BY <1>2, <1>14, SigFields
  <2> HIDE DEF N
  <2>2. N = [at[c] EXCEPT !.sig = result]  BY DEF N
  <2> QED  BY <2>1, <2>2
<1>19. at' = [at EXCEPT ![c] = M]  BY <1>13, <1>18 DEF CallType
<1>20. Same(at[c], M, WalkFields)  BY <1>18, SameMore DEF WalkFields
<1>21. WalkStep(c) /\ pc'[c] = pc[c] /\ at'[c] = M
  BY <1>1, <1>2, <1>3, <1>19, <1>20, ReplyInPlace
<1>22. /\ M.valid = FALSE /\ M.started = t /\ M.evidence = at[c].evidence
       /\ M.chain = chain /\ M.k = k /\ M.stat = at[c].stat /\ M.begun = at[c].begun
  BY <1>2, <1>4, <1>7, <1>8, <1>18 DEF Same, Fields
<1>23. Timely(c)'
  <2>1. Pending(c)  BY <1>1 DEF Pending
  <2> QED  BY <1>2, <1>3, <1>4, <1>21, <1>22, <2>1, TimelyStep DEF CallInv
<1>24. CachesSound'
  <2>1. Later /\ now' = now /\ rotatedAt' = rotatedAt
    BY <1>2, <1>3, SameWorld DEF grantVars, worldVars
  <2>2. CASE result = "bad"
    <3>1. UNCHANGED cacheVars  BY <1>3, <1>13, <2>2 DEF cacheVars
    <3> QED  BY <2>1, <3>1, SameCaches
  <2>3. CASE result = "good"
    <3>1. sigCache' = CacheSet(sigCache, <<kind, x>>, TRUE, setting.sigTtl)
      BY <1>13, <2>3
    <3>2. Cred[x].authentic /\ rotatedAt[Cred[x].signer] + Latency >= now
      BY <1>15, <1>17, <2>3
    <3> QED  BY <1>2, <1>3, <2>1, <3>1, <3>2, SigCacheGrows DEF GateInv
  <2> QED  BY <1>14, <2>2, <2>3
<1>25. Underway(c, at[c])'
  <2>1. UNCHANGED <<worldVars, setting>>  BY <1>3
  <2>2. result = "good" => SignedSince(x, t)'  BY <1>17, <2>1, SameStood
  <2>3. CASE pc[c] = "envelope"
    <3>1. x = leaf  BY <1>6, <1>11, <2>3
    <3>2. /\ at'[c].evidence.form = "jwt" /\ at'[c].evidence.cred = leaf /\ at'[c].started = t
          /\ at'[c].stat = "good" /\ at'[c].sig = result /\ ~at'[c].valid /\ pc'[c] = "envelope"
      BY <1>6, <1>10, <1>18, <1>21, <1>22, <2>3
    <3> QED  BY <2>2, <3>1, <3>2 DEF Underway, Walking
  <2>4. CASE pc[c] = "verify"
    <3>1. x = chain[k]  BY <1>7, <1>8, <1>11, <2>4
    <3>2. LeadsTo(chain, leaf)' /\ \A j \in 1 .. k - 1 : Passed(chain, j, t)'
      BY <1>9, <2>1, <2>4, SameStood
    <3>3. at[c].evidence.form = "jwt" => SignedSince(leaf, t)'  BY <1>9, <2>1, <2>4, SameStood
    <3>4. at[c].stat = "good" => StatusStood(x, t)'  BY <1>9, <2>1, <2>4, <3>1, SameStood
    <3>5. /\ at'[c].evidence = at[c].evidence /\ at'[c].evidence.cred = leaf
          /\ at'[c].started = t /\ at'[c].chain = chain /\ at'[c].k = k /\ ~at'[c].valid
          /\ at'[c].sig = result /\ at'[c].stat = at[c].stat /\ pc'[c] = "verify"
          /\ at'[c].chain[at'[c].k] = x
      BY <1>6, <1>18, <1>21, <1>22, <2>4, <3>1
    <3>6. k \in 1 .. Len(chain) /\ t <= Cred[x].expires  BY <1>9, <2>4, <3>1
    <3> QED  BY <2>2, <3>2, <3>3, <3>4, <3>5, <3>6 DEF Underway, Walking
  <2> QED  BY <1>1, <2>3, <2>4
<1>26. ~at'[c].valid  BY <1>21, <1>22
<1> QED  BY <1>2, <1>21, <1>23, <1>24, <1>25, <1>26, WalkAssembled

LEMMA StatusArrivesKeeps ==
    ASSUME GateInv, NEW c \in Calls, StatusArrives(c)
    PROVE  GateInv'
<1>1. pc[c] = "verify" /\ pc[c] \in Verifying /\ at[c].stat = "pending"
  BY DEF StatusArrives, Verifying, Walking
<1>2. /\ TypeOK /\ CallType /\ WorldType /\ CallInv(c) /\ Underway(c, at[c])
      /\ at[c].valid = FALSE /\ at[c] \in Locals /\ at[c].evidence \in Evidences
  BY <1>1, WalkStart
<1>3. UNCHANGED <<worldVars, sigCache, grantVars, spent, pc, out, setting>>
  BY DEF StatusArrives
<1>4. PICK t \in Nat : t = at[c].started /\ t <= now  BY <1>1, WalkStart
<1>5. PICK b \in Nat : b = at[c].begun /\ t <= b /\ now <= b + Latency
  BY <1>1, <1>2, <1>4, LocalType DEF CallInv, Timely, Pending
<1>6. PICK leaf \in Creds : leaf = at[c].evidence.cred  BY <1>2 DEF Evidences
<1>7. PICK chain \in Seq(Creds) : chain = at[c].chain  BY <1>2, LocalType
<1>8. PICK k \in Nat : k = at[c].k  BY <1>2, LocalType
<1>9. /\ LeadsTo(chain, leaf) /\ k \in 1 .. Len(chain)
      /\ \A j \in 1 .. k - 1 : Passed(chain, j, t)
      /\ t <= Cred[chain[k]].expires
      /\ at[c].sig = "good" => SignedSince(chain[k], t)
      /\ at[c].evidence.form = "jwt" => SignedSince(leaf, t)
  BY <1>1, <1>2, <1>4, <1>6, <1>7, <1>8 DEF Underway, Walking
<1>10. PICK x \in Creds : x = chain[k] /\ x = at[c].chain[at[c].k]  BY <1>7, <1>8, <1>9
<1>11. PICK result \in {"good", "bad"} :
          /\ at' = [at EXCEPT ![c].stat = result]
          /\ \/ \E revoked \in BitReads(x, b) :
                  /\ result = StatusResult(revoked)
                  /\ statusCache' = CacheSet(statusCache, x, revoked, setting.statusTtl)
             \/ result = "bad" /\ UNCHANGED statusCache
  <2>1. \/ \E revoked \in BitReads(x, b) :
             /\ at' = [at EXCEPT ![c].stat = StatusResult(revoked)]
             /\ statusCache' = CacheSet(statusCache, x, revoked, setting.statusTtl)
        \/ at' = [at EXCEPT ![c].stat = "bad"] /\ UNCHANGED statusCache
    BY <1>5, <1>10 DEF StatusArrives
  <2>2. \A revoked : StatusResult(revoked) \in {"good", "bad"}  BY DEF StatusResult
  <2> QED  BY <2>1, <2>2
<1>12. result \in Replies  BY DEF Replies
<1>13. /\ revokedAt[x] \in Nat /\ now \in Nat /\ Latency \in Nat
       /\ Slack(setting.statusTtl) \in Nat
  BY <1>2, Numbers
<1>14. \A revoked \in BitReads(x, b) : revoked \in BOOLEAN /\ (~revoked => revokedAt[x] >= b)
  BY DEF BitReads
<1>15. result = "good" => StatusStood(x, t)
  <2> SUFFICES ASSUME result = "good" PROVE StatusStood(x, t)  OBVIOUS
  <2>1. PICK revoked \in BitReads(x, b) : result = StatusResult(revoked)  BY <1>11
  <2>2. ~revoked  BY <2>1 DEF StatusResult
  <2>3. PICK r \in Nat : r = revokedAt[x] /\ r >= b  BY <1>13, <1>14, <2>1, <2>2
  <2>4. PICK s \in Nat : s = Slack(setting.statusTtl)  BY <1>13
  <2>5. r + s >= t  BY <1>5, <2>3
  <2> QED  BY <2>3, <2>4, <2>5 DEF StatusStood
<1>16. PICK M \in Locals : /\ M = [at[c] EXCEPT !.stat = result]
                           /\ Same(at[c], M, {"stat"}) /\ M.stat = result
  <2> DEFINE N == [at[c] EXCEPT !.stat = result]
  <2>1. N \in Locals /\ Same(at[c], N, {"stat"}) /\ N.stat = result
    BY <1>2, <1>12, StatFields
  <2> HIDE DEF N
  <2>2. N = [at[c] EXCEPT !.stat = result]  BY DEF N
  <2> QED  BY <2>1, <2>2
<1>17. at' = [at EXCEPT ![c] = M]  BY <1>11, <1>16 DEF CallType
<1>18. Same(at[c], M, WalkFields)  BY <1>16, SameMore DEF WalkFields
<1>19. WalkStep(c) /\ pc'[c] = pc[c] /\ at'[c] = M
  BY <1>1, <1>2, <1>3, <1>17, <1>18, ReplyInPlace
<1>20. /\ M.valid = FALSE /\ M.started = t /\ M.evidence = at[c].evidence
       /\ M.chain = chain /\ M.k = k /\ M.sig = at[c].sig /\ M.begun = at[c].begun
  BY <1>2, <1>4, <1>7, <1>8, <1>16 DEF Same, Fields
<1>21. Timely(c)'
  <2>1. Pending(c)  BY <1>1 DEF Pending
  <2> QED  BY <1>2, <1>3, <1>4, <1>19, <1>20, <2>1, TimelyStep DEF CallInv
<1>22. CachesSound'
  <2>1. Later /\ now' = now /\ revokedAt' = revokedAt
    BY <1>2, <1>3, SameWorld DEF grantVars, worldVars
  <2>2. CASE UNCHANGED statusCache
    <3>1. UNCHANGED cacheVars  BY <1>3, <2>2 DEF cacheVars
    <3> QED  BY <2>1, <3>1, SameCaches
  <2>3. CASE \E revoked \in BitReads(x, b) :
                statusCache' = CacheSet(statusCache, x, revoked, setting.statusTtl)
    <3>1. PICK revoked \in BitReads(x, b) :
             statusCache' = CacheSet(statusCache, x, revoked, setting.statusTtl)
      BY <2>3
    <3>2. revoked \in BOOLEAN  BY <1>14
    <3>3. ~revoked => revokedAt[x] + Latency >= now
      <4> SUFFICES ASSUME ~revoked PROVE revokedAt[x] + Latency >= now  OBVIOUS
      <4>1. PICK r \in Nat : r = revokedAt[x] /\ r >= b  BY <1>13, <1>14
      <4>2. PICK m \in Nat, l \in Nat : m = now /\ l = Latency /\ m <= b + l  BY <1>5, <1>13
      <4>3. r + l >= m  BY <4>1, <4>2
      <4> QED  BY <4>1, <4>2, <4>3
    <3> QED  BY <1>2, <1>3, <2>1, <3>1, <3>2, <3>3, StatusCacheGrows DEF GateInv
  <2> QED  BY <1>11, <2>2, <2>3
<1>23. Underway(c, at[c])'
  <2>1. UNCHANGED <<worldVars, setting>>  BY <1>3
  <2>2. LeadsTo(chain, leaf)' /\ \A j \in 1 .. k - 1 : Passed(chain, j, t)'
    BY <1>9, <2>1, SameStood
  <2>3. at[c].evidence.form = "jwt" => SignedSince(leaf, t)'  BY <1>9, <2>1, SameStood
  <2>4. at[c].sig = "good" => SignedSince(x, t)'  BY <1>9, <1>10, <2>1, SameStood
  <2>5. result = "good" => StatusStood(x, t)'  BY <1>15, <2>1, SameStood
  <2>6. /\ at'[c].evidence = at[c].evidence /\ at'[c].evidence.cred = leaf
        /\ at'[c].started = t /\ at'[c].chain = chain /\ at'[c].k = k /\ ~at'[c].valid
        /\ at'[c].sig = at[c].sig /\ at'[c].stat = result /\ pc'[c] = "verify"
        /\ at'[c].chain[at'[c].k] = x
    BY <1>1, <1>6, <1>10, <1>16, <1>19, <1>20
  <2>7. k \in 1 .. Len(chain) /\ t <= Cred[x].expires  BY <1>9, <1>10
  <2> QED  BY <2>2, <2>3, <2>4, <2>5, <2>6, <2>7 DEF Underway, Walking
<1>24. ~at'[c].valid  BY <1>19, <1>20
<1> QED  BY <1>2, <1>19, <1>21, <1>22, <1>23, <1>24, WalkAssembled

\* A step of the walk that takes nothing from the caches and asks for nothing.
LEMMA WalkOn ==
    ASSUME GateInv, NEW c \in Calls, pc[c] \in Verifying,
           NEW p \in Verifying \cup {"verdict"}, NEW M \in Locals,
           Same(at[c], M, WalkFields), Goto(c, p, M),
           UNCHANGED <<worldVars, cacheVars, grantVars, spent, out, setting>>,
           \/ M.begun = at[c].begun /\ M.sig = at[c].sig /\ M.stat = at[c].stat
           \/ M.begun = 0 /\ M.sig = "none" /\ M.stat = "none",
           p \in Verifying => Underway(c, at[c])',
           M.valid => Vetted(M.chain, M.evidence.cred, M.started)
    PROVE  GateInv'
<1>1. /\ TypeOK /\ CallType /\ WorldType /\ CallInv(c)  BY WalkStart
<1>2. WalksTo(c, p, M)  BY DEF WalksTo
<1>3. WalkStep(c) /\ pc'[c] = p /\ at'[c] = M  BY <1>1, <1>2, WalkStepOf
<1>4. CachesSound'  BY <1>1, SameCaches, SameWorld DEF grantVars
<1>5. Timely(c)'
  <2>1. M.started = at[c].started  BY <1>3, SameFields DEF WalkStep
  <2>2. Pending(c)' <=> M.sig = "pending" \/ M.stat = "pending"  BY <1>3 DEF Pending
  <2> QED  BY <1>1, <1>3, <2>1, <2>2, TimelyStep DEF CallInv, Pending
<1>6. at'[c].valid => Vetted(at[c].chain, at[c].evidence.cred, at[c].started)'
  <2> SUFFICES ASSUME M.valid
               PROVE  Vetted(at[c].chain, at[c].evidence.cred, at[c].started)'
    BY <1>3
  <2>1. PICK chain : chain = M.chain  OBVIOUS
  <2>2. PICK x : x = M.evidence.cred  OBVIOUS
  <2>3. PICK t : t = M.started  OBVIOUS
  <2>4. Vetted(chain, x, t)'  BY <2>1, <2>2, <2>3, SameStood
  <2> QED  BY <1>3, <2>1, <2>2, <2>3, <2>4
<1> QED  BY <1>3, <1>4, <1>5, <1>6, WalkAssembled

LEMMA CombineKeeps ==
    ASSUME GateInv, NEW c \in Calls, Combine(c)
    PROVE  GateInv'
<1>1. pc[c] = "verify" /\ pc[c] \in Verifying  BY DEF Combine, Verifying, Walking
<1>2. /\ TypeOK /\ CallType /\ WorldType /\ Underway(c, at[c])
      /\ at[c].valid = FALSE /\ at[c] \in Locals /\ at[c].evidence \in Evidences
  BY <1>1, WalkStart
<1>3. UNCHANGED <<worldVars, cacheVars, grantVars, spent, out, setting>>  BY DEF Combine
<1>4. PICK t : t = at[c].started  OBVIOUS
<1>5. PICK leaf : leaf = at[c].evidence.cred  OBVIOUS
<1>6. PICK chain \in Seq(Creds) : chain = at[c].chain  BY <1>2, LocalType
<1>7. PICK k \in 1 .. Len(chain) : k = at[c].k  BY <1>1, <1>2, <1>6 DEF Underway, Walking
<1>8. /\ LeadsTo(chain, leaf)
      /\ \A j \in 1 .. k - 1 : Passed(chain, j, t)
      /\ t <= Cred[chain[k]].expires
      /\ at[c].sig = "good" => SignedSince(chain[k], t)
      /\ at[c].stat = "good" => StatusStood(chain[k], t)
      /\ at[c].evidence.form = "jwt" => SignedSince(leaf, t)
  BY <1>1, <1>2, <1>4, <1>5, <1>6, <1>7 DEF Underway, Walking
<1>9. PICK L \in Locals : /\ L = Answered(c) /\ Same(at[c], L, {"sig", "stat", "begun"})
                          /\ L.sig = "none" /\ L.stat = "none" /\ L.begun = 0
  BY <1>2, AnsweredFields
<1>10. /\ L.valid = FALSE /\ L.started = t /\ L.evidence = at[c].evidence
       /\ L.chain = chain /\ L.k = k
  BY <1>2, <1>4, <1>6, <1>7, <1>9 DEF Same, Fields
<1>11. CASE Goto(c, "verdict", L)
  <2>1. Same(at[c], L, WalkFields)  BY <1>9, SameMore DEF WalkFields
  <2> QED  BY <1>1, <1>3, <1>9, <1>10, <1>11, <2>1, WalkOn DEF Verifying, Walking
<1>12. ASSUME Verified(c) /\ AudienceOK(chain[k]) /\ Linked(chain, k)
       PROVE  \A j \in 1 .. k : Passed(chain, j, t)
  <2>1. Passed(chain, k, t)  BY <1>8, <1>12 DEF Passed, Verified
  <2>2. k \in Nat  OBVIOUS
  <2>3. \A j \in 1 .. k : j = k \/ j \in 1 .. k - 1  BY <2>2
  <2> QED  BY <1>8, <2>1, <2>3
<1>13. \A j : Passed(chain, j, t) => Passed(chain, j, t)'  BY <1>3, SameStood
<1>14. LeadsTo(chain, leaf)' /\ (at[c].evidence.form = "jwt" => SignedSince(leaf, t)')
  BY <1>3, <1>8, SameStood
<1>15. CASE /\ Verified(c) /\ AudienceOK(chain[k]) /\ Linked(chain, k) /\ k < Len(chain)
            /\ Goto(c, "walk", [L EXCEPT !.k = k + 1])
  <2>1. PICK n \in 1 .. Len(chain) : n = k + 1 /\ n \in Nat
    <3>1. Len(chain) \in Nat  OBVIOUS
    <3> QED  BY <1>15, <3>1
  <2>2. PICK M \in Locals : M = [L EXCEPT !.k = n] /\ Same(L, M, {"k"}) /\ M.k = n
    <3> DEFINE N == [L EXCEPT !.k = n]
    <3>1. N \in Locals /\ Same(L, N, {"k"}) /\ N.k = n  BY <2>1, StepFields
    <3> HIDE DEF N
    <3>2. N = [L EXCEPT !.k = n]  BY DEF N
    <3> QED  BY <3>1, <3>2
  <2>3. Same(at[c], M, {"sig", "stat", "begun"} \cup {"k"})  BY <1>9, <2>2, SameChain
  <2>4. Same(at[c], M, WalkFields)  BY <2>3, SameMore DEF WalkFields
  <2>5. /\ M.valid = FALSE /\ M.started = t /\ M.evidence = at[c].evidence
        /\ M.chain = chain /\ M.sig = "none" /\ M.stat = "none" /\ M.begun = 0
    BY <1>9, <1>10, <2>2 DEF Same, Fields
  <2>6. Goto(c, "walk", M)  BY <1>15, <2>1, <2>2
  <2>7. Underway(c, at[c])'
    <3>1. pc'[c] = "walk" /\ at'[c] = M  BY <1>2, <2>6 DEF Goto, CallType
    <3>2. \A j \in 1 .. n - 1 : Passed(chain, j, t)'  BY <1>12, <1>13, <1>15, <2>1
    <3>3. /\ at'[c].evidence = at[c].evidence /\ at'[c].evidence.cred = leaf
          /\ at'[c].started = t /\ at'[c].chain = chain /\ at'[c].k = n /\ ~at'[c].valid
      BY <1>5, <2>2, <2>5, <3>1
    <3> QED  BY <1>14, <3>1, <3>2, <3>3 DEF Underway, Walking
  <2> QED
    BY <1>1, <1>3, <2>4, <2>5, <2>6, <2>7, WalkOn DEF Verifying, Walking
<1>16. CASE /\ Verified(c) /\ AudienceOK(chain[k]) /\ Linked(chain, k) /\ k = Len(chain)
            /\ Goto(c, "check", [L EXCEPT !.k = 1])
  <2>1. PICK n \in 1 .. Len(chain) : n = 1 /\ n \in Nat
    <3>1. Len(chain) \in Nat /\ k \in 1 .. Len(chain)  OBVIOUS
    <3> QED  BY <3>1
  <2>2. PICK M \in Locals : M = [L EXCEPT !.k = n] /\ Same(L, M, {"k"}) /\ M.k = n
    <3> DEFINE N == [L EXCEPT !.k = n]
    <3>1. N \in Locals /\ Same(L, N, {"k"}) /\ N.k = n  BY <2>1, StepFields
    <3> HIDE DEF N
    <3>2. N = [L EXCEPT !.k = n]  BY DEF N
    <3> QED  BY <3>1, <3>2
  <2>3. Same(at[c], M, {"sig", "stat", "begun"} \cup {"k"})  BY <1>9, <2>2, SameChain
  <2>4. Same(at[c], M, WalkFields)  BY <2>3, SameMore DEF WalkFields
  <2>5. /\ M.valid = FALSE /\ M.started = t /\ M.evidence = at[c].evidence
        /\ M.chain = chain /\ M.sig = "none" /\ M.stat = "none" /\ M.begun = 0
    BY <1>9, <1>10, <2>2 DEF Same, Fields
  <2>6. Goto(c, "check", M)  BY <1>16, <2>1, <2>2
  <2>7. Underway(c, at[c])'
    <3>1. pc'[c] = "check" /\ at'[c] = M  BY <1>2, <2>6 DEF Goto, CallType
    <3>2. \A j \in 1 .. Len(chain) : Passed(chain, j, t)'  BY <1>12, <1>13, <1>16
    <3>3. /\ at'[c].evidence = at[c].evidence /\ at'[c].evidence.cred = leaf
          /\ at'[c].started = t /\ at'[c].chain = chain /\ at'[c].k = n /\ ~at'[c].valid
      BY <1>5, <2>2, <2>5, <3>1
    <3>4. 1 .. n - 1 = {}  BY <2>1
    <3> QED  BY <1>14, <3>1, <3>2, <3>3, <3>4 DEF Underway, Walking
  <2> QED
    BY <1>1, <1>3, <2>4, <2>5, <2>6, <2>7, WalkOn DEF Verifying, Walking
<1>17. CASE /\ Verified(c) /\ AudienceOK(chain[k]) /\ Linked(chain, k) /\ k = Len(chain)
            /\ ~setting.checker /\ Goto(c, "verdict", [L EXCEPT !.valid = TRUE])
  <2>1. PICK M \in Locals :
           M = [L EXCEPT !.valid = TRUE] /\ Same(L, M, {"valid"}) /\ M.valid = TRUE
    <3> DEFINE N == [L EXCEPT !.valid = TRUE]
    <3>1. N \in Locals /\ Same(L, N, {"valid"}) /\ N.valid = TRUE  BY ValidFields
    <3> HIDE DEF N
    <3>2. N = [L EXCEPT !.valid = TRUE]  BY DEF N
    <3> QED  BY <3>1, <3>2
  <2>2. Same(at[c], M, {"sig", "stat", "begun"} \cup {"valid"})  BY <1>9, <2>1, SameChain
  <2>3. Same(at[c], M, WalkFields)  BY <2>2, SameMore DEF WalkFields
  <2>4. /\ M.started = t /\ M.evidence = at[c].evidence
        /\ M.chain = chain /\ M.sig = "none" /\ M.stat = "none" /\ M.begun = 0
    BY <1>9, <1>10, <2>1 DEF Same, Fields
  <2>5. Goto(c, "verdict", M)  BY <1>17, <2>1
  <2>6. Vetted(chain, leaf, t)  BY <1>8, <1>12, <1>17 DEF Vetted
  <2>7. Vetted(M.chain, M.evidence.cred, M.started)  BY <1>5, <2>4, <2>6
  <2> QED
    BY <1>1, <1>3, <2>3, <2>4, <2>5, <2>7, WalkOn DEF Verifying, Walking
<1> QED  BY <1>6, <1>7, <1>9, <1>11, <1>15, <1>16, <1>17 DEF Combine

LEMMA CheckRevocationKeeps ==
    ASSUME GateInv, NEW c \in Calls, CheckRevocation(c)
    PROVE  GateInv'
<1>1. pc[c] = "check" /\ pc[c] \in Verifying  BY DEF CheckRevocation, Verifying, Walking
<1>2. /\ TypeOK /\ CallType /\ WorldType /\ Underway(c, at[c]) /\ at[c].started <= now
      /\ at[c].valid = FALSE /\ at[c] \in Locals /\ at[c].evidence \in Evidences
  BY <1>1, WalkStart
<1>3. UNCHANGED <<worldVars, cacheVars, grantVars, spent, out, setting>>
  BY DEF CheckRevocation
<1>4. PICK t \in Nat : t = at[c].started /\ t <= now  BY <1>1, WalkStart
<1>5. PICK leaf : leaf = at[c].evidence.cred  OBVIOUS
<1>6. PICK chain \in Seq(Creds) : chain = at[c].chain  BY <1>2, LocalType
<1>7. PICK k \in 1 .. Len(chain) : k = at[c].k  BY <1>1, <1>2, <1>6 DEF Underway, Walking
<1>8. /\ LeadsTo(chain, leaf)
      /\ \A j \in 1 .. Len(chain) : Passed(chain, j, t)
      /\ \A j \in 1 .. k - 1 : GraphStood(chain[j], t)
      /\ at[c].evidence.form = "jwt" => SignedSince(leaf, t)
  BY <1>1, <1>2, <1>4, <1>5, <1>6, <1>7 DEF Underway, Walking
<1>9. ASSUME graphAt[Cred[chain[k]].id] > now
      PROVE  \A j \in 1 .. k : GraphStood(chain[j], t)
  <2>1. chain[k] \in Creds  OBVIOUS
  <2>2. graphAt[Cred[chain[k]].id] \in Nat /\ now \in Nat  BY <1>2, <2>1, Numbers
  <2>3. GraphStood(chain[k], t)  BY <1>4, <1>9, <2>2 DEF GraphStood
  <2>4. \A j \in 1 .. k : j = k \/ j \in 1 .. k - 1  OBVIOUS
  <2> QED  BY <1>8, <2>3, <2>4
<1>10. CASE Goto(c, "verdict", at[c])
  <2>1. Same(at[c], at[c], WalkFields)  BY DEF Same
  <2>2. at[c] \in Locals /\ ~at[c].valid /\ "verdict" \notin Verifying
    BY <1>2 DEF Verifying, Walking
  <2> QED  BY <1>1, <1>3, <1>10, <2>1, <2>2, WalkOn
<1>11. CASE /\ graphAt[Cred[chain[k]].id] > now /\ k < Len(chain)
            /\ Goto(c, "check", [at[c] EXCEPT !.k = k + 1])
  <2>1. PICK n \in 1 .. Len(chain) : n = k + 1 /\ n \in Nat
    <3>1. Len(chain) \in Nat  OBVIOUS
    <3> QED  BY <1>11, <3>1
  <2>2. PICK M \in Locals : M = [at[c] EXCEPT !.k = n] /\ Same(at[c], M, {"k"}) /\ M.k = n
    <3> DEFINE N == [at[c] EXCEPT !.k = n]
    <3>1. N \in Locals /\ Same(at[c], N, {"k"}) /\ N.k = n  BY <1>2, <2>1, StepFields
    <3> HIDE DEF N
    <3>2. N = [at[c] EXCEPT !.k = n]  BY DEF N
    <3> QED  BY <3>1, <3>2
  <2>3. Same(at[c], M, WalkFields)  BY <2>2, SameMore DEF WalkFields
  <2>4. /\ M.valid = FALSE /\ M.started = t /\ M.evidence = at[c].evidence
        /\ M.chain = chain /\ M.sig = at[c].sig /\ M.stat = at[c].stat /\ M.begun = at[c].begun
    BY <1>2, <1>4, <1>6, <2>2 DEF Same, Fields
  <2>5. Goto(c, "check", M)  BY <1>11, <2>1, <2>2
  <2>6. Underway(c, at[c])'
    <3>1. pc'[c] = "check" /\ at'[c] = M  BY <1>2, <2>5 DEF Goto, CallType
    <3>2. \A j \in 1 .. Len(chain) : Passed(chain, j, t)'  BY <1>3, <1>8, SameStood
    <3>3. \A j \in 1 .. n - 1 : GraphStood(chain[j], t)'
      <4>1. n - 1 = k  BY <2>1
      <4>2. \A j \in 1 .. k : GraphStood(chain[j], t)  BY <1>9, <1>11
      <4>3. \A j \in 1 .. k : GraphStood(chain[j], t)'  BY <1>3, <4>2, SameStood
      <4> QED  BY <4>1, <4>3
    <3>4. LeadsTo(chain, leaf)' /\ (at[c].evidence.form = "jwt" => SignedSince(leaf, t)')
      BY <1>3, <1>8, SameStood
    <3>5. /\ at'[c].evidence = at[c].evidence /\ at'[c].evidence.cred = leaf
          /\ at'[c].started = t /\ at'[c].chain = chain /\ at'[c].k = n /\ ~at'[c].valid
      BY <1>5, <2>2, <2>4, <3>1
    <3> QED  BY <3>1, <3>2, <3>3, <3>4, <3>5 DEF Underway, Walking
  <2> QED
    BY <1>1, <1>3, <2>3, <2>4, <2>5, <2>6, WalkOn DEF Verifying, Walking
<1>12. CASE /\ graphAt[Cred[chain[k]].id] > now /\ k = Len(chain)
            /\ Goto(c, "verdict", [at[c] EXCEPT !.valid = TRUE])
  <2>1. PICK M \in Locals :
           M = [at[c] EXCEPT !.valid = TRUE] /\ Same(at[c], M, {"valid"}) /\ M.valid = TRUE
    <3> DEFINE N == [at[c] EXCEPT !.valid = TRUE]
    <3>1. N \in Locals /\ Same(at[c], N, {"valid"}) /\ N.valid = TRUE  BY <1>2, ValidFields
    <3> HIDE DEF N
    <3>2. N = [at[c] EXCEPT !.valid = TRUE]  BY DEF N
    <3> QED  BY <3>1, <3>2
  <2>2. Same(at[c], M, WalkFields)  BY <2>1, SameMore DEF WalkFields
  <2>3. /\ M.started = t /\ M.evidence = at[c].evidence
        /\ M.chain = chain /\ M.sig = at[c].sig /\ M.stat = at[c].stat /\ M.begun = at[c].begun
    BY <1>4, <1>6, <2>1 DEF Same, Fields
  <2>4. Goto(c, "verdict", M)  BY <1>12, <2>1
  <2>5. Vetted(chain, leaf, t)  BY <1>8, <1>9, <1>12 DEF Vetted
  <2>6. Vetted(M.chain, M.evidence.cred, M.started)  BY <1>5, <2>3, <2>5
  <2> QED
    BY <1>1, <1>3, <2>2, <2>3, <2>4, <2>6, WalkOn DEF Verifying, Walking
<1> QED  BY <1>6, <1>7, <1>10, <1>11, <1>12 DEF CheckRevocation

-----------------------------------------------------------------------------
(* The gate's own steps.                                                   *)

\* A call that goes on: what it holds at its new point is what its new locals hold.
LEMMA StepAssembled ==
    ASSUME GateInv, NEW c \in Calls, pc[c] # "done",
           NEW p \in Points \ {"done"}, NEW M \in Locals, Goto(c, p, M),
           UNCHANGED <<worldVars, out, setting, dead>>, spent \subseteq spent',
           CachesSound', StoreSound',
           \/ /\ M.begun = at[c].begun /\ M.started = at[c].started
              /\ M.sig = at[c].sig /\ M.stat = at[c].stat
           \/ /\ M.begun <= now /\ M.started <= now
              /\ M.sig = "pending" \/ M.stat = "pending" => M.begun = now,
           p \in Verifying => Underway(c, at[c])',
           Held(c, p, M), Handed(c, p, M), Shown(c, p, M)',
           M.proved => at[c].proved \/ Request[c].proof.nonce \notin spent
    PROVE  GateInv'
<1>1. TypeOK /\ WorldType /\ CallType /\ CallInv(c)  BY DEF GateInv, TypeOK
<1>2. Later /\ now' = now  BY <1>1, SameWorld DEF worldVars
<1>3. Moves(c) /\ pc'[c] = p /\ at'[c] = M  BY <1>1, MoveOf
<1>4. out[c].kind = "none"  BY <1>1 DEF CallInv, Entrusted
<1>5. Timely(c)'
  <2>1. now \in Nat /\ Latency \in Nat  BY <1>1, Numbers
  <2>2. at[c].started \in Nat /\ at[c].begun \in Nat  BY <1>1, LocalType
  <2>3. Pending(c)' <=> M.sig = "pending" \/ M.stat = "pending"  BY <1>3 DEF Pending
  <2>4. CASE /\ M.begun = at[c].begun /\ M.started = at[c].started
             /\ M.sig = at[c].sig /\ M.stat = at[c].stat
    BY <1>1, <1>2, <1>3, <1>4, <2>1, <2>2, <2>3, <2>4 DEF CallInv, Timely, Pending
  <2>5. CASE /\ M.begun <= now /\ M.started <= now
             /\ M.sig = "pending" \/ M.stat = "pending" => M.begun = now
    <3>1. M.started \in Nat /\ M.begun \in Nat  BY DEF Locals
    <3> QED  BY <1>2, <1>3, <1>4, <2>1, <2>3, <2>5, <3>1 DEF Timely
  <2> QED  BY <2>4, <2>5
<1>6. Walked(c)'
  <2>1. Held(c, p, M)'
    <3>1. Vetted(M.chain, M.evidence.cred, M.started)'
             <=> Vetted(M.chain, M.evidence.cred, M.started)
      BY SameStood
    <3> QED  BY <3>1 DEF Held
  <2> QED  BY <1>3, <1>4, <2>1 DEF Walked
<1>7. Entrusted(c)'
  <2>1. Handed(c, p, M)'  BY HandsLater
  <2> QED  BY <1>3, <1>4, <2>1 DEF Entrusted
<1>8. Proven(c)'  BY <1>3, <1>4 DEF Proven
<1>9. Approved(c)'  BY <1>4 DEF Approved
<1>10. CallInv(c)'  BY <1>5, <1>6, <1>7, <1>8, <1>9 DEF CallInv
<1>11. \A d \in Calls \ {c} : CallInv(d)'
  <2> SUFFICES ASSUME NEW d \in Calls \ {c} PROVE CallInv(d)'  OBVIOUS
  <2>1. Pending(d) => now' <= at[d].begun + Latency  BY <1>2 DEF GateInv, CallInv, Timely
  <2> QED  BY <1>1, <1>2, <1>3, <2>1, CallLater DEF GateInv, Moves
<1>12. ProofOnce'
  <2>1. \A d \in Calls : at[d].proved => Request[d].proof.nonce \in spent
    BY DEF GateInv, CallInv, Proven, Shown
  <2>2. \A d \in Calls \ {c} : at'[d].proved <=> at[d].proved  BY <1>3 DEF Moves, Untouched
  <2>3. at'[c].proved => at[c].proved \/ Request[c].proof.nonce \notin spent  BY <1>3
  <2>4. ASSUME NEW d \in Calls, NEW e \in Calls, d # e, at'[d].proved, at'[e].proved
        PROVE  Request[d].proof.nonce # Request[e].proof.nonce
    <3>1. \A f \in Calls \ {c} : at[c].proved /\ at[f].proved =>
             Request[c].proof.nonce # Request[f].proof.nonce
      BY DEF GateInv, ProofOnce
    <3>2. CASE d # c /\ e # c  BY <2>2, <2>4, <3>2 DEF GateInv, ProofOnce
    <3>3. CASE d = c  BY <2>1, <2>2, <2>3, <2>4, <3>1, <3>3
    <3>4. CASE e = c  BY <2>1, <2>2, <2>3, <2>4, <3>1, <3>4
    <3> QED  BY <3>2, <3>3, <3>4
  <2> QED  BY <2>4 DEF ProofOnce
<1> QED  BY <1>1, <1>2, <1>3, <1>10, <1>11, <1>12 DEF GateInv, TypeOK, Later, Moves

\* What a call at the policy gate rests on.
LEMMA PolicyKnows ==
    ASSUME GateInv, NEW c \in Calls, pc[c] = "policy"
    PROVE  LET L == at[c]
               leaf == Cred[Last(L.chain)]
           IN
           /\ Vetted(L.chain, Last(L.chain), L.started)
           /\ ScopeSatisfies(Request[c].scope, leaf.authority)
           /\ L.grant # None =>
                /\ L.grant.session \in {None, Request[c].session}
                /\ L.grant.no \notin L.gone /\ Request[c].scope \in L.grant.scopes
           /\ Mode = "enforce" /\ leaf.agent \in KeyDids =>
                L.proved /\ Request[c].proof.by = leaf.agent
<1> DEFINE L == at[c]
<1>1. /\ Held(c, "policy", L) /\ Handed(c, "policy", L) /\ Shown(c, "policy", L)
  BY DEF GateInv, CallInv, Walked, Entrusted, Proven
<1>2. /\ Vetted(L.chain, L.evidence.cred, L.started)
      /\ ScopeSatisfies(Request[c].scope, Cred[L.evidence.cred].authority)
  BY <1>1 DEF Held
<1>3. Last(L.chain) = L.evidence.cred  BY <1>2 DEF Vetted, LeadsTo, Last
<1>4. L.grant # None =>
        /\ L.grant.session \in {None, Request[c].session}
        /\ L.grant.no \notin L.gone /\ Request[c].scope \in L.grant.scopes
  BY <1>1 DEF Handed, Offered, MayUse
<1>5. Mode = "enforce" /\ Cred[L.evidence.cred].agent \in KeyDids =>
        L.proved /\ Request[c].proof.by = Cred[L.evidence.cred].agent
  <2>1. CASE L.path = "presented"  BY <1>1, <2>1 DEF Shown
  <2>2. CASE L.path # "presented"
    <3>1. /\ Offered(c, L, L.grant) /\ MayUse(c, L, L.grant)
          /\ Cred[L.evidence.cred].agent = L.grant.agent
      BY <1>1, <2>2 DEF Handed
    <3>2. CASE L.path = "agent"  BY <1>1, <3>1, <3>2 DEF Shown, Offered
    <3>3. CASE L.path # "agent"  BY <3>1, <3>3 DEF MayUse
    <3> QED  BY <3>2, <3>3
  <2> QED  BY <2>1, <2>2
<1> QED  BY <1>2, <1>3, <1>4, <1>5

OutcomeOf(c, kind) ==
    [kind |-> kind, chain |-> at[c].chain, started |-> at[c].started, path |-> at[c].path,
     grant |-> at[c].grant]

AfterAnswer(c) == [Local EXCEPT !.seen = at[c].seen, !.gone = at[c].gone, !.proved = at[c].proved]

LEMMA LocalFields ==
    /\ Local \in Locals /\ Local.started = 0 /\ Local.begun = 0 /\ Local.path = "presented"
    /\ Local.grants = <<>> /\ Local.grant = None /\ Local.sig = "none" /\ Local.stat = "none"
    /\ Local.chain = <<>> /\ Local.valid = FALSE /\ Local.proved = FALSE
    /\ Local.gone = {} /\ Local.seen = {}
<1>1. "object" \in Forms /\ "none" \in Replies /\ "presented" \in Paths
  BY DEF Forms, Replies, Paths
<1> QED  BY <1>1 DEF Local, Locals

LEMMA AfterAnswerFields ==
    ASSUME CallType, NEW c \in Calls
    PROVE  /\ AfterAnswer(c) \in Locals
           /\ Same(Local, AfterAnswer(c), {"seen", "gone", "proved"})
           /\ AfterAnswer(c).gone = at[c].gone /\ AfterAnswer(c).proved = at[c].proved
<1>1. at[c].proved \in BOOLEAN /\ at[c].gone \subseteq Nat /\ at[c].seen \subseteq Nat
  BY LocalType
<1>2. Local \in Locals  BY LocalFields
<1>3. AfterAnswer(c) \in Locals  BY <1>1, <1>2 DEF AfterAnswer, Locals
<1>4. Same(Local, AfterAnswer(c), {"seen", "gone", "proved"})
  BY <1>2 DEF AfterAnswer, Locals, Same, Fields
<1>5. AfterAnswer(c).gone = at[c].gone /\ AfterAnswer(c).proved = at[c].proved
  BY <1>2 DEF AfterAnswer, Locals
<1> QED  BY <1>3, <1>4, <1>5

\* Answering a call ends it; only from the policy gate may it have run.
LEMMA AnswerKeeps ==
    ASSUME GateInv, NEW c \in Calls, NEW kind \in Kinds, Answer(c, kind),
           UNCHANGED <<worldVars, cacheVars, grantVars, setting>>, spent \subseteq spent',
           kind = "ran" =>
             /\ pc[c] = "policy"
             /\ setting.policy # "none" /\ RiskOf(c) = "high" => Quorate(c)
    PROVE  GateInv'
<1>1. TypeOK /\ WorldType /\ CallType /\ CallInv(c)  BY DEF GateInv, TypeOK
<1>2. Later /\ now' = now /\ setting' = setting /\ dead' = dead
  BY <1>1, SameWorld DEF worldVars, grantVars
<1>3. /\ at[c].chain \in Seq(Creds) /\ at[c].started \in Nat /\ at[c].path \in Paths
      /\ at[c].grant \in Grants \cup {None} /\ at[c].started <= now
  BY <1>1, LocalType DEF CallInv, Timely
<1>4. PICK o \in Outcomes :
         /\ o = OutcomeOf(c, kind) /\ o.kind = kind /\ o.chain = at[c].chain
         /\ o.started = at[c].started /\ o.grant = at[c].grant
  <2>1. OutcomeOf(c, kind) \in Outcomes  BY <1>3 DEF OutcomeOf, Outcomes
  <2> QED  BY <2>1 DEF OutcomeOf
<1>5. PICK M \in Locals :
         /\ M = AfterAnswer(c) /\ Same(Local, M, {"seen", "gone", "proved"})
         /\ M.gone = at[c].gone /\ M.proved = at[c].proved
  BY <1>1, AfterAnswerFields
<1>6. /\ M.path = "presented" /\ M.grants = <<>> /\ M.grant = None /\ M.valid = FALSE
      /\ M.started = 0 /\ M.begun = 0 /\ M.sig = "none" /\ M.stat = "none"
  BY <1>5, LocalFields DEF Same, Fields
<1>7. /\ pc' = [pc EXCEPT ![c] = "done"] /\ at' = [at EXCEPT ![c] = M]
      /\ out' = [out EXCEPT ![c] = o]
  BY <1>4, <1>5 DEF Answer, Goto, OutcomeOf, AfterAnswer
<1>8. "done" \in Points  BY DEF Points
<1>9. /\ Moves(c) /\ pc'[c] = "done" /\ at'[c] = M /\ out'[c] = o
  BY <1>1, <1>7, <1>8 DEF CallType, Moves, Untouched
<1>10. Timely(c)'
  <2>1. now \in Nat /\ Latency \in Nat  BY <1>1, Numbers
  <2> QED  BY <1>2, <1>3, <1>4, <1>6, <1>9, <2>1 DEF Timely, Pending
<1>11. kind = "ran" =>
         /\ Vetted(o.chain, Last(o.chain), o.started)
         /\ ScopeSatisfies(Request[c].scope, Cred[Last(o.chain)].authority)
         /\ o.grant # None =>
              /\ o.grant.session \in {None, Request[c].session}
              /\ o.grant.no \notin M.gone /\ Request[c].scope \in o.grant.scopes
         /\ Mode = "enforce" /\ Cred[Last(o.chain)].agent \in KeyDids =>
              M.proved /\ Request[c].proof.by = Cred[Last(o.chain)].agent
  BY <1>4, <1>5, PolicyKnows
<1>12. RanLeaf(c)' = Cred[Last(o.chain)]  BY <1>9 DEF RanLeaf
<1>13. Walked(c)'
  <2>1. Held(c, "done", M)'  BY <1>6 DEF Held, Verifying, Walking
  <2>2. kind = "ran" => Vetted(o.chain, Last(o.chain), o.started)'
    <3>1. Vetted(o.chain, Last(o.chain), o.started)' <=> Vetted(o.chain, Last(o.chain), o.started)
      BY SameStood
    <3> QED  BY <1>11, <3>1
  <2> QED  BY <1>4, <1>9, <1>11, <1>12, <2>1, <2>2 DEF Walked, Verifying, Walking
<1>14. Entrusted(c)'
  <2>1. at[c].gone \subseteq dead  BY <1>1 DEF CallInv, Entrusted, Handed
  <2>2. Handed(c, "done", M)'  BY <1>2, <1>5, <1>6, <2>1 DEF Handed, Verifying, Walking
  <2> QED  BY <1>4, <1>9, <1>11, <2>2 DEF Entrusted
<1>15. Proven(c)'
  <2>1. Shown(c, pc[c], at[c])  BY <1>1 DEF CallInv, Proven
  <2>2. Shown(c, "done", M)'  BY <1>5, <1>6, <2>1 DEF Shown
  <2>3. kind = "ran" /\ Mode' = "enforce" /\ Cred[Last(o.chain)].agent \in KeyDids =>
          M.proved /\ Request[c].proof.by = Cred[Last(o.chain)].agent
    BY <1>2, <1>11 DEF Mode
  <2> QED  BY <1>4, <1>9, <1>12, <2>2, <2>3 DEF Proven
<1>16. Approved(c)'  BY <1>2, <1>4, <1>9 DEF Approved, RiskOf, Quorate
<1>17. CallInv(c)'  BY <1>10, <1>13, <1>14, <1>15, <1>16 DEF CallInv
<1>18. CachesSound' /\ StoreSound'  BY <1>2, SameCaches, SameStore DEF GateInv
<1>19. at'[c].proved => at[c].proved  BY <1>5, <1>9
<1> QED  BY <1>2, <1>9, <1>17, <1>18, <1>19, Assembled

\* A credential was presented and its chain is vetted: the scope check lets it on to the
\* binding of a grant.
LEMMA CheckScopeKeeps ==
    ASSUME GateInv, NEW c \in Calls, pc[c] \in {"verdict", "holder"},
           at[c].path = "presented", at[c].valid,
           NEW M \in Locals, Same(at[c], M, {"proved"}), CheckScope(c, M),
           UNCHANGED <<worldVars, cacheVars, grantVars, setting>>, spent \subseteq spent',
           M.proved => /\ Request[c].proof # None /\ Request[c].proof.good
                       /\ Request[c].proof.nonce \in spent',
           M.proved => at[c].proved \/ Request[c].proof.nonce \notin spent,
           Mode = "enforce" /\ Leaf(c).agent \in KeyDids =>
             M.proved /\ Request[c].proof.by = Leaf(c).agent
    PROVE  GateInv'
<1>1. /\ TypeOK /\ Held(c, pc[c], at[c]) /\ Handed(c, pc[c], at[c])
  BY DEF GateInv, CallInv, Walked, Entrusted
<1>2. CASE Answer(c, "refused")
  <2>1. "refused" \in Kinds /\ "refused" # "ran"  BY DEF Kinds
  <2> QED  BY <1>2, <2>1, AnswerKeeps
<1>3. CASE /\ ScopeSatisfies(Request[c].scope, Leaf(c).authority)
           /\ Goto(c, "bind", M) /\ UNCHANGED out
  <2>1. /\ M.path = "presented" /\ M.valid /\ M.evidence = at[c].evidence
        /\ M.chain = at[c].chain /\ M.started = at[c].started /\ M.grants = at[c].grants
        /\ M.grant = at[c].grant /\ M.gone = at[c].gone /\ M.begun = at[c].begun
        /\ M.sig = at[c].sig /\ M.stat = at[c].stat
    BY DEF Same, Fields
  <2>2. Held(c, "bind", M)  BY <1>1, <1>3, <2>1 DEF Held, Leaf
  <2>3. Handed(c, "bind", M)  BY <1>1, <2>1 DEF Handed, Offered
  <2>4. Shown(c, "bind", M)'  BY <2>1 DEF Shown, Mode, Leaf
  <2>5. "bind" \in Points \ {"done"} /\ "bind" \notin Verifying /\ pc[c] # "done"
    BY DEF Points, Verifying, Walking
  <2>6. Later  BY <1>1, SameWorld DEF grantVars
  <2>7. CachesSound' /\ StoreSound' /\ dead' = dead
    BY <2>6, SameCaches, SameStore DEF GateInv, grantVars
  <2> QED  BY <1>3, <2>1, <2>2, <2>3, <2>4, <2>5, <2>7, StepAssembled
<1> QED  BY <1>2, <1>3 DEF CheckScope

\* A step that changes nothing but where the call stands.
LEMMA PointKeeps ==
    ASSUME GateInv, NEW c \in Calls, pc[c] # "done",
           NEW p \in Points \ (Verifying \cup {"done"}), Goto(c, p, at[c]),
           UNCHANGED <<worldVars, out, setting, dead, spent>>, CachesSound', StoreSound',
           Held(c, p, at[c]), Handed(c, p, at[c]), Shown(c, p, at[c])
    PROVE  GateInv'
<1>1. PICK M \in Locals : M = at[c]  BY LocalType DEF GateInv, TypeOK
<1>2. Shown(c, p, M)'  BY <1>1, HandsLater
<1>3. Held(c, p, M) /\ Handed(c, p, M) /\ Goto(c, p, M)  BY <1>1
<1> QED  BY <1>1, <1>2, <1>3, StepAssembled

LEMMA PresentedKeeps ==
    ASSUME GateInv, NEW c \in Calls, Presented(c)
    PROVE  GateInv'
<1>1. /\ pc[c] = "verdict" /\ at[c].path = "presented"
      /\ UNCHANGED <<worldVars, cacheVars, grantVars, spent, setting>>
  BY DEF Presented
<1>2. /\ TypeOK /\ at[c] \in Locals
      /\ Held(c, pc[c], at[c]) /\ Handed(c, pc[c], at[c]) /\ Shown(c, pc[c], at[c])
  BY LocalType DEF GateInv, TypeOK, CallInv, Walked, Entrusted, Proven
<1>3. CASE Answer(c, "refused")
  <2>1. "refused" \in Kinds /\ "refused" # "ran"  BY DEF Kinds
  <2> QED  BY <1>1, <1>3, <2>1, AnswerKeeps
<1>4. CASE /\ at[c].valid /\ CheckScope(c, at[c])
           /\ ~(Mode = "enforce" /\ Leaf(c).agent \in KeyDids)
  <2>1. Same(at[c], at[c], {"proved"})  BY DEF Same
  <2>2. at[c].proved => /\ Request[c].proof # None /\ Request[c].proof.good
                        /\ Request[c].proof.nonce \in spent'
    BY <1>1, <1>2 DEF Shown
  <2> QED  BY <1>1, <1>2, <1>4, <2>1, <2>2, CheckScopeKeeps
<1>5. CASE at[c].valid /\ Request[c].proof # None /\ Goto(c, "holder", at[c]) /\ UNCHANGED out
  <2>1. "holder" \in Points \ (Verifying \cup {"done"})  BY DEF Points, Verifying, Walking
  <2>2. Held(c, "holder", at[c])  BY <1>1, <1>2, <1>5 DEF Held, Verifying, Walking
  <2>3. Handed(c, "holder", at[c])  BY <1>1, <1>2 DEF Handed
  <2>4. Shown(c, "holder", at[c])  BY <1>1, <1>2, <1>5 DEF Shown
  <2>5. CachesSound' /\ StoreSound' /\ dead' = dead
    BY <1>1, <1>2, SameWorld, SameCaches, SameStore DEF GateInv, grantVars
  <2> QED  BY <1>1, <1>5, <2>1, <2>2, <2>3, <2>4, <2>5, PointKeeps
<1> QED  BY <1>3, <1>4, <1>5 DEF Presented

WithProved(L, b) == [L EXCEPT !.proved = b]
WithPath(L, p) == [L EXCEPT !.path = p]
WithGrants(L, s) == [L EXCEPT !.grants = s]
WithGrant(L, g) == [L EXCEPT !.grant = g]

LEMMA ProvedFields ==
    ASSUME NEW L \in Locals, NEW b \in BOOLEAN
    PROVE  /\ WithProved(L, b) \in Locals /\ Same(L, WithProved(L, b), {"proved"})
           /\ WithProved(L, b).proved = b
BY DEF Locals, Same, Fields, WithProved

LEMMA PathFields ==
    ASSUME NEW L \in Locals, NEW p \in Paths
    PROVE  /\ WithPath(L, p) \in Locals /\ Same(L, WithPath(L, p), {"path"})
           /\ WithPath(L, p).path = p
BY DEF Locals, Same, Fields, WithPath

LEMMA GrantsFields ==
    ASSUME NEW L \in Locals, NEW s \in Seq(Grants)
    PROVE  /\ WithGrants(L, s) \in Locals /\ Same(L, WithGrants(L, s), {"grants"})
           /\ WithGrants(L, s).grants = s
BY DEF Locals, Same, Fields, WithGrants

LEMMA GrantFields ==
    ASSUME NEW L \in Locals, NEW g \in Grants \cup {None}
    PROVE  /\ WithGrant(L, g) \in Locals /\ Same(L, WithGrant(L, g), {"grant"})
           /\ WithGrant(L, g).grant = g
BY DEF Locals, Same, Fields, WithGrant

LEMMA HolderBindingKeeps ==
    ASSUME GateInv, NEW c \in Calls, HolderBinding(c)
    PROVE  GateInv'
<1> DEFINE p == Request[c].proof
           agent == at[c].path = "agent"
           ok == (agent \/ p.by = Leaf(c).agent) /\ p.good /\ p.nonce \notin spent
<1>1. /\ pc[c] = "holder" /\ UNCHANGED <<worldVars, cacheVars, grantVars, setting>>
      /\ spent' = IF ok THEN spent \cup {p.nonce} ELSE spent
  BY DEF HolderBinding
<1>2. /\ TypeOK /\ at[c] \in Locals
      /\ Held(c, pc[c], at[c]) /\ Handed(c, pc[c], at[c]) /\ Shown(c, pc[c], at[c])
  BY LocalType DEF GateInv, TypeOK, CallInv, Walked, Entrusted, Proven
<1>3. at[c].path \in Paths  BY <1>2, LocalType DEF TypeOK
<1>4. spent \subseteq spent' /\ p # None  BY <1>1, <1>2 DEF Shown
<1>5. Later  BY <1>1, <1>2, <1>4, SameWorld DEF grantVars
<1>6. CachesSound' /\ StoreSound' /\ dead' = dead
  BY <1>1, <1>5, SameCaches, SameStore DEF GateInv, grantVars
<1>7. ok \in BOOLEAN  OBVIOUS
<1>8. ok => p.good /\ p.nonce \in spent' /\ p.nonce \notin spent  BY <1>1
<1>9. "lookup" \in Points \ {"done"} /\ "lookup" \notin Verifying /\ pc[c] # "done"
  BY <1>1 DEF Points, Verifying, Walking
<1>10. CASE agent /\ ok /\ UNCHANGED out /\ Goto(c, "lookup", WithProved(at[c], TRUE))
  <2>1. PICK M \in Locals : M = WithProved(at[c], TRUE) /\ Same(at[c], M, {"proved"}) /\ M.proved
    <3>1. PICK b \in BOOLEAN : b = TRUE  OBVIOUS
    <3>2. PICK M \in Locals : M = WithProved(at[c], b) /\ Same(at[c], M, {"proved"}) /\ M.proved = b
      BY <1>2, ProvedFields
    <3> QED  BY <3>1, <3>2
  <2>2. /\ M.path = "agent" /\ M.grants = at[c].grants /\ M.grant = at[c].grant
        /\ M.started = at[c].started /\ M.begun = at[c].begun /\ M.sig = at[c].sig
        /\ M.stat = at[c].stat /\ M.gone = at[c].gone /\ M.valid = at[c].valid
        /\ M.chain = at[c].chain /\ M.evidence = at[c].evidence
    BY <1>10, <2>1 DEF Same, Fields
  <2>3. Held(c, "lookup", M)  BY <1>2, <2>2 DEF Held, Verifying, Walking
  <2>4. Handed(c, "lookup", M)  BY <1>1, <1>2, <2>2 DEF Handed, Verifying, Walking
  <2>5. Shown(c, "lookup", M)'  BY <1>4, <1>8, <1>10, <2>1 DEF Shown
  <2>6. M.proved => at[c].proved \/ p.nonce \notin spent  BY <1>8, <1>10
  <2> HIDE DEF agent, ok
  <2> QED
    BY <1>1, <1>4, <1>6, <1>9, <1>10, <2>1, <2>2, <2>3, <2>4, <2>5, <2>6, StepAssembled
<1>11. CASE agent /\ ~ok /\ UNCHANGED out /\ Goto(c, "lookup", WithPath(at[c], "session"))
  <2>1. PICK M \in Locals :
           M = WithPath(at[c], "session") /\ Same(at[c], M, {"path"}) /\ M.path = "session"
    <3>1. PICK b \in Paths : b = "session"  BY DEF Paths
    <3>2. PICK M \in Locals : M = WithPath(at[c], b) /\ Same(at[c], M, {"path"}) /\ M.path = b
      BY <1>2, PathFields
    <3> QED  BY <3>1, <3>2
  <2>2. /\ M.grants = at[c].grants /\ M.grant = at[c].grant /\ M.proved = at[c].proved
        /\ M.started = at[c].started /\ M.begun = at[c].begun /\ M.sig = at[c].sig
        /\ M.stat = at[c].stat /\ M.gone = at[c].gone /\ M.valid = at[c].valid
        /\ M.chain = at[c].chain /\ M.evidence = at[c].evidence
    BY <2>1 DEF Same, Fields
  <2>3. Held(c, "lookup", M)  BY <1>2, <2>2 DEF Held, Verifying, Walking
  <2>4. Handed(c, "lookup", M)  BY <1>1, <1>2, <2>1, <2>2 DEF Handed, Verifying, Walking
  <2>5. Shown(c, "lookup", M)'  BY <1>2, <1>4, <2>1, <2>2 DEF Shown
  <2> HIDE DEF agent, ok
  <2> QED
    BY <1>1, <1>4, <1>6, <1>9, <1>11, <2>1, <2>2, <2>3, <2>4, <2>5, StepAssembled
<1>12. CASE ~agent /\ (ok \/ Mode = "warn") /\ CheckScope(c, WithProved(at[c], ok))
  <2>1. at[c].path = "presented"  BY <1>1, <1>2, <1>3, <1>12 DEF Handed, Paths
  <2>2. at[c].valid  BY <1>1, <1>2, <2>1 DEF Held
  <2>3. PICK b \in BOOLEAN : b = ok  BY <1>7
  <2>4. PICK M \in Locals : M = WithProved(at[c], b) /\ Same(at[c], M, {"proved"}) /\ M.proved = b
    BY <1>2, ProvedFields
  <2>5. b => p.good /\ p.nonce \in spent' /\ p.nonce \notin spent  BY <1>8, <2>3
  <2>6. Mode = "enforce" => b /\ p.by = Leaf(c).agent
    <3>1. Mode = "enforce" => ok /\ ~agent  BY <1>12
    <3> QED  BY <2>3, <3>1
  <2>7. CheckScope(c, M)  BY <1>12, <2>3, <2>4
  <2> HIDE DEF agent, ok
  <2> QED  BY <1>1, <1>4, <2>1, <2>2, <2>4, <2>5, <2>6, <2>7, CheckScopeKeeps
<1>13. CASE Answer(c, "refused")
  <2>1. "refused" \in Kinds /\ "refused" # "ran"  BY DEF Kinds
  <2> QED  BY <1>1, <1>4, <1>13, <2>1, AnswerKeeps
<1> QED  BY <1>10, <1>11, <1>12, <1>13 DEF HolderBinding, WithProved, WithPath

LEMMA LookupKeeps ==
    ASSUME GateInv, NEW c \in Calls, Lookup(c)
    PROVE  GateInv'
<1> DEFINE r == Request[c]
           live == {g \in Range(store) : Active(g) /\ r.scope \in g.scopes}
           mine == {g \in Range(store) :
                      IF at[c].path = "agent" THEN g.agent = r.proof.by
                      ELSE r.session # None /\ g.session = r.session}
<1>1. /\ pc[c] = "lookup" /\ UNCHANGED <<worldVars, cacheVars, grantVars, spent, setting>>
  BY DEF Lookup
<1>2. /\ TypeOK /\ StoreSound /\ at[c] \in Locals
      /\ Held(c, pc[c], at[c]) /\ Handed(c, pc[c], at[c]) /\ Shown(c, pc[c], at[c])
  BY LocalType DEF GateInv, TypeOK, CallInv, Walked, Entrusted, Proven
<1>3. CASE Answer(c, "failed")
  <2>1. "failed" \in Kinds /\ "failed" # "ran"  BY DEF Kinds
  <2> QED  BY <1>1, <1>3, <2>1, AnswerKeeps
<1>4. CASE /\ UNCHANGED out
           /\ Goto(c, "iterate", [at[c] EXCEPT !.grants = Filter(Filter(store, live), mine)])
  <2>1. PICK s \in Seq(Grants) : s = Filter(store, live) /\ KeptFrom(s, store, live)
    <3>1. store \in Seq(Grants)  BY <1>2 DEF StoreSound
    <3> HIDE DEF live
    <3> QED  BY <3>1, FilterKeeps
  <2>2. PICK u \in Seq(Grants) : u = Filter(s, mine) /\ KeptFrom(u, s, mine)
    <3> HIDE DEF mine
    <3> QED  BY FilterKeeps
  <2>3. \A k \in DOMAIN u : u[k] \in live /\ u[k] \in mine
    <3> HIDE DEF live, mine
    <3> QED  BY <2>1, <2>2 DEF KeptFrom
  <2>4. PICK M \in Locals :
           M = WithGrants(at[c], u) /\ Same(at[c], M, {"grants"}) /\ M.grants = u
    BY <1>2, GrantsFields
  <2>5. /\ M.path = at[c].path /\ M.grant = at[c].grant /\ M.proved = at[c].proved
        /\ M.started = at[c].started /\ M.begun = at[c].begun /\ M.sig = at[c].sig
        /\ M.stat = at[c].stat /\ M.gone = at[c].gone /\ M.valid = at[c].valid
        /\ M.chain = at[c].chain /\ M.evidence = at[c].evidence
    BY <2>4 DEF Same, Fields
  <2>6. Goto(c, "iterate", M)  BY <1>4, <2>1, <2>2, <2>4 DEF WithGrants
  <2>7. \A k \in DOMAIN u : Offered(c, M, u[k])
    <3>1. ASSUME NEW k \in DOMAIN u
          PROVE  u[k].no \notin dead
      <4>1. PICK i \in DOMAIN store : store[i] = u[k] /\ store[i].status = "active"
        BY <2>3 DEF Range, Active
      <4> QED  BY <1>2, <4>1 DEF StoreSound
    <3>2. M.gone \subseteq dead  BY <1>2, <2>5 DEF Handed
    <3>3. \A k \in DOMAIN u : u[k].no \notin M.gone  BY <3>1, <3>2
    <3> QED  BY <2>3, <2>5, <3>3 DEF Offered
  <2>8. Held(c, "iterate", M)  BY <1>2, <2>5 DEF Held, Verifying, Walking
  <2>9. Handed(c, "iterate", M)
    <3>1. M.path # "presented" /\ M.grant = None  BY <1>1, <1>2, <2>5 DEF Handed
    <3>2. M.gone \subseteq dead  BY <1>2, <2>5 DEF Handed
    <3> QED  BY <2>4, <2>7, <3>1, <3>2 DEF Handed, Verifying, Walking
  <2>10. Shown(c, "iterate", M)'  BY <1>1, <1>2, <2>5 DEF Shown
  <2>11. "iterate" \in Points \ {"done"} /\ "iterate" \notin Verifying /\ pc[c] # "done"
    BY <1>1 DEF Points, Verifying, Walking
  <2>12. CachesSound' /\ StoreSound' /\ dead' = dead
    BY <1>1, <1>2, SameWorld, SameCaches, SameStore DEF GateInv, grantVars
  <2> HIDE DEF r, live, mine
  <2> QED
    BY <1>1, <1>4, <2>5, <2>6, <2>8, <2>9, <2>10, <2>11, <2>12, StepAssembled
<1> QED  BY <1>3, <1>4 DEF Lookup, ActiveGrants

LEMMA GrantVerifiedKeeps ==
    ASSUME GateInv, NEW c \in Calls, GrantVerified(c)
    PROVE  GateInv'
<1>1. /\ pc[c] = "verdict" /\ at[c].path # "presented"
      /\ UNCHANGED <<worldVars, cacheVars, grantVars, spent, out, setting>>
  BY DEF GrantVerified
<1>2. /\ TypeOK /\ at[c] \in Locals
      /\ Held(c, pc[c], at[c]) /\ Handed(c, pc[c], at[c]) /\ Shown(c, pc[c], at[c])
  BY LocalType DEF GateInv, TypeOK, CallInv, Walked, Entrusted, Proven
<1>3. CachesSound' /\ StoreSound' /\ dead' = dead
  BY <1>1, <1>2, SameWorld, SameCaches, SameStore DEF GateInv, grantVars
<1>4. CASE /\ at[c].valid /\ Leaf(c).agent = at[c].grant.agent
           /\ ScopeSatisfies(Request[c].scope, Leaf(c).authority)
           /\ Goto(c, "policy", at[c])
  <2>1. "policy" \in Points \ (Verifying \cup {"done"})  BY DEF Points, Verifying, Walking
  <2>2. Held(c, "policy", at[c])  BY <1>1, <1>2, <1>4 DEF Held, Leaf
  <2>3. Handed(c, "policy", at[c])  BY <1>1, <1>2, <1>4 DEF Handed, Leaf
  <2>4. Shown(c, "policy", at[c])  BY <1>1, <1>2 DEF Shown
  <2> QED  BY <1>1, <1>3, <1>4, <2>1, <2>2, <2>3, <2>4, PointKeeps
<1>5. CASE Goto(c, "iterate", [at[c] EXCEPT !.grant = None])
  <2>1. PICK M \in Locals :
           M = WithGrant(at[c], None) /\ Same(at[c], M, {"grant"}) /\ M.grant = None
    BY <1>2, GrantFields
  <2>2. /\ M.path = at[c].path /\ M.grants = at[c].grants /\ M.proved = at[c].proved
        /\ M.started = at[c].started /\ M.begun = at[c].begun /\ M.sig = at[c].sig
        /\ M.stat = at[c].stat /\ M.gone = at[c].gone /\ M.valid = at[c].valid
        /\ M.chain = at[c].chain /\ M.evidence = at[c].evidence
    BY <2>1 DEF Same, Fields
  <2>3. Goto(c, "iterate", M)  BY <1>5, <2>1 DEF WithGrant
  <2>4. Held(c, "iterate", M)  BY <1>2, <2>2 DEF Held, Verifying, Walking
  <2>5. Handed(c, "iterate", M)
    <3>1. \A k \in DOMAIN M.grants : Offered(c, M, M.grants[k])
      BY <1>2, <2>2 DEF Handed, Offered
    <3>2. M.gone \subseteq dead  BY <1>2, <2>2 DEF Handed
    <3> QED  BY <1>1, <2>1, <2>2, <3>1, <3>2 DEF Handed, Verifying, Walking
  <2>6. Shown(c, "iterate", M)'  BY <1>1, <1>2, <2>2 DEF Shown
  <2>7. "iterate" \in Points \ {"done"} /\ "iterate" \notin Verifying /\ pc[c] # "done"
    BY <1>1 DEF Points, Verifying, Walking
  <2> QED
    BY <1>1, <1>3, <2>2, <2>3, <2>4, <2>5, <2>6, <2>7, StepAssembled
<1> QED  BY <1>4, <1>5 DEF GrantVerified

\* Enough distinct approvers include exactly as many as the quorum asks for.
LEMMA QuorumIsQuorate ==
    ASSUME NEW c \in Calls, QuorumMet(c)
    PROVE  Quorate(c)
<1> DEFINE voters == {g.by : g \in Approving(c)}
           n == Cardinality(voters)
<1>1. IsFiniteSet(Request[c].approvals) /\ Quorum \in Nat /\ Quorum # 0  BY GateAssumption
<1>2. Approving(c) \in SUBSET Request[c].approvals  BY DEF Approving
<1>3. IsFiniteSet(Approving(c))  BY <1>1, <1>2, FS_Subset
<1>4. IsFiniteSet(voters)
  <2> DEFINE f == [g \in Approving(c) |-> g.by]
  <2>1. f \in Surjection(Approving(c), voters)  BY DEF Surjection
  <2> HIDE DEF f
  <2> QED  BY <1>3, <2>1, FS_Surjection
<1>5. n \in Nat /\ n >= Quorum  BY <1>4, FS_CardinalityType DEF QuorumMet
<1>6. PICK f : f \in Bijection(1 .. n, voters)
  <2>1. ExistsBijection(1 .. n, voters)  BY <1>4, FS_CardinalityType
  <2> QED  BY <2>1 DEF ExistsBijection
<1>7. /\ f \in [1 .. n -> voters] /\ \A i, j \in 1 .. n : f[i] = f[j] => i = j
  BY <1>6 DEF Bijection, Injection, IsInjective
<1>8. PICK who : who = {f[i] : i \in 1 .. Quorum}  OBVIOUS
<1>9. who \subseteq voters
  <2>1. 1 .. Quorum \subseteq 1 .. n  BY <1>1, <1>5
  <2> HIDE DEF voters, n
  <2> QED  BY <1>7, <1>8, <2>1
<1>10. Cardinality(who) = Quorum
  <2> DEFINE h == [i \in 1 .. Quorum |-> f[i]]
  <2>1. \A i \in 1 .. Quorum : i \in 1 .. n  BY <1>1, <1>5
  <2>2. h \in [1 .. Quorum -> who]  BY <1>8
  <2>3. \A i, j \in 1 .. Quorum : h[i] = h[j] => i = j
    <3> HIDE DEF voters, n
    <3> QED  BY <1>7, <2>1
  <2>4. \A x \in who : \E i \in 1 .. Quorum : h[i] = x  BY <1>8
  <2>5. h \in Bijection(1 .. Quorum, who)
    <3> HIDE DEF h
    <3> QED  BY <2>2, <2>3, <2>4 DEF Bijection, Injection, IsInjective, Surjection
  <2>6. IsFiniteSet(1 .. Quorum) /\ Cardinality(1 .. Quorum) = Quorum
    <3> SUFFICES ASSUME NEW m \in Nat PROVE IsFiniteSet(1 .. m) /\ Cardinality(1 .. m) = m
      BY <1>1
    <3> QED  BY FS_Interval
  <2> HIDE DEF h
  <2> QED  BY <2>5, <2>6, FS_Bijection DEF ExistsBijection
<1>11. who \in SUBSET {g.by : g \in Request[c].approvals}
  <2>1. voters \subseteq {g.by : g \in Request[c].approvals}  BY <1>2
  <2> HIDE DEF voters
  <2> QED  BY <1>9, <2>1
<1>12. \A a \in who : \E g \in Request[c].approvals :
          /\ g.by = a /\ g.approve /\ g.signed /\ g.action = Request[c].action
          /\ Approvers = {} \/ g.by \in Approvers
  <2>1. \A a \in voters : \E g \in Approving(c) : g.by = a  OBVIOUS
  <2> HIDE DEF voters
  <2> QED  BY <1>9, <2>1 DEF Approving
<1>13. Approvers # {} => who \subseteq Approvers  BY <1>12
<1> QED  BY <1>10, <1>11, <1>12, <1>13 DEF Quorate

LEMMA PolicyKeeps ==
    ASSUME GateInv, NEW c \in Calls, Policy(c)
    PROVE  GateInv'
<1>1. pc[c] = "policy" /\ UNCHANGED <<worldVars, cacheVars, grantVars, spent, setting>>
  BY DEF Policy
<1>2. PICK kind \in Kinds :
         /\ Answer(c, kind)
         /\ kind = "ran" =>
              \/ setting.policy = "none"
              \/ Decision(c) = "step_up" /\ QuorumMet(c)
              \/ Decision(c) = "allow"
  BY DEF Policy, Kinds
<1>3. setting.policy \in {"none", "unmatched", "matched"}
  BY GateAssumption DEF GateInv, TypeOK, WorldType
<1>4. Decision(c) = "allow" /\ setting.policy # "none" => RiskOf(c) # "high"
  BY <1>3 DEF Decision
<1>5. kind = "ran" => (setting.policy # "none" /\ RiskOf(c) = "high" => Quorate(c))
  BY <1>2, <1>4, QuorumIsQuorate
<1> QED  BY <1>1, <1>2, <1>5, AnswerKeeps

FreshFor(L, evidence) ==
    [L EXCEPT !.evidence = evidence, !.chain = <<>>, !.k = 0, !.valid = FALSE]

LEMMA FreshFields ==
    ASSUME NEW L \in Locals, NEW evidence \in Evidences
    PROVE  /\ FreshFor(L, evidence) \in Locals
           /\ Same(L, FreshFor(L, evidence), {"evidence", "chain", "k", "valid"})
           /\ FreshFor(L, evidence).evidence = evidence /\ FreshFor(L, evidence).valid = FALSE
<1>1. evidence \in [cred: Creds \cup {None}, form: Forms]  BY DEF Evidences
<1>2. <<>> \in Seq(Creds) /\ 0 \in Nat /\ FALSE \in BOOLEAN  OBVIOUS
<1>3. FreshFor(L, evidence) \in Locals  BY <1>1, <1>2 DEF FreshFor, Locals
<1>4. Same(L, FreshFor(L, evidence), {"evidence", "chain", "k", "valid"})
  BY DEF FreshFor, Locals, Same, Fields
<1>5. FreshFor(L, evidence).evidence = evidence /\ FreshFor(L, evidence).valid = FALSE
  BY DEF FreshFor, Locals
<1> QED  BY <1>3, <1>4, <1>5

\* Everything but the verification itself is settled when one begins.
LEMMA VerifyKeeps ==
    ASSUME GateInv, NEW c \in Calls, pc[c] \in {"idle", "iterate"},
           NEW evidence \in Evidences, NEW L \in Locals, Verify(c, evidence, L),
           UNCHANGED <<worldVars, grantVars, spent, out, setting>>,
           L.started <= now,
           \/ /\ L.begun = at[c].begun /\ L.started = at[c].started
              /\ L.sig = at[c].sig /\ L.stat = at[c].stat
           \/ L.begun <= now /\ L.sig # "pending" /\ L.stat # "pending",
           L.gone \subseteq dead,
           \A k \in DOMAIN L.grants : Offered(c, L, L.grants[k]),
           IF L.path = "presented" THEN L.grants = <<>> /\ L.grant = None
           ELSE /\ Offered(c, L, L.grant) /\ MayUse(c, L, L.grant)
                /\ evidence = L.grant.evidence,
           Shown(c, "verdict", L), L.proved => at[c].proved
    PROVE  GateInv'
<1>1. TypeOK /\ WorldType /\ CachesSound /\ now \in Nat  BY Numbers DEF GateInv, TypeOK
<1>2. Later  BY <1>1, SameWorld DEF grantVars
<1>3. StoreSound' /\ dead' = dead /\ spent' = spent  BY SameStore DEF GateInv, grantVars
<1>4. PICK M \in Locals : /\ M = FreshFor(L, evidence) /\ M.evidence = evidence /\ M.valid = FALSE
                          /\ Same(L, M, {"evidence", "chain", "k", "valid"})
  BY FreshFields
<1>5. /\ M.path = L.path /\ M.grants = L.grants /\ M.grant = L.grant /\ M.proved = L.proved
      /\ M.started = L.started /\ M.begun = L.begun /\ M.sig = L.sig /\ M.stat = L.stat
      /\ M.gone = L.gone
  BY <1>4 DEF Same, Fields
<1>6. ASSUME NEW p \in {"resolve", "envelope", "verdict"}, NEW N \in Locals,
             Same(M, N, {"sig", "stat", "begun"})
      PROVE  /\ p \in Points \ {"done"} /\ pc[c] # "done"
             /\ Held(c, p, N) /\ Handed(c, p, N) /\ Shown(c, p, N)'
             /\ N.proved => at[c].proved \/ Request[c].proof.nonce \notin spent
             /\ N.started <= now /\ N.evidence = evidence /\ N.valid = FALSE
  <2>1. /\ N.path = L.path /\ N.grants = L.grants /\ N.grant = L.grant /\ N.proved = L.proved
        /\ N.started = L.started /\ N.gone = L.gone /\ N.evidence = evidence /\ N.valid = FALSE
    BY <1>4, <1>5, <1>6 DEF Same, Fields
  <2>2. Held(c, p, N)  BY <2>1 DEF Held
  <2>3. \A g : (Offered(c, N, g) <=> Offered(c, L, g)) /\ (MayUse(c, N, g) <=> MayUse(c, L, g))
    BY <2>1 DEF Offered, MayUse
  <2>4. \A k \in DOMAIN N.grants : Offered(c, N, N.grants[k])  BY <2>1, <2>3
  <2>5. CASE L.path = "presented"
    <3>1. N.path = "presented" /\ N.grants = <<>> /\ N.grant = None  BY <2>1, <2>5
    <3>2. N.gone \subseteq dead  BY <2>1
    <3>3. Handed(c, p, N)  BY <2>4, <3>1, <3>2 DEF Handed
    <3>4. Shown(c, p, N)'  BY <1>3, <2>1, <3>1 DEF Shown
    <3> QED  BY <2>1, <2>2, <3>3, <3>4 DEF Points
  <2>6. CASE L.path # "presented"
    <3>1. /\ N.path # "presented" /\ Offered(c, N, N.grant)
          /\ MayUse(c, N, N.grant) /\ N.evidence = N.grant.evidence
      BY <2>1, <2>3, <2>6
    <3>2. N.gone \subseteq dead  BY <2>1
    <3>3. Handed(c, p, N)  BY <2>4, <3>1, <3>2 DEF Handed
    <3>4. Shown(c, p, N)'  BY <1>3, <2>1, <3>1 DEF Shown
    <3> QED  BY <2>1, <2>2, <3>3, <3>4 DEF Points
  <2> QED  BY <2>5, <2>6
<1>7. CASE Goto(c, "resolve", M) /\ evidence.form = "object" /\ UNCHANGED cacheVars
  <2>1. Same(M, M, {"sig", "stat", "begun"})  BY DEF Same
  <2>2. CachesSound'  BY <1>2, <1>7, SameCaches
  <2>3. Underway(c, at[c])'
    <3>1. pc'[c] = "resolve" /\ at'[c] = M  BY <1>1, <1>7 DEF Goto, TypeOK, CallType
    <3> QED  BY <1>4, <1>7, <3>1 DEF Underway, Walking
  <2>4. PICK p \in {"resolve", "envelope", "verdict"} : p = "resolve"  OBVIOUS
  <2>5. /\ p \in Points \ {"done"} /\ pc[c] # "done"
        /\ Held(c, p, M) /\ Handed(c, p, M) /\ Shown(c, p, M)'
        /\ M.proved => at[c].proved \/ Request[c].proof.nonce \notin spent
    BY <1>6, <2>1
  <2>6. Goto(c, p, M)  BY <1>7, <2>4
  <2> QED  BY <1>3, <1>5, <2>2, <2>3, <2>5, <2>6, StepAssembled
<1>8. CASE Goto(c, "verdict", M) /\ UNCHANGED cacheVars
  <2>1. Same(M, M, {"sig", "stat", "begun"})  BY DEF Same
  <2>2. CachesSound'  BY <1>2, <1>8, SameCaches
  <2>3. PICK p \in {"resolve", "envelope", "verdict"} : p = "verdict"  OBVIOUS
  <2>4. /\ p \in Points \ {"done"} /\ pc[c] # "done"
        /\ Held(c, p, M) /\ Handed(c, p, M) /\ Shown(c, p, M)'
        /\ M.proved => at[c].proved \/ Request[c].proof.nonce \notin spent
    BY <1>6, <2>1
  <2>5. Goto(c, p, M) /\ p \notin Verifying  BY <1>8, <2>3 DEF Verifying, Walking
  <2> QED  BY <1>3, <1>5, <2>2, <2>4, <2>5, StepAssembled
<1>9. CASE /\ evidence.form = "jwt"
           /\ Goto(c, "envelope",
                   [M EXCEPT !.begun = now,
                             !.sig = IF CacheHits(sigCache, <<"jwt", evidence.cred>>) # {}
                                     THEN "good" ELSE "pending",
                             !.stat = "good"])
           /\ sigCache' = CacheRead(sigCache, <<"jwt", evidence.cred>>)
           /\ UNCHANGED statusCache
  <2>1. PICK x \in Creds : x = evidence.cred  BY DEF Evidences
  <2>2. PICK s \in Replies :
           s = IF CacheHits(sigCache, <<"jwt", x>>) # {} THEN "good" ELSE "pending"
    BY DEF Replies
  <2>3. PICK r \in Replies : r = "good"  BY DEF Replies
  <2>4. PICK b \in Nat : b = now  BY <1>1
  <2>5. PICK N \in Locals : /\ N = WithReplies(M, b, s, r)
                            /\ Same(M, N, {"sig", "stat", "begun"})
                            /\ N.begun = b /\ N.sig = s /\ N.stat = r
    <3>1. WithReplies(M, b, s, r) \in Locals  BY RepliesFields
    <3>2. Same(M, WithReplies(M, b, s, r), {"sig", "stat", "begun"})  BY RepliesFields
    <3>3. WithReplies(M, b, s, r).begun = b  BY RepliesFields
    <3> QED  BY <3>1, <3>2, <3>3, RepliesFields
  <2>6. PICK p \in {"resolve", "envelope", "verdict"} : p = "envelope"  OBVIOUS
  <2>7. /\ p \in Points \ {"done"} /\ pc[c] # "done"
        /\ Held(c, p, N) /\ Handed(c, p, N) /\ Shown(c, p, N)'
        /\ N.proved => at[c].proved \/ Request[c].proof.nonce \notin spent
        /\ N.started <= now /\ N.evidence = evidence /\ N.valid = FALSE
    BY <1>6, <2>5
  <2>8. Goto(c, p, N)  BY <1>9, <2>1, <2>2, <2>3, <2>4, <2>5, <2>6 DEF WithReplies
  <2>9. CachesSound'
    <3>1. sigCache' \in Seq(SigEntries) /\ Range(sigCache') \subseteq Range(sigCache)
      BY <1>1, <1>9, CacheReadKeeps DEF CachesSound
    <3>2. statusCache' \in Seq(StatusEntries) /\ Range(statusCache') \subseteq Range(statusCache)
      BY <1>1, <1>9 DEF CachesSound
    <3> QED  BY <1>1, <1>2, <3>1, <3>2, CachesLater
  <2>10. Underway(c, at[c])'
    <3>1. pc'[c] = "envelope" /\ at'[c] = N
      BY <1>1, <2>6, <2>8 DEF Goto, TypeOK, CallType
    <3>2. PICK t \in Nat : t = N.started /\ t <= now  BY <2>7 DEF Locals
    <3>3. s = "good" => SignedSince(x, t)
      <4>1. s = "good" => CacheHits(sigCache, <<"jwt", x>>) # {}  BY <2>2
      <4>2. PICK kind : kind = "jwt"  OBVIOUS
      <4>3. CacheHits(sigCache, <<kind, x>>) # {} => SignedSince(x, t)
        BY <1>1, <3>2, SignatureHit
      <4> QED  BY <4>1, <4>2, <4>3
    <3>4. s = "good" => SignedSince(x, t)'  BY <3>3, SameStood
    <3>5. /\ at'[c].evidence = evidence /\ at'[c].evidence.cred = x /\ at'[c].started = t
          /\ at'[c].sig = s /\ at'[c].stat = "good" /\ ~at'[c].valid
      BY <2>1, <2>3, <2>5, <2>7, <3>1, <3>2
    <3> QED  BY <1>9, <3>1, <3>4, <3>5 DEF Underway, Walking
  <2> QED  BY <1>3, <2>4, <2>5, <2>7, <2>8, <2>9, <2>10, StepAssembled
<1> QED  BY <1>4, <1>7, <1>8, <1>9 DEF Verify, FreshFor, cacheVars

LEMMA NextGrantKeeps ==
    ASSUME GateInv, NEW c \in Calls, NextGrant(c)
    PROVE  GateInv'
<1>1. pc[c] = "iterate" /\ UNCHANGED <<worldVars, grantVars, spent, setting>>
  BY DEF NextGrant
<1>2. /\ TypeOK /\ CallType /\ Timely(c) /\ at[c] \in Locals
      /\ Held(c, pc[c], at[c]) /\ Handed(c, pc[c], at[c]) /\ Shown(c, pc[c], at[c])
  BY LocalType DEF GateInv, TypeOK, CallInv, Walked, Entrusted, Proven
<1>3. Later  BY <1>1, <1>2, SameWorld DEF grantVars
<1>4. StoreSound' /\ dead' = dead  BY <1>1, SameStore DEF GateInv, grantVars
<1>5. PICK s \in Seq(Grants) : s = at[c].grants  BY <1>2, LocalType
<1>6. /\ at[c].path # "presented" /\ at[c].grant = None /\ at[c].gone \subseteq dead
      /\ \A k \in DOMAIN s : Offered(c, at[c], s[k])
  BY <1>1, <1>2, <1>5 DEF Handed
<1>7. CASE Answer(c, "challenged") /\ UNCHANGED cacheVars
  <2>1. "challenged" \in Kinds /\ "challenged" # "ran"  BY DEF Kinds
  <2> QED  BY <1>1, <1>7, <2>1, AnswerKeeps
<1>8. CASE /\ s = <<>> /\ Goto(c, "lookup", [at[c] EXCEPT !.path = "session"])
           /\ UNCHANGED <<cacheVars, out>>
  <2>1. PICK M \in Locals :
           M = WithPath(at[c], "session") /\ Same(at[c], M, {"path"}) /\ M.path = "session"
    <3>1. PICK b \in Paths : b = "session"  BY DEF Paths
    <3>2. PICK M \in Locals : M = WithPath(at[c], b) /\ Same(at[c], M, {"path"}) /\ M.path = b
      BY <1>2, PathFields
    <3> QED  BY <3>1, <3>2
  <2>2. /\ M.grants = s /\ M.grant = None /\ M.proved = at[c].proved
        /\ M.started = at[c].started /\ M.begun = at[c].begun /\ M.sig = at[c].sig
        /\ M.stat = at[c].stat /\ M.gone = at[c].gone /\ M.valid = at[c].valid
        /\ M.chain = at[c].chain /\ M.evidence = at[c].evidence
    BY <1>5, <1>6, <2>1 DEF Same, Fields
  <2>3. Goto(c, "lookup", M)  BY <1>8, <2>1 DEF WithPath
  <2>4. Held(c, "lookup", M)  BY <1>2, <2>2 DEF Held, Verifying, Walking
  <2>5. Handed(c, "lookup", M)  BY <1>6, <1>8, <2>1, <2>2 DEF Handed, Verifying, Walking
  <2>6. Shown(c, "lookup", M)'  BY <1>1, <1>2, <2>1, <2>2 DEF Shown
  <2>7. "lookup" \in Points \ {"done"} /\ "lookup" \notin Verifying /\ pc[c] # "done"
    BY <1>1 DEF Points, Verifying, Walking
  <2>8. CachesSound'  BY <1>3, <1>8, SameCaches
  <2> QED
    BY <1>1, <1>4, <1>8, <2>2, <2>3, <2>4, <2>5, <2>6, <2>7, <2>8, StepAssembled
<1>9. ASSUME s # <<>>
      PROVE  /\ Head(s) \in Grants /\ Offered(c, at[c], Head(s)) /\ Tail(s) \in Seq(Grants)
             /\ \A k \in DOMAIN Tail(s) : Offered(c, at[c], Tail(s)[k])
  <2>1. Len(s) \in Nat /\ Len(s) # 0 /\ DOMAIN s = 1 .. Len(s)  BY <1>9
  <2>2. Head(s) = s[1] /\ 1 \in DOMAIN s  BY <1>9, <2>1
  <2>3. \A k \in DOMAIN Tail(s) : k + 1 \in DOMAIN s /\ Tail(s)[k] = s[k + 1]
    BY <1>9, <2>1
  <2>4. Tail(s) \in Seq(Grants)  BY <1>9
  <2> QED  BY <1>6, <2>2, <2>3, <2>4
<1>10. CASE /\ s # <<>> /\ Goto(c, "iterate", [at[c] EXCEPT !.grants = Tail(s)])
            /\ UNCHANGED <<cacheVars, out>>
  <2>1. PICK u \in Seq(Grants) : u = Tail(s)  BY <1>9, <1>10
  <2>2. PICK M \in Locals :
           M = WithGrants(at[c], u) /\ Same(at[c], M, {"grants"}) /\ M.grants = u
    BY <1>2, GrantsFields
  <2>3. /\ M.path = at[c].path /\ M.grant = None /\ M.proved = at[c].proved
        /\ M.started = at[c].started /\ M.begun = at[c].begun /\ M.sig = at[c].sig
        /\ M.stat = at[c].stat /\ M.gone = at[c].gone /\ M.valid = at[c].valid
        /\ M.chain = at[c].chain /\ M.evidence = at[c].evidence
    BY <1>6, <2>2 DEF Same, Fields
  <2>4. Goto(c, "iterate", M)  BY <1>10, <2>1, <2>2 DEF WithGrants
  <2>5. Held(c, "iterate", M)  BY <1>2, <2>3 DEF Held, Verifying, Walking
  <2>6. Handed(c, "iterate", M)
    <3>1. \A k \in DOMAIN u : Offered(c, M, u[k])  BY <1>9, <1>10, <2>1, <2>3 DEF Offered
    <3> QED  BY <1>6, <2>2, <2>3, <3>1 DEF Handed, Verifying, Walking
  <2>7. Shown(c, "iterate", M)'  BY <1>1, <1>2, <2>3 DEF Shown
  <2>8. "iterate" \in Points \ {"done"} /\ "iterate" \notin Verifying /\ pc[c] # "done"
    BY <1>1 DEF Points, Verifying, Walking
  <2>9. CachesSound'  BY <1>3, <1>10, SameCaches
  <2> QED
    BY <1>1, <1>4, <1>10, <2>3, <2>4, <2>5, <2>6, <2>7, <2>8, <2>9, StepAssembled
<1>11. CASE /\ s # <<>> /\ Permitted(c, Head(s)) /\ UNCHANGED out
            /\ Verify(c, Head(s).evidence,
                      [[at[c] EXCEPT !.grants = Tail(s)] EXCEPT !.grant = Head(s)])
  <2>1. PICK u \in Seq(Grants) : u = Tail(s)  BY <1>9, <1>11
  <2>2. PICK g \in Grants : g = Head(s)  BY <1>9, <1>11
  <2>3. PICK M \in Locals :
           M = WithGrants(at[c], u) /\ Same(at[c], M, {"grants"}) /\ M.grants = u
    BY <1>2, GrantsFields
  <2>4. PICK N \in Locals : N = WithGrant(M, g) /\ Same(M, N, {"grant"}) /\ N.grant = g
    BY GrantFields
  <2>5. /\ N.path = at[c].path /\ N.grants = u /\ N.proved = at[c].proved
        /\ N.started = at[c].started /\ N.begun = at[c].begun /\ N.sig = at[c].sig
        /\ N.stat = at[c].stat /\ N.gone = at[c].gone
    BY <2>3, <2>4 DEF Same, Fields
  <2>6. Verify(c, g.evidence, N)  BY <1>11, <2>1, <2>2, <2>3, <2>4 DEF WithGrants, WithGrant
  <2>7. \A h : Offered(c, N, h) <=> Offered(c, at[c], h)  BY <2>5 DEF Offered
  <2>8. \A k \in DOMAIN N.grants : Offered(c, N, N.grants[k])
    BY <1>9, <1>11, <2>1, <2>5, <2>7
  <2>9. Offered(c, N, g)  BY <1>9, <1>11, <2>2, <2>7
  <2>10. MayUse(c, N, g)  BY <1>11, <2>2, <2>5 DEF MayUse, Permitted
  <2>11. g.evidence \in Evidences  BY DEF Grants
  <2>12. N.started <= now  BY <1>2, <2>5 DEF Timely
  <2>13. Shown(c, "verdict", N)  BY <1>1, <1>2, <1>6, <2>5 DEF Shown
  <2> QED
    BY <1>1, <1>6, <1>11, <2>4, <2>5, <2>6, <2>8, <2>9, <2>10, <2>11, <2>12, <2>13, VerifyKeeps
<1> QED  BY <1>5, <1>7, <1>8, <1>10, <1>11 DEF NextGrant, Challenge

Arrived ==
    [Local EXCEPT !.started = now, !.seen = {g.no : g \in {h \in Range(store) : Active(h)}},
                  !.gone = dead]

LEMMA ArrivedFields ==
    ASSUME GateInv
    PROVE  /\ Arrived \in Locals /\ Same(Local, Arrived, {"started", "seen", "gone"})
           /\ Arrived.started = now /\ Arrived.gone = dead
<1>1. now \in Nat  BY Numbers DEF GateInv, TypeOK
<1>2. store \in Seq(Grants) /\ bound \in Nat /\ dead \subseteq 1 .. bound
  BY DEF GateInv, StoreSound
<1>3. dead \subseteq Nat  BY <1>2
<1>4. PICK seen : seen = {g.no : g \in {h \in Range(store) : Active(h)}}  OBVIOUS
<1>5. seen \subseteq Nat
  <2>1. \A g \in Range(store) : g \in Grants  BY <1>2 DEF Range
  <2>2. \A g \in Grants : g.no \in Nat  BY DEF Grants
  <2> QED  BY <1>4, <2>1, <2>2
<1>6. Arrived = [Local EXCEPT !.started = now, !.seen = seen, !.gone = dead]
  BY <1>4 DEF Arrived
<1>7. Local \in Locals  BY LocalFields
<1>8. Arrived \in Locals  BY <1>1, <1>3, <1>5, <1>6, <1>7 DEF Locals
<1>9. Same(Local, Arrived, {"started", "seen", "gone"})
  BY <1>6, <1>7 DEF Locals, Same, Fields
<1>10. Arrived.started = now /\ Arrived.gone = dead  BY <1>6, <1>7 DEF Locals
<1> QED  BY <1>8, <1>9, <1>10

LEMMA StartKeeps ==
    ASSUME GateInv, NEW c \in Calls, Start(c)
    PROVE  GateInv'
<1> DEFINE r == Request[c]
<1>1. pc[c] = "idle" /\ UNCHANGED <<worldVars, grantVars, spent, out, setting>>
  BY DEF Start
<1>2. /\ TypeOK /\ now \in Nat /\ Handed(c, pc[c], at[c])
  BY Numbers DEF GateInv, TypeOK, CallInv, Entrusted
<1>3. Later  BY <1>1, <1>2, SameWorld DEF grantVars
<1>4. StoreSound' /\ dead' = dead  BY <1>1, SameStore DEF GateInv, grantVars
<1>5. PICK L \in Locals : /\ L = Arrived /\ Same(Local, L, {"started", "seen", "gone"})
                          /\ L.started = now /\ L.gone = dead
  BY ArrivedFields
<1>6. /\ L.path = "presented" /\ L.grants = <<>> /\ L.grant = None /\ L.valid = FALSE
      /\ L.begun = 0 /\ L.sig = "none" /\ L.stat = "none" /\ L.proved = FALSE
  BY <1>5, LocalFields DEF Same, Fields
<1>7. CASE r.cred # None /\ Verify(c, [cred |-> r.cred, form |-> r.form], L)
  <2>1. r.cred \in Creds  BY <1>7, GateAssumption
  <2>2. PICK e \in Evidences : e = [cred |-> r.cred, form |-> r.form]
    BY <2>1 DEF Evidences, Forms
  <2>3. Verify(c, e, L)  BY <1>7, <2>2
  <2>4. Shown(c, "verdict", L)  BY <1>6 DEF Shown
  <2> QED  BY <1>1, <1>2, <1>5, <1>6, <2>3, <2>4, VerifyKeeps
<1>8. CASE /\ MayProve(c) /\ Goto(c, "holder", [L EXCEPT !.path = "agent"])
           /\ UNCHANGED cacheVars
  <2>1. PICK M \in Locals : M = WithPath(L, "agent") /\ Same(L, M, {"path"}) /\ M.path = "agent"
    <3>1. PICK b \in Paths : b = "agent"  BY DEF Paths
    <3>2. PICK M \in Locals : M = WithPath(L, b) /\ Same(L, M, {"path"}) /\ M.path = b
      BY PathFields
    <3> QED  BY <3>1, <3>2
  <2>2. /\ M.grants = <<>> /\ M.grant = None /\ M.valid = FALSE /\ M.proved = FALSE
        /\ M.started = now /\ M.gone = dead /\ M.begun = 0 /\ M.sig = "none" /\ M.stat = "none"
    BY <1>5, <1>6, <2>1 DEF Same, Fields
  <2>3. Goto(c, "holder", M)  BY <1>8, <2>1 DEF WithPath
  <2>4. Held(c, "holder", M)  BY <2>1, <2>2 DEF Held, Verifying, Walking
  <2>5. Handed(c, "holder", M)  BY <2>1, <2>2 DEF Handed, Verifying, Walking
  <2>6. Shown(c, "holder", M)'  BY <1>8, <2>1, <2>2 DEF Shown, MayProve
  <2>7. "holder" \in Points \ {"done"} /\ "holder" \notin Verifying /\ pc[c] # "done"
    BY <1>1 DEF Points, Verifying, Walking
  <2>8. CachesSound'  BY <1>3, <1>8, SameCaches
  <2> QED
    BY <1>1, <1>2, <1>4, <2>2, <2>3, <2>4, <2>5, <2>6, <2>7, <2>8, StepAssembled
<1>9. CASE Goto(c, "lookup", [L EXCEPT !.path = "session"]) /\ UNCHANGED cacheVars
  <2>1. PICK M \in Locals : M = WithPath(L, "session") /\ Same(L, M, {"path"}) /\ M.path = "session"
    <3>1. PICK b \in Paths : b = "session"  BY DEF Paths
    <3>2. PICK M \in Locals : M = WithPath(L, b) /\ Same(L, M, {"path"}) /\ M.path = b
      BY PathFields
    <3> QED  BY <3>1, <3>2
  <2>2. /\ M.grants = <<>> /\ M.grant = None /\ M.valid = FALSE /\ M.proved = FALSE
        /\ M.started = now /\ M.gone = dead /\ M.begun = 0 /\ M.sig = "none" /\ M.stat = "none"
    BY <1>5, <1>6, <2>1 DEF Same, Fields
  <2>3. Goto(c, "lookup", M)  BY <1>9, <2>1 DEF WithPath
  <2>4. Held(c, "lookup", M)  BY <2>1, <2>2 DEF Held, Verifying, Walking
  <2>5. Handed(c, "lookup", M)  BY <2>1, <2>2 DEF Handed, Verifying, Walking
  <2>6. Shown(c, "lookup", M)'  BY <2>1, <2>2 DEF Shown
  <2>7. "lookup" \in Points \ {"done"} /\ "lookup" \notin Verifying /\ pc[c] # "done"
    BY <1>1 DEF Points, Verifying, Walking
  <2>8. CachesSound'  BY <1>3, <1>9, SameCaches
  <2> QED
    BY <1>1, <1>2, <1>4, <2>2, <2>3, <2>4, <2>5, <2>6, <2>7, <2>8, StepAssembled
<1> QED  BY <1>5, <1>7, <1>8, <1>9 DEF Start, Arrived

\* Binding a grant with a new number replaces the one of its id, or adds it.
LEMMA BindGrantKeeps ==
    ASSUME StoreSound, NEW g \in Grants, g.no = bound + 1,
           store' = BindGrant(store, g), bound' = bound + 1, dead' = dead
    PROVE  StoreSound'
<1>1. /\ store \in Seq(Grants) /\ bound \in Nat /\ dead \subseteq 1 .. bound
      /\ Len(store) \in Nat /\ DOMAIN store = 1 .. Len(store)
  BY DEF StoreSound
<1>2. /\ bound' \in Nat /\ dead' \subseteq 1 .. bound' /\ g.no \in 1 .. bound' /\ g.no \notin dead'
      /\ \A i \in DOMAIN store : store[i].no \in 1 .. bound' /\ store[i].no # g.no
  <2>1. \A i \in DOMAIN store : store[i].no \in 1 .. bound  BY DEF StoreSound
  <2> QED  BY <1>1, <2>1
<1>3. CASE \E k \in DOMAIN store : store[k].id = g.id
  <2>1. store' = [k \in DOMAIN store |-> IF store[k].id = g.id THEN g ELSE store[k]]
    BY <1>3 DEF BindGrant
  <2>2. /\ DOMAIN store' = DOMAIN store
        /\ \A i \in DOMAIN store : store'[i] = IF store[i].id = g.id THEN g ELSE store[i]
    BY <2>1
  <2>3. store' \in Seq(Grants)
    <3>1. \A i \in DOMAIN store : store'[i] \in Grants  BY <1>1, <2>2
    <3> QED  BY <1>1, <2>1, <3>1
  <2>4. ASSUME NEW i \in DOMAIN store
        PROVE  /\ store'[i].no \in 1 .. bound' /\ store'[i].id = store[i].id
               /\ store'[i].status = "active" => store'[i].no \notin dead'
    BY <1>2, <2>2 DEF StoreSound
  <2>5. ASSUME NEW i \in DOMAIN store, NEW j \in DOMAIN store, i # j
        PROVE  store'[i].id # store'[j].id /\ store'[i].no # store'[j].no
    <3>1. store[i].id # store[j].id /\ store[i].no # store[j].no  BY <2>5 DEF StoreSound
    <3>2. store'[i].id # store'[j].id  BY <2>4, <3>1
    <3>3. store'[i].no # store'[j].no
      <4>1. CASE store[i].id = g.id  BY <1>2, <2>2, <3>1, <4>1
      <4>2. CASE store[j].id = g.id  BY <1>2, <2>2, <3>1, <4>2
      <4>3. CASE store[i].id # g.id /\ store[j].id # g.id  BY <2>2, <3>1, <4>3
      <4> QED  BY <4>1, <4>2, <4>3
    <3> QED  BY <3>2, <3>3
  <2> QED  BY <1>2, <2>2, <2>3, <2>4, <2>5 DEF StoreSound
<1>4. CASE ~\E k \in DOMAIN store : store[k].id = g.id
  <2>1. store' = Append(store, g)  BY <1>4 DEF BindGrant
  <2>2. store' \in Seq(Grants)  BY <1>1, <2>1
  <2>3. /\ DOMAIN store' = 1 .. Len(store) + 1 /\ store'[Len(store) + 1] = g
        /\ \A i \in DOMAIN store : store'[i] = store[i]
    BY <1>1, <2>1
  <2>4. \A i \in DOMAIN store' : i \in DOMAIN store \/ i = Len(store) + 1  BY <1>1, <2>3
  <2>5. ASSUME NEW i \in DOMAIN store'
        PROVE  /\ store'[i].no \in 1 .. bound'
               /\ store'[i].status = "active" => store'[i].no \notin dead'
    BY <1>2, <2>3, <2>4 DEF StoreSound
  <2>6. ASSUME NEW i \in DOMAIN store', NEW j \in DOMAIN store', i # j
        PROVE  store'[i].id # store'[j].id /\ store'[i].no # store'[j].no
    BY <1>2, <1>4, <2>3, <2>4, <2>6 DEF StoreSound
  <2> QED  BY <1>2, <2>2, <2>5, <2>6 DEF StoreSound
<1> QED  BY <1>3, <1>4

LEMMA NewGrantType ==
    ASSUME CallType, NEW c \in Calls, at[c].evidence \in Evidences, bound \in Nat
    PROVE  NewGrant(c) \in Grants /\ NewGrant(c).no = bound + 1
<1>1. PICK x \in Creds : x = at[c].evidence.cred  BY DEF Evidences
<1>2. PICK chain \in Seq(Creds) : chain = at[c].chain  BY LocalType
<1>3. PICK scopes : scopes = GrantScopes(Request[c].scope, x)  OBVIOUS
<1>4. scopes \in ScopeSets
  <2>1. Cred[x].authority.flat \subseteq Resources
    <3>1. Cred[x].authority \in Authorities  BY GateAssumption
    <3> QED  BY <3>1 DEF Authorities
  <2>2. Request[c].scope \in Values  BY GateAssumption
  <2> QED  BY <1>3, <2>1, <2>2 DEF GrantScopes, ScopeSets
<1>5. /\ Cred[x].agent \in Agents /\ Cred[x].controller \in Users
      /\ Request[c].session \in Sessions
  BY DEF Agents, Users, Sessions
<1>6. PICK deadline \in Deadlines : deadline = Earliest(at[c].evidence, chain)
  BY DEF Deadlines
<1>7. NewGrant(c) =
        [id |-> <<Cred[x].agent, Request[c].session, scopes>>, no |-> bound + 1,
         agent |-> Cred[x].agent, user |-> Cred[x].controller, session |-> Request[c].session,
         scopes |-> scopes, evidence |-> at[c].evidence, status |-> "active",
         expires |-> deadline, chain |-> chain]
  BY <1>1, <1>2, <1>3, <1>6 DEF NewGrant, Leaf
<1> QED  BY <1>4, <1>5, <1>7 DEF Grants

LEMMA BindKeeps ==
    ASSUME GateInv, NEW c \in Calls, Bind(c)
    PROVE  GateInv'
<1>1. pc[c] = "bind" /\ UNCHANGED <<worldVars, cacheVars, dead, spent, setting>>
  BY DEF Bind
<1>2. /\ TypeOK /\ CallType /\ StoreSound
      /\ Held(c, pc[c], at[c]) /\ Handed(c, pc[c], at[c]) /\ Shown(c, pc[c], at[c])
  BY DEF GateInv, TypeOK, CallInv, Walked, Entrusted, Proven
<1>3. CachesSound'
  <2>1. Later  BY <1>1, <1>2, SameWorld
  <2> QED  BY <1>1, <2>1, SameCaches
<1>4. CASE Answer(c, "failed") /\ UNCHANGED <<store, bound>>
  <2>1. "failed" \in Kinds /\ "failed" # "ran"  BY DEF Kinds
  <2> QED  BY <1>1, <1>4, <2>1, AnswerKeeps DEF grantVars
<1>5. ASSUME Goto(c, "policy", at[c]), UNCHANGED out, StoreSound'
      PROVE  GateInv'
  <2>1. "policy" \in Points \ (Verifying \cup {"done"}) /\ pc[c] # "done"
    BY <1>1 DEF Points, Verifying, Walking
  <2>2. Held(c, "policy", at[c])  BY <1>1, <1>2 DEF Held
  <2>3. Handed(c, "policy", at[c])  BY <1>1, <1>2 DEF Handed
  <2>4. Shown(c, "policy", at[c])  BY <1>1, <1>2 DEF Shown
  <2> QED  BY <1>1, <1>3, <1>5, <2>1, <2>2, <2>3, <2>4, PointKeeps
<1>6. CASE /\ store' = BindGrant(store, NewGrant(c)) /\ bound' = bound + 1
           /\ Goto(c, "policy", at[c]) /\ UNCHANGED out
  <2>1. at[c].evidence \in Evidences  BY <1>1, <1>2 DEF Held
  <2>2. bound \in Nat  BY <1>2 DEF StoreSound
  <2>3. StoreSound'  BY <1>1, <1>2, <1>6, <2>1, <2>2, NewGrantType, BindGrantKeeps
  <2> QED  BY <1>5, <1>6, <2>3
<1>7. CASE Goto(c, "policy", at[c]) /\ UNCHANGED <<store, bound, out>>
  <2>1. StoreSound'  BY <1>1, <1>2, <1>7, SameStore DEF grantVars
  <2> QED  BY <1>5, <1>7, <2>1
<1> QED  BY <1>4, <1>6, <1>7 DEF Bind

-----------------------------------------------------------------------------
(* The invariant.                                                          *)

LEMMA GateInit ==
    ASSUME Init
    PROVE  GateInv
<1>1. setting \in Settings /\ setting.horizon \in 0 .. MaxTime /\ MaxTime \in Nat
  BY GateAssumption DEF Init
<1>2. now = 0 /\ Never \in Nat  BY <1>1 DEF Init, Never
<1>3. WorldType
  <2>1. now \in 0 .. setting.horizon  BY <1>1, <1>2
  <2>2. /\ revokedAt \in [Creds -> Nat] /\ graphAt \in [Ids -> Nat]
        /\ rotatedAt \in [Dids -> Nat]
    BY <1>2 DEF Init
  <2> QED  BY <1>1, <2>1, <2>2 DEF WorldType
<1>4. CallType
  <2>1. "idle" \in Points /\ Local \in Locals  BY LocalFields DEF Points
  <2>2. [kind |-> "none"] \in Outcomes  BY DEF Outcomes
  <2> QED  BY <2>1, <2>2 DEF Init, CallType
<1>5. CachesSound  BY DEF Init, CachesSound, Range
<1>6. StoreSound  BY DEF Init, StoreSound
<1>7. ASSUME NEW c \in Calls
      PROVE  CallInv(c) /\ at[c].proved = FALSE
  <2>1. pc[c] = "idle" /\ at[c] = Local /\ out[c].kind = "none"  BY DEF Init
  <2>2. Timely(c)  BY <1>2, <2>1, LocalFields DEF Timely, Pending
  <2>3. Walked(c)  BY <2>1, LocalFields DEF Walked, Held, Verifying, Walking
  <2>4. Handed(c, "idle", Local)
    BY LocalFields DEF Handed, Verifying, Walking
  <2>5. Entrusted(c)  BY <2>1, <2>4 DEF Entrusted
  <2>6. Proven(c)  BY <2>1, LocalFields DEF Proven, Shown
  <2>7. Approved(c)  BY <2>1 DEF Approved
  <2> QED  BY <2>1, <2>2, <2>3, <2>5, <2>6, <2>7, LocalFields DEF CallInv
<1>8. ProofOnce  BY <1>7 DEF ProofOnce
<1> QED  BY <1>3, <1>4, <1>5, <1>6, <1>7, <1>8 DEF GateInv, TypeOK

LEMMA CallStepKeeps ==
    ASSUME GateInv, NEW c \in Calls, CallStep(c)
    PROVE  GateInv'
<1>1. CASE Start(c)  BY <1>1, StartKeeps
<1>2. CASE EnvelopeVerified(c)  BY <1>2, EnvelopeVerifiedKeeps
<1>3. CASE ResolveChain(c)  BY <1>3, ResolveChainKeeps
<1>4. CASE BeginVerify(c)  BY <1>4, BeginVerifyKeeps
<1>5. CASE SignatureArrives(c)  BY <1>5, SignatureArrivesKeeps
<1>6. CASE StatusArrives(c)  BY <1>6, StatusArrivesKeeps
<1>7. CASE Combine(c)  BY <1>7, CombineKeeps
<1>8. CASE CheckRevocation(c)  BY <1>8, CheckRevocationKeeps
<1>9. CASE Presented(c)  BY <1>9, PresentedKeeps
<1>10. CASE HolderBinding(c)  BY <1>10, HolderBindingKeeps
<1>11. CASE Lookup(c)  BY <1>11, LookupKeeps
<1>12. CASE NextGrant(c)  BY <1>12, NextGrantKeeps
<1>13. CASE GrantVerified(c)  BY <1>13, GrantVerifiedKeeps
<1>14. CASE Bind(c)  BY <1>14, BindKeeps
<1>15. CASE Policy(c)  BY <1>15, PolicyKeeps
<1> QED
  BY <1>1, <1>2, <1>3, <1>4, <1>5, <1>6, <1>7, <1>8, <1>9, <1>10, <1>11, <1>12, <1>13, <1>14,
     <1>15 DEF CallStep

LEMMA GateStep ==
    ASSUME GateInv, [Next]_vars
    PROVE  GateInv'
<1>1. CASE \E c \in Calls : CallStep(c)  BY <1>1, CallStepKeeps
<1>2. CASE Tick  BY <1>2, TickKeeps
<1>3. CASE \/ \E x \in Creds : SetStatusBit(x)
           \/ \E id \in Ids : RevokeInGraph(id)
           \/ \E d \in Dids : RotateKey(d)
  BY <1>3, WorldKeeps
<1>4. CASE \E k \in DOMAIN store : RevokeGrant(k)  BY <1>4, RevokeGrantKeeps
<1>5. CASE Cleanup  BY <1>5, CleanupKeeps
<1>6. CASE Quiet \/ UNCHANGED vars  BY <1>6, StutterKeeps DEF Quiet
<1> QED  BY <1>1, <1>2, <1>3, <1>4, <1>5, <1>6 DEF Next

LEMMA GateInvariant == Spec => []GateInv
<1>1. Init => GateInv  BY GateInit
<1>2. GateInv /\ [Next]_vars => GateInv'  BY GateStep
<1> QED  BY <1>1, <1>2, PTL DEF Spec

-----------------------------------------------------------------------------
(* The properties.                                                         *)

\* The types of everything the gate keeps.
THEOREM GateTyped == Spec => []TypeOK
<1>1. GateInv => TypeOK  BY DEF GateInv
<1> QED  BY <1>1, GateInvariant, PTL

\* A call that ran kept to the grant it used, which was bound for its session or its
\* agent and not revoked before it began, and an action rated high had its approvers:
\* the grant loop and withPolicyGate.
THEOREM CallsRunWithinGrant == Spec => []RunsWithinGrant
<1>1. GateInv => RunsWithinGrant
  <2> SUFFICES ASSUME GateInv PROVE GrantConfined /\ ApprovedBeforeRun
    BY DEF RunsWithinGrant
  <2>1. \A c \in Ran : c \in Calls /\ out[c].kind = "ran"  BY DEF Ran
  <2>2. GrantConfined
    BY <2>1 DEF GateInv, CallInv, Entrusted, GrantConfined
  <2>3. ApprovedBeforeRun
    BY <2>1 DEF GateInv, CallInv, Approved, Quorate, ApprovedBeforeRun
  <2> QED  BY <2>2, <2>3
<1> QED  BY <1>1, GateInvariant, PTL

\* Under enforce, the authority of a did:key agent is used with a proof of its own, and a
\* proof for one call only: assertHolderBinding on both paths.
THEOREM HoldersProve == Spec => []HolderProved
<1>1. GateInv => HolderProved
  <2> SUFFICES ASSUME GateInv, Mode = "enforce", NEW c \in Ran, RanLeaf(c).agent \in KeyDids
               PROVE  /\ Request[c].proof # None
                      /\ Request[c].proof.by = RanLeaf(c).agent /\ Request[c].proof.good
                      /\ \A d \in Ran \ {c} : RanLeaf(d).agent \in KeyDids =>
                           Request[d].proof.nonce # Request[c].proof.nonce
    BY DEF HolderProved
  <2>1. \A d \in Ran : d \in Calls /\ out[d].kind = "ran"  BY DEF Ran
  <2>2. \A d \in Ran : RanLeaf(d).agent \in KeyDids =>
           at[d].proved /\ Request[d].proof.by = RanLeaf(d).agent
    BY <2>1 DEF GateInv, CallInv, Proven
  <2>3. Request[c].proof # None /\ Request[c].proof.good
    BY <2>1, <2>2 DEF GateInv, CallInv, Proven, Shown
  <2>4. \A d \in Ran \ {c} : RanLeaf(d).agent \in KeyDids =>
           Request[d].proof.nonce # Request[c].proof.nonce
    BY <2>1, <2>2 DEF GateInv, ProofOnce
  <2> QED  BY <2>2, <2>3, <2>4
<1> QED  BY <1>1, GateInvariant, PTL

\* A finite set of numbers that has an element has a greatest one.
LEMMA GreatestExists ==
    ASSUME NEW places \in SUBSET Nat, IsFiniteSet(places), places # {}
    PROVE  \E m \in places : \A j \in places : j <= m
<1>1. PICK n \in Nat : n = Cardinality(places) /\ n # 0
  BY FS_CardinalityType, FS_EmptySet
<1>2. PICK m \in places : Cardinality({j \in places : j <= m}) = n
  <2>1. n \in 1 .. Cardinality(places)  BY <1>1
  <2> QED  BY <2>1, KthExists
<1>3. PICK below : below = {j \in places : j <= m}  OBVIOUS
<1>4. below \subseteq places /\ Cardinality(below) = Cardinality(places)  BY <1>1, <1>2, <1>3
<1>5. below = places  BY <1>4, FS_Subset
<1> QED  BY <1>3, <1>5

\* Down a chain whose links attenuate, what the leaf grants every credential with scopes
\* above it grants.
LEMMA ChainConveys ==
    ASSUME NEW chain \in Seq(Creds), NEW v \in Values, ~HasDotSegment(v), chain # <<>>,
           \A k \in 2 .. Len(chain) :
              ValidateScopeAttenuation(Cred[chain[k - 1]].authority, Cred[chain[k]].authority),
           ScopeSatisfies(v, Cred[chain[Len(chain)]].authority)
    PROVE  \A k \in 1 .. Len(chain) :
              \/ ScopeAuthority(Cred[chain[k]].authority) = {}
              \/ ScopeSatisfies(v, Cred[chain[k]].authority)
<1> DEFINE authority(k) == Cred[chain[k]].authority
           Conveyed(k) == ScopeAuthority(authority(k)) = {} \/ ScopeSatisfies(v, authority(k))
           lost == {k \in 1 .. Len(chain) : ~Conveyed(k)}
<1>1. Len(chain) \in Nat /\ Len(chain) # 0  OBVIOUS
<1>2. \A k \in 1 .. Len(chain) : authority(k) \in Authorities  BY GateAssumption
<1> SUFFICES ASSUME lost # {} PROVE FALSE  OBVIOUS
<1>3. lost \in SUBSET Nat /\ IsFiniteSet(lost)
  <2>1. lost \subseteq 1 .. Len(chain)  OBVIOUS
  <2>2. IsFiniteSet(1 .. Len(chain))  BY <1>1, FS_Interval
  <2> HIDE DEF lost
  <2>3. 1 .. Len(chain) \subseteq Nat  BY <1>1
  <2> QED  BY <2>1, <2>2, <2>3, FS_Subset
<1>4. PICK k \in lost : \A j \in lost : j <= k
  <2> HIDE DEF lost
  <2> QED  BY <1>3, GreatestExists
<1>5. k \in 1 .. Len(chain) /\ ~Conveyed(k)  OBVIOUS
<1>6. k # Len(chain)  BY <1>5
<1>7. PICK n \in 2 .. Len(chain) : n = k + 1  BY <1>1, <1>5, <1>6
<1>8. n \notin lost /\ n \in 1 .. Len(chain) /\ k = n - 1
  <2>1. k \in Nat /\ n \in Nat /\ n \in 1 .. Len(chain) /\ k = n - 1 /\ ~(n <= k)
    BY <1>1, <1>5, <1>7
  <2>2. n \notin lost
    <3> HIDE DEF lost
    <3> QED  BY <1>4, <2>1
  <2> QED  BY <2>1, <2>2
<1>9. Conveyed(n)  BY <1>8
<1>10. ValidateScopeAttenuation(authority(k), authority(n))  BY <1>8
<1>11. ScopeAuthority(authority(k)) # {}  BY <1>5
<1>12. ScopeAuthority(authority(n)) # {}  BY <1>10, <1>11 DEF ValidateScopeAttenuation
<1>13. ScopeSatisfies(v, authority(n))  BY <1>9, <1>12
<1>14. authority(k) \in Authorities /\ authority(n) \in Authorities  BY <1>2, <1>5, <1>8
<1> HIDE DEF authority
<1>15. ScopeSatisfies(v, authority(k))  BY <1>10, <1>11, <1>13, <1>14, LinkAttenuates
<1> QED  BY <1>5, <1>15

\* The agent a call ran for was really given the tool's scope, down an unbroken line of
\* credentials from a trusted issuer, whatever chain the resolver returned, and each of
\* them stood when the call began, but for what the caches declare: the chain walk, the
\* verification of each credential and its caches.  A required scope with a dot segment
\* is left out: matchers do not attenuate there (AttenuationOnly).
THEOREM AuthorityIsSound ==
    ASSUME \A c \in Calls : ~HasDotSegment(Request[c].scope)
    PROVE  Spec => []AuthoritySound
<1>1. GateInv => RevokedIsRefused
  <2> SUFFICES ASSUME GateInv, NEW c \in Ran, NEW x \in Range(out[c].chain)
               PROVE  LET start == out[c].started IN
                      /\ start <= Cred[x].expires
                      /\ Cred[x].listed => revokedAt[x] + Slack(setting.statusTtl) >= start
                      /\ setting.checker => graphAt[Cred[x].id] >= start
                      /\ rotatedAt[Cred[x].signer] + Slack(setting.sigTtl) >= start
    BY DEF RevokedIsRefused
  <2>1. c \in Calls /\ out[c].kind = "ran"  BY DEF Ran
  <2>2. PICK chain \in Seq(Creds) : chain = out[c].chain
    BY <2>1, RanOutcome DEF GateInv, TypeOK
  <2>3. PICK t : t = out[c].started  OBVIOUS
  <2>4. Vetted(chain, Last(chain), t)  BY <2>1, <2>2, <2>3 DEF GateInv, CallInv, Walked
  <2>5. PICK j \in 1 .. Len(chain) : x = chain[j]  BY <2>2 DEF Range
  <2>6. Passed(chain, j, t) /\ (setting.checker => GraphStood(chain[j], t))
    BY <2>4 DEF Vetted
  <2> QED
    BY <2>3, <2>5, <2>6 DEF Passed, SignedSince, KeyStood, StatusStood, GraphStood
<1>2. GateInv => AuthorityGenuine
  <2> SUFFICES ASSUME GateInv, NEW c \in Ran
               PROVE  Entitled(Last(out[c].chain), Request[c].scope)
    BY DEF AuthorityGenuine
  <2>1. c \in Calls /\ out[c].kind = "ran"  BY DEF Ran
  <2>2. PICK chain \in Seq(Creds) : chain = out[c].chain
    BY <2>1, RanOutcome DEF GateInv, TypeOK
  <2>3. PICK t : t = out[c].started  OBVIOUS
  <2>4. PICK v \in Values : v = Request[c].scope /\ ~HasDotSegment(v)
    BY <2>1, GateAssumption
  <2>5. Vetted(chain, Last(chain), t) /\ ScopeSatisfies(v, Cred[Last(chain)].authority)
    BY <2>1, <2>2, <2>3, <2>4 DEF GateInv, CallInv, Walked, RanLeaf
  <2>6. PICK n \in 1 .. MaxChain : n = Len(chain) /\ Last(chain) = chain[n]
    BY <2>5 DEF Vetted, LeadsTo
  <2>7. \A k \in 1 .. n : Passed(chain, k, t)  BY <2>5, <2>6 DEF Vetted
  <2>8. n \in Nat /\ n >= 1  BY GateAssumption
  <2>9. \A k \in 2 .. n :
          LET x == Cred[chain[k]]
              parent == Cred[chain[k - 1]]
          IN /\ x.parent = parent.id /\ x.signer = parent.subject
             /\ ValidateScopeAttenuation(parent.authority, x.authority)
    BY <2>7, <2>8 DEF Passed, Linked
  <2>10. Cred[chain[1]].parent = None /\ Cred[chain[1]].signer \in setting.trusted
    <3>1. PICK first \in 1 .. n : first = 1  BY <2>8
    <3>2. Linked(chain, first)  BY <2>7 DEF Passed
    <3> QED  BY <3>1, <3>2 DEF Linked
  <2>11. \A k \in 1 .. n :
           \/ ScopeAuthority(Cred[chain[k]].authority) = {}
           \/ ScopeSatisfies(v, Cred[chain[k]].authority)
    <3>1. chain # <<>>  BY <2>6, <2>8
    <3> QED  BY <2>4, <2>5, <2>6, <2>9, <3>1, ChainConveys
  <2>12. \A k \in 1 .. n : chain[k] \in Creds /\ Conveys(chain[k], v)
    <3> SUFFICES ASSUME NEW k \in 1 .. n PROVE chain[k] \in Creds /\ Conveys(chain[k], v)
      OBVIOUS
    <3>1. chain[k] \in Creds  BY <2>6
    <3>2. Passed(chain, k, t)  BY <2>7
    <3>3. Cred[chain[k]].authentic /\ AudienceOK(chain[k])
      BY ONLY <3>2 DEF Passed, SignedSince
    <3>4. \/ ScopeAuthority(Cred[chain[k]].authority) = {}
          \/ ScopeSatisfies(v, Cred[chain[k]].authority)
      BY <2>11
    <3>5. Conveys(chain[k], v)  BY ONLY <3>3, <3>4 DEF Conveys
    <3> QED  BY <3>1, <3>5
  <2>13. chain \in [1 .. n -> {y \in Creds : Conveys(y, v)}]
    <3>1. chain \in [1 .. n -> Creds]  BY <2>6
    <3> QED  BY <2>12, <3>1
  <2>14. \A k \in 2 .. n : /\ Cred[chain[k - 1]].id = Cred[chain[k]].parent
                           /\ Cred[chain[k - 1]].subject = Cred[chain[k]].signer
    BY <2>9
  <2>15. Entitled(chain[n], v)  BY ONLY <2>6, <2>10, <2>13, <2>14 DEF Entitled
  <2> QED  BY <2>2, <2>4, <2>6, <2>15
<1>3. GateInv => AuthoritySound  BY <1>1, <1>2 DEF AuthoritySound
<1> QED  BY <1>3, GateInvariant, PTL
=============================================================================
