# Verification of the KYA-OS MCP implementation

TLA+ specifications, TLC models and TLAPS proofs for the TypeScript package in `src/`: an identity, delegation,
proof and audit layer for MCP servers. `PROJECT.json` maps every definition to the lines it models and lists the
runs, the mutants, the hazards and the theorems. File names below are relative to `src/src/`.

## 1. Inventory

All of the code is asynchronous single-threaded JavaScript, run by one or several processes. Two handlers of one
process interleave where one awaits; two processes interleave at the stores they share. An action of these modules is
therefore what a function does between two awaits, and the hard behaviours are always of the same kinds: state read
before an await and used after it, a provider that fails after it acted, a process that dies between two steps, two
processes over one store, and limits (retry budgets, windows, capacities).

| Part | State | Operations | Works with | Must hold |
|---|---|---|---|---|
| Recorder (`audit/recorder-service.ts`) | highest committed and reported head, evidence holds, the genesis promise | `submitAuthenticated`: lookup, genesis, seal, evidence, append with retries, compensation | journal, evidence store, epoch guard | one hash chain, an event once, receipts durable, evidence of committed entries kept |
| Producer trail (`audit/service.ts`, `providers/source-state.ts`, `providers/outbox.ts`) | claimed, emitted and receipted sequences of each source; outbox; construction chain | `record`, `recordSourceHighWater`, `flush` | recorder client | links never wrong, source order, nothing accepted is dropped, watermarks honest |
| Replay admission (`providers/nonce-*.ts`, `providers/memory.ts`, `session/manager.ts`, `proof/verifier.ts`, `card/proof/*`) | nonce records with expiry, skew | window check, retention, `consume` or `has`/`add`, sweep, `setTimestampSkew` | clock, verifiers | a message is admitted once; a forged one spends nothing |
| Proof layer (`middleware/with-kya-os.session.ts`, `kya-os-transport.ts`) | claims waiting for their result, budgets, memory of closed claims, open transports | wrap, leave, send, expire, evict, close, notify | MCP SDK, audit trail, sessions | a claim is redeemed once and for its tool, one terminal record a call |
| Sessions (`session/*.ts`, `ensureSession` and friends) | session map and insertion order, active id, creation in flight, last sweep | handshake, get, sweep, clear, auto session | proof layer | capacity, eviction order, one auto session, honest ambiguity |
| Revocation (`delegation/delegation-graph.ts`, `cascading-revocation.ts`, `statuslist-manager.ts`, memory storages) | node objects with children and marks, status list, index counter, list locks | register, remove, revoke with cascade, restore, allocate, check | status list storage, verifiers | revoked stays revoked, bits are not lost, cascades are complete |
| Delegation gate and grants (`middleware/with-kya-os.delegation-*.ts`, `with-kya-os.grants.ts`, `with-kya-os.policy-gate.ts`, `providers/grant-store.ts`, `policy/*`) | durable grants | wrap with delegation, resolve or bind a grant, revoke, clean up, policy decision, approval | verification, proof layer, audit | a handler runs only under authority somebody really gave, proved by its holder; a grant stays in its session and dies when revoked; a retry needs no second paste |
| Credential verification (`delegation/vc-*.ts`, `chain-enforcement.ts`, `holder-binding.ts`, `scope-matcher.ts`, `status-cache.ts`, resolvers) | caches of verifications, statuses and documents | basic checks, signature, status, chain, holder binding, scope | DID resolvers, status lists | no chain the resolver makes up is accepted, attenuation along the chain, no answer older than declared |
| Authorization (`authz/*`, `auth/handshake.ts`) | pending flows and resume tokens with expiry | initiate, callback (consume and exchange), verify or hint, sweep | identity provider, reputation service, delegation verifier | a flow is redeemed once and by its own agent; nobody is authorised without merit; a token lives as long as it was advertised |
| Status list bytes (`delegation/bitstring.ts`, `utils/statuslist-*.ts`) | one byte array | set, clear, encode, decode, read | revocation, verifiers | bytes behave as a set of indices; what cannot be read fails |
| Credential issuing and outbound delegation (`types/protocol.ts`, `delegation/vc-issuer.ts`, `utils.ts`, `outbound-*.ts`) | none | wrap, sign, write as JWT, read back, forward | clock, verifiers | no reader sees more than was granted, or later |
| Checkpoints and copies (`audit/checkpoint*.ts`, `merkle.ts`, `providers/observer.ts`, `anchor.ts`, `mirror-service.ts`, `read-service.ts`, `projection.ts`) | stored checkpoints, failed hooks, receipts, mirror journal, projection and its offset | create, publish with retry, observe, anchor, ingest, page, synchronize, rebuild, reconcile | recorder journal | one chain over one history, an observer signs for one history, copies are prefixes |
| Audit verification (`audit/verifier.ts`, `replay-bundle.ts`, `schemas.ts`, `integrity.ts`) | none | checks of entries, checkpoints, observations, keys and bundles | exporter, policy | an honest export verifies, what verifies is genuine |
| Guarded fetching (`utils/safe-fetch*.ts`, `ip-classifier.ts`) | one request with its hop | resolve, pin, connect, redirect, read | DNS, servers | no connection outside the origin or to a private address |
| DID resolution (`providers/runtime-fetch.ts`, `delegation/did-*.ts`, `utils/did-helpers.ts`) | document cache | resolve, clear, invalidate | guarded fetching | documents are the DID's own, dropped keys fade |
| Entity card (`card/*`) | nonces, status lists in use | build, emit, resolve, bind, verify, gate a request | DID resolution, status lists, replay admission | a card is its DID's, assurance is earned, chains confine |
| Detached proofs (`proof/*`, `utils/crypto-service.ts`, `delegation/holder-binding.ts`) | consumed nonces | mint, extract, fetch the key, verify | DID resolution, replay admission | a proof is accepted for its exchange and for no other |
| Evidence store (`audit/evidence.ts`) | objects with their bytes and holds | seal, open, put, has, get, hold, release, dispose | recorder, access policy | held evidence stays, disposed evidence is gone, bytes open only as they were sealed |
| cheqd integration (`integrations/cheqd/*`, `delegation/did-linkage.ts`) | document cache, list cache, the flag that asks for a fresh list | check status, resolve, clear, invalidate, link, publish, create and update through the registrar | a ledger, its registrar and resolver, a signer | statuses come from the issuer's own recent list, writes are what was reported |
| MCP extension, server assembly, audit adapters, reference recorder, crypto providers, logging | none, or a cache | construction, mapping, I/O | | |

`PROJECT.json` names the same parts under `components`, with the status of each, and what is hard to test in them under
`hazards`.

## 2. Modules

Each component has a module; `MC<module>` fixes its constants for TLC. Names follow the source.

A module has a constant `Settings` and a variable `setting` that no step changes: the calls a behaviour makes, the
faults it meets and the configuration it runs under are chosen in `Init`. One run so covers several scenarios, the
union of their state spaces, without their product, and a theorem about `Spec` covers every scenario.

- **AuditRecorder** (with **AuditLedger**, what an epoch promises). `Submit` to `Dispose`
  follow `submitAuthenticated`; `Relookup`, `Snapshot`, `ReadHead`, `CompareAndAppend` and the `Handle*` actions are
  the loop of `appendEvent`, run by a call for its event and by a replica for genesis. A digest is the sequence of the
  signing acts it commits to, so a chain of digests needs no hashing. The journal may lag (`ReadableHeads`, `MayMiss`),
  fail with or without having appended, and be restored to a prefix. `RestoreJournal` and the epoch guard are external.
- **AuditTrail**. A job is a `record()`, an invalid one or a high-water declaration; a flusher is a `flush()` loop.
  `ClaimEvent`, `AbandonClaim`, `MarkEmitted` and `MarkReceipted` are the memory source state. The recorder appears as
  `CommitEvent`, which accepts an identity once, answers for it again, and may fail with or without committing.
- **ReplayAdmission**. Three window rules and one retention rule over a clock of `Tps` ticks a second, so that rules in
  whole seconds and a cache in milliseconds disagree as they do in the code.
- **ProofLayer**. Claims are left by a wrapper (`LeaveToOuterLayer`), and taken by `LayerSend`, `Expire`, eviction,
  the last close and by any message that carries the id (`FoundIds`). Handlers run other wrapped tools in process and
  return, nest or serialise what they got. What the MCP SDK does with results (`Replace`, `Drop`, `Resend`) is external.
- **Sessions**. The memory store returns the stored object itself, so an object outlives its deletion while a reader
  holds it; `obj` is that heap, `order` is `insertionOrder`. `Filter` is `filter` by positions; an assumption of
  MCRuntime compares it with `SelectSeq`.
- **Revocation**. `heap` holds node objects: `setNode` stores a new object or writes a copy back, as the storages do.
  `queue` is the list lock of each manager; a bitstring is the set of its bits.
- **DelegationGate**. A call goes from `Start` through `Verify` (the envelope of a JWT), `ResolveChain`, the walk
  (`BeginVerify`, `SignatureArrives`, `StatusArrives`, `Combine`) and `CheckRevocation` to a verdict; from there
  `Presented`, `HolderBinding` and `Bind` for a presented credential, or `Lookup`, `NextGrant` and `GrantVerified` for
  a grant, whose evidence takes the same walk again; then `Policy`. The two caches are sequences with the boundary,
  the overwriting and the eviction of `TtlCache`. A credential is a record of what it says, of who signed it and of
  whether that signature is genuine (`authentic`); `Answers` is what a resolver that is not honest may return. Around
  the calls an issuer sets status bits, a graph revokes, a DID rotates its key and the clock runs.
  `Filter` is `Array.prototype.filter` by positions, which a proof can use; an assumption of MCDelegationGate compares it
  with `SelectSeq`.
- **ScopeMatcher** and **ScopeChain**. The matchers and containment rules of
  `scope-matcher.ts` as operators on sequences of characters, used by DelegationGate; and a chain that grows by
  credentials that pass `validateScopeAttenuation`, which looks at one link at a time.
- **AuditArtifacts**, **AuditVerifier**, **AuditEvidence**. The first two are operators: the RFC 9162 tree
  with both proofs and both verifiers, the signed artifacts with their schemas and key trust, and every reason code
  and verdict of the offline verifier and of `verifyAuditBundle`. A digest is the tuple of what it hashes, a signature
  the pair of signer and content. **AuditEvidence** is the machine that makes the artifacts: builders with their
  serialised section, hooks and retries, observers, an anchor, mirror deliveries, a paging reader, projection workers
  and, at the end, an export that is verified as it is or altered by an exporter or a carrier. `Restore` puts the
  journal back to a prefix.
- **IpClassifier**, **SafeFetch**. One `safeFetch()` call over both transports; each DNS answer and each response is
  chosen by the network when it is asked, so the screen and the connection may see different ones.
- **Dids**, **DidResolution**. Parsing and validation of did:key and did:web as operators; lookups with a document
  cache while the subject adds and drops keys.
- **EntityCard**, **CardDelegation**, **CardVerifier**. The builder, the surfaces, the request proof, the delegation
  chain with caveats and decimals, and the machine that resolves and verifies a card while its
  subject moves, revises, rotates and is revoked. Each await is a step.
- **DetachedProof**, **ProofExchange**. Hashes, covered request shapes, minting and verification of a proof as
  operators over JSON objects as functions; the machine has a signer, a channel that mixes parts of proofs, and
  verifiers in each of the entry points.
- **Authorization**, **StatusBits**, **Issuing**. Pending flows, resume tokens and the handshake between an identity
  provider and a reputation service; the bytes behind the sets of Revocation; records, credentials, JWTs and outbound
  headers with their bounds in ticks and in seconds.
- **Cheqd**. A ledger that keeps its versions with their time, so that a property can say how old an answer is. Checks,
  links and registrar flows are calls with one step per await; a response is chosen when it is served (`ServeList`,
  `ServeDocument`) and used when it arrives. The ledger itself, which takes a write only with the signatures of a method
  of the document, is external.
- **EvidenceStore**. The encryptor and the memory provider. A ciphertext is the record of what went into it; `Get`,
  `Decide` and `Return` are one `get` around its two awaits. AuditRecorder keeps its own, smaller store, with the
  failures the recorder meets.

Proofs are in modules of their own, named after what they prove about (section 4).

Six MC modules put several components into one run: **MCAudit** (trail and recorder), **MCRuntime** (proof layer and
sessions), **MCLiveness** (trail and proof layer with their fairness), **MCRevocation** (graph, bytes, issuing,
handshake, ledger), **MCAuditEvidence** (checkpoints and copies, sealed objects) and **MCIdentity** (admission, fetching, DIDs, cards, proofs). The components of a run share no state: a
variable `part` picks the one a behaviour exercises and the others rest, so the state spaces add up. Where one
component needs another, the other appears in its module by what it promises (the recorder as `CommitEvent` in
AuditTrail, the session as present or gone in ProofLayer, admission as a set of nonces in CardVerifier and ProofExchange).

## 3. Runs

A run checks deadlock unless its calls are finite and the system rightly stops when they are served
(`CHECK_DEADLOCK FALSE`); in AuditRecorder the action `Quiescent` is the idle server. A property that has several parts
is the conjunction of them; the parts are named definitions next to it, and the mutants show each of them at work.

| Run | Exercises | Properties and their parts |
|---|---|---|
| `audit` | Recorder: redelivery to two replicas with stale reads and ambiguous append failures; restores between attempts; shared evidence with failing providers; a linked epoch with a retained event, a pinned call, a foreign configuration and a failing seal; contention and an identity conflict without faults. Trail: two sources with one event ID in one outbox under two overlapping flushes; an outbox acknowledged by bare ID; an event offered twice to one flush; rejected input, failing builds, redelivery past the window, a high-water declaration; two processes of one source with crashes | `ChainIntegrity`; `EvidenceRetained`; `ReceiptsHold` (`ExactlyOnce`, `ReceiptDurable`, `NoSecondReceipt`); `NoFalseRefusal` (`NoFalseRegression`, `RecordedUnlessRefused`); `SourceHistorySound` (`SourceChainSound`, `SourceOrder`); `AnswersHonest` (`HighWaterHonest`, `NothingLost`) |
| `recorder_live` | Every fault at once and a crash; the redelivery race | `EveryCallAnswered`; `ImplementsLedger`: the replicas implement `AuditLedger` |
| `liveness` | Transient failures of a producer's providers; claims that wait for an answer | `TrailDelivers` (`RecordSettles`, `EventuallyDelivered`); `ClaimSettles` |
| `runtime` | Layer: claims that send, timer, eviction and the last close compete for, at budgets of one; handlers that run other tools in process. Sessions: the store at its limit, the fallback session across an expiry, concurrent first calls | `EndsOnce` (`RedeemedOnce`, `SettledOnce`); `ProofsBelong` (`ProvedForItsTool`, `ExposedIsVoid`); `WithinBudget`; `StoreSound` (`LiveOnceInOrder`, `OneAutoSession`); `GivesUpRightly` (`EvictsOldest`, `AmbiguousOnlyIfSeveral`) |
| `revocation` | Twelve scenarios of overlapping cascades, registrations, removals, restores and allocations; lists of up to two bytes; records with every combination of bounds, forwarded for sessions of their delegate and of others; two callbacks for two flows; handshakes whose reputation service fails; a ledger whose list revokes and whose keys rotate under two checks, overlapping links, writes that fail at each stage, clearings and an invalidation | `BitsKept`; `RevocationHolds` (`StillRevoked`, `CheckedRevoked`, `CascadeComplete`); `LedgerSound` (`StatusFromLedger`, `InvalidationSeen`, `WritesAsReported`); `MarkKept`; `AuthorizationEarned` (`FlowRedeemedOnce`, `AuthorizedOnMerit`); `KeptAsAdvertised`; `StatusReadsBack`; `IssuedFaithfully` |
| `gate` | Twenty-nine settings: resolvers that return any chain, and every collaborator failing; credentials revoked, expired or signed with a rotated key behind warm caches; grants used by other sessions, revoked and expired, in each holder binding mode; proofs used twice; approvals of other actions or of one approver twice | `AuthoritySound` (`AuthorityGenuine`, `RevokedIsRefused`); `HolderProved`; `RunsWithinGrant` (`GrantConfined`, `ApprovedBeforeRun`); `RetryResolves` |
| `evidence` | Nine settings over a journal of up to four entries: failing hooks, two builders, restores, lost replies and failing backoffs, a mirror fed twice and out of order, a reader, two projection workers; exports of every range with every subset of checkpoints, honest or altered, under three policies; two sealed objects under puts, a read, holds and disposals | `CheckpointsSound` (`CheckpointsChain`, `HooksNotLost`); `ObserverOneHistory`; `CopiesFaithful` (`MirrorFaithful`, `PagingComplete`, `ProjectionFaithful`); `HonestExportVerifies`; `ValidIsGenuine`; `EvidenceGoverned` |
| `identity` | One message presented twice beside forged copies and late uses; fetches with any DNS answer, redirect and body; lookups while keys change; cards on every surface, verified while they change, with a status list whose host serves the current version, superseded or altered ones; delegation chains with every pair of caveats; proofs in every shape through a channel that mixes them | `ReplayGuarded` (`AdmittedOnce`, `ReplayedOnlyIfSpent`); `FetchConfined`; `ResolvedKeysCurrent` (`ResolvedIsOwn`, `RetiredKeyFades`); `CardStands` (`CardIsTheDids`, `RevokedCardRefused`); `AssuranceEarned`; `ChainConfines`; `ProofsDecide` (`BoundToExchange`, `HonestProofVerifies`) |
| `layer_twice`, `scope_dots`, `hooks_order`, `relative_ids` | | Findings 1 to 4 below |

The type invariant of a module is a conjunct of one of its properties; those of AuditRecorder and DelegationGate are
proved instead (section 4). Every property has at least one mutant: a plausible bug in the code it speaks of, under which TLC finds it
violated.

**Bounds.** Two replicas and three calls are the smallest race with a third party that moves the head; the retry budget
covers the other appends in the scenarios without faults and not in those with them. Two restores let the journal go
back twice between attempts. Two flush loops, two sources with one event id and a redelivery window of one make every
overlap of `flush` and every way to leave the window happen. Two ticks a second and windows of one or two seconds place
a presentation at, before and after each boundary. Claim budgets are one or two claims, so eviction and the closed-claim
memory are at their limit at once. Three sessions in a store of two, and a clock that passes the expiry, reach every
order of eviction, sweep and read. The revocation graph has a path of three and a sibling, which a cascade that stops at
children, or that misses a late registration, gets wrong. Status lists of ten bits have a partial second byte; indices
run from -1 past the end of that byte. In the gate, chains of three with a cache of two entries make eviction happen
inside one walk, and the clock runs one tick past the cache's time to live plus the latency of a request, so that
`RevokedIsRefused` is tight: without either summand it is violated. Journals of up to four entries give trees of every
shape with an inner node, and checkpoints of every pair of sizes below that. Addresses are one on each side of every
boundary of the blocked ranges, in each way an IPv4 address is written inside an IPv6 one. Amounts have up to two decimals
(`MaxDigits`), enough for two that differ only beyond the other's last digit. The ledger's clock
(`CheqdTime`) passes the age of a list cached at the last moment, a flight and the document cache; one reader, two
objects and two holds are enough for a read around a disposal and for a release that is not the last. `MaxTime`, `MaxRestores`,
`MaxCrashes`, `MaxTrailCrashes` and `maxResends` bound what is otherwise unbounded. Permutations of unthreaded calls and
of clients are symmetries in `runtime`, where nothing distinguishes them and no liveness is checked.

**Fairness.** Weak fairness of a process's own continuations: the event loop runs what is ready, timers fire, and
providers settle the promises they returned. `liveness` also assumes strong fairness of acceptance and acknowledgement:
a host calls `flush()` again and again and no item fails every time (with an item that always fails the outbox starves
what is behind the limit; see the hazard at `providers/outbox.ts:90`). Nothing is assumed of clients, handlers or the SDK.

## 4. Proofs

Everything in this section holds for every value of the constants: any sets of replicas, calls, credentials, messages,
objects or transports, any `Settings`, any bounds. Each module assumes only its named assumption on the constants
(`RecorderAssumption`, `TrailAssumption`, `SealedAssumption`, `SafeFetchAssumption`, `ResolutionAssumption`, `AdmissionAssumption`,
`ProofLayerAssumption`, `SessionsAssumption`, `GateAssumption`, `ScopeAssumption`, `RevocationAssumption`,
`CheqdAssumption`, `AuthAssumption`, `EvidenceAssumption`, `CardProofAssumption`, `DecimalAssumption`, `CardAssumption`), which says what kind of thing each constant is; Revocation also assumes `ForestAssumption`: the
parents of delegations form a forest, and what is registered at the beginning has its ancestors. `CheqdAssumption` says
besides that who serves something else than the ledger holds forges no signature of the issuer and no document of its
DID. `CardAssumption` says of a setting that the card and the keys published for the holder are its own, that a card or a
credential has at most one status entry, and that no one else has a page where another spelling of the holder's DID
leads to; `DecimalAssumption` that `Tens` are the powers of ten up to `MaxDigits`. A theorem that needs more says so in
its statement.

**AuditRecorderProofs**, about AuditRecorder.

- `TypeCorrect`: `Spec => [](TypeOK /\ HoldsBalanced)`. Type correctness is not inductive by itself: a hold count stays
  a natural number only because each release belongs to a call that still holds the object. `HoldsBalanced` says so:
  the count of an object is the number of calls of this replica in flight that carry it. One lemma for every way a
  call ends shows that release and departure go together.
- `ChainCorrect`: `Spec => [](ChainIntegrity /\ ExactlyOnce)`. The journal compares heads and looks up identities, but
  whether the first entry is a genesis event was decided when the candidate was signed, some steps before. The
  inductive invariant `ChainInv` adds `CandidatePosition`: a candidate waiting to be appended is a genesis event iff the
  head it was signed for is null. `LogStep` shows that only `CompareAndAppend` and a restore touch the log,
  `AppendFacts` and `RestoreFacts` what they keep of it.
- `NeverFalselyRegressed`: `Spec => []NoFalseRegression`. `StepFacts` reduces the actions to a few views:
  what a step may do to the attempts, whom it tells a receipt, whom it accuses of a regression and what it does to the
  journal. `ReceiptInv` then says that every head a process carries, or a replica remembers, is on the log (`HeadsOn`),
  that every reply names an entry that is (`RepliesOn`), and that a candidate was signed once (`SignedOnce`).
- `ReceiptsAreHonoured`: `Spec => []ReceiptsHold`, if a journal is restored only between attempts and without a crash
  (`RestoresAreQuiet`, the setting of the runs; outside it the property is false, see section 5). It needs `HeadCovers`
  and `SteadyInv` besides: across a restore, the remembered head of a replica covers every receipt it gave.
- `RecorderImplementsLedger`: without restores, `Spec => ImplementsLedger`. A step commits one entry (`CommitRefined`), hands out
  one receipt (`AcknowledgeRefined`), or stutters. The second needs `ReceiptInv`: a receipt names an entry on the log.

**DelegationGateProofs**, about DelegationGate. One inductive invariant, `GateInv`, carries three theorems. It has to
follow what a call knows through all its awaits: `Timely` (answers in flight and cached are no older than their time to
live and the latency of a request), `Walked` (the part of the chain walked so far is verified, linked and stood when
the call began), `Handed` and `Entrusted` (what a grant or a presented credential let the call use, from the lookup to
the handler), `Proven`, `ProofOnce` and `Approved`; and `CachesSound` and `StoreSound` say what a hit of a cache and a
row of the store still vouch for. There is a lemma per action.

- `AuthorityIsSound`: `Spec => []AuthoritySound`, for required scopes without a dot segment (with one it is false,
  Finding 2). At the end of the walk the invariant knows of neighbours only. `ChainConveys` carries the scope up the
  chain with `LinkAttenuates`, taking the last link at which it could have been lost.
- `CallsRunWithinGrant`: `Spec => []RunsWithinGrant`, and `HoldersProve`: `Spec => []HolderProved`, without a premise.
- `GateTyped`: `Spec => []TypeOK`.

**ScopeChainProofs**, about ScopeMatcher and ScopeChain, has the facts about `scope-matcher.ts`: `ContainmentSound`, what
the inner pattern matches the outer one matches, rule by rule, and `LinkAttenuates`, which lifts it from matchers to
credentials. It proves `PlainPathsAttenuate`: `ChainSpec => [](AttenuationOfPlainPaths /\ RestrictionKept)`. What a credential of an
accepted chain grants, every ancestor that has scopes grants, for values without a dot segment; and a chain that is
restricted once never drops back to a credential without scopes. The code checks neighbours only, so the invariant
`LinksInv` relates every pair, and its step needs `RestrictionKept`: an unrestricted credential in the middle would let
anything pass.

**IdentityProofs**, about what establishes who sent a message: SafeFetch with IpClassifier, DidResolution, ReplayAdmission,
CardVerifier.

- `FetchesStayConfined`: `FetchSpec => []FetchConfined`. `PublicHolds` is the lemma about `isBlockedAddress`: an address it
  lets pass is outside of every special-purpose block, as written in IpClassifier from the registries, also when an IPv4
  address is embedded in an IPv6 one in any of the ways the code decodes. It needs that addresses are texts
  (`AddressText`, an assumption of SafeFetch). `FetchInv` carries the screening across the awaits: an address about to be
  pinned has passed it, the url of a hop is https and of the origin asked for, and there is a connection per hop at most.
- `ResolutionsAreCurrent`: `ResolutionSpec => []ResolvedKeysCurrent`. `ResolutionInv` says how old what an entry of the
  cache, a reply on its way and an answer hold may be: the key of a reply was published when the fetch began, a reply is
  at most `MaxFetch` late, and an entry expires one `CacheTtl` after it was put. `RetiredKeyFades` speaks of lookups no
  configured resolver answers. That the host asked is the one named by the DID comes from `ParsedHost`.
- `ForgeriesSpendNothing`: `AdmissionSpec => []ReplayedOnlyIfSpent`.
- `AdmissionIsGuarded`: `AdmissionSpec => [](Careful => ReplayGuarded)`. The invariant `AdmissionInv` says that a
  retention computed before `has()` still covers the window when `add()` runs (`TtlCovers`; the arithmetic of whole
  seconds and milliseconds of all three rules is in lemmas), that an admitted message is remembered until its window has
  closed (`AdmittedKept`), and that every record of a cache that does not fail was earned (`CacheEarned`). `Careful` is a cache with `consume()` that
  does not fail, or signers that do not use one nonce for two messages: with `has()` and then `add()`, a second message of one
  nonce may shorten the record of the first.
- `AcceptedCardStands`: `CardSpec => []CardStands`, from two invariants. `FoundInv` is for whose card it is: the site of the
  holder has its cards and its DID document points to them whatever moves (`SiteSound`), and a call that knows whom it
  looks for is on its way to a page of that holder, or has a card that names it (`Found`). `ConfinedInv` is for
  revocation: the status list loses no bit, and a bit that no version in force lacks stays so (`Gone`). Where the host
  serves the current list, a hop that was read as clear was clear when the call began (`HopClear`); where the proof of the
  list is verified, a hop read as clear and live was not in `Gone` then (`Passed`). The hops not to be read any more have
  passed, at the end all of them have, and `Refused` follows. Without these premises nothing is claimed, see section 5.
- `ChainsConfine`: `CardSpec => []ChainConfines`. `NarrowerPermits` is one link: whatever a narrower caveat permits the wider
  one does, which for amounts is that `decimalLte` compares as numbers, at any scale (`DecimalLteScales`). `AttenuationConfines`
  takes the last credential above the leaf that refuses a use: its child permits it and attenuates it, so it cannot refuse.
- `AssuranceIsEarned`: `CardSpec => []AssuranceEarned`. `ProvenInv` says at each stage what is known of the proof, the key,
  the capabilities and the statuses (`Proven`). A key is rotated while the call is under way, so it is one the holder
  published since the call began (`KeysSound`: before a rotation every call under way has seen the old key); and two calls
  that accepted a proof took different nonces (`NonceOnce`). The proof found that the model kept unattested capabilities
  by name, where one attested entry hid another of its name; the model now goes by entry.

**AuditTrailProofs**, about AuditTrail and EvidenceStore. One inductive invariant, `TrailInv`, carries two theorems about the
first. Its base, inductive by itself, holds under every fault: what each source state has booked (`Booked`: a claim has
its own ID and sequence, and an event keeps its sequence for itself, and its claim until it is recorded), which call is
where in the chain of source constructions (`Chains`: only the head builds), and that an identity is once in the outbox
and once in the ledger (`Items`).

- `SourceHistoryHolds`: `TrailSpec => []SourceHistorySound`. `NoFork` needs nothing but the base. `Linked` says, where one
  trail serves a source and no abandon fails, that a claim without an event is that of the call under way, so the newest
  sequence, and that every lower one has its event. `Ordered` carries the order from the claim to the ledger: whatever is
  lower than an item of the outbox, of a flush or of the ledger is ahead of it, held back, or over (`AfterLower`).
- `AnswersStayHonest`: `TrailSpec => []AnswersHonest`. `Receipted` says that what is not waiting for its receipt is
  committed; the smallest pending sequence exists by well-foundedness. `KeptItems` follows an event from the outbox through
  the snapshots of the flushes: an acknowledgement that removes it found it, or other content of its identity, committed.

The attempts to prove these found four premises that the properties lacked, each with a counterexample of TLC: see section 5.

- `EvidenceIsGoverned`, about EvidenceStore: `EvidenceSpec => EvidenceGoverned`. A read passes two awaits, so the invariant
  `EvidenceInv` says what it carries across them (`ReadsBound`), that a reference commits to the ciphertext it was returned
  with (`SealedBound`), and that a granted hold is on an object that still has its bytes (`HoldsKept`).

**AuditEvidenceProofs**, about AuditEvidence. A history is signed (`SignedHistory`) if each entry says its place and names the
entry before it by its digest. `DigestsCommit` draws the consequence: two signed histories whose n-th entries have one
digest agree up to the n-th entry. `HistoryMoves` reduces the steps to what they may do to the journal and to the
history a restore took back: what is the beginning of one of the two stays so.

- `EveryCopyIsFaithful`: `Spec => []CopiesFaithful`. What a delivery, a reader, a worker and a reconciliation carry across
  their awaits (`DeliveryFine`, `ReaderFine`, `WorkerFine`, `ReconcileFine`): the entry in hand was recorded, the head read
  was the head of the mirror or of the journal then. The mirror appends on a matching digest, and `DigestsCommit` turns
  that into a beginning of one history, also where two histories are on offer.
- `CheckpointsStaySound`: `Spec => []CheckpointsSound`. `LockInv` says who is in a builder's queue and that a call past the
  head of the journal is at its front (`Holds`), so one builder has one such call (`OneOwner`). `SnapInv`: what it read is the
  beginning of a signed history. `ChainInv`: the stored checkpoints are `Under` one history, each `Chained` to the next
  smaller one, and a signed checkpoint about to be stored `Continues` them. `SignContinues` is the core: the snapshot may
  be of the other history than the store, but `assertExtends` has compared the digest at the latest tree size, and by
  `DigestsCommit` everything the store signs is then in the snapshot's history too. `HookInv` follows the hooks: what is
  due is stored, and a call has some only while it runs them.

The attempt to prove the first found that `PagingComplete` lacked a premise, see section 5. The Merkle tree is opaque
here: of `root` only that it is a function is used, and what an auditor makes of it is left to TLC.

**ProofLayerProofs**, about ProofLayer and Sessions.

- `ClaimsEndOnce`: `Spec => []EndsOnce`. The trail is a sequence that grows at one end, and the property counts in it.
  `LayerInv` says that a claim is held in one place, by one answer (`HeldOnce`), is left once and stays ended
  (`LeftOnce`), and that every terminal event, and every one still to come, has its start (`Accounted`).
- `ProofsStayWhereTheyBelong`: `Spec => []ProofsBelong`. `BelongInv` adds that the ids a result names are of claims that
  were left, each named once, and that an answer on its way took a claim of its own tool.
- `StoreStaysSound`: `SessionsSpec => []StoreSound`. A deletion leaves its id behind in `insertionOrder`, and a reader may put
  back a session that was deleted while it held it. `Ordered` says why no session gets a second place: the order is sorted
  by insertion, has every stored session, and what it has besides is expired, so no reader puts it back. `Fallback` says
  that the calls which create the shared auto session are one at a time (`OneCreator`) until a session has expired or was
  evicted (`Lost`), and `Knowing` what each of them knows. The proof found that `OneAutoSession` needs the premise that
  nothing is cleared, see section 5.
- `SessionsGiveUpRightly`: `SessionsSpec => GivesUpRightly`, the action property, from the same invariant: the first id of
  the order that is stored was inserted longest ago, and a sweep that has been made left no session that had expired
  when it read the clock (`Swept`).

**RevocationProofs**, about Revocation, Cheqd and Authorization. One inductive invariant, `RevocationInv`, carries three theorems about the
first.

- `BitsAreKept`: `RevocationSpec => []BitsKept`. `Queued` says that an operation which has read the list is at the head
  of the lock of its manager; so with one manager what it read is what is published when it writes (`ReadCurrent`), and
  a bit that is set stays until a restore of its own node (`TargetsPublished`). `Allotted` follows an index from
  `allocateIndex` to the credential: below the counter, and no one else's on the way.
- `RevocationsHold`: `RevocationSpec => []RevocationHolds`. A mark can be relied on only where no registration in parts and
  no removal writes a stale object back (`Quiet`); then a stored node has its ancestors stored and no object that is
  written back is older than what it replaces (`Direct`, `TargetsMarked`). `MarksDropped` is for the storage that loses the
  field: who read a mark back has none such. `Cascading` is the loop of `revokeDelegation`: every descendant is still to
  be visited, under way, or reached, which needs that each link is in a children list (`PathLinks`). `ChecksDue` says of a
  check that is due that it has yet to come to a node it will not pass: the chain it read contains the revoked one, by
  its mark or, since one manager loses no bit, by its bit when the check gets there.
- `MarksAreKept`: `RevocationSpec => MarkKept`, the action property, from `Direct` and `MarksDropped`.

The premises are in the properties: one manager for bits, no stale copies for marks, a graph left alone for the cascade. The
runs have scenarios on either side of each; section 5 says what happens outside of them. What an induction along a path
would give is proved by a minimal counterexample (`WFMin`).

- `LedgerIsSound`: `CheqdSpec => []LedgerSound`. The ledger only grows, in the order of time (`Chronicle`), so a version that
  was current some time ago stays so for a property that says when (`StillCurrent`). `CheqdInv` then gives an age to
  everything that is held: an entry of a cache, a reply on its way, the document and the list a call goes on with
  (`ListStood`, `DocStood`, `Vouched`); each await and each cache adds its own, and the sum is the bound of the property.
  For invalidations, `Seen` is what a holder of a list has seen, and `FloorSound` why the next request sees it too:
  either it asks for a fresh list, or nothing older is served any more (`Overdue`), or a list cached since will be held
  for as long. `WriteSound` and `LinkSound` follow a write from what was read to what became of it. The proof found that
  `InvalidationSeen` needs a premise on the two lifetimes, see section 5.
- `AuthorityIsEarned`: `AuthSpec => []AuthorizationEarned`, and `AdvertisementsAreKept`: `AuthSpec => []KeptAsAdvertised`,
  both from `AuthInv`, which has three parts. `HandshakeInv`: a handshake under way has noted what the agent was since it
  began, and who passed the reputation gate deserved to at that moment (`MeritNoted`). `FlowInv`: what is pending was
  initiated, and what is pending no more has expired or a callback took it (`FlowsStored`); the token of a flow that a
  callback holds across the exchange of its code is gone from the store, so no second callback gets it (`Holding`).
  `TokenInv`: the store of resume tokens is in the order of expiry (`StoreOrdered`), which is why its sweep may stop at
  the first token that is alive; so a token that was told is kept as long as it was said to be (`TokensKept`,
  `ToldRightly`).

Only model-checked:

- liveness under fairness (`EveryCallAnswered`, `TrailDelivers`, `ClaimSettles`), and ENABLED;
- what depends on the value of a fold, of `SelectSeq` or of a recursive function, or needs an induction over data:
  `WithinBudget` (sums), AuditArtifacts, AuditVerifier, StatusBits, Issuing;
- `RetryResolves`, `EvidenceRetained` and `RecordedUnlessRefused`, whose statement has the bounds of the runs in it
  (failures at one replica, a retry budget that covers the other appends);
- `ProofsDecide` of ProofExchange: whether every pair of request shapes that hash alike stands for one business call is a
  case analysis over the shapes of a call and of its response that has not been carried out;
- `ObserverOneHistory`, which rests on the verification of RFC 9162 consistency proofs (an induction over the tree), and
  `HonestExportVerifies` and `ValidIsGenuine`, about bundles under AuditVerifier.

What a regular expression matches, and what a signature proves, are parameters.

## 5. Findings and known limits

1. `layer_twice`: a throwing handler is recorded as failed twice, by its wrapper and by the transport
   (`middleware/kya-os-transport.ts:216`).
2. `scope_dots`: a `prefix` scope is accepted below a `path-prefix` scope and grants values with a `.` or `..` segment
   that the parent refuses (`delegation/scope-matcher.ts:129`), which the comment on the rules excludes.
3. `hooks_order`: two concurrent `createCheckpoint` calls whose hooks fail leave `failedHooks` with the newer checkpoint
   first (`audit/checkpoint.ts:157`), where its comment says oldest first. No hook is lost (`HooksNotLost`).
4. `relative_ids`: the key of a DID document that lists its method relative to the DID is found for a proof and then
   refuses it, because it is given the relative id as its kid (`proof/verifier.ts:640`).

Met while modelling, and excluded by a premise of a property or by a bound, each with its hazard in `PROJECT.json`:

- A second replica does not see the holds of the first: the disposal after a failed append at one can remove the
  evidence of an entry the other commits (`audit/recorder-service.ts:235`); `EvidenceRetained` is checked with failures
  at one replica.
- A journal restored to exactly the head an append in flight expects is not recognised as moved backwards, and a second
  entry is receipted at one sequence (`audit/recorder-service.ts:516`); restores are checked between attempts.
- A grant revoked while a call re-verifies its evidence still serves that call (`with-kya-os.grants.ts:111`);
  `GrantConfined` speaks of grants revoked before the call began. A status answer is served for its time to live
  counted from its arrival, so its age is bounded by that plus one request (`status-cache.ts:42`).
- An outbox acknowledged by bare event id can drop an event when flushes overlap (`audit/service.ts:224`);
  `NothingLost` is stated for outboxes keyed by source. Keyed by source and event ID, an acknowledgement that comes late
  still drops a second item of that identity: where the claim has left the redelivery window, an event offered again is
  a new one, and it conflicts with the committed one, so it could not be recorded (`Conflicting` in `NothingLost`).
- The comment at `audit/service.ts:150` says that items are committed to the outbox in claimed source-sequence order. An event whose
  enqueue failed and that is offered again keeps its sequence and comes after later ones; the ledger then has the source
  out of order. `SourceOrder` speaks of events offered once, or of outboxes, source states and processes that do not fail
  in between (`NoneOvertaken`), and of one trail per source (`OneTrail`): two processes of one source take turns at nothing.
- A high-water mark is read before the declaration claims its own sequence (`audit/service.ts:232`). Where two processes
  of one source abandon two claims that were counted, the declared mark names sequences under which no event was frozen;
  the second part of `HighWaterHonest`, as the absence of gaps, is stated for one trail whose abandons do not fail (`Alone`).
- A card proof whose verification, begun in time, outlasts its window and the record of the first use may be admitted
  twice (`card/proof/verify.ts:69`); `AdmittedOnce` names exactly this exception.
- A call whose lookup of an expired session returns late creates a second auto session, and so does a reader in progress
  at a `clearSessions()` that puts the first one back (`middleware/with-kya-os.session.ts:890`); `OneAutoSession` speaks of
  stores nobody clears.
- A child registered during the revocation of its parent may lose its link, and a removal may write back a parent
  without its mark (`delegation/delegation-graph.ts:163` and `:227`); a delegation registered between the two reads of
  `validateDelegation` is found valid (`cascading-revocation.ts:211`); two managers over one storage may lose a bit.
- Evidence disposed after a failed append is gone for good (`audit/evidence.ts:150`): the redelivery of that event is
  refused. `RecordedUnlessRefused` allows a refusal for evidence only where an object was disposed.
- Two builders over one checkpoint store can both store a successor of one checkpoint; `CheckpointsChain` is stated for
  one builder. `ObserverOneHistory` holds for several.
- A cursor of `listEntries` is a number and says nothing of a journal that was restored meanwhile: a reader that goes on
  holds pages of two histories (`read-service.ts:139`). `PagingComplete` speaks of journals never restored.
- A delivery to the mirror that overlaps another of the same entry may be told that continuity failed although the
  mirror has it (`mirror-service.ts:72`); `reconcile` may report a gap where the projection ran past the head it read
  first (`projection.ts:222`); `getConsistencyProof` reads the latest checkpoint before the old one.
- A fetch on its way fills the did:web cache again after `clearCacheEntry`; `RetiredKeyFades` counts with one fetch and
  one lifetime.
- A status check under way during `invalidateCache()` of the cheqd list resolver takes the flag back when it ends and
  caches the list it was served before (`statuslist-resolver.ts:87` and `:145`), so the next check may not see what the
  invalidation was made for; `InvalidationSeen` speaks of invalidations made while no check is under way. The flag asks for
  one fresh list only: when that one leaves the cache, the next request may be served an older version again
  (`statuslist-resolver.ts:145`), unless old versions are served upstream no longer than a list is cached, which is the
  premise of `InvalidationSeen`.
- `updateCheqdAlsoKnownAs` writes a document back that it read from a cache (`linkage.ts:34`): overlapping links can
  lose a name of one another. `WritesAsReported` bounds how old the document may be. A write reported as failed at the
  `submit` stage may be on the ledger.
- A read of evidence reported as found returns null if the object is disposed during the report (`evidence.ts:186`); a
  hold on an object already disposed is answered with `held` (`evidence.ts:197`).
- A verifier needs the control arguments as they were hashed, or none of them; an optional claim that is empty is not
  signed. Both are premises of `HonestProofVerifies`.
- `notAfter` overrides an earlier `expirationDate` option, the issuer service signs with its own key whatever
  `issuerDid` the record names, and the expiry of an OIDC flow is computed before an awaited `put` and advertised after it.
  `IssuedFaithfully` and `KeptAsAdvertised` say what readers still may rely on.
- Whether a card's revocation is seen depends on who serves the status list. A list past its `validUntil` still yields a
  bit, with `fresh: false`, which L2 accepts (`card/revocation.ts:22`), and where `verifyStatusList` is not wired whoever serves
  the list can clear a revocation (`card/revocation.ts:105`): a revoked card is then accepted, with an older signed list
  at L3 while that list is in force and at L2 for good, with an altered one at any level. `RevokedCardRefused` has both as premises: a host that serves the current
  list, fails, or alters lists in front of a verifier that checks their proof; or any host, a checked proof, level L3, and a
  revocation that every version still in force shows (`Gone`).

Places where the repository contradicts itself. The models follow the code; none of these has a run of its own:

- `authz/oidc/pending-flow-store.ts:17` says that the adapter deletes a flow only after the token exchange succeeded, so that a
  transient failure of the provider does not burn the resume token. The adapter consumes it first, and says so
  (`oidc-adapter.ts:121`): after a failed exchange the next callback is unknown and the user starts again.
  `FlowRedeemedOnce` states what the code gives: a flow reaches the exchange at most once.
- `outbound-headers.ts:9` calls `KYA-OS-Delegation-Chain` the `vcId` of the root delegation, and SPEC.md 8.2 and 8.3 say
  that `delegation_chain` is `vcId>delegationId`. The code puts the `vcId` of the record it forwards into both, root or not;
  `buildChainString` (`outbound-proof.ts:82`) is exported and called by tests only.
- SPEC.md 8.2 says that `sub` is the Responsible Party, the root issuer, and 8.1 that it equals the DID of the Layer-1
  signature. The code puts in the agent of the session. It does not ask whether the record is active, within its
  bounds or issued to that agent: that is left to the caller and to the receiver. `IssuedFaithfully` states what is sent, for
  records of any state and sessions of any agent.

## 6. Plan

Done: the audit path from producer to recorder, checkpoints, copies and offline verification; replay admission, guarded
fetching, DID resolution, entity cards and detached proofs; the proof layer and sessions; revocation, status list bytes,
issuing, authorization and the
cheqd integration; the evidence store; the gate with credential verification, and scopes. Next, the most important first:

1. Proofs: `ObserverOneHistory` of AuditEvidence from a lemma on consistency proofs as its hypothesis, and `ProofsDecide` of
   ProofExchange. The components of one MC module share no name, so that one proof module can extend several.
2. DelegationGate over Revocation: the revocation checker and the status list of one as the environment of the other.

New scenarios of a module join its existing run as settings.

## 7. Not modelled

- Cryptographic primitives and text encodings: hashing and canonical JSON are injective, a signature is the pair of key
  and content, GZIP and base64url are what a payload carries. They would be transliterations without a state to check.
- The MCP extension (a lookup), server assembly (wiring), the audit adapters
  (mapping of records), the reference recorder and the command line, logging: `PROJECT.json` lists them as
  `not_modelled` with the reason.
- Examples, conformance vectors and scripts under `src/`: programs that use the package.
- The SQL or remote implementations of the provider interfaces are outside the repository; the models allow what the
  interfaces document: lagging reads, failures before and after the effect, and more than one process.
