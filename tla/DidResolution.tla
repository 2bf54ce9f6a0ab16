---------------------------- MODULE DidResolution ----------------------------
(***************************************************************************)
(* DID resolution: RuntimeFetchProvider.resolveDID (src/src/providers/     *)
(* runtime-fetch.ts) over a resolver registry, did:key and DidWebResolver  *)
(* with its document cache (delegation/did-web-resolver.ts).  A did:web    *)
(* subject adds and drops device keys while lookups are on their way: a    *)
(* document is served at one moment, arrives at a later one, and is cached *)
(* from then on.                                                           *)
(***************************************************************************)
EXTENDS Dids

CONSTANTS
    Lookups,        \* resolveDID() calls
    LookupDids,     \* the DIDs they may ask for
    Subject,        \* the did:web DID whose keys change
    DeviceKeys, FirstDevices, \* its device keys, and those published at first
    Registries,     \* what a behaviour may start from: [registry, allowPrivate, dids,
                    \* lookups], the didResolvers by method and what each does, the
                    \* option, and the calls made
    LiteralHosts,   \* the host tokens that are address literals, with the address
    CacheTtl, MaxFetch, \* cacheTtl and the longest a response is on its way, ticks
    LookupTime      \* bound on the clock

ASSUME ResolutionAssumption ==
    /\ FirstDevices \subseteq DeviceKeys /\ FirstDevices # {} /\ IsFiniteSet(DeviceKeys)
    /\ Subject \in LookupDids /\ parseDidWeb(Subject)
    /\ \A did \in LookupDids : did.id \in Seq(STRING)
    /\ CacheTtl \in Nat /\ MaxFetch \in Nat /\ LookupTime \in Nat

VARIABLES
    resolvers,      \* the configuration of this behaviour
    dtime,          \* the clock
    devices,        \* keys the subject publishes now
    retired,        \* retired[k]: when the subject dropped k, Never if it has not
    docCache,       \* DidWebResolver.cache: did -> [document, expiresAt]
    lookup          \* lookup[l]: [stage, did, reply, since, answer, at]

resolutionVars == <<resolvers, dtime, devices, retired, docCache, lookup>>

Never == -1
NotCached == [document |-> NoDocument, expiresAt |-> 0]
NoLookup == [stage |-> "idle", did |-> OtherDid(""), reply |-> NoDocument, since |-> 0,
             answer |-> NoDocument, at |-> 0]

\* Every identity of the subject has its key's name as fragment.
Identities(keys) == {[did |-> Subject, kid |-> Kid(Subject, k), key |-> k] : k \in keys}

\* What the web server of a DID serves: the built document for the subject, one
\* with a key of its own for another DID.
Published(did) ==
    IF did = Subject THEN buildDidWebDocument(Identities(devices))
    ELSE [id |-> did, verificationMethod |-> {Ed25519Method(did, "keys-1", "its own")}]

ResolutionInit ==
    /\ resolvers \in Registries
    /\ dtime = 0 /\ devices = FirstDevices
    /\ retired = [k \in DeviceKeys |-> Never]
    /\ docCache = [d \in LookupDids |-> NotCached]
    /\ lookup = [l \in Lookups |-> NoLookup]

AddDevice(k) ==
    /\ k \notin devices /\ retired[k] = Never
    /\ devices' = devices \cup {k}
    /\ UNCHANGED <<resolvers, dtime, retired, docCache, lookup>>

DropDevice(k) ==
    /\ k \in devices /\ Cardinality(devices) > 1
    /\ devices' = devices \ {k}
    /\ retired' = [retired EXCEPT ![k] = dtime]
    /\ UNCHANGED <<resolvers, dtime, docCache, lookup>>

-----------------------------------------------------------------------------
(* A lookup.                                                               *)

Literal(url) ==
    IF Len(url.host) > 0 /\ url.host[1] \in DOMAIN LiteralHosts
    THEN LiteralHosts[url.host[1]] ELSE NoLiteral

isBlockedTarget(url) ==
    ~ resolvers.allowPrivate /\ url # NoUrl /\ isPrivateOrLoopbackHost(Literal(url))

\* buildDidResolverRegistry leaves out an entry whose name is no DID method.
Configured(method) ==
    IF method \in DOMAIN resolvers.registry THEN resolvers.registry[method] ELSE "none"

\* What a configured resolver returns; a null falls through to the built-in ones.
FromRegistry(did) == [id |-> did, verificationMethod |-> {Ed25519Method(did, "keys-1", "registered")}]

Answered(l, did, doc) ==
    lookup' = [lookup EXCEPT ![l] = [NoLookup EXCEPT !.stage = "answered", !.did = did,
                                     !.answer = doc, !.at = dtime]]

\* Mutant of CacheHit: an entry is still used at the instant it expires.
HitAtExpiry(did) == dtime <= docCache[did].expiresAt /\ docCache[did] # NotCached

CacheHit(did) == dtime < docCache[did].expiresAt

\* DidWebResolver.resolve up to the fetch.
ResolveWeb(l, did) ==
    IF CacheHit(did) THEN Answered(l, did, docCache[did].document)
    ELSE IF didWebToUrl(did) = NoUrl THEN Answered(l, did, NoDocument)
    ELSE lookup' = [lookup EXCEPT ![l] = [NoLookup EXCEPT !.stage = "fetch", !.did = did]]

\* resolveDID, up to its first await on the network.
ResolveDID(l, did) ==
    /\ lookup[l].stage = "idle" /\ l \in resolvers.lookups /\ did \in resolvers.dids
    /\ LET mode == Configured(getDidMethod(did)) IN
       IF mode = "answers" THEN Answered(l, did, FromRegistry(did))
       ELSE IF mode = "throws" THEN Answered(l, did, NoDocument)
       ELSE IF did.method = "key" THEN Answered(l, did, resolveDidKey(did))
       ELSE IF did.method = "web" /\ ~ isBlockedTarget(didWebToUrl(did)) THEN ResolveWeb(l, did)
       ELSE Answered(l, did, NoDocument)
    /\ UNCHANGED <<resolvers, dtime, devices, retired, docCache>>

\* Responses other than the published document: a failed or malformed one, and the
\* document of another DID.
Malformed(did) == [id |-> did, verificationMethod |->
                    {[Ed25519Method(did, "keys-1", "forged") EXCEPT !.type = ""]}]
Foreign == [id |-> OtherDid("other"), verificationMethod |->
                    {Ed25519Method(Subject, "keys-1", "forged")}]

\* The server answers with what it publishes at this moment.
Serve(l) ==
    /\ lookup[l].stage = "fetch"
    /\ \E doc \in {Published(lookup[l].did), Malformed(lookup[l].did), Foreign, NoDocument} :
         lookup' = [lookup EXCEPT ![l].stage = "served", ![l].reply = doc, ![l].since = dtime]
    /\ UNCHANGED <<resolvers, dtime, devices, retired, docCache>>

\* Mutant of Accepted: the document is not compared with the DID asked for.
AcceptedAnyId(did, doc) == isValidDIDDocument(doc)

\* The checks on a response: its structure, and its id against the DID.
Accepted(did, doc) == isValidDIDDocument(doc) /\ doc.id = did

\* The response arrives: a valid one is cached from now on, replacing whatever was
\* cached meanwhile, and returned.
Arrive(l) ==
    /\ lookup[l].stage = "served"
    /\ LET did == lookup[l].did  doc == lookup[l].reply IN
       IF Accepted(did, doc)
       THEN /\ docCache' = [docCache EXCEPT ![did] =
                             [document |-> doc, expiresAt |-> dtime + CacheTtl]]
            /\ Answered(l, did, doc)
       ELSE Answered(l, did, NoDocument) /\ UNCHANGED docCache
    /\ UNCHANGED <<resolvers, dtime, devices, retired>>

\* clearCacheEntry, and clearCache for every DID at once.
ClearCache(dids) ==
    /\ docCache' = [d \in LookupDids |-> IF d \in dids THEN NotCached ELSE docCache[d]]
    /\ docCache' # docCache
    /\ UNCHANGED <<resolvers, dtime, devices, retired, lookup>>

\* A response on its way arrives within MaxFetch.
ResolutionTick ==
    /\ dtime < LookupTime
    /\ \A l \in Lookups : lookup[l].stage = "served" => dtime < lookup[l].since + MaxFetch
    /\ dtime' = dtime + 1
    /\ UNCHANGED <<resolvers, devices, retired, docCache, lookup>>

ResolutionNext ==
    \/ \E k \in DeviceKeys : AddDevice(k) \/ DropDevice(k)
    \/ \E l \in Lookups : \/ \E did \in LookupDids : ResolveDID(l, did)
                          \/ Serve(l) \/ Arrive(l)
    \/ \E dids \in {LookupDids} \cup {{d} : d \in LookupDids} : ClearCache(dids)
    \/ ResolutionTick

ResolutionSpec == ResolutionInit /\ [][ResolutionNext]_resolutionVars

-----------------------------------------------------------------------------
(* Properties.                                                             *)

\* A document returned for a DID is that DID's own: its id is the DID, a did:key
\* document holds the key the DID spells, and a did:web document came from the host
\* the DID names (resolveDID, DidWebResolver.resolve, parseDidWebHost).
ResolvedIsOwn ==
    \A l \in Lookups :
        /\ lookup[l].answer # NoDocument =>
            /\ lookup[l].answer.id = lookup[l].did
            /\ lookup[l].did.method = "key" /\ Configured("key") # "answers" =>
                KeysOf(lookup[l].answer) = {lookup[l].did.id[2]}
        /\ lookup[l].stage = "fetch" => didWebToUrl(lookup[l].did).host = lookup[l].did.id

\* A key its subject has dropped is returned no later than one fetch and one cache
\* lifetime after that, however lookups, cache clearing and late responses
\* interleave, unless a configured resolver answers (DidWebResolver.resolve).
RetiredKeyFades ==
    \A l \in Lookups :
        lookup[l].did = Subject /\ Configured("web") # "answers" =>
            \A k \in KeysOf(lookup[l].answer) \cap DeviceKeys :
                \/ retired[k] = Never
                \/ lookup[l].at <= retired[k] + MaxFetch
                \/ lookup[l].at < retired[k] + MaxFetch + CacheTtl

\* A key found for a DID is one its subject holds: in a document of the DID's own,
\* and not dropped longer ago than a cached answer may be old.
ResolvedKeysCurrent == ResolvedIsOwn /\ RetiredKeyFades
=============================================================================
