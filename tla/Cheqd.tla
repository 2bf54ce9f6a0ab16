------------------------------- MODULE Cheqd -------------------------------
(***************************************************************************)
(* The cheqd integration (src/src/integrations/cheqd): status lists and    *)
(* DID documents kept on a ledger.  Writers go through a registrar in two  *)
(* requests with a signature between them, or link a did:web to the        *)
(* document they read; readers go through two caches, one of documents and *)
(* one of verified lists.  What is served may be on its way while the      *)
(* ledger, the caches and the readers move on.                             *)
(*                                                                         *)
(* The ledger keeps each version with the time it was published.           *)
(***************************************************************************)
EXTENDS Naturals, Sequences, FiniteSets

CONSTANTS
    CheqdCalls,      \* calls of the integration
    CheqdSettings,   \* what a behaviour may start from: [work, asks, faults,
                     \* others, clears], see Work, Replies, Faulty, Others and the caches
    ListIssuer,      \* expectedIssuerDid, a did:cheqd
    FirstDocument, FirstList, \* what the ledger holds at first
    OtherBodies,     \* what a list's URL may serve besides its list
    OtherDocuments,  \* what the resolver endpoint may serve besides the document
    SigningKey,      \* the private key of the registrar's signer
    ListCacheTtl, DocCacheTtl, \* cacheTtlMs and cacheTtl, ticks
    UpstreamAge,     \* how long after its replacement a version is served to those
                     \* who do not ask for a fresh one
    MaxFlight,       \* the longest a response is on its way
    CheqdTime        \* bound on the clock

VARIABLES
    cheqd,      \* the setting of this behaviour
    ctime,      \* the clock
    docs,       \* the versions of the issuer's document: [value, at, by]
    lists,      \* the versions of the status list: [value, at, by]
    docCache,   \* DidCheqdResolver.cache, of the one DID: {} or {[doc, until]}
    listCache,  \* CheqdStatusListResolver.cache, of the one URL: {} or {[list, until]}
    bust,       \* bustNextFetch
    floor,      \* the list's version at the last invalidation made while no check was under way
    call        \* the calls

cheqdVars == <<cheqd, ctime, docs, lists, docCache, listCache, bust, floor, call>>

NotStarted == [stage |-> "idle", noCache |-> FALSE, reply |-> {}, since |-> 0, list |-> {},
               floor |-> 0, read |-> 0, body |-> {}, requests |-> {},
               result |-> "none", at |-> 0]

Version(value, by) == [value |-> value, at |-> ctime, by |-> by]

CheqdInit ==
    /\ cheqd \in CheqdSettings
    /\ ctime = 0
    /\ docs = <<[value |-> FirstDocument, at |-> 0, by |-> "genesis"]>>
    /\ lists = <<[value |-> FirstList, at |-> 0, by |-> "genesis"]>>
    /\ docCache = {} /\ listCache = {} /\ bust = FALSE /\ floor = 1
    /\ call = [c \in CheqdCalls |-> NotStarted]

Work(c) == cheqd.work[c]
Active == DOMAIN cheqd.work
Faulty == cheqd.faults              \* the registrar and the signer may fail
Others(bodies) == IF cheqd.others THEN bodies ELSE {}

\* What may be served for a resource: its current version, or one replaced not long ago.
Servable(history, fresh) ==
    {history[i].value : i \in {k \in DOMAIN history :
        k = Len(history) \/ (~ fresh /\ history[k + 1].at + UpstreamAge > ctime)}}

\* The record of a call that is over; the rest of it is forgotten.
Ended(c) == [NotStarted EXCEPT !.stage = "done", !.at = ctime, !.body = call[c].body, !.read = call[c].read]

End(c, result) == call' = [call EXCEPT ![c] = [Ended(c) EXCEPT !.result = result]]

-----------------------------------------------------------------------------
(* DID documents: [id, methods, aka], a method [id, key] whose key may be  *)
(* unusable, and the names it is also known as.                            *)

NoMethodKey == "unusable"

\* normalizeDid: trim().
normalizeDid(did) == [did EXCEPT !.padded = FALSE]

isDidDocument(doc) == doc # {}

hasAlsoKnownAs(doc, did) == \E e \in doc.aka : normalizeDid(e) = did

\* verifyDidLinkage of two documents (each {} when missing), with its default of both
\* directions or with one.
verifyDidLinkage(primary, secondary, first, second, both) ==
    /\ isDidDocument(first) /\ isDidDocument(second)
    /\ \A d1 \in first, d2 \in second :
        /\ normalizeDid(d1.id) = normalizeDid(primary)
        /\ normalizeDid(d2.id) = normalizeDid(secondary)
        /\ LET there == hasAlsoKnownAs(d1, normalizeDid(secondary))
               back == hasAlsoKnownAs(d2, normalizeDid(primary))
           IN IF both THEN there /\ back ELSE there \/ back

\* isValidDIDDocument, and the id is the DID asked for.
AcceptedDocument(doc) == doc.wellFormed /\ doc.id = ListIssuer

\* Mutant of CachedDocument: an entry is used for as long as it is kept.
KeptDocument == {e.doc : e \in docCache}

\* DidCheqdResolver's cache: an entry is used before it expires.
CachedDocument == {e.doc : e \in {x \in docCache : ctime < x.until}}

-----------------------------------------------------------------------------
(* Status lists: [list, issuer, proof, purpose, revoked, size]; a proof is *)
(* {} or {[value, vm, by, over]}, its value missing or the signature of    *)
(* the key `by` over the rest, made out to the method vm, if any.          *)

Unsigned(list) == [list EXCEPT !.proof = {}]

\* assertShape, assertIssuer.
ShapeAndIssuer(list) == list.list /\ list.proof # {} /\ list.issuer = ListIssuer

\* Mutant of SignedBy: any method of the document may have signed.
SignedBySomeone(list, doc) == \E proof \in list.proof : proof.value /\ doc.methods # {}

\* assertSignature, the document at hand: a method the proof names, or any.
SignedBy(list, doc) ==
    \E proof \in list.proof : \E m \in doc.methods :
        /\ proof.value
        /\ proof.vm # {} => m.id \in proof.vm
        /\ m.key # NoMethodKey /\ proof.by = m.key /\ proof.over = Unsigned(list)

\* Mutant of ReadBit: the kind of the list is not compared.
ReadBitOfAnyKind(list, entry) ==
    IF \A i \in entry.index : i < list.size
    THEN IF entry.index \subseteq list.revoked THEN "revoked" ELSE "clear"
    ELSE "error"

\* assertStatusPurpose, then the bit (decodeStatusListPayload and readStatusBit are
\* in StatusBits): an index beyond the list is an error.
ReadBit(list, entry) ==
    IF list.purpose = {entry.purpose} /\ \A i \in entry.index : i < list.size
    THEN IF entry.index \subseteq list.revoked THEN "revoked" ELSE "clear"
    ELSE "error"

\* Mutant of LiveLists: an entry is served for as long as it is kept.
KeptLists == listCache

\* TtlCache.get: up to its expiry, the boundary included; an expired one is deleted.
LiveLists == {e \in listCache : ctime <= e.until}

Answer(c, list) ==
    call' = [call EXCEPT ![c] = [Ended(c) EXCEPT
        !.result = ReadBit(list, Work(c).entry), !.list = {list},
        !.floor = IF call[c].stage = "idle" THEN floor ELSE call[c].floor]]

\* checkStatus up to its first await on the network.
CheckStatus(c) ==
    /\ call[c].stage = "idle" /\ Work(c).kind = "check"
    /\ LET entry == Work(c).entry IN
       IF ~ entry.https \/ entry.index = {} THEN End(c, "error") /\ UNCHANGED listCache
       ELSE /\ listCache' = LiveLists
            /\ \/ \E e \in LiveLists : Answer(c, e.list)
               \/ /\ LiveLists = {}
                  /\ call' = [call EXCEPT ![c].stage = "listAsked", ![c].noCache = bust, ![c].floor = floor]
    /\ UNCHANGED <<cheqd, ctime, docs, lists, docCache, bust, floor>>

\* Mutant of Unprovable: the flag is taken back by a fetch that failed.
UnprovableOnce(c) == End(c, "error") /\ bust' = FALSE

\* What cannot be proved is thrown; the next fetch still asks for a fresh list.
Unprovable(c) == End(c, "error") /\ UNCHANGED bust

\* The list's URL answers, or does not.
ServeList(c) ==
    /\ call[c].stage = "listAsked"
    /\ \/ /\ \E body \in Servable(lists, call[c].noCache) \cup Others(OtherBodies) :
               call' = [call EXCEPT ![c].stage = "listServed", ![c].reply = {body}, ![c].since = ctime]
          /\ UNCHANGED bust
       \/ Unprovable(c)
    /\ UNCHANGED <<cheqd, ctime, docs, lists, docCache, listCache, floor>>

\* assertSignature with the document of the issuer, if there is one: a list that is
\* verified takes the flag back and is cached from now on.
CheckSignature(c, list, doc) ==
    IF \E d \in doc : SignedBy(list, d)
    THEN /\ bust' = FALSE
         /\ listCache' = IF ListCacheTtl = 0 THEN {}
                         ELSE {[list |-> list, until |-> ctime + ListCacheTtl]}
         /\ Answer(c, list)
    ELSE Unprovable(c) /\ UNCHANGED listCache

-----------------------------------------------------------------------------
(* updateCheqdAlsoKnownAs: the document read, with one name more.          *)

\* Mutant of Linked: the document is written with the new name alone.
LinkedAlone(doc, did) == [doc EXCEPT !.aka = {did}]

Linked(doc, did) == [doc EXCEPT !.aka = @ \cup {did}]

Link(c, doc) ==
    LET did == normalizeDid(Work(c).name) IN
    IF ~ isDidDocument(doc) \/ \E d \in doc : normalizeDid(d.id) # normalizeDid(ListIssuer)
    THEN End(c, "unresolved")
    ELSE IF \E d \in doc : hasAlsoKnownAs(d, did) THEN End(c, "unchanged")
    ELSE call' = [call EXCEPT ![c].stage = "post", ![c].reply = {}, ![c].read = ctime,
                              ![c].body = {Linked(d, did) : d \in doc}]

-----------------------------------------------------------------------------
(* DidCheqdResolver.resolve, for a list's issuer and for a link.           *)

\* The call goes on with the document, {} for null.
GoOn(c, list, doc) ==
    IF Work(c).kind = "check"
    THEN \E l \in list : CheckSignature(c, l, doc)
    ELSE Link(c, doc) /\ UNCHANGED <<listCache, bust>>

\* A cached document is used at once; otherwise it is asked for.
Resolve(c, list) ==
    IF CachedDocument # {} THEN GoOn(c, list, CachedDocument)
    ELSE /\ call' = [call EXCEPT ![c].stage = "docAsked", ![c].reply = {}, ![c].list = list,
                              ![c].since = ctime]
         /\ UNCHANGED <<listCache, bust>>

\* The list arrives.
ListArrives(c) ==
    /\ call[c].stage = "listServed"
    /\ IF \A list \in call[c].reply : ShapeAndIssuer(list) /\ \A proof \in list.proof : proof.value
       THEN Resolve(c, call[c].reply) ELSE Unprovable(c) /\ UNCHANGED listCache
    /\ UNCHANGED <<cheqd, ctime, docs, lists, docCache, floor>>

StartLink(c) ==
    /\ call[c].stage = "idle" /\ Work(c).kind = "link"
    /\ Resolve(c, {})
    /\ UNCHANGED <<cheqd, ctime, docs, lists, docCache, floor>>

\* The resolver endpoint answers, or fails.
ServeDocument(c) ==
    /\ call[c].stage = "docAsked"
    /\ \E reply \in {{d} : d \in Servable(docs, FALSE) \cup Others(OtherDocuments)} \cup Others({{}}) :
         call' = [call EXCEPT ![c].stage = "docServed", ![c].reply = reply]
    /\ UNCHANGED <<cheqd, ctime, docs, lists, docCache, listCache, bust, floor>>

\* The document arrives, and is cached from now on if it is the DID's.
DocumentArrives(c) ==
    /\ call[c].stage = "docServed"
    /\ LET doc == {d \in call[c].reply : AcceptedDocument(d)} IN
       /\ docCache' = IF doc = {} THEN docCache
                      ELSE {[doc |-> d, until |-> ctime + DocCacheTtl] : d \in doc}
       /\ GoOn(c, call[c].list, doc)
    /\ UNCHANGED <<cheqd, ctime, docs, lists, floor>>

\* clearCache, clearCacheEntry.
ClearDocuments ==
    /\ "documents" \in cheqd.clears /\ docCache # {}
    /\ docCache' = {}
    /\ UNCHANGED <<cheqd, ctime, docs, lists, listCache, bust, floor, call>>

Checking == {c \in Active : Work(c).kind = "check" /\ call[c].stage \notin {"idle", "done"}}

\* invalidateCache.
InvalidateCache ==
    /\ "lists" \in cheqd.clears
    /\ listCache' = {} /\ bust' = TRUE
    /\ floor' = IF Checking = {} THEN Len(lists) ELSE floor
    /\ UNCHANGED <<cheqd, ctime, docs, lists, docCache, call>>

-----------------------------------------------------------------------------
(* Resources (dlr.ts): an artifact [type, subject, content, hash, id].     *)
(* The hash of a content is the content.                                   *)

ArtifactTypes == {"CapabilityManifest", "ConformanceManifest", "AccessHashManifest",
                  "TrustConfigManifest", "StatusListCredential"}

\* assertAnchorableStatusListCredential: signed, and with its bits.
Anchorable(content) == content.proof # {} /\ content.size > 0

\* validateCheqdDlrArtifact.
validArtifact(a) ==
    /\ a.type \in ArtifactTypes /\ a.subject /\ a.content # {}
    /\ a.type = "StatusListCredential" => \A x \in a.content : Anchorable(x)
    /\ a.hash \in {"absent", "matches", "differs"}
    /\ a.id \in {"absent", "well formed"}

\* Mutant of prepared: a hash that was given is taken as it is.
PreparedUnchecked(a) == validArtifact(a)

\* prepareCheqdDlrResource: the hash is computed; one that was given must agree.
prepared(a) == validArtifact(a) /\ a.hash # "differs"

-----------------------------------------------------------------------------
(* The registrar (registrar.ts): runClientManagedSecretFlow.               *)

\* createResource of a prepared artifact, createDid and updateDid.
StartWrite(c) ==
    /\ call[c].stage = "idle" /\ Work(c).kind \in {"publish", "create", "update"}
    /\ IF Work(c).kind = "publish" /\ ~ prepared(Work(c).artifact) THEN End(c, "invalid")
       ELSE call' = [call EXCEPT ![c].stage = "post", ![c].body =
                       IF Work(c).kind = "publish" THEN Work(c).artifact.content ELSE {Work(c).document}]
    /\ UNCHANGED <<cheqd, ctime, docs, lists, docCache, listCache, bust, floor>>

\* The history a call writes to.
History(c) == IF Work(c).kind = "publish" THEN lists ELSE docs

\* What the request may be answered with: [finished, job, asks], where asks are the
\* payloads to sign, each [id, kid].  Nothing is finished without a signature
\* unless it is on the ledger already.
Replies(c) ==
    {[finished |-> FALSE, job |-> j, asks |-> a] : j \in {TRUE, ~ Faulty}, a \in cheqd.asks}
    \cup {[finished |-> TRUE, job |-> j, asks |-> {}] :
            j \in {b \in BOOLEAN : History(c)[Len(History(c))].value \in call[c].body}}

\* The first method of the document in the body; an update's is inside a list.
inferVerificationMethodId(c) ==
    IF Work(c).kind = "create" THEN {Work(c).document.first} ELSE {}

\* The method a payload is signed for: as the registrar says, as the caller says, or
\* as the document says.
KidFor(c, ask) ==
    IF ask.kid # {} THEN ask.kid
    ELSE IF Work(c).method # {} THEN Work(c).method
    ELSE inferVerificationMethodId(c)

\* extractSigningRequests: a payload nobody names a method for is left out.
SigningRequests(c, asks) ==
    {[id |-> a.id, kid |-> KidFor(c, a)] : a \in {x \in asks : KidFor(c, x) # {}}}

\* The first request and its answer.
Post(c) ==
    /\ call[c].stage = "post"
    /\ \/ Faulty /\ End(c, "request failed")
       \/ \E reply \in Replies(c) :
            IF reply.finished THEN End(c, "complete")
            ELSE IF ~ reply.job \/ SigningRequests(c, reply.asks) = {} THEN End(c, "request failed")
            ELSE call' = [call EXCEPT ![c].stage = "sign", ![c].reply = reply.asks,
                                      ![c].requests = SigningRequests(c, reply.asks)]
    /\ UNCHANGED <<cheqd, ctime, docs, lists, docCache, listCache, bust, floor>>

\* The signer answers every request, or one of them throws.
Sign(c) ==
    /\ call[c].stage = "sign"
    /\ \/ Faulty /\ End(c, "sign failed")
       \/ call' = [call EXCEPT ![c].stage = "submit"]
    /\ UNCHANGED <<cheqd, ctime, docs, lists, docCache, listCache, bust, floor>>

\* The ledger takes a write whose every payload was signed, under its id, with the key
\* of a method of the document: the one that is there, or the first one created.
Authorized(c) ==
    LET methods == IF Work(c).kind = "create" THEN UNION {d.methods : d \in call[c].body}
                   ELSE docs[Len(docs)].value.methods
    IN /\ \A a \in call[c].reply : \E r \in call[c].requests : r.id = a.id
       /\ \A r \in call[c].requests : \E m \in methods : m.id \in r.kid /\ m.key = SigningKey

Write(c) ==
    LET versions == [v \in call[c].body |-> Version(v, c)] IN
    IF Work(c).kind = "publish"
    THEN \E v \in call[c].body : lists' = Append(lists, versions[v]) /\ UNCHANGED docs
    ELSE \E v \in call[c].body : docs' = Append(docs, versions[v]) /\ UNCHANGED lists

\* Mutant of Submitted: an answer is taken for success.
SubmittedAnyway(finished, ok) == IF ok THEN "complete" ELSE "submit failed"

\* The result of the second request: finished, and answered as such.
Submitted(finished, ok) == IF finished /\ ok THEN "complete" ELSE "submit failed"

\* The second request: the write is made or not, and the answer may be lost.
Submit(c) ==
    /\ call[c].stage = "submit"
    /\ \E ok \in {TRUE, ~ Faulty} :
       \/ Authorized(c) /\ Write(c) /\ End(c, Submitted(TRUE, ok))
       \/ (Faulty \/ ~ Authorized(c)) /\ End(c, Submitted(FALSE, ok)) /\ UNCHANGED <<docs, lists>>
    /\ UNCHANGED <<cheqd, ctime, docCache, listCache, bust, floor>>

-----------------------------------------------------------------------------
\* A list on its way, and a document asked for, arrive within MaxFlight.
CheqdTick ==
    /\ ctime < CheqdTime
    /\ \A c \in Active : call[c].stage \in {"listServed", "docAsked", "docServed"} =>
         ctime < call[c].since + MaxFlight
    /\ ctime' = ctime + 1
    /\ UNCHANGED <<cheqd, docs, lists, docCache, listCache, bust, floor, call>>

CheqdNext ==
    \/ \E c \in Active :
        \/ CheckStatus(c) \/ ServeList(c) \/ ListArrives(c) \/ ServeDocument(c) \/ DocumentArrives(c)
        \/ StartLink(c) \/ StartWrite(c) \/ Post(c) \/ Sign(c) \/ Submit(c)
    \/ ClearDocuments \/ InvalidateCache \/ CheqdTick

CheqdSpec == CheqdInit /\ [][CheqdNext]_cheqdVars

-----------------------------------------------------------------------------
\* The fields of a document.
DocumentFields == {"id", "wellFormed", "first", "aka", "methods"}

\* The documents a setting can put on the ledger, but for names added by links.
IssuedDocuments(s) == {FirstDocument} \cup {s.work[c].document : c \in DOMAIN s.work}

\* Some signature of the list is over what it says, with a key of the document.
SignedWithKeyOf(list, doc) == \E proof \in list.proof, m \in doc.methods :
    m.key # NoMethodKey /\ proof.by = m.key /\ proof.over = Unsigned(list)

\* An old version is served for some time.  Whoever serves something else forges no
\* signature of the issuer and no document of its DID, a resource has one content,
\* and a link names the document of the page it is for, which names the issuer.
ASSUME CheqdAssumption ==
    /\ "genesis" \notin CheqdCalls
    /\ ListCacheTtl \in Nat /\ DocCacheTtl \in Nat /\ MaxFlight \in Nat /\ CheqdTime \in Nat
    /\ UpstreamAge \in Nat \ {0}
    /\ \A s \in CheqdSettings :
        /\ DOMAIN s.work \subseteq CheqdCalls
        /\ \A d \in IssuedDocuments(s) : DOMAIN d = DocumentFields
        /\ s.others =>
             /\ \A d \in OtherDocuments : ~ AcceptedDocument(d)
             /\ \A l \in OtherBodies, d \in IssuedDocuments(s) : ~ (ShapeAndIssuer(l) /\ SignedWithKeyOf(l, d))
        /\ \A c \in DOMAIN s.work :
            LET w == s.work[c] IN
            /\ w.kind \in {"check", "publish", "create", "update", "link"}
            /\ w.kind = "publish" => \A x, y \in w.artifact.content : x = y
            /\ w.kind = "link" => /\ normalizeDid(w.page.id) = normalizeDid(w.name)
                                  /\ hasAlsoKnownAs(w.page, normalizeDid(ListIssuer))

-----------------------------------------------------------------------------
(* Properties.                                                             *)

\* A version that is current, or was less than `age` before `time`.
CurrentWithin(history, i, time, age) == i = Len(history) \/ history[i + 1].at + age > time

Answered == {c \in Active : call[c].result \in {"clear", "revoked"}}

\* A status is answered from a list the issuer published for that purpose, current
\* no longer ago than a response and a cache may be old, and signed with a key the
\* issuer's document held no longer ago than that: whatever checks, writes and cache
\* clearings overlap (checkStatus, fetchAndVerifyList, DidCheqdResolver.resolve).
StatusFromLedger ==
    \A c \in Answered : \E list \in call[c].list :
        /\ \E i \in DOMAIN lists :
             /\ lists[i].value = list
             /\ CurrentWithin(lists, i, call[c].at, UpstreamAge + 2 * MaxFlight + ListCacheTtl)
        /\ list.purpose = {Work(c).entry.purpose}
        /\ (call[c].result = "revoked") = (Work(c).entry.index \subseteq list.revoked)
        /\ \E i \in DOMAIN docs :
             /\ SignedBy(list, docs[i].value)
             /\ CurrentWithin(docs, i, call[c].at, UpstreamAge + MaxFlight + DocCacheTtl + ListCacheTtl)

\* A check that begins after an invalidation made while none was under way sees
\* what was published by then, also if another check took the flag back since, where
\* an old version is served for no longer than a list is cached: the request after
\* the cached one asks for no fresh list.  (A check under way at the invalidation
\* takes the flag back when it ends and caches the list it was served before.)
InvalidationSeen == UpstreamAge <= ListCacheTtl =>
    \A c \in Answered : \E i \in call[c].floor .. Len(lists) : {lists[i].value} = call[c].list

Written(c) == {i \in DOMAIN docs : docs[i].by = c} \cup {i \in DOMAIN lists : lists[i].by = c}

\* A write is made at most once, is reported complete only if it is on the ledger, and
\* reported failed before its signature was submitted only if it is not; a link that
\* is reported complete verifies; and a link drops no name that was on the ledger
\* longer before it read than a response and the cache may be old
\* (runClientManagedSecretFlow, updateCheqdAlsoKnownAs, prepareCheqdDlrResource).
WritesAsReported ==
    \A c \in Active :
        /\ Cardinality(Written(c)) <= 1
        /\ call[c].result = "complete" => \E i \in DOMAIN History(c) : {History(c)[i].value} = call[c].body
        /\ call[c].result \in {"request failed", "sign failed", "invalid", "unchanged", "unresolved"} => Written(c) = {}
        /\ Work(c).kind = "publish" /\ Written(c) # {} => Work(c).artifact.hash \in {"absent", "matches"}
        /\ Work(c).kind = "link" /\ Written(c) # {} =>
             /\ verifyDidLinkage(ListIssuer, Work(c).name, call[c].body, {Work(c).page}, TRUE)
             /\ \E i \in DOMAIN docs :
                  /\ docs[i].by # c /\ \A d \in call[c].body : docs[i].value.aka \subseteq d.aka
                  /\ CurrentWithin(docs, i, call[c].read, UpstreamAge + MaxFlight + DocCacheTtl)

\* What is read from the ledger is what was written there, and not too long ago.
LedgerSound == StatusFromLedger /\ InvalidationSeen /\ WritesAsReported
=============================================================================
