-------------------------------- MODULE Dids --------------------------------
(***************************************************************************)
(* DIDs and DID documents: src/src/utils/did-helpers.ts,                   *)
(* delegation/did-web-resolver.ts, did-key-resolver.ts, did-linkage.ts and *)
(* verification-method-key.ts.                                             *)
(*                                                                         *)
(* A DID is [method, id, path].  For did:web, id is the host label, a      *)
(* sequence of tokens, and path the remaining labels, one token each; a    *)
(* token is what percent-decoding leaves of it, "%" where it fails.  For   *)
(* did:key, id is <<encoding, key>>.                                       *)
(***************************************************************************)
EXTENDS IpClassifier, FiniteSets

WebDid(host, path) == [method |-> "web", id |-> host, path |-> path]
KeyDid(encoding, key) == [method |-> "key", id |-> <<encoding, key>>, path |-> <<>>]
OtherDid(method) == [method |-> method, id |-> <<>>, path |-> <<>>]

getDidMethod(did) == did.method

\* generateDidKeyFromBytes: base58btc of the Ed25519 codec and the key, whose text
\* begins z6Mk.
generateDidKeyFromBytes(key) == KeyDid("z6Mk", key)

\* The multibase value of a did:key; other methods fall back to one name.
didKeyFragment(did) == IF did.method = "key" THEN did.id[2] ELSE "keys-1"

Kid(did, fragment) == [did |-> did, fragment |-> fragment]

-----------------------------------------------------------------------------
(* did:web.                                                                *)

Undecodable == "%"
Separators == {"/", "?", "#"}

\* The tokens behind the closing bracket of an IPv6 literal, all of them if there is
\* none.
AfterLiteral(host) ==
    IF host[1] = "[" /\ Contains(host, "]")
    THEN SubSeq(host, 1 + SelectInSeq(host, LAMBDA t : t = "]"), Len(host))
    ELSE host

\* Whether the decoded label is a host with at most one port.
parseDidWebHost(label) ==
    /\ label # <<>> /\ ~ Contains(label, Undecodable)
    /\ Range(label) \cap (Separators \cup {"@", " "}) = {}
    /\ Len(SelectSeq(AfterLiteral(label), LAMBDA t : t = ":")) <= 1

isSegment(token) == token \notin Separators \cup {Undecodable, "", ".", ".."}

\* Whether a did:web DID parses.
parseDidWeb(did) ==
    /\ did.method = "web"
    /\ parseDidWebHost(did.id)
    /\ \A i \in 1..Len(did.path) : isSegment(did.path[i])

\* What a URL parser takes the authority part of a host text to be: what stands
\* before an @ is user information, and the host ends at a separator.
AuthorityHost(host) ==
    LET stop == SelectInSeq(host, LAMBDA t : t \in Separators)
        authority == IF stop = 0 THEN host ELSE SubSeq(host, 1, stop - 1)
        user == SelectLastInSeq(authority, LAMBDA t : t = "@")
    IN SubSeq(authority, user + 1, Len(authority))

WebUrl(host, path) == [host |-> AuthorityHost(host), path |-> path]
NoUrl == [host |-> <<>>, path |-> <<>>]

didWebToUrl(did) ==
    IF ~ parseDidWeb(did) THEN NoUrl
    ELSE WebUrl(did.id, IF did.path = <<>> THEN <<".well-known", "did.json">>
                        ELSE Append(did.path, "did.json"))

-----------------------------------------------------------------------------
(* Documents.  A verification method carries its key in one of the forms    *)
(* "jwk", "multibase", "base58", or in none that is usable.                *)

NoKey == "no key"
KeyForms == {"jwk", "multibase", "base58"}

\* verificationMethodJwk: the key a method publishes, whatever its form.
verificationMethodJwk(vm) == IF vm.form \in KeyForms THEN vm.key ELSE NoKey

isValidVerificationMethod(vm) == vm.id.fragment # "" /\ vm.type # "" /\ vm.controller.method # ""

isValidDIDDocument(doc) ==
    /\ doc.id.method # ""
    /\ \A vm \in doc.verificationMethod : isValidVerificationMethod(vm)

NoDocument == [id |-> OtherDid(""), verificationMethod |-> {}]

Ed25519Method(did, fragment, key) ==
    [id |-> Kid(did, fragment), type |-> "Ed25519VerificationKey2020",
     controller |-> did, key |-> key, form |-> "jwk"]

KeysOf(doc) == {verificationMethodJwk(vm) : vm \in doc.verificationMethod} \ {NoKey}

\* toVerificationMethod throws unless the identity is of the DID and its kid a
\* fragment of it.
toVerificationMethodOk(identity, did) == identity.did = did /\ identity.kid.did = did

\* buildDidWebDocument of a nonempty set of identities [did, kid, key], NoDocument
\* where it throws: another method, a foreign identity, two keys under one kid.
buildDidWebDocument(identities) ==
    LET did == (CHOOSE i \in identities : TRUE).did IN
    IF /\ identities # {} /\ did.method = "web"
       /\ \A i \in identities : toVerificationMethodOk(i, did)
       /\ Cardinality({i.kid : i \in identities}) = Cardinality(identities)
    THEN [id |-> did,
          verificationMethod |-> {Ed25519Method(did, i.kid.fragment, i.key) : i \in identities}]
    ELSE NoDocument

-----------------------------------------------------------------------------
(* did:key.  "z6Mk+" begins like an Ed25519 key and has trailing bytes or   *)
(* is too long to decode; "z" is base58btc of another codec.               *)

isEd25519DidKey(did) == did.method = "key" /\ did.id[1] \in {"z6Mk", "z6Mk+"}

extractPublicKeyFromDidKey(did) ==
    IF did.method = "key" /\ did.id[1] = "z6Mk" THEN did.id[2] ELSE NoKey

\* createDidKeyResolver and resolveDidKeySync.
resolveDidKey(did) ==
    IF ~ isEd25519DidKey(did) \/ extractPublicKeyFromDidKey(did) = NoKey THEN NoDocument
    ELSE [id |-> did,
          verificationMethod |-> {Ed25519Method(did, didKeyFragment(did), extractPublicKeyFromDidKey(did))}]
=============================================================================
