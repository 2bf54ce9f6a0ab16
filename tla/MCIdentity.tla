------------------------------ MODULE MCIdentity ------------------------------
(***************************************************************************)
(* What establishes who sent a message, for TLC: replay admission, the     *)
(* guarded fetcher, DID resolution, the entity card and the exchange of    *)
(* detached proofs.  They share no state, so one variable picks the part a *)
(* behaviour exercises and the state spaces add up instead of multiplying. *)
(***************************************************************************)
EXTENDS ReplayAdmission, SafeFetch, DidResolution, CardVerifier, ProofExchange

CONSTANTS p1, p2, p3, h1, h2, h3, k1, k2, k3, sender1, n, l1, l2, j1, j2

-----------------------------------------------------------------------------
(* Replay admission: two ticks to the second, windows of one or two        *)
(* seconds; a setting picks the presentations of one verifier.             *)

Says(k, c, e, g) == [kind |-> k, did |-> sender1, nonce |-> n, created |-> c,
                     expires |-> e, genuine |-> g]

\* p1, p2: one proof presented twice; p3: a forged copy of its nonce.
\* h1, h2: one handshake presented twice; h3: its nonce used again much later.
\* k1, k2, k3: as p1, p2, p3 for a card proof.
AllMessages ==
    (p1 :> Says("proof", 1, 1, TRUE)) @@ (p2 :> Says("proof", 1, 1, TRUE))
    @@ (p3 :> Says("proof", 1, 1, FALSE))
    @@ (h1 :> Says("handshake", 2, 2, TRUE)) @@ (h2 :> Says("handshake", 2, 2, TRUE))
    @@ (h3 :> Says("handshake", 5, 5, TRUE))
    @@ (k1 :> Says("card", 1, 2, TRUE)) @@ (k2 :> Says("card", 1, 2, TRUE))
    @@ (k3 :> Says("card", 1, 2, FALSE))

Messages == [r \in Requests |-> AllMessages[r]]

DetachedProofs == {p1, p2, p3}
HandshakeMessages == {h1, h2, h3}
CardProofs == {k1, k2, k3}

With(requests, atomic, faults, advertised) ==
    [requests |-> requests, atomic |-> atomic, faults |-> faults, advertised |-> advertised]

AdmissionScenarios ==
    { With(rs, a, fs, {}) : rs \in {HandshakeMessages, CardProofs}, a \in BOOLEAN, fs \in {{}, {"cache"}} }
    \cup { With(DetachedProofs, a, fs, {0, 3}) : a \in BOOLEAN, fs \in {{}, {"cache"}} }

OneSecond == [k \in Kinds |-> 1]
\* NONCE_RETENTION_SEC for cards; "0 keeps each nonce for that window only".
Minimums == [k \in Kinds |-> IF k = "card" THEN 4 ELSE 0]

\* From the window check to the admission: less than a second for a proof, up to one
\* and a half for a card proof with its remote keys; none for a handshake.
Delays == ("handshake" :> 0) @@ ("proof" :> Tps - 1) @@ ("card" :> Tps + 1)

-----------------------------------------------------------------------------
(* The fetcher: every boundary of the blocked ranges, and each way an      *)
(* IPv4 address is written inside an IPv6 one.                             *)

AtHost(h, p) == [scheme |-> "https", host |-> h, path |-> p]
AskedUrls == {AtHost("a", "x"), AtHost("own", "x"), [AtHost("a", "x") EXCEPT !.scheme = "http"], BadUrl}
LocationHeaders == {AtHost("a", "y"), AtHost("b", "x"), AtHost("own", "y"), [AtHost("a",
      "x") EXCEPT !.scheme = "http"], BadUrl, NoLocation}
FirstParty == {AtHost("own", "")}
Quads == {<<8,8,8,8>>, <<0,0,0,1>>, <<10,0,0,1>>, <<100,63,0,1>>, <<100,64,0,1>>, <<100,127,0,1>>,
      <<127,0,0,1>>, <<169,254,169,254>>, <<172,15,0,1>>, <<172,16,0,1>>, <<172,31,0,1>>,
      <<172,32,0,1>>, <<192,0,0,1>>, <<192,0,1,1>>, <<192,0,2,1>>, <<192,168,0,1>>, <<198,17,0,1>>,
      <<198,18,0,1>>, <<198,19,0,1>>, <<198,20,0,1>>, <<198,51,100,1>>, <<203,0,113,1>>,
      <<223,0,0,1>>, <<224,0,0,1>>, <<255,255,255,255>>}
EmbeddedQuads == {<<8,8,8,8>>, <<10,0,0,1>>, <<0,0,0,0>>, <<0,0,0,1>>}
Hextets(q) == <<q[1]*256+q[2], q[3]*256+q[4]>>
AddressTexts == {V4(q) : q \in Quads \cup {<<8,8,8>>, <<8,8,8,256>>}}
  \cup {V6(<<<<>>, <<65535>>>>, q) : q \in EmbeddedQuads}
  \cup {V6(<<<<>>, <<65535>> \o Hextets(q)>>, NoQuad) : q \in EmbeddedQuads}
  \cup {V6(<<<<>>, <<>>>>, q) : q \in EmbeddedQuads}
  \cup {V6(<<<<100, 65435>>, <<>>>>, q) : q \in EmbeddedQuads}
  \cup {V6(<<<<100, 65435, 1>>, <<>>>>, q) : q \in EmbeddedQuads}
  \cup {V6(<<<<8194>> \o Hextets(q), <<1>>>>, NoQuad) : q \in EmbeddedQuads}
  \cup {V6(<<<<a>>, <<1>>>>, NoQuad) : a \in {8193, 9216, 65152, 65216, 64512, 64768, 65280, 256}}
  \cup {V6(<<<<8193, 3512>>, <<1>>>>, NoQuad), V6(<<<<9216,1,1,1,1,1,1,1>>>>, NoQuad),
      V6(<<<<9216>>>>, NoQuad), V6(<<<<9216>>, <<1>>, <<1>>>>, NoQuad), V6(<<<<9216,BadHextet>>,
      <<1>>>>, NoQuad),V6(<<<<0,0,0,0,0,0,0,1>>>>, NoQuad)}

-----------------------------------------------------------------------------
(* DID resolution: two lookups of a DID whose keys change, or one of any *)
(* DID under each configuration.                                           *)

DeviceOwner == WebDid(<<"host">>, <<"agents">>)
AskDids == {DeviceOwner, WebDid(<<"host", "@", "elsewhere">>, <<>>), WebDid(<<"10.0.0.1">>, <<>>),
      WebDid(<<"host", ":", "8080">>, <<>>), WebDid(<<"host">>, <<"..">>),
      generateDidKeyFromBytes("k9"), KeyDid("z6Mk+", "k9"), OtherDid("cheqd")}
AddressLiterals == ("10.0.0.1" :> V4(<<10,0,0,1>>))
Registry(r, a, ds, ls) == [registry |-> r, allowPrivate |-> a, dids |-> ds, lookups |-> ls]
RegistrySettings == {Registry(<<>>, FALSE, {DeviceOwner}, {l1, l2})} \cup
 {Registry(r, a, AskDids, {l1}) : r \in {<<>>, [cheqd |-> "answers", web |-> "silent"],
      [key |-> "answers", web |-> "throws"]}, a \in BOOLEAN}

-----------------------------------------------------------------------------
(* Entity cards: discovery on every surface, a full verification, the      *)
(* request gate, and delegation chains.                                    *)

Me == WebDid(<<"me">>, <<"agent">>)
Other == WebDid(<<"other">>, <<>>)
NoCase == [ME |-> "me"]
PowersOfTen == [i \in 0..MaxDigits |-> 10^i]

Jwk(kty, name) == [kty |-> kty, name |-> name]
K1 == Jwk("OKP", "k1")
K2 == Jwk("EC", "k2")
Kid1 == Kid(Me, "1")
Kid2 == Kid(Me, "2")

Vc(index) == [trusted |-> TRUE, index |-> index]
Mine == buildCard(card(Me, "agent"))
Named == capability(Mine, "read")
Attested == attestedCapability(attestedCapability(Mine, "read", Vc(3)), "read",
      [Vc(4) EXCEPT !.trusted = FALSE])
Full == BuilderField(usesProof(attestation(accountableTo(Attested, Other, Some("chain")),
          [vc |-> Vc(4), subject |-> Absent])), Absent, Some(StatusEntry("list", 0)), Some(K1))
Answerable == BuilderField(accountableTo(Attested, Other, Some("chain")), Absent, Absent, Absent)
Elsewhere == Https(<<"other">>, <<"cards", "me.json">>)
Own == Https(<<"me">>, <<"agent", "v2.json">>)

Caveat(type) == [type |-> type, date |-> {}, limit |-> {}, currency |-> {}, body |-> ""]
Until(d) == [Caveat("ValidUntil") EXCEPT !.date = {d}]
Amount(l, c) == [Caveat("MaxAmount") EXCEPT !.limit = {l}, !.currency = c]
Unknown(b) == [Caveat("Region") EXCEPT !.body = b]
Hop(issuer, invoker, id, parent, actions, caveats, until, status) ==
    [issuer |-> issuer, invoker |-> invoker, id |-> id, parent |-> parent, target |-> "res",
     actions |-> actions, caveats |-> caveats, from |-> {0}, until |-> until, status |-> status]
Root(actions, caveats, until) == Hop(Other, OtherDid("mid"), "c1", "res", actions, caveats, until,
      {StatusEntry("list", 1)})
Leaf(actions, caveats, until) == Hop(OtherDid("mid"), Me, "c2", "c1", actions, caveats, until,
      {StatusEntry("list", 2)})
D(w, f, digits) == Decimal(w, f, digits)
Limits == {Amount(D(1,0,0), {}), Amount(D(1, 5, 1), {}), Amount(D(1,51,2), {"USD"}),
      Amount(D(1,0,0), {"USD"}), Amount(D(1,0,0), {"EUR"}), Amount(D(0,0,Unparsed), {})}
CaveatSets == {{}} \cup {{a} : a \in Limits \cup {Until(2), Until(3), Until(Unparsed),
      Unknown("eu"), Unknown("us")}} \cup {{Amount(D(1,5,1), {}), Until(3)}, {Amount(D(1,0,0),
      {"USD"}), Until(2), Unknown("eu")}}
Chain == <<Root({"read", "write"}, {Until(3), Amount(D(1,5,1), {})}, {3}), Leaf({"read"},
      {Until(3), Amount(D(1,0,0), {"USD"})}, {3})>>
Chains == {<<Root({"read"}, p, u), Leaf(a, c, v)>> : p, c \in CaveatSets, u \in {{}, {2}, {3}},
      v \in {{}, {2}, {3}}, a \in {{"read"}, {"read","write"}}}
 \cup {<<Root({"read"}, {}, {}), [Leaf({"read"}, {}, {}) EXCEPT !.issuer = Me]>>, <<[Root({"read"},
      {}, {}) EXCEPT !.invoker = Me]>>, <<Root({"read"}, {}, {}), [Leaf({"read"}, {},
      {}) EXCEPT !.parent = "c9"]>>}
AllUses == [action : {"read", "write"}, amount : {D(1,0,0), D(1,5,1), D(1,51,2)},
      currency : {"USD", "EUR"}, at : 1..4, meets : {{}, {"eu"}, {"us"}}]

Request == [method |-> "tools/call", params |-> "p", meta |-> "m"]
Ctx == [audience |-> Other, nonce |-> "n", ttl |-> 2, cnfJkt |-> Absent, now |-> 1]
Good == Only(buildCardProof(Request, SignerFromJwk(Me, Kid1, K1), Ctx))
Ec == Only(buildCardProof(Request, SignerFromJwk(Me, Kid2, K2), [Ctx EXCEPT !.nonce = "n2"]))
Stranger == Jwk("OKP", "stranger")
BySomeoneElse == Only(buildCardProof(Request, SignerFromJwk(Me, Kid1, Stranger), Ctx))
Long == LET c == [Good EXCEPT !.expires = @ + 9] IN [c EXCEPT !.jws.over = coveredClaims(c)]
NoProof == [proof |-> Absent, legacyProof |-> Absent]
Meta(p) == [NoProof EXCEPT !.proof = Some(p)]
Presented == {NoProof, [NoProof EXCEPT !.legacyProof = Some(Good)], Meta(Good), Meta(Ec),
      Meta(BySomeoneElse), Meta(Long),
   Meta([Good EXCEPT !.nonce = "n3"]), Meta([Good EXCEPT !.nonce = ""]),
      Meta([Good EXCEPT !.did = Other]),
   Meta([Good EXCEPT !.alg = "ES256"]),
   Meta(Only(buildCardProof([Request EXCEPT !.params = "q"], SignerFromJwk(Me, Kid1, K1), Ctx))),
   Meta(Only(buildCardProof(Request, SignerFromJwk(Me, Kid1, K1), [Ctx EXCEPT !.audience = Me]))),
   Meta(Only(buildCardProof(Request, SignerFromJwk(Me, Kid1, K1),
      [Ctx EXCEPT !.cnfJkt = Some(Stranger)]))) }

NoDeps == [capabilities |-> FALSE, proof |-> FALSE, accountability |-> FALSE,
      attestations |-> FALSE, checker |-> FALSE, listProof |-> FALSE,
   didKeys |-> TRUE, trustResolveKey |-> FALSE, nonceSeam |-> TRUE, audience |-> Other,
      tokenCnf |-> Absent, minLevel |-> Absent]
AllDeps == [NoDeps EXCEPT !.capabilities = TRUE, !.proof = TRUE, !.accountability = TRUE,
      !.attestations = TRUE, !.checker = TRUE, !.listProof = TRUE]

Lookalike == [Named EXCEPT !.entityType = "mcp"]
Base == [jobs |-> {j1}, inputs |-> {}, card |-> Mine, pages |-> (Https(<<"other">>,
      <<"card.json">>) :> Lookalike), revised |-> {}, urls |-> {},
   keys |-> (Kid1 :> K1) @@ (Kid2 :> K2), stored |-> {}, revocable |-> {}, faults |-> FALSE,
      changes |-> {}, deps |-> NoDeps, chain |-> <<>>,
   ctx |-> [resource |-> {"res"}, resourceOwner |-> {Other}, maxChainLength |-> {2}],
      proofs |-> {NoProof}, request |-> Request, host |-> "current"]
In(f, r) == [form |-> f, ref |-> r]
Inputs == {In("did", [id |-> Me]), In("did", [id |-> WebDid(<<"ME">>, <<"agent">>)]), In("did",
      [id |-> generateDidKeyFromBytes("k")]), In("agentFacts", toAgentFacts(Named)),
  In("did", [id |-> WebDid(<<"%">>, <<>>)]), In("cardUrl", [url |-> Elsewhere]), In("cardUrl",
      [url |-> Url("http", <<"me">>, <<>>)]),
  In("a2a", toA2AExtension(Mine, Absent)), In("a2a",
      toA2AExtension([Mine EXCEPT !.entityType = "mcp"], Absent)),
  In("serverMeta", toCatalogEntry(Mine).meta), In("serverMeta", withKyaOsCard(Named,
      FALSE).serverMeta), In("serverMeta", withKyaOsCard(card(generateDidKeyFromBytes("k"), "mcp"),
      FALSE).serverMeta), In("serverMeta", withKyaOsCard(card(generateDidKeyFromBytes("k"), "mcp"),
      TRUE).serverMeta),
  In("serverMeta", toServerCardMeta([Lookalike EXCEPT !.revocation = Some(StatusEntry("list", 9))],
      FALSE, Absent)),
  In("cimd", toClientMetadata(Mine, Https(<<"me">>, <<"jwks">>))), In("cimd",
      [client_id |-> Https(<<"other">>, <<>>), did |-> Some(Me),
      jwks_uri |-> Some(Https(<<"other">>, <<"jwks">>))]),
  In("cimd", [client_id |-> Https(<<"me">>, <<"agent">>), did |-> Absent, jwks_uri |-> Absent]),
  In("cimd", [client_id |-> Https(<<"me">>, <<"agent">>), did |-> Absent,
      jwks_uri |-> Some(Https(<<"other">>, <<"jwks">>))])}
Discovery == {[Base EXCEPT !.inputs = Inputs, !.revised = {Named, [Mine EXCEPT !.id = Other]},
      !.urls = {Own, Elsewhere}]}
ByDidOnly == {In("did", [id |-> Me])}
Verification == {[Base EXCEPT !.inputs = ByDidOnly, !.card = Full, !.revocable = {0, 1, 2, 3},
      !.faults = TRUE, !.changes = {"tick", "reissue"}, !.deps = [AllDeps EXCEPT !.checker = c],
      !.chain = Chain, !.proofs = {NoProof, Meta(Good)}] : c \in BOOLEAN}
  \cup {[Base EXCEPT !.inputs = ByDidOnly, !.card = c] : c \in {Full, Attested, Named}}
  \cup {[Base EXCEPT !.inputs = ByDidOnly, !.card = Attested, !.deps = AllDeps,
      !.changes = {"tick", "rotate"}, !.revocable = {3}, !.proofs = {Meta(Good), Meta(Ec)}]}
Hosts == {[Base EXCEPT !.inputs = ByDidOnly, !.card = Full, !.revocable = r, !.changes = {"tick", "reissue"},
      !.deps = [AllDeps EXCEPT !.listProof = p], !.chain = Chain, !.proofs = {Meta(Good)},
      !.host = "any"] : r \in {{0}, {1}}, p \in BOOLEAN}
DepVariants == {[AllDeps EXCEPT !.didKeys = FALSE,
      !.trustResolveKey = t] : t \in BOOLEAN} \cup {[AllDeps EXCEPT !.nonceSeam = FALSE]}
  \cup {[AllDeps EXCEPT !.tokenCnf = c, !.minLevel = m] : c \in {Absent, Some(K1), Some(Stranger)},
      m \in {Absent, Some("L3"), Some("L3-minus")}}
Gate == {[Base EXCEPT !.inputs = {In("request", Absent)}, !.stored = {Stranger},
      !.changes = {"tick", "rotate"}, !.deps = d, !.proofs = Presented] : d \in DepVariants}
  \cup {[Base EXCEPT !.inputs = {In("request", Absent)}, !.jobs = {j1, j2}, !.faults = TRUE,
      !.deps = AllDeps, !.proofs = {Meta(Good), Meta(Ec)}]}
Delegation == {[Base EXCEPT !.inputs = ByDidOnly, !.card = Answerable, !.deps = AllDeps,
      !.changes = {"tick"}, !.chain = c] : c \in Chains}
CardScenarios == {Base} \cup Discovery \cup Verification \cup Hosts \cup Gate \cup Delegation

-----------------------------------------------------------------------------
(* Detached proofs: a web signer and a did:key holder; calls written as    *)
(* sent, in the legacy shape and without arguments; three responses.       *)

Args == ("q" :> "a") @@ ("_kyaos" :> "d")
PlainArgs == ("q" :> "a")
OtherArgs == ("q" :> "b")
Wire(args) == ToolRequest("tools/call",
    Just(Object(("name" :> "t") @@ ("arguments" :> Object(args)) @@ ("_meta" :> "m"))))
Covered(args) == ToolRequest("tools/call", Just(Object(("name" :> "t") @@ ("arguments" :> Object(args)))))
Bare == ToolRequest("tools/call", Just(Object(("name" :> "t"))))
Legacy(args) == ToolRequest("t", Just(Object(args)))
Result(content, m) == Object(("content" :> content) @@ ("_meta" :> m))
WebKid == ProofKid(Just("did:web:signer"), "k")
Proving(did, form, call, response, envelope) ==
    [did |-> did, audience |-> "aud", form |-> form, call |-> call, response |-> response,
     envelope |-> envelope, options |-> ("outcome" :> "allowed") @@ ("reason" :> "")]
ByWeb(form, call, response, envelope) == Proving("did:web:signer", form, call, response, envelope)
MintingJobs ==
    {ByWeb("layer", Legacy(Args), Just(Result("x", "m1")), TRUE),
     ByWeb("response", Covered(PlainArgs), Just(Array(<<"x">>)), FALSE),
     ByWeb("response", Legacy(OtherArgs), None, FALSE),
     ByWeb("response", Legacy(EmptyObject), Just(Result("y", "m1")), TRUE),
     [ByWeb("layer", Legacy(Args), Just(Result("x", "m1")), FALSE) EXCEPT !.audience = "other"],
     Proving("did:key:h", "request", Legacy(Args), None, FALSE)}
Expecting(mode, call, response) ==
    [mode |-> mode, request |-> call, response |-> response, did |-> Just("did:web:signer"),
     audience |-> Just("aud"), key |-> "org.kya-os/response-proof"]
ExpectedExchanges ==
    {Expecting("verify", Just(Wire(Args)), r) : r \in {None, Just(Result("x", "m2")), Just(Array(<<"x">>))}}
    \cup {Expecting("verify", Just(Legacy(OtherArgs)), None), Expecting("verify", Just(Bare), Just(Result("y", "m2")))}
    \cup {[Expecting("verify", None, None) EXCEPT !.did = None, !.audience = None, !.key = "proof"],
          [Expecting("artifact", Just(Legacy(PlainArgs)), Just(Result("x", "m1"))) EXCEPT !.key = "org.kya-os/proof"],
          Expecting("detached", None, None), Expecting("own", Just(Wire(Args)), Just(Result("x", "m2")))}
    \cup {[Expecting("holder", Just(Legacy(Args)), None) EXCEPT !.did = Just(d)] :
             d \in {"did:key:h", "did:web:signer"}}
Method(id, kid) == <<[id |-> id, jwk |-> {[kty |-> "OKP", crv |-> "Ed25519", x |-> "key1", kid |-> kid]}]>>
AbsoluteId == Method(WebKid, None)
RelativeId == Method(ProofKid(None, "k"), None)
HolderKeys == ("did:key:h" :> "key3")
TwoNonces == <<"n1", "n2">>
Exchanging(checks, minting, expectations, changes) ==
    [checks |-> checks, minting |-> minting, expectations |-> expectations, changes |-> changes]
AtOnce == {ByWeb("response", Legacy(OtherArgs), None, FALSE)}
Exchanges ==
    {Exchanging({j1}, MintingJobs, ExpectedExchanges, FALSE),
     Exchanging({j1, j2}, AtOnce, {Expecting("verify", Just(Legacy(OtherArgs)), None)}, TRUE)}

-----------------------------------------------------------------------------
CONSTANT Parts  \* the parts this run exercises

VARIABLE part   \* the part this behaviour exercises

\* The parts that rest have one initial state.
Init ==
    /\ part \in Parts
    /\ IF part = "admission" THEN TRUE ELSE setting = CHOOSE s \in Settings : TRUE
    /\ IF part = "fetch" THEN TRUE
       ELSE fetcher = [transport |-> "pinned", trusted |-> normalizeTrustedOrigins(Trusted)]
    /\ IF part = "dids" THEN TRUE ELSE resolvers = CHOOSE r \in Registries : TRUE
    /\ IF part = "card" THEN TRUE ELSE cset = Base
    /\ IF part = "proof" THEN TRUE ELSE pset = CHOOSE x \in Exchanges : TRUE
    /\ AdmissionInit /\ FetchInit /\ ResolutionInit /\ CardInit /\ ExchangeInit

Next ==
    /\ UNCHANGED part
    /\ \/ part = "admission" /\ AdmissionNext /\ UNCHANGED <<fetchVars, resolutionVars, cardVars, exchangeVars>>
       \/ part = "fetch" /\ FetchNext /\ UNCHANGED <<admissionVars, resolutionVars, cardVars, exchangeVars>>
       \/ part = "dids" /\ ResolutionNext /\ UNCHANGED <<admissionVars, fetchVars, cardVars, exchangeVars>>
       \/ part = "card" /\ CardNext /\ UNCHANGED <<admissionVars, fetchVars, resolutionVars, exchangeVars>>
       \/ part = "proof" /\ ExchangeNext /\ UNCHANGED <<admissionVars, fetchVars, resolutionVars, cardVars>>

Spec == Init /\ [][Next]_<<part, admissionVars, fetchVars, resolutionVars, cardVars, exchangeVars>>
=============================================================================
