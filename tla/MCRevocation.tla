---------------------------- MODULE MCRevocation ----------------------------
(***************************************************************************)
(* What grants and withdraws authority outside the gate, for TLC: the      *)
(* delegation graph and its revocations, the status list as bytes, the     *)
(* credentials at their source, and the handshake that sends a caller to   *)
(* its consent.  They share no state, so one variable picks the part a     *)
(* behaviour exercises and the state spaces add up.                        *)
(***************************************************************************)
EXTENDS Revocation, StatusBits, Issuing, Authorization, Cheqd

CONSTANTS rt, c, g, u, p, m1, m2,
          revR, revC, revU, allR, allP, regR, regU, regU2, resR, resC, remC, remR, chkG, chkU

-----------------------------------------------------------------------------
(* Revocation: rt is a root with two delegations under it, c with g under  *)
(* it, and u; p is another root.                                           *)

Issued == [n \in Nodes |-> CASE n \in {c, u} -> rt [] n = g -> c [] OTHER -> None]
WithEntry == {rt, c, p}

Does(k, n, m) == [kind |-> k, node |-> n, manager |-> m]

Calls == [o \in Ops |->
    CASE o = revR -> Does("revoke", rt, m1)   [] o = revC -> Does("revoke", c, m1)
      [] o = revU -> Does("revoke", u, m1)
      [] o = allR -> Does("allocate", rt, m1) [] o = allP -> Does("allocate", p, m1)
      [] o = regR -> Does("register", rt, m1)
      [] o \in {regU, regU2} -> Does("register", u, m1)
      [] o = resR -> Does("restore", rt, m2)  [] o = resC -> Does("restore", c, m1)
      [] o = remC -> Does("remove", c, m1)    [] o = remR -> Does("remove", rt, m1)
      [] o = chkG -> Does("check", g, m1)    [] o = chkU -> Does("check", u, m1)]

With(ops, registered, capacity, atomic, drops, fails) ==
    [ops |-> ops, registered |-> registered, capacity |-> capacity, atomic |-> atomic,
     dropsMark |-> drops, mayFail |-> fails]

Scenarios ==
    { With({revR, revC, chkG}, {rt, c, g}, 2, TRUE, FALSE, TRUE),
      With({revR, regU, regU2, chkU}, {rt}, 1, TRUE, FALSE, FALSE),
      With({revR, regU, regU2, chkU}, {rt}, 1, FALSE, FALSE, FALSE),
      With({allR, allP, regR, revR}, {}, 2, TRUE, FALSE, TRUE),
      With({allR, allP, regR, revR}, {}, 1, TRUE, FALSE, FALSE),
      With({revR, resR, chkG}, {rt, c, g}, 2, TRUE, FALSE, TRUE),
      With({revR, resC, chkG}, {rt, c, g}, 2, TRUE, FALSE, TRUE),
      With({revR, resR, resC}, {rt, c, g}, 2, TRUE, FALSE, TRUE),
      With({revR, revU, chkU}, {rt, u}, 1, TRUE, TRUE, FALSE),
      With({revR, remC, chkG}, {rt, c, g}, 2, TRUE, FALSE, FALSE) }
    \cup {With({regU, remR}, {rt}, 1, a, FALSE, FALSE) : a \in BOOLEAN}

-----------------------------------------------------------------------------
\* Both sides of the list's ends and of its bytes' boundaries.
StatusIndices == {-1, 0, 6, 7, 8, 9, 10, 15, 16}

-----------------------------------------------------------------------------
(* Issuing: two seconds of two ticks; every bound, an option's date, a     *)
(* root, and a record that names another issuer than the service.          *)

NoOptions == [id |-> {}, issued |-> {}, expires |-> {}, status |-> {}]
Window(from, until) == [notBefore |-> from, notAfter |-> until]
Granting(issuer, window, options) ==
    [id |-> "d1", issuerDid |-> issuer, subjectDid |-> "agent", controller |-> {"user"},
     parentId |-> {"d0"}, status |-> {}, constraints |-> window, options |-> options]
Grants ==
    {Granting("issuer", Window(from, until), [NoOptions EXCEPT !.expires = e]) :
        from \in {{}, {0}, {2}}, until \in {{}, {0}, {1}, {2}}, e \in {{}, {3}, {4}}}
    \cup {Granting("other", Window({}, {}), NoOptions),
          [Granting("issuer", Window({}, {}), [NoOptions EXCEPT !.id = {"vc"}, !.issued = {1}])
              EXCEPT !.id = "d2", !.controller = {}, !.parentId = {}, !.status = {"revoked"}]}
DidKeys == [d \in {"issuer", "other", "server"} |-> d]
ForwardingServers == {[did |-> "server", method |-> "key"], [did |-> "server", method |-> "web"]}
ForwardingSessions == [agent : {"agent", "other", ""}, id : {"s", ""}]

-----------------------------------------------------------------------------
(* Authorization: two flows redeemed by two callbacks, and handshakes with *)
(* and without a reputation service.                                       *)

Flow(agent, state, required) == [agent |-> agent, state |-> state, redirect |-> "back",
    protection |-> [type |-> "oauth", requiredScopes |-> required]]
NoAuth == [flows |-> {}, scopes |-> {}, states |-> {}, handshakes |-> {}, standings |-> {}, service |-> FALSE,
           minScore |-> {}, policy |-> "require-consent", faults |-> FALSE]
Known(s, d) == [score |-> s, delegated |-> d]
Standings == {Known(s, TRUE) : s \in {{}, {1}, {3}}} \cup {Known({3}, FALSE)}
AuthScenarios ==
    {[NoAuth EXCEPT !.flows = {Flow("a", "s1", {{"read"}}), Flow("b", "s2", {})}, !.states = {"s1", "s2"}, !.scopes = {{}}],
     [NoAuth EXCEPT !.flows = {Flow("a", "s1", {{"read"}}), [Flow("a", "s1", {}) EXCEPT !.protection.type = "none"]},
                    !.scopes = {{}, {{"read"}}}, !.states = {"s1"}, !.faults = TRUE]}
    \cup {[NoAuth EXCEPT !.handshakes = {"h1"}, !.standings = Standings, !.service = s, !.minScore = m,
                         !.policy = p1, !.faults = TRUE] :
            s \in BOOLEAN, m \in {{}, {2}}, p1 \in {"deny", "require-consent", "allow"}}
    \cup {[NoAuth EXCEPT !.handshakes = {"h1", "h2"}, !.faults = TRUE]}

-----------------------------------------------------------------------------
(* The ledger: a list that revokes while it is read, keys that rotate, two *)
(* links of one document, and every artifact and answer of the registrar.  *)

Cheqd(name) == [name |-> name, padded |-> FALSE]
Padded(name) == [name |-> name, padded |-> TRUE]
Document(id, key, aka) == [id |-> id, wellFormed |-> TRUE, first |-> "m1", aka |-> aka,
    methods |-> {[id |-> "m1", key |-> key], [id |-> "m2", key |-> NoMethodKey]}]
LedgerIssuer == Cheqd("issuer")
GenesisDocument == Document(LedgerIssuer, "key1", {Padded("web0")})
RotatedDocument == [GenesisDocument EXCEPT !.methods = {[id |-> "m1", key |-> "key1"], [id |-> "m2", key |-> "key2"]}]
StrippedDocument == [GenesisDocument EXCEPT !.methods = {[id |-> "m2", key |-> "key1"]}]
StrangeDocuments == {Document(Cheqd("other"), "key9", {}), [GenesisDocument EXCEPT !.wellFormed = FALSE]}

BareList(issuer, purpose, gone) == [list |-> TRUE, issuer |-> issuer, proof |-> {}, purpose |-> {purpose},
                                    revoked |-> gone, size |-> 2]
SignedList(l, vm, key) ==
    [l EXCEPT !.proof = {[value |-> TRUE, vm |-> vm, by |-> key, over |-> l]}]
RevokingList(gone) == SignedList(BareList(LedgerIssuer, "revocation", gone), {"m1"}, "key1")
GenesisList == RevokingList({})
StrangeBodies == {SignedList(BareList(Cheqd("other"), "revocation", {}), {"m1"}, "key1"),
    BareList(LedgerIssuer, "revocation", {}), [GenesisList EXCEPT !.revoked = {0}],
    SignedList(BareList(LedgerIssuer, "revocation", {}), {}, "key9")}

Entry(index) == [https |-> TRUE, index |-> index, purpose |-> "revocation"]
NoWork == [kind |-> "check", entry |-> Entry({1}), name |-> Cheqd("web1"), artifact |-> {},
           document |-> GenesisDocument, method |-> {}, page |-> GenesisDocument]
Checks(e) == [NoWork EXCEPT !.entry = e]
Publishes(content, type, hash, id) ==
    [NoWork EXCEPT !.kind = "publish", !.method = {"m1"}, !.artifact =
        [type |-> type, subject |-> TRUE, content |-> {content}, hash |-> hash, id |-> id]]
Links(name) == [NoWork EXCEPT !.kind = "link", !.method = {"m1"}, !.name = Padded(name),
                              !.page = Document(Padded(name), "key8", {LedgerIssuer})]
Writes(kind, document, method) == [NoWork EXCEPT !.kind = kind, !.document = document, !.method = method]
OnePayload == {{[id |-> "", kid |-> {}]}}
Payloads == OnePayload \cup {{}, {[id |-> "r1", kid |-> {"m1"}], [id |-> "r2", kid |-> {}]}, {[id |-> "r1", kid |-> {"m2"}]}}
Ledger(work, asks) == [work |-> work, asks |-> asks, faults |-> FALSE, others |-> FALSE, clears |-> {}]
Failing(work) == [Ledger(work, Payloads) EXCEPT !.faults = TRUE]
Misled(work) == [Ledger(work, OnePayload) EXCEPT !.others = TRUE]
Revoking == Publishes(RevokingList({1}), "StatusListCredential", "absent", "absent")
LedgerScenarios ==
    {[Ledger([c1 |-> Checks(Entry({1})), c2 |-> Checks(Entry({1})), w1 |-> Revoking], OnePayload)
        EXCEPT !.clears = {"lists"}],
     Ledger([c1 |-> Checks(Entry({0})), c2 |-> Checks(Entry({0})),
             w1 |-> Writes("update", StrippedDocument, {"m1"})], OnePayload),
     [Ledger([c1 |-> Links("web1"), c2 |-> Links("web2")], OnePayload)
        EXCEPT !.clears = {"documents"}],
     Misled([c1 |-> Checks(Entry({1})), c2 |-> Links("web1")]),
     Failing([c1 |-> Links("web0")]), Failing([c1 |-> Links("web1")])}
    \cup {Misled([c1 |-> Checks(e)]) :
             e \in {[Entry({1}) EXCEPT !.https = FALSE], Entry({}), Entry({2}), [Entry({1}) EXCEPT !.purpose = "suspension"]}}
    \cup {Failing([w1 |-> Writes(k, d, m)]) :
             k \in {"create", "update"}, d \in {GenesisDocument, RotatedDocument}, m \in {{}, {"m1"}, {"m2"}}}
    \cup {Failing([w1 |-> Publishes(x, t, h, i)]) :
             x \in {RevokingList({1}), BareList(LedgerIssuer, "revocation", {})},
             t \in {"StatusListCredential", "CapabilityManifest", "Diary"},
             h \in {"absent", "matches", "differs", "malformed"}, i \in {"absent", "malformed"}}

-----------------------------------------------------------------------------
VARIABLE part   \* the part this behaviour exercises

\* The parts that rest have one initial state.
Init ==
    /\ part \in {"graph", "bits", "issuing", "handshake", "ledger"}
    /\ IF part = "graph" THEN TRUE ELSE setting = CHOOSE s \in Settings : TRUE
    /\ IF part = "handshake" THEN TRUE ELSE aset = CHOOSE s \in AuthSettings : TRUE
    /\ IF part = "ledger" THEN TRUE ELSE cheqd = CHOOSE s \in CheqdSettings : TRUE
    /\ RevocationInit /\ BitsInit /\ IssuingInit /\ AuthInit /\ CheqdInit

Next ==
    /\ UNCHANGED part
    /\ \/ part = "graph" /\ RevocationNext /\ UNCHANGED <<bitsVars, issuingVars, authVars, cheqdVars>>
       \/ part = "bits" /\ BitsNext /\ UNCHANGED <<revocationVars, issuingVars, authVars, cheqdVars>>
       \/ part = "issuing" /\ IssuingNext /\ UNCHANGED <<revocationVars, bitsVars, authVars, cheqdVars>>
       \/ part = "handshake" /\ AuthNext /\ UNCHANGED <<revocationVars, bitsVars, issuingVars, cheqdVars>>
       \/ part = "ledger" /\ CheqdNext /\ UNCHANGED <<revocationVars, bitsVars, issuingVars, authVars>>

Spec == Init /\ [][Next]_<<part, revocationVars, bitsVars, issuingVars, authVars, cheqdVars>>
=============================================================================
