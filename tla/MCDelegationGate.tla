-------------------------- MODULE MCDelegationGate --------------------------
(* An instance of DelegationGate for TLC: a user who delegates to an agent, *)
(* who re-delegates to a helper, and a stranger with a key of its own.      *)
EXTENDS DelegationGate, TLC

Read == <<"r">>
AnyR == <<"r", "*">>
Scopes == {Read, AnyR, <<"w">>}
Literal(pattern, value) == pattern = value

Credential ==
    [id |-> "root", parent |-> None, issuer |-> "user", signer |-> "user", authentic |-> TRUE,
     subject |-> "agent", agent |-> "agent", controller |-> "user",
     authority |-> [flat |-> {Read}, crisp |-> {}], wellFormed |-> TRUE,
     notBefore |-> 0, expires |-> Never, jwtExp |-> Never, issMatches |-> TRUE,
     listed |-> FALSE, audience |-> {}]

\* The re-delegation of root to the helper.
Child ==
    [Credential EXCEPT !.id = "leaf", !.parent = "root", !.issuer = "agent", !.signer = "agent",
                       !.subject = "helper", !.agent = "helper", !.audience = {Server}]

TheCred ==
    [root    |-> [Credential EXCEPT !.listed = TRUE],
     leaf    |-> Child,
     short   |-> [Credential EXCEPT !.id = "short", !.expires = 1],
     last    |-> [Child EXCEPT !.id = "last", !.parent = "short", !.expires = 2],
     wide    |-> [Credential EXCEPT !.id = "wide", !.jwtExp = 2, !.notBefore = 1,
                    !.authority = [flat |-> {}, crisp |-> {[matcher |-> "prefix", resource |-> AnyR]}]],
     \* what a stranger can sign, and a signature that is not the agent's
     claimed |-> [Child EXCEPT !.id = "claimed", !.signer = "stranger", !.subject = "stranger",
                               !.agent = "stranger"],
     below   |-> [Child EXCEPT !.id = "below", !.parent = "claimed", !.issuer = "stranger",
                               !.signer = "stranger", !.subject = "stranger", !.agent = "stranger"],
     forged  |-> [Child EXCEPT !.id = "forged", !.authentic = FALSE],
     selfmade|-> [Credential EXCEPT !.signer = "stranger", !.subject = "stranger"]]

TheCreds == DOMAIN TheCred

\* What an honest resolver returns, and what another may.
TheChain ==
    [x \in TheCreds |-> CASE x \in {"leaf", "claimed", "forged"} -> <<"root">>
                          [] x = "last" -> <<"short", "last">>
                          [] x = "below" -> <<"root", "claimed">>
                          [] OTHER -> <<>>]
TheAnswers ==
    {<<>>, <<"leaf", "root">>} \cup {<<x>> : x \in TheCreds}
    \cup {<<x, y>> : x \in {"root", "selfmade"}, y \in {"leaf", "claimed", "forged", "below"}}

Proof(by, nonce, good) == [by |-> by, nonce |-> nonce, good |-> good]
Approval(by, action, shape, approve, signed) ==
    [by |-> by, action |-> action, shape |-> shape, approve |-> approve, signed |-> signed]

Call ==
    [cred |-> None, form |-> "object", proof |-> None, session |-> None,
     scope |-> Read, action |-> "show", approvals |-> {}]
Present(x) == [Call EXCEPT !.cred = x]

TheRequest ==
    [leaf1    |-> Present("leaf"),
     leaf2    |-> [Present("leaf") EXCEPT !.session = "s1"],
     claim    |-> Present("claimed"),
     deep     |-> Present("below"),
     fake     |-> Present("forged"),
     own      |-> Present("selfmade"),
     last1    |-> [Present("last") EXCEPT !.session = "s1"],
     jwt1     |-> [Present("wide") EXCEPT !.form = "jwt", !.session = "s1"],
     jwt2     |-> [Present("wide") EXCEPT !.form = "jwt", !.session = "s1", !.scope = <<"w">>],
     agent1   |-> [Present("root") EXCEPT !.proof = Proof("agent", 1, TRUE), !.session = "s1"],
     agent2   |-> [Present("root") EXCEPT !.proof = Proof("agent", 1, TRUE)],
     stolen   |-> [Present("root") EXCEPT !.proof = Proof("stranger", 2, TRUE)],
     bare     |-> [Present("root") EXCEPT !.session = "s1"],
     retry1   |-> [Call EXCEPT !.session = "s1"],
     retry2   |-> [Call EXCEPT !.session = "s2"],
     proven1  |-> [Call EXCEPT !.session = "s1", !.proof = Proof("agent", 2, TRUE)],
     proven2  |-> [Call EXCEPT !.session = "s2", !.proof = Proof("agent", 1, TRUE)],
     proven3  |-> [Call EXCEPT !.session = "s2", !.proof = Proof("agent", 3, TRUE)],
     wrong    |-> [Call EXCEPT !.session = "s1", !.proof = Proof("agent", 4, FALSE)],
     erase    |-> [Present("root") EXCEPT !.action = "erase"],
     erase1   |-> [Present("root") EXCEPT !.action = "erase",
                     !.approvals = {Approval("p", "erase", "legacy", TRUE, TRUE),
                                    Approval("p", "erase", "tools/call", TRUE, TRUE),
                                    Approval("q", "show", "legacy", TRUE, TRUE),
                                    Approval("stranger", "erase", "legacy", TRUE, TRUE)}],
     erase2   |-> [Present("root") EXCEPT !.action = "erase",
                     !.approvals = {Approval("p", "erase", "legacy", TRUE, TRUE),
                                    Approval("q", "erase", "tools/call", TRUE, TRUE)}],
     odd      |-> [Present("root") EXCEPT !.action = "odd"]]

TheCalls == DOMAIN TheRequest
TheRisk == [show |-> "low", erase |-> "high", odd |-> "unknown"]

\* Each setting names the calls it is about and how far its clock runs.
Base ==
    [calls |-> {}, mode |-> "off", faults |-> {}, statusList |-> TRUE, checker |-> FALSE,
     trusted |-> {"user"}, statusTtl |-> 0, sigTtl |-> 1, events |-> {}, policy |-> "none",
     revoked |-> {}, graphed |-> {}, rotated |-> {}, horizon |-> 0]

\* A resolver that returns what it likes; everything outside that fails.
Untrusted ==
    {[Base EXCEPT !.calls = {c}, !.faults = {"resolver"}] :
        c \in {"claim", "leaf1", "deep", "fake", "own"}}
    \cup {[Base EXCEPT !.calls = {"leaf2", "retry1"}, !.checker = TRUE,
                       !.faults = {"did", "status", "checker", "store"}],
          [Base EXCEPT !.calls = {"bare", "retry1"}, !.faults = {"audit"}],
          [Base EXCEPT !.calls = {"bare"}, !.statusList = FALSE]}

\* Two calls share the caches while the root is revoked or a key rotates.
Revoking ==
    {[Base EXCEPT !.calls = {"leaf1", "bare"}, !.statusTtl = 1, !.revoked = {"root"}, !.horizon = 3],
     [Base EXCEPT !.calls = {"agent1", "bare"}, !.rotated = {"user"}, !.horizon = 3],
     [Base EXCEPT !.calls = {"leaf1", "leaf2"}, !.checker = TRUE, !.graphed = {"root", "leaf"}, !.horizon = 1]}

\* A grant meets other sessions, its revocation and its end.
Granting ==
    {[Base EXCEPT !.calls = {"last1", "retry1"}, !.events = {"cleanup"}, !.horizon = 2],
     [Base EXCEPT !.calls = {"jwt1", "retry1"}, !.events = {"cleanup"}, !.horizon = 3],
     [Base EXCEPT !.calls = {"jwt2"}, !.horizon = 1],
     [Base EXCEPT !.calls = {"bare", "retry1"}, !.statusTtl = 1, !.revoked = {"root"}, !.horizon = 2],
     [Base EXCEPT !.calls = {"jwt1", "retry1"}, !.rotated = {"user"}, !.horizon = 3],
     [Base EXCEPT !.calls = {"bare", "retry1", "retry2"}, !.events = {"grant"}],
     [Base EXCEPT !.calls = {"agent1", "proven3", "wrong"}, !.mode = "warn", !.events = {"grant"}],
     [Base EXCEPT !.calls = {"bare", "stolen"}, !.mode = "warn"]}

\* Proofs are used again, and sessions are used without a proof.
Proving ==
    {[Base EXCEPT !.calls = cs, !.mode = "enforce"] :
        cs \in {{"agent1", "agent2", "proven1", "retry1"}, {"agent1", "proven2", "proven1"},
                {"agent1", "stolen", "bare", "proven1"}}}

\* The policy gate.
Gated ==
    {[Base EXCEPT !.calls = {c}, !.policy = "matched"] : c \in {"bare", "erase", "erase1", "erase2", "odd"}}
    \cup {[Base EXCEPT !.calls = {"erase2"}, !.policy = "unmatched"],
          [Base EXCEPT !.calls = {"erase2"}, !.policy = "matched", !.faults = {"audit"}]}

TheSettings == Untrusted \cup Revoking \cup Granting \cup Proving \cup Gated

\* Filter, which is stated by positions, agrees with SelectSeq.
ASSUME FilterSelects ==
    \A s \in UNION {[1 .. n -> 1 .. 3] : n \in 0 .. 4}, kept \in SUBSET (1 .. 3) :
        Filter(s, kept) = SelectSeq(s, LAMBDA x : x \in kept)
=============================================================================
