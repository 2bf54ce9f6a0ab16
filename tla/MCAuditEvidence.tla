-------------------------- MODULE MCAuditEvidence --------------------------
(***************************************************************************)
(* Instances of AuditEvidence and EvidenceStore for TLC.  They share no    *)
(* state, so one variable picks the part a behaviour exercises and the     *)
(* state spaces add up.                                                    *)
(***************************************************************************)
EXTENDS AuditEvidence, EvidenceStore, TLC

CONSTANTS c1, c2, c3, b1, b2, d1, d2, d3, d4, r1, w1, w2

\* c1 and c2 share a builder; c3 uses another process's builder on the store.
TwoBuilders == (c1 :> b1) @@ (c2 :> b1) @@ (c3 :> b2)

OneObserver == {[did |-> "observer", alg |-> "EdDSA"]}
OneAnchor == {[kind |-> "worm", provider |-> "vault"]}
WormOnly == {"worm"}

\* The first entry is delivered twice, and a later one may arrive before it.
FourDeliveries == (d1 :> 0) @@ (d2 :> 0) @@ (d3 :> 1) @@ (d4 :> 2)

Nothing == [calls |-> {}, deliveries |-> {}, readers |-> {}, workers |-> {},
            anchors |-> OneAnchor, entries |-> 3, hooks |-> FALSE,
            export |-> FALSE, faults |-> {}]

Scenarios ==
    {\* two calls of one builder whose hooks fail
     [Nothing EXCEPT !.calls = {c1, c2}, !.hooks = TRUE, !.faults = {"hook"}],
     \* two builders, one builder and a restored journal; lost replies
     [Nothing EXCEPT !.calls = {c1, c3}, !.anchors = {}, !.faults = {"restore"}],
     [Nothing EXCEPT !.calls = {c1, c2}, !.entries = 2, !.faults = {"restore"}],
     [Nothing EXCEPT !.calls = {c1, c3}, !.entries = 2, !.faults = {"reply", "backoff"}],
     \* a mirror, a reader
     [Nothing EXCEPT !.deliveries = {d1, d2, d3, d4}, !.faults = {"restore"}],
     [Nothing EXCEPT !.readers = {r1}, !.entries = 4],
     \* two workers of a projection
     [Nothing EXCEPT !.workers = {w1, w2}, !.entries = 2, !.faults = {"restore"}],
     \* an audit
     [Nothing EXCEPT !.calls = {c1, c2}, !.export = TRUE],
     [Nothing EXCEPT !.calls = {c1}, !.export = TRUE, !.faults = {"restore"}]}

HookScenario ==
    {[Nothing EXCEPT !.calls = {c1, c2}, !.hooks = TRUE, !.faults = {"hook"}]}

\* A key, and one of another algorithm.
Keys == {[name |-> "k1", algorithm |-> "AES-GCM"], [name |-> "k2", algorithm |-> "AES-CBC"]}

VARIABLE part  \* the part this behaviour exercises

\* The part that rests has one initial state.
PartsInit ==
    /\ part \in {"history", "objects"}
    /\ IF part = "history" THEN TRUE ELSE setting = CHOOSE s \in Settings : TRUE
    /\ Init /\ EvidenceInit

PartsNext ==
    /\ UNCHANGED part
    /\ \/ part = "history" /\ Next /\ UNCHANGED evidenceVars
       \/ part = "objects" /\ EvidenceNext /\ UNCHANGED vars

PartsSpec == PartsInit /\ [][PartsNext]_<<part, vars, evidenceVars>>
=============================================================================
