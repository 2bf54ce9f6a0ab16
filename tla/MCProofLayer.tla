---------------------------- MODULE MCProofLayer ----------------------------
(***************************************************************************)
(* Instances of ProofLayer for TLC.  One table holds the calls of every    *)
(* scenario; a setting picks its calls and its limits.                     *)
(***************************************************************************)
EXTENDS ProofLayer

CONSTANTS a, b, c, o, p, q, pay, read

\* a and c are calls of wrapped tools; the handler of a runs b in process.
\* p is a call of a tool without a wrapper, whose handler runs the wrapped q or o,
\* which a gate refuses.
Hosts == [x \in Calls |-> CASE x = b -> a [] x \in {q, o} -> p [] OTHER -> None]
Registered == [x \in Calls |-> CASE x = p -> "plain" [] x = o -> "outcome" [] OTHER -> "wrapped"]
\* In the liveness run b is refused by a gate.
RefusedB == [x \in Calls |-> IF x = b THEN "outcome" ELSE "wrapped"]
Tools == [x \in Calls |-> IF x \in {a, p} THEN pay ELSE read]
Sizes == [x \in Calls |-> IF x \in {a, p} THEN 1 ELSE 2]

With(calls, excluded, transports, limits, audit, replaces) ==
    [calls |-> calls, excluded |-> excluded, transports |-> transports,
     limit |-> limits[1], budget |-> limits[2], closedBudget |-> limits[3], maxResends |-> limits[4],
     auditMayFail |-> audit, sdkReplaces |-> replaces]

Scenarios ==
    { With({a, c}, {}, {1, 2}, <<1, 1, 2, 1>>, FALSE, FALSE),
      With({a, c}, {}, {1}, <<1, 1, 2, 1>>, TRUE, FALSE),
      With({a, b, c}, {c}, {1}, <<2, 3, 9, 0>>, FALSE, TRUE),
      With({p, q}, {}, {1}, <<2, 9, 9, 1>>, TRUE, TRUE),
      With({p, o}, {}, {1}, <<2, 9, 9, 1>>, TRUE, FALSE) }

Settling == {With({a, b}, {}, {1}, <<2, 9, 9, 1>>, FALSE, FALSE)}
Replacing == {With({a}, {}, {1}, <<2, 9, 9, 0>>, FALSE, TRUE)}
=============================================================================
