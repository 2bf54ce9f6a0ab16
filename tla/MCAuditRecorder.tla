-------------------------- MODULE MCAuditRecorder --------------------------
(***************************************************************************)
(* Instances of AuditRecorder for TLC.  One table holds the calls of every *)
(* scenario; a setting picks the calls of one and the faults it meets.     *)
(***************************************************************************)
EXTENDS AuditRecorder, TLC

CONSTANTS r1, r2, r3, k1, k2, k3, k4, a, b, o1, o2, g1, g2,
          c1, c2, c3, c4, c5, e1, e2, e3, e4, p1, p2, p3, p4

\* Two replicas of one configuration, and one of another.
TwoConfigs == [r \in Recorders |-> IF r = r3 THEN g2 ELSE g1]

\* k1 is committed in a retained earlier epoch.
OnePrior == {[key |-> k1, content |-> a]}

Call(r, k, x, ev) ==
    [recorder |-> r, key |-> k, content |-> x, evidence |-> ev,
     authorized |-> TRUE, pinned |-> FALSE]

\* c1, c2: an event and its redelivery to the other replica; c3, c4: other
\* events; c5: other content under the identity of c1.
\* e1, e2, e3: one recorder, shared evidence, e3 redelivers e2; e4: e1 at the
\* other replica.
\* p1: an event of the earlier epoch; p2: a call pinned to that epoch; p3: a
\* replica of another configuration; p4: a caller without authority.
AllCalls ==
    (c1 :> Call(r1, k2, a, {})) @@ (c2 :> Call(r2, k2, a, {}))
    @@ (c3 :> Call(r1, k3, a, {})) @@ (c4 :> Call(r2, k4, a, {}))
    @@ (c5 :> Call(r2, k2, b, {}))
    @@ (e1 :> Call(r1, k2, a, {o1, o2})) @@ (e2 :> Call(r1, k3, a, {o1}))
    @@ (e3 :> Call(r1, k3, a, {o1})) @@ (e4 :> Call(r2, k2, a, {o1}))
    @@ (p1 :> Call(r1, k1, a, {}))
    @@ (p2 :> [Call(r1, k2, a, {}) EXCEPT !.pinned = TRUE])
    @@ (p3 :> Call(r3, k2, a, {}))
    @@ (p4 :> [Call(r3, k3, a, {}) EXCEPT !.authorized = FALSE])

Table == [c \in Calls |-> AllCalls[c]]

Setting(calls, faults, linked) == [calls |-> calls, faults |-> faults, linked |-> linked]

Scenarios ==
    { Setting({c1, c2, c3}, {"lag", "journal"}, FALSE),
      Setting({c1, c2, c3}, {"restore", "quiet", "journal"}, FALSE),
      Setting({e1, e2, e3}, {"journal", "evidence"}, FALSE),
      Setting({p1, p2, p3, p4}, {"lag", "guard"}, TRUE),
      Setting({c1, c3, c4}, {}, FALSE),
      Setting({c1, c4, c5}, {}, FALSE) }

\* Two independent events with a common object and every kind of failure; the
\* race of the first scenario.
Failing == { Setting({e2, e4}, {"lag", "journal", "evidence", "guard", "crash"}, TRUE),
             Setting({c1, c2, c3}, {"lag", "journal"}, FALSE) }
=============================================================================
