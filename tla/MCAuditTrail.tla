---------------------------- MODULE MCAuditTrail ----------------------------
(***************************************************************************)
(* Instances of AuditTrail for TLC.  One table holds the calls of every    *)
(* scenario; a setting picks its calls, its flush loops and its faults.    *)
(***************************************************************************)
EXTENDS AuditTrail, TLC

CONSTANTS t1, t2, s1, s2, i1, i2, i3, x, y, f1, f2,
          j1, j2, j3, j4, h1, h2, q1, q2, q3

Asks(t, i, b, k) == [trail |-> t, id |-> i, body |-> b, kind |-> k]

\* j1, j2: two events; j3: one of t2 under the event ID of j1; j4: j1 again.
\* h1: rejected input; h2: a high-water declaration.
\* q1, q2, q3: another event of each process, and j1 from the other one.
AllJobs ==
    (j1 :> Asks(t1, i1, x, "event")) @@ (j2 :> Asks(t1, i2, x, "event"))
    @@ (j3 :> Asks(t2, i1, y, "event")) @@ (j4 :> Asks(t1, i1, x, "event"))
    @@ (h1 :> Asks(t1, i2, x, "invalid")) @@ (h2 :> Asks(t1, i3, x, "highwater"))
    @@ (q1 :> Asks(t2, i2, x, "event")) @@ (q2 :> Asks(t2, i1, x, "event"))
    @@ (q3 :> Asks(t1, i3, y, "event"))

Asked == [j \in Jobs |-> AllJobs[j]]
Owner == [f \in Flushers |-> IF f = f1 THEN t1 ELSE t2]

OwnSource == (t1 :> s1) @@ (t2 :> s2)
SharedSource == (t1 :> s1) @@ (t2 :> s1)

Buffered(jobs, flushers, keyed, faults) ==
    [jobs |-> jobs, flushers |-> flushers, sourceOf |-> OwnSource,
     delivery |-> "buffered", keyed |-> keyed, faults |-> faults]
Direct(jobs, sources, delivery, faults) ==
    [jobs |-> jobs, flushers |-> {}, sourceOf |-> sources,
     delivery |-> delivery, keyed |-> TRUE, faults |-> faults]

TrailScenarios ==
    { Buffered({j1, j2, j3}, {f1, f2}, TRUE, {"recorder", "crash"}),
      Buffered({j1, j3}, {f1, f2}, FALSE, {"recorder"}),
      Buffered({j1, j2, j4}, {f1}, TRUE, {"build", "recorder"}),
      Direct({j1, h1, h2, j4}, OwnSource, "required", {"build", "recorder"}),
      Direct({j1, q1, q2}, SharedSource, "best-effort",
             {"build", "recorder", "state", "crash"}),
      Direct({j1, q1, q2, q3}, SharedSource, "best-effort", {"build", "state"}) }

Retrying == {Buffered({j1, j2, j3}, {f1}, TRUE, {"build", "recorder", "outbox"})}
=============================================================================
