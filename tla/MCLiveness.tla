----------------------------- MODULE MCLiveness -----------------------------
(***************************************************************************)
(* What a server must finish on its own, for TLC: the events of its trail  *)
(* and the claims of its proof layer.  In each behaviour one of the two    *)
(* has nothing to do, so no fair action of it is ever enabled.             *)
(***************************************************************************)
EXTENDS MCProofLayer, MCAuditTrail

NoCalls == With({}, {}, {}, <<2, 9, 9, 0>>, FALSE, FALSE)
NoJobs == Buffered({}, {}, TRUE, {})

LayerSettings == Settling \cup {NoCalls}
RetrySettings == Retrying \cup {NoJobs}

LivenessInit == Init /\ TrailInit /\ (setting = NoCalls <=> tset # NoJobs)

LivenessNext ==
    \/ setting # NoCalls /\ Next /\ UNCHANGED trailVars
    \/ tset # NoJobs /\ TrailNext /\ UNCHANGED vars

LivenessSpec ==
    /\ LivenessInit /\ [][LivenessNext]_<<vars, trailVars>>
    /\ Fairness /\ TrailFairness
=============================================================================
