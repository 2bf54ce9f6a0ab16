------------------------------ MODULE MCAudit ------------------------------
(***************************************************************************)
(* The audit path for TLC: the trail of a producer and the recorder it     *)
(* submits to.  Each meets the other as an external part of its own        *)
(* module, so one variable picks the part a behaviour exercises and the    *)
(* state spaces add up.                                                    *)
(***************************************************************************)
EXTENDS MCAuditRecorder, MCAuditTrail

VARIABLE part   \* the part this behaviour exercises

\* The part that rests has one initial state.
AuditInit ==
    /\ part \in {"recorder", "trail"}
    /\ IF part = "recorder" THEN TRUE ELSE setting = CHOOSE s \in Settings : TRUE
    /\ IF part = "trail" THEN TRUE ELSE tset = CHOOSE s \in TrailSettings : TRUE
    /\ Init /\ TrailInit

AuditNext ==
    /\ UNCHANGED part
    /\ \/ part = "recorder" /\ Next /\ UNCHANGED trailVars
       \/ part = "trail" /\ TrailNext /\ UNCHANGED vars

AuditSpec == AuditInit /\ [][AuditNext]_<<part, vars, trailVars>>
=============================================================================
