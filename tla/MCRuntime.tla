----------------------------- MODULE MCRuntime -----------------------------
(***************************************************************************)
(* The server's runtime for TLC: the response-proof layer with its         *)
(* transport, and the sessions.  The layer meets a session only as present *)
(* or gone, so one variable picks the part a behaviour exercises and the   *)
(* state spaces add up.                                                    *)
(***************************************************************************)
EXTENDS MCProofLayer, Sessions

-----------------------------------------------------------------------------
(* Instances of Sessions.                                                  *)

CONSTANTS s1, s2, s3, c1, c2, t1, h1, h2, h3, j

\* The calls of one kind are alike, and so are the clients.
Alike == Permutations(Unthreaded) \cup Permutations(Clients)

Clienteles(n) == {H \in SUBSET Clients : Cardinality(H) = n}

\* The store at its limit: reads, a sweep and clearSessions() beside handshakes.
StoreSettings ==
    {[actors |-> Threaded \cup Clients \cup Janitors, autoSession |-> FALSE,
      maxSessions |-> 2, idleLimit |-> 1, auditMayFail |-> FALSE,
      mayClear |-> TRUE, maxTime |-> 2]}

\* The fallback session of two calls beside two handshakes, across the expiry.
FallbackSettings ==
    {[actors |-> Unthreaded \cup H, autoSession |-> TRUE,
      maxSessions |-> 2, idleLimit |-> 2, auditMayFail |-> TRUE,
      mayClear |-> FALSE, maxTime |-> 3] : H \in Clienteles(2)}

\* Concurrent first calls beside one handshake and a threaded call.
AutoSettings ==
    {[actors |-> Unthreaded \cup Threaded \cup H, autoSession |-> own,
      maxSessions |-> 3, idleLimit |-> 9, auditMayFail |-> FALSE,
      mayClear |-> FALSE, maxTime |-> 1] : H \in Clienteles(1), own \in BOOLEAN}

SessionScenarios == StoreSettings \cup FallbackSettings \cup AutoSettings

\* Filter, which is stated by positions, agrees with SelectSeq.
ASSUME FilterSelects ==
    \A s \in UNION {[1 .. n -> Ids] : n \in 0 .. 3}, kept \in SUBSET Ids :
        Filter(s, kept) = SelectSeq(s, LAMBDA x : x \in kept)

-----------------------------------------------------------------------------
(* The two parts.                                                          *)

VARIABLE part   \* the part this behaviour exercises

\* The part that rests has one initial state.
RuntimeInit ==
    /\ part \in {"layer", "sessions"}
    /\ IF part = "layer" THEN TRUE ELSE setting = CHOOSE s \in Settings : TRUE
    /\ IF part = "sessions" THEN TRUE ELSE sset \in StoreSettings
    /\ Init /\ SessionsInit

RuntimeNext ==
    /\ UNCHANGED part
    /\ \/ part = "layer" /\ Next /\ UNCHANGED sessionVars
       \/ part = "sessions" /\ SessionsNext /\ UNCHANGED vars

RuntimeSpec == RuntimeInit /\ [][RuntimeNext]_<<part, vars, sessionVars>>
=============================================================================
