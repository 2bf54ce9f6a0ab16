----------------------------- MODULE ProofLayer -----------------------------
(***************************************************************************)
(* The response-proof lifecycle of the middleware.  A wrapper              *)
(* (wrapWithProof, or a gate through attachOutcomeProof) runs a call and   *)
(* leaves the claims of its proof behind, under a one-time id; the KYA-OS  *)
(* transport redeems the id when it sends the result.  A claim that is not *)
(* redeemed is closed by its timer, by eviction, by the close of the last  *)
(* transport, or because its result went out inside another message.       *)
(*                                                                         *)
(* The one-time id of a claim is the call that left it.  Actions end where *)
(* the code awaits.  The audit events of one step are an all-or-prefix     *)
(* delivery: each is recorded only after the one before it.  The MCP SDK   *)
(* between handler and transport is external: it sends, drops, replaces    *)
(* or resends a result.                                                    *)
(***************************************************************************)
EXTENDS Integers, Sequences, FiniteSets, FiniteSetsExt, SequencesExt

CONSTANTS
    Calls,
    None,
    Transports,
    Kind,           \* Kind[c]: how the tool of c is registered
    Host,           \* Host[c]: the call whose handler runs c in process, or None
    Tool,           \* Tool[c]: the tool c names
    Size,           \* Size[c]: JSON size of the claim of c
    KeptSize,       \* KeptSize[c]: size of what is remembered of c once closed
    Settings        \* what a behaviour may start from: see SettingType

Kinds == {"wrapped", "outcome", "plain"}

\* The calls that are made, those of them to excluded tools, the transports that
\* may open, PENDING_PROOF_LIMIT, PENDING_PROOF_BYTE_BUDGET and
\* CLOSED_PROOF_BYTE_BUDGET, a bound on the times a stored result is sent again,
\* whether audit delivery may fail, and whether the SDK answers a throw, or a result
\* it refuses, with an error result.
SettingType ==
    [calls: SUBSET Calls, excluded: SUBSET Calls, transports: SUBSET Transports,
     limit: Nat \ {0}, budget: Nat, closedBudget: Nat, maxResends: Nat,
     auditMayFail: BOOLEAN, sdkReplaces: BOOLEAN]

ASSUME ProofLayerAssumption ==
    /\ None \notin Calls
    /\ Kind \in [Calls -> Kinds] /\ Host \in [Calls -> Calls \cup {None}]
    /\ Size \in [Calls -> Nat] /\ KeptSize \in [Calls -> Nat]
    /\ \A c \in Calls : Host[c] # None => Kind[c] # "plain" /\ Host[Host[c]] = None
    /\ Settings \subseteq SettingType

VARIABLES
    transport,      \* transport[t]: "new", "open" or "closed"
    openTransports, \* the middleware's count of open transports
    tracked,        \* calls in the transport's map of pending requests
    cancelled,      \* calls their client cancelled
    pc,             \* control point of each call
    res,            \* res[c]: the result of c on its way to the wire
    answering,      \* calls whose outgoing result answers a tracked request
    claim,          \* claim[c]: the id taken to prove the result of c
    delivered,      \* outcome calls whose terminal audit events were delivered
    waiting,        \* pendingProofs: ids of the claims that wait
    leftAt,         \* leftAt[c]: position of c in the order of leaving, 0 if none
    lefts,          \* claims left so far
    bytes,          \* pendingProofBytes
    remembered,     \* closedProofs, oldest first
    closing,        \* claims taken unsent whose records are being written
    trail,          \* trail[c]: audit events recorded for c
    signed,         \* signed[i]: proofs made from claim i
    answers,        \* [call, id]: proofs sent on the answer of a tracked call
    exposed,        \* ids that went out anywhere but as their own result
    resends,
    setting         \* the setting of this behaviour; it never changes

layerVars == <<waiting, leftAt, lefts, bytes, remembered, closing>>
callVars == <<tracked, cancelled, answering, claim, delivered>>
ghostVars == <<signed, answers, exposed>>
vars == <<transport, openTransports, callVars, pc, res, layerVars, trail, ghostVars, resends,
          setting>>

Limit == setting.limit
Budget == setting.budget
ClosedBudget == setting.closedBudget
AuditMayFail == setting.auditMayFail

\* A result: whether it carries the stamp, whether it is an error, the id in
\* its _meta, the ids of results nested in it or serialised into its strings,
\* and whether a string of it holds the stamp.
Result == [stamped: BOOLEAN, error: BOOLEAN, id: Calls \cup {None},
           ids: SUBSET Calls, leaks: BOOLEAN]
Fresh(e) == [stamped |-> FALSE, error |-> e, id |-> None, ids |-> {}, leaks |-> FALSE]
Stamped(r) == [r EXCEPT !.stamped = TRUE]
\* handlerMeta: every member only the middleware sets is removed.
Stripped(r) == [r EXCEPT !.stamped = FALSE, !.id = None]
Unavailable == Stamped(Fresh(TRUE))

Init ==
    /\ transport = [t \in Transports |-> "new"] /\ openTransports = 0
    /\ tracked = {} /\ cancelled = {} /\ answering = {} /\ delivered = {}
    /\ pc = [c \in Calls |-> "idle"]
    /\ res = [c \in Calls |-> Fresh(FALSE)]
    /\ claim = [c \in Calls |-> None]
    /\ waiting = {} /\ leftAt = [c \in Calls |-> 0] /\ lefts = 0 /\ bytes = 0
    /\ remembered = <<>> /\ closing = {}
    /\ trail = [c \in Calls \cup {None} |-> <<>>]
    /\ signed = [c \in Calls |-> 0] /\ answers = {} /\ exposed = {} /\ resends = 0
    /\ setting \in Settings

-----------------------------------------------------------------------------
(* Audit delivery.                                                         *)

\* emitAudit, one event after the other: how many of n events are delivered.
Deliveries(n) == IF AuditMayFail THEN 0 .. n ELSE {n}

Record(c, events, n) == trail' = [trail EXCEPT ![c] = @ \o SubSeq(events, 1, n)]

-----------------------------------------------------------------------------
(* The waiting claims.                                                     *)

SizeOf(S) == MapThenSumSet(LAMBDA c : Size[c], S)

Older(w) == {v \in waiting : leftAt[v] < leftAt[w]}

\* The bound on closedProofs: the oldest are forgotten.
Newest(s) ==
    LET fits(k) == /\ Len(s) - k + 1 <= Limit
                   /\ FoldSeq(LAMBDA c, n : n + KeptSize[c], 0, SubSeq(s, k, Len(s))) <= ClosedBudget
    IN SubSeq(s, Min({k \in 1 .. Len(s) + 1 : fits(k)}), Len(s))

\* takePendingProof, for each id of S that waits.
Take(S) ==
    /\ waiting' = waiting \ S
    /\ bytes' = bytes - SizeOf(S \cap waiting)
    /\ remembered' = Newest(remembered \o SetToSortSeq(S \cap waiting,
                                             LAMBDA a, b : leftAt[a] < leftAt[b]))

Unsent(S) == {[id |-> i, code |-> "not_sent"] : i \in S}

\* closeUnsentProof, for each id of S: taken now, recorded in the background.
CloseUnsent(S) ==
    /\ Take(S)
    /\ closing' = closing \cup Unsent(S \cap waiting)

\* Mutant of Evicted: the claim that is about to be added is not counted.
EvictedLate(c) ==
    {w \in waiting :
        \/ Cardinality(waiting) - Cardinality(Older(w)) > Limit
        \/ bytes - SizeOf(Older(w)) > Budget}

\* The eviction loop of leaveToOuterLayer: oldest first, until the new claim fits.
Evicted(c) ==
    {w \in waiting :
        \/ Cardinality(waiting) - Cardinality(Older(w)) >= Limit
        \/ bytes - SizeOf(Older(w)) + Size[c] > Budget}

LeaveToOuterLayer(c) ==
    LET gone == Evicted(c) IN
    /\ waiting' = (waiting \ gone) \cup {c}
    /\ bytes' = bytes - SizeOf(gone) + Size[c]
    /\ lefts' = lefts + 1
    /\ leftAt' = [leftAt EXCEPT ![c] = lefts + 1]
    /\ remembered' = Newest(remembered \o SetToSortSeq(gone, LAMBDA a, b : leftAt[a] < leftAt[b]))
    /\ closing' = closing \cup Unsent(gone)

\* closeTaken: the proof is recorded rejected, then an allowed call failed.
Verdict(i, code) == CASE Kind[i] # "outcome" -> <<code, "failed">>
                      [] i \in delivered -> <<code>>
                      [] OTHER -> <<>>

CloseTaken(e) ==
    /\ e \in closing
    /\ closing' = closing \ {e}
    /\ LET events == Verdict(e.id, e.code) IN
       \E n \in Deliveries(Len(events)) : Record(e.id, events, n)
    /\ UNCHANGED <<transport, openTransports, callVars, pc, res, waiting, leftAt, lefts, bytes,
                   remembered, ghostVars, resends>>

\* Mutant of Expire: taking a claim does not clear its timer.
ExpireUncleared(i) ==
    /\ leftAt[i] > 0
    /\ Take({i})
    /\ closing' = closing \cup Unsent({i})
    /\ UNCHANGED <<transport, openTransports, callVars, pc, res, leftAt, lefts, trail, ghostVars, resends>>

\* Mutant of Expire: the claim is forgotten and nothing recorded.
ExpireSilently(i) ==
    /\ i \in waiting
    /\ Take({i})
    /\ UNCHANGED closing
    /\ UNCHANGED <<transport, openTransports, callVars, pc, res, leftAt, lefts, trail, ghostVars, resends>>

\* The timer of a waiting claim.
Expire(i) ==
    /\ i \in waiting
    /\ CloseUnsent({i})
    /\ UNCHANGED <<transport, openTransports, callVars, pc, res, leftAt, lefts, trail, ghostVars, resends>>

-----------------------------------------------------------------------------
(* Transports.                                                             *)

Start(t) ==
    /\ transport[t] = "new" /\ t \in setting.transports
    /\ transport' = [transport EXCEPT ![t] = "open"]
    /\ openTransports' = openTransports + 1
    /\ UNCHANGED <<callVars, pc, res, layerVars, trail, ghostVars, resends>>

\* close() and the inner transport's onclose both release; only the first counts.
ReleaseOpen(t) ==
    /\ transport[t] # "new"
    /\ IF transport[t] = "open"
       THEN /\ transport' = [transport EXCEPT ![t] = "closed"]
            /\ openTransports' = openTransports - 1
            /\ IF openTransports' = 0 THEN CloseUnsent(waiting)
                                      ELSE UNCHANGED <<waiting, bytes, remembered, closing>>
       ELSE UNCHANGED <<transport, openTransports, waiting, bytes, remembered, closing>>
    /\ UNCHANGED <<callVars, pc, res, leftAt, lefts, trail, ghostVars, resends>>

Serving == \E t \in Transports : transport[t] = "open"

-----------------------------------------------------------------------------
(* Calls on their way in.                                                  *)

\* A tools/call request: the interceptor records it before the SDK runs it.
Receive(c) ==
    /\ pc[c] = "idle" /\ Host[c] = None /\ Serving
    /\ tracked' = IF c \in setting.excluded THEN tracked ELSE tracked \cup {c}
    /\ pc' = [pc EXCEPT ![c] = "received"]
    /\ UNCHANGED <<transport, openTransports, cancelled, answering, claim, delivered, res,
                   layerVars, trail, ghostVars, resends>>

\* notifications/cancelled: the SDK will drop the result.
Cancel(c) ==
    /\ c \in tracked
    /\ tracked' = tracked \ {c}
    /\ cancelled' = cancelled \cup {c}
    /\ UNCHANGED <<transport, openTransports, answering, claim, delivered, pc, res,
                   layerVars, trail, ghostVars, resends>>

\* requireProofLayer, on entry to a wrapper: refuses while nothing can send.
RequireProofLayer(c, next) ==
    pc' = [pc EXCEPT ![c] = IF openTransports = 0 THEN "thrown" ELSE next]

\* A wrapped tool is called, by the SDK or by the handler of another call.
Wrap(c) ==
    /\ Kind[c] # "plain"
    /\ \/ pc[c] = "received"
       \/ /\ pc[c] = "idle" /\ Host[c] # None
          /\ pc[Host[c]] = IF Kind[Host[c]] = "plain" THEN "received" ELSE "handler"
    /\ RequireProofLayer(c, "intent")
    /\ UNCHANGED <<transport, openTransports, callVars, res, layerVars, trail, ghostVars, resends>>

-----------------------------------------------------------------------------
(* The wrapper.                                                            *)

\* Where a stamped result goes next: to the layer, when the transport wrapped
\* it, to whoever called the wrapper otherwise.
Returned(c) == IF c \in answering THEN "layer" ELSE "ready"

\* The intent is recorded before the handler runs.  When that fails the handler
\* does not run; an error result the transport was wrapping still goes out.
Intent(c) ==
    /\ pc[c] = "intent" /\ (Kind[c] # "outcome" \/ c \in answering)
    /\ \/ /\ AuditMayFail
          /\ res' = IF c \in answering /\ res[c].error THEN res
                    ELSE [res EXCEPT ![c] = Unavailable]
          /\ pc' = [pc EXCEPT ![c] = Returned(c)]
          /\ UNCHANGED trail
       \/ /\ Record(c, <<"started">>, 1)
          /\ pc' = [pc EXCEPT ![c] = IF c \in answering THEN "wrapped" ELSE "handler"]
          /\ UNCHANGED res
    /\ UNCHANGED <<transport, openTransports, callVars, layerVars, ghostVars, resends>>

\* What a handler may make of the results of wrapped tools it called: its own
\* result, one of theirs returned as it is, nested as an object, or written
\* into a string.
HandlerResults(c, e) ==
    {Fresh(e)} \cup UNION {
        {res[i],
         [Fresh(e) EXCEPT !.ids = {res[i].id} \ {None}],
         [Fresh(e) EXCEPT !.ids = {res[i].id} \ {None}, !.leaks = TRUE]} :
        i \in {j \in Calls : Host[j] = c /\ pc[j] = "ready"}}

Relays(c, r) == \E i \in Calls : Host[i] = c /\ Kind[i] = "outcome" /\ r = res[i]

\* The handler of a wrapped call throws.
HandlerThrows(c) ==
    /\ pc[c] = "handler"
    /\ \E n \in Deliveries(1) : Record(c, <<"failed">>, n)
    /\ pc' = [pc EXCEPT ![c] = "thrown"]
    /\ UNCHANGED <<transport, openTransports, callVars, res, layerVars, ghostVars, resends>>

\* The handler of a wrapped call returns r: an outcome that is already audited
\* passes through, an error is recorded (unless the handler marked it as
\* audited), anything else is to be proved.
HandlerReturns(c, r) ==
    /\ pc[c] = "handler"
    /\ \/ /\ r.error \/ Relays(c, r)
          /\ res' = [res EXCEPT ![c] = Stamped(r)]
          /\ pc' = [pc EXCEPT ![c] = "ready"]
          /\ \/ ~Relays(c, r) /\ \E n \in Deliveries(1) : Record(c, <<"failed">>, n)
             \/ UNCHANGED trail
       \/ /\ ~r.error /\ ~Relays(c, r)
          /\ res' = [res EXCEPT ![c] = r]
          /\ pc' = [pc EXCEPT ![c] = "session"]
          /\ UNCHANGED trail
    /\ UNCHANGED <<transport, openTransports, callVars, layerVars, ghostVars, resends>>

\* The handler of a tool registered without a wrapper returns r.
PlainReturns(c, r) ==
    /\ pc[c] = "received" /\ Kind[c] = "plain"
    /\ res' = [res EXCEPT ![c] = r]
    /\ pc' = [pc EXCEPT ![c] = "ready"]
    /\ UNCHANGED <<transport, openTransports, callVars, layerVars, trail, ghostVars, resends>>

\* The transport's own wrapper: its handler returns the received result.
WrapReceived(c) ==
    /\ pc[c] = "wrapped"
    /\ IF res[c].error
       THEN /\ \E n \in Deliveries(1) : Record(c, <<"failed">>, n)
            /\ pc' = [pc EXCEPT ![c] = "layer"]
       ELSE /\ pc' = [pc EXCEPT ![c] = "session"]
            /\ UNCHANGED trail
    /\ UNCHANGED <<transport, openTransports, callVars, res, layerVars, ghostVars, resends>>

\* A gate refuses or challenges the call: the outcome is recorded first.
Outcome(c) ==
    /\ pc[c] = "intent" /\ Kind[c] = "outcome" /\ c \notin answering
    /\ \E n \in Deliveries(2), e \in BOOLEAN :
        /\ Record(c, <<"authorization", "refused">>, n)
        /\ delivered' = IF n = 2 THEN delivered \cup {c} ELSE delivered
        /\ res' = [res EXCEPT ![c] = Fresh(e)]
    /\ pc' = [pc EXCEPT ![c] = "session"]
    /\ UNCHANGED <<transport, openTransports, tracked, cancelled, answering, claim, layerVars,
                   ghostVars, resends>>

\* Mutant of NoSession: the early return is missing, the call goes on to be proved.
NoSessionGoesOn(c, r) ==
    /\ pc[c] = "session"
    /\ r = res[c]
    /\ IF Kind[c] = "outcome" THEN UNCHANGED trail
       ELSE \E n \in Deliveries(2) : Record(c, <<"no_session", "completed">>, n)
    /\ UNCHANGED <<transport, openTransports, callVars, pc, res, layerVars, ghostVars, resends>>

\* No session to prove with, or several: the result is returned unproven.
NoSession(c, r) ==
    /\ pc[c] = "session"
    /\ r \in {res[c], Stripped(res[c])}
    /\ res' = [res EXCEPT ![c] = Stamped(r)]
    /\ pc' = [pc EXCEPT ![c] = Returned(c)]
    /\ IF Kind[c] = "outcome" THEN UNCHANGED trail
       ELSE \E n \in Deliveries(2) : Record(c, <<"no_session", "completed">>, n)
    /\ UNCHANGED <<transport, openTransports, callVars, layerVars, ghostVars, resends>>

\* The request can not be hashed.
HashFails(c) ==
    /\ pc[c] = "session"
    /\ res' = [res EXCEPT ![c] = Stamped(Stripped(@))]
    /\ pc' = [pc EXCEPT ![c] = Returned(c)]
    /\ IF Kind[c] = "outcome" /\ c \notin delivered THEN UNCHANGED trail
       ELSE \E n \in Deliveries(1) : Record(c, <<"no_proof">>, n)
    /\ UNCHANGED <<transport, openTransports, callVars, layerVars, ghostVars, resends>>

\* The claim is left for the transport; the result names it.
Leave(c) ==
    /\ pc[c] = "session"
    /\ LeaveToOuterLayer(c)
    /\ res' = [res EXCEPT ![c] = Stamped([@ EXCEPT !.id = c])]
    /\ pc' = [pc EXCEPT ![c] = Returned(c)]
    /\ UNCHANGED <<transport, openTransports, callVars, trail, ghostVars, resends>>

-----------------------------------------------------------------------------
(* Calls on their way out.                                                 *)

\* unprovenAtSend.
AtSend(i, code) == CASE Kind[i] # "outcome" -> <<code, "completed">>
                     [] i \in delivered -> <<code>>
                     [] OTHER -> <<>>

\* Mutant of NamesAnother: the tool of the claim is not compared.
NeverAnother(c, id, answer) == FALSE

\* The claim was left for another tool than the one this answers.
NamesAnother(c, id, answer) == answer /\ Tool[id] # Tool[c]

\* Mutant of FoundIds: results nested in a sent result keep their claims.
FoundNone(c) == {}

\* closeFoundProofs: ids named inside the result, its own excepted.
FoundIds(c) == res[c].ids \ {res[c].id}

\* layer.send, up to its first await: the ids found inside the result are
\* closed, and the claim it names is taken.
LayerSend(c, answer) ==
    LET id == IF res[c].stamped THEN res[c].id ELSE None
        found == FoundIds(c)
        own == IF id \in waiting THEN {id} ELSE {}
        bad == own # {} /\ ~res[c].leaks /\ NamesAnother(c, id, answer)
        proves == own # {} /\ ~res[c].leaks /\ ~bad
    IN
    /\ Take(found \cup own)
    /\ closing' = closing \cup Unsent(found \cap waiting)
                  \cup IF bad THEN {[id |-> id, code |-> "mismatch"]} ELSE {}
    /\ exposed' = exposed \cup (res[c].ids \ {id})
    /\ claim' = [claim EXCEPT ![c] = IF proves THEN id ELSE None]
    /\ pc' = [pc EXCEPT ![c] = IF proves THEN "proving" ELSE "outgoing"]
    /\ CASE own # {} /\ res[c].leaks ->
              LET events == AtSend(id, "private_member") IN
              \E n \in Deliveries(Len(events)) : Record(id, events, n)
         [] id # None /\ own = {} /\ ~res[c].leaks ->
              \E n \in Deliveries(1) :
                  Record(IF Contains(remembered, id) THEN id ELSE None, <<"expired">>, n)
         [] OTHER -> UNCHANGED trail

\* transport.send for a result of c: a result without the stamp that answers a
\* tracked request is wrapped first, unless no transport is open any more.
Send(c) ==
    /\ pc[c] = "ready" /\ Host[c] = None /\ c \notin cancelled
    /\ tracked' = tracked \ {c}
    /\ answering' = IF c \in tracked THEN answering \cup {c} ELSE answering
    /\ IF c \in tracked /\ ~res[c].stamped
       THEN /\ pc' = [pc EXCEPT ![c] = IF openTransports = 0 THEN "layer" ELSE "intent"]
            /\ UNCHANGED <<waiting, bytes, remembered, closing, trail, claim, exposed>>
       ELSE LayerSend(c, c \in tracked)
    /\ UNCHANGED <<transport, openTransports, cancelled, delivered, res, leftAt, lefts,
                   signed, answers, resends>>

\* The transport's wrapper has returned: its result goes through the layer.
SendWrapped(c) ==
    /\ pc[c] = "layer"
    /\ LayerSend(c, TRUE)
    /\ UNCHANGED <<transport, openTransports, tracked, cancelled, answering, delivered, res,
                   leftAt, lefts, signed, answers, resends>>

\* A call that threw is answered with a JSON-RPC error.
SendError(c) ==
    /\ pc[c] = "thrown" /\ Host[c] = None /\ c \notin cancelled
    /\ tracked' = tracked \ {c}
    /\ pc' = [pc EXCEPT ![c] = "outgoing"]
    /\ UNCHANGED <<transport, openTransports, cancelled, answering, claim, delivered, res,
                   layerVars, trail, ghostVars, resends>>

\* The SDK answers with an error result of its own: in place of a throw, or of
\* a result its output schema refuses.
Replace(c) ==
    /\ setting.sdkReplaces /\ Host[c] = None /\ c \notin cancelled
    /\ pc[c] = "thrown" \/ (pc[c] = "ready" /\ res[c].stamped /\ c \in tracked)
    /\ res' = [res EXCEPT ![c] = Fresh(TRUE)]
    /\ pc' = [pc EXCEPT ![c] = "ready"]
    /\ UNCHANGED <<transport, openTransports, callVars, layerVars, trail, ghostVars, resends>>

\* The SDK drops the result of a cancelled call.
Drop(c) ==
    /\ pc[c] \in {"ready", "thrown"} /\ c \in cancelled
    /\ pc' = [pc EXCEPT ![c] = "dropped"]
    /\ UNCHANGED <<transport, openTransports, callVars, res, layerVars, trail, ghostVars, resends>>

\* sendResult after the claim is taken: the session is read again and the
\* proof made.
SessionGone(c) ==
    /\ pc[c] = "proving"
    /\ LET events == AtSend(claim[c], "no_session") IN
       \E n \in Deliveries(Len(events)) : Record(claim[c], events, n)
    /\ pc' = [pc EXCEPT ![c] = "outgoing"]
    /\ UNCHANGED <<transport, openTransports, callVars, res, layerVars, ghostVars, resends>>

SigningFails(c) ==
    /\ pc[c] = "proving"
    /\ IF Kind[claim[c]] = "outcome" /\ claim[c] \notin delivered THEN UNCHANGED trail
       ELSE \E n \in Deliveries(1) : Record(claim[c], <<"no_proof">>, n)
    /\ pc' = [pc EXCEPT ![c] = "outgoing"]
    /\ UNCHANGED <<transport, openTransports, callVars, res, layerVars, ghostVars, resends>>

\* The events of a proof that was made, and whether it goes out although an
\* event is missing: a degraded allowed result loses its proof.
Generated(i) == CASE Kind[i] # "outcome" -> <<"generated", "completed">>
                  [] i \in delivered -> <<"generated">>
                  [] OTHER -> <<>>

Prove(c) ==
    LET i == claim[c]
        events == Generated(i) IN
    /\ pc[c] = "proving"
    /\ signed' = [signed EXCEPT ![i] = @ + 1]
    /\ \E n \in Deliveries(Len(events)), keep \in BOOLEAN :
        /\ keep => n = Len(events) \/ Kind[i] = "outcome"
        /\ ~keep => n < Len(events)
        /\ Record(i, events, n)
        /\ answers' = IF keep /\ c \in answering THEN answers \cup {[call |-> c, id |-> i]}
                      ELSE answers
    /\ pc' = [pc EXCEPT ![c] = "outgoing"]
    /\ UNCHANGED <<transport, openTransports, callVars, res, layerVars, exposed, resends>>

\* inner.send.
Deliver(c) ==
    /\ pc[c] = "outgoing"
    /\ pc' = [pc EXCEPT ![c] = "sent"]
    /\ UNCHANGED <<transport, openTransports, callVars, res, layerVars, trail, ghostVars, resends>>

\* A stored result is fetched again (a task result); it answers no tools/call.
Resend(c) ==
    /\ pc[c] = "sent" /\ resends < setting.maxResends /\ res[c].stamped
    /\ resends' = resends + 1
    /\ answering' = answering \ {c}
    /\ pc' = [pc EXCEPT ![c] = "ready"]
    /\ UNCHANGED <<transport, openTransports, tracked, cancelled, claim, delivered, res,
                   layerVars, trail, ghostVars>>

\* A handler sends the result of an inner call in a notification or a request:
\* layer.scrub closes the claim it names.
Notify(i) ==
    /\ Host[i] # None /\ pc[i] = "ready" /\ pc[Host[i]] \in {"handler", "received"}
    /\ res[i].id # None /\ res[i].id \notin exposed
    /\ CloseUnsent({res[i].id})
    /\ exposed' = exposed \cup {res[i].id}
    /\ UNCHANGED <<transport, openTransports, callVars, pc, res, leftAt, lefts, trail, signed,
                   answers, resends>>

-----------------------------------------------------------------------------
Work(c) ==
    \/ Wrap(c) \/ Intent(c) \/ HandlerThrows(c)
    \/ \E e \in BOOLEAN : \E r \in HandlerResults(c, e) : HandlerReturns(c, r) \/ PlainReturns(c, r)
    \/ WrapReceived(c) \/ Outcome(c)
    \/ \E r \in {res[c], Stripped(res[c])} : NoSession(c, r)
    \/ HashFails(c) \/ Leave(c)
    \/ Send(c) \/ SendWrapped(c) \/ SendError(c) \/ Replace(c) \/ Drop(c)
    \/ SessionGone(c) \/ SigningFails(c) \/ Prove(c) \/ Deliver(c)

Next ==
    /\ UNCHANGED setting
    /\ \/ \E t \in Transports : Start(t) \/ ReleaseOpen(t)
       \/ \E c \in setting.calls :
              Receive(c) \/ Cancel(c) \/ Work(c) \/ Resend(c) \/ Notify(c) \/ Expire(c)
       \/ \E e \in closing : CloseTaken(e)

Spec == Init /\ [][Next]_vars

(***************************************************************************)
(* Timers fire, the records of a closed claim are written, and a result    *)
(* handed to send() is taken to the wire: each is a continuation the       *)
(* process runs on its own.  Nothing is assumed of clients, handlers or    *)
(* the SDK.                                                                *)
(***************************************************************************)
Fairness ==
    /\ \A c \in Calls : WF_vars(Expire(c) /\ UNCHANGED setting)
    /\ \A c \in Calls :
        WF_vars((SessionGone(c) \/ SigningFails(c) \/ Prove(c)) /\ UNCHANGED setting)
    /\ \A c \in Calls : WF_vars(SendWrapped(c) /\ UNCHANGED setting)
    /\ WF_vars((\E e \in closing : CloseTaken(e)) /\ UNCHANGED setting)

LiveSpec == Spec /\ Fairness

-----------------------------------------------------------------------------
(* Properties.                                                             *)

Occurs(c, events) == Cardinality({k \in DOMAIN trail[c] : trail[c][k] \in events})

\* Every variable of createSessionProof and of the transport keeps its shape.
TypeOK ==
    /\ transport \in [Transports -> {"new", "open", "closed"}]
    /\ openTransports \in 0 .. Cardinality(Transports)
    /\ tracked \subseteq Calls /\ cancelled \subseteq Calls /\ answering \subseteq Calls
    /\ delivered \subseteq Calls /\ waiting \subseteq Calls /\ exposed \subseteq Calls
    /\ pc \in [Calls -> {"idle", "received", "intent", "handler", "wrapped", "session",
                        "ready", "thrown", "layer", "proving", "outgoing", "sent", "dropped"}]
    /\ res \in [Calls -> Result]
    /\ claim \in [Calls -> Calls \cup {None}]
    /\ leftAt \in [Calls -> Nat] /\ lefts \in Nat /\ bytes \in Nat
    /\ remembered \in Seq(Calls) /\ Len(remembered) <= Limit
    /\ closing \subseteq [id: Calls, code: {"not_sent", "mismatch"}]
    /\ trail \in [Calls \cup {None} -> Seq({"started", "failed", "completed", "authorization",
            "refused", "generated", "not_sent", "mismatch", "no_session", "no_proof",
            "private_member", "expired"})]
    /\ signed \in [Calls -> Nat] /\ resends \in 0 .. setting.maxResends
    /\ answers \subseteq [call: Calls, id: Calls]
    /\ setting \in Settings

\* Whatever takes a claim (send, timer, eviction, the last close, a message
\* that carries it), each recorded start of a call has at most one terminal
\* tool event, completed or failed (takePendingProof, closeTaken).
SettledOnce ==
    \A c \in Calls : Kind[c] # "outcome" =>
        Occurs(c, {"completed", "failed"}) <= Occurs(c, {"started"})

\* Claim i is recorded, or about to be recorded, as taken without being sent.
Unredeemable(i) ==
    \/ \E k \in DOMAIN trail[i] : trail[i][k] \in {"not_sent", "mismatch"}
    \/ \E e \in closing : e.id = i

\* A claim is redeemed once: at most one proof is made from it, and none from
\* one recorded, or about to be recorded, as not sent.
RedeemedOnce ==
    \A i \in Calls :
        /\ signed[i] <= 1
        /\ signed[i] = 1 => ~Unredeemable(i)

\* The proof on the answer to a tools/call was left for the tool of that call.
ProvedForItsTool == \A a \in answers : Tool[a.id] = Tool[a.call]

\* A claim whose id left the process nested in a result, inside a string or in
\* a notification can no longer be redeemed (closeFoundProofs).
ExposedIsVoid == exposed \cap waiting = {}

\* pendingProofBytes is the size of what waits, and both budgets hold, except
\* that a single claim may exceed the byte budget; so does the bound on the ids of
\* closed claims that are remembered.
WithinBudget ==
    /\ TypeOK
    /\ bytes = SizeOf(waiting)
    /\ Cardinality(waiting) <= Limit
    /\ bytes > Budget => Cardinality(waiting) = 1

\* A proof on an answer belongs to that answer: it was left for the tool the call
\* asked for, and none can still be made from an id that was shown elsewhere.
ProofsBelong == ProvedForItsTool /\ ExposedIsVoid

\* A claim ends once, in the proof that is sent and in the trail (takePendingProof,
\* closeTaken): no second proof, and no second verdict on the call.
EndsOnce == RedeemedOnce /\ SettledOnce

\* One call is recorded started once: a lifecycle a wrapper has run is not run
\* again by the transport.
RecordedOnce == \A c \in Calls : Occurs(c, {"started"}) <= 1

\* A claim that waits is settled in the audit trail in the end: completed,
\* failed, or recorded as a proof that could not be made; an outcome's claim
\* by any verdict on its proof.
ClaimSettles ==
    \A i \in Calls : i \in waiting ~>
        IF Kind[i] = "outcome"
        THEN Occurs(i, {"generated", "no_proof", "no_session", "not_sent", "mismatch",
                        "private_member"}) = 1
        ELSE Occurs(i, {"completed", "failed", "no_proof"}) = 1
=============================================================================
