--------------------------- MODULE AuditArtifacts ---------------------------
(***************************************************************************)
(* The signed artifacts of the audit protocol and the offline verifier of  *)
(* them: the wire types and schemas (src/src/audit/types.ts, schemas.ts),  *)
(* digests and receipts (integrity.ts, crypto.ts), AuditArtifactVerifier   *)
(* (verifier.ts) and verifyAuditBundle (replay-bundle.ts).                 *)
(*                                                                         *)
(* A digest is the tuple of its domain and what is hashed; a signature is  *)
(* the record of the signer and what is signed.  Strings that no check     *)
(* reads (schema names, ids, wording) and byte sizes (implied by digests)  *)
(* are left out; an absent optional digest is NoDigest, an absent optional *)
(* number is Absent.  A ledger stands for the pair (ledgerId,              *)
(* ledgerEpochId).  Maps built by the code and looked up by a digest that  *)
(* is in the key are sets with a condition.                                *)
(***************************************************************************)
EXTENDS Integers, FiniteSets, Sequences, SequencesExt

-----------------------------------------------------------------------------
(* The RFC 9162 Merkle tree of src/src/audit/merkle.ts: roots, inclusion   *)
(* and consistency proofs, and the two verifiers, which know only sizes,   *)
(* roots and the path.  SHA-256 is collision free, so a hash is the tuple  *)
(* of what is hashed; the 0x00 / 0x01 prefixes are "leaf" and "node".      *)

leafHash(digest) == <<"leaf", digest>>

nodeHash(left, right) == <<"node", left, right>>

EmptyRoot == <<"empty">>

\* The split of a tree with more than one leaf.
largestPowerOfTwoLessThan(n) ==
    LET k == CHOOSE j \in 0..n : 2^j < n /\ 2^(j + 1) >= n IN 2^k

\* Roots of every subtree: SubRoots(leaves)[lo, hi] is the root of the leaves
\* lo (inclusive) to hi (exclusive), counted from 0.
SubRoots(leaves) ==
    LET r[lo \in 0..Len(leaves), hi \in 0..Len(leaves)] ==
            IF hi <= lo THEN EmptyRoot
            ELSE IF hi = lo + 1 THEN leafHash(leaves[hi])
            ELSE LET k == lo + largestPowerOfTwoLessThan(hi - lo)
                 IN nodeHash(r[lo, k], r[k, hi])
    IN r

root(leaves) == SubRoots(leaves)[0, Len(leaves)]

\* Defined for leafIndex < Len(leaves); the code throws otherwise.
inclusionProof(leaves, leafIndex) ==
    LET r == SubRoots(leaves)
        path[lo \in 0..Len(leaves), hi \in 0..Len(leaves)] ==
            IF hi <= lo + 1 THEN <<>>
            ELSE LET k == lo + largestPowerOfTwoLessThan(hi - lo)
                 IN IF leafIndex < k
                    THEN Append(path[lo, k], r[k, hi])
                    ELSE Append(path[k, hi], r[lo, k])
    IN path[0, Len(leaves)]

\* Defined for 0 < oldSize <= Len(leaves).  The path of the subtree lo..hi that
\* is whole in the old tree is left out as long as no left sibling was split
\* off (completeSubtree), since the old root is that subtree's root.
consistencyProof(leaves, oldSize) ==
    LET r == SubRoots(leaves)
        path[lo \in 0..Len(leaves), hi \in 0..Len(leaves)] ==
            IF hi = oldSize THEN (IF lo = 0 THEN <<>> ELSE <<r[lo, hi]>>)
            ELSE LET k == lo + largestPowerOfTwoLessThan(hi - lo)
                 IN IF oldSize <= k
                    THEN Append(path[lo, k], r[k, hi])
                    ELSE Append(path[k, hi], r[lo, k])
    IN path[0, Len(leaves)]

\* The inner loops: halve both positions while the first is even and not 0.
Halvings(n, even) ==
    CHOOSE k \in 0..n :
        /\ (n \div 2^k) % 2 = even \/ (n \div 2^k = 0 /\ even = 1)
        /\ \A j \in 0..k - 1 : (n \div 2^j) % 2 # even

\* One step of either verifier.  at and last are the positions of the node and
\* of the last node on this level; old is only combined with left siblings.
Climb(s, sibling) ==
    IF s.bad \/ s.last = 0 THEN [s EXCEPT !.bad = TRUE]
    ELSE LET left == s.at % 2 = 1 \/ s.at = s.last
             k == IF left THEN Halvings(s.at, 1) + 1 ELSE 1
         IN [bad |-> FALSE,
             at |-> s.at \div 2^k,
             last |-> s.last \div 2^k,
             old |-> IF left THEN nodeHash(sibling, s.old) ELSE s.old,
             new |-> IF left THEN nodeHash(sibling, s.new)
                             ELSE nodeHash(s.new, sibling)]

verifyInclusion(leaf, leafIndex, treeSize, rootDigest, auditPath) ==
    /\ leafIndex < treeSize
    /\ LET start == [bad |-> FALSE, at |-> leafIndex, last |-> treeSize - 1,
                     old |-> leafHash(leaf), new |-> leafHash(leaf)]
           end == FoldLeft(Climb, start, auditPath)
       IN ~end.bad /\ end.last = 0 /\ end.new = rootDigest

verifyConsistency(oldSize, newSize, oldRoot, newRoot, auditPath) ==
    /\ 0 < oldSize /\ oldSize <= newSize
    /\ IF oldSize = newSize
       THEN auditPath = <<>> /\ oldRoot = newRoot
       ELSE LET k == Halvings(oldSize - 1, 0)
                whole == (oldSize - 1) \div 2^k = 0
                first == IF whole THEN oldRoot ELSE auditPath[1]
                start == [bad |-> FALSE, at |-> (oldSize - 1) \div 2^k,
                          last |-> (newSize - 1) \div 2^k,
                          old |-> first, new |-> first]
                end == FoldLeft(Climb, start,
                                IF whole THEN auditPath ELSE Tail(auditPath))
            IN /\ whole \/ auditPath # <<>>
               /\ ~end.bad /\ end.last = 0
               /\ end.old = oldRoot /\ end.new = newRoot

-----------------------------------------------------------------------------
(* Digests and signatures.                                                 *)

NoDigest == <<"none">>
Absent == -1

hashAuditValue(domain, value) == <<domain, value>>

Signature(signer, value) == [by |-> signer, over |-> value]

\* verify(canonicalizeJsonBytes(value), jws, signer)
Verifies(value, jws, signer) == jws.by = signer /\ jws.over = value

-----------------------------------------------------------------------------
(* Events, entries and receipts.                                           *)

\* AUDIT_EVENT_TYPES, each split at its first dot.
AuditEventTypes ==
    UNION {
        {"session"} \X {"established", "rejected", "expired", "replay_rejected"},
        {"tool"} \X {"call.started", "call.completed", "call.failed",
                     "call.denied", "call.challenged"},
        {"proof"} \X {"generated", "verified", "rejected"},
        {"delegation"} \X {"issued", "verified", "rejected", "revoked",
                           "cascade_revoked", "outbound_attached"},
        {"authorization"} \X {"evaluated", "approved", "denied",
                              "step_up_required"},
        {<<"grant", "used">>},
        {"consent"} \X {"requested", "approved", "denied"},
        {"credential"} \X {"required", "verified", "failed"},
        {<<"key", "rotated">>, <<"policy", "changed">>,
         <<"configuration", "changed">>,
         <<"integrity_suite", "transitioned">>},
        {"ledger"} \X {"epoch.started", "epoch.transitioned"},
        {"checkpoint"} \X {"created", "anchored", "anchor_failed"},
        {<<"evidence", "disposed">>, <<"projection", "reconciled">>},
        {"audit"} \X {"source_high_water", "accessed", "exported"},
        {<<"legal_hold", "applied">>, <<"retention", "executed">>}}

expectedFamily(eventType) ==
    LET head == eventType[1] IN
    CASE head \in {"session", "tool", "proof", "delegation"} -> head
      [] head \in {"authorization", "grant"} -> "authorization"
      [] head \in {"consent", "credential"} -> "consent"
      [] head \in {"key", "policy", "configuration", "integrity_suite"} -> "key"
      [] head \in {"ledger", "checkpoint", "evidence", "projection"} -> "ledger"
      [] OTHER -> "administration"

auditProducerEventSchema(event) ==
    /\ event.type \in AuditEventTypes
    /\ event.family = expectedFamily(event.type)

signedAuditEntrySchema(entry) ==
    auditProducerEventSchema(entry.core.event)

\* The evidence of an event: the references it carries, in whichever field.
collectAuditEvidenceManifest(event) == event.evidence

digestAuditEvent(event) == hashAuditValue("event", event)

digestAuditEvidenceManifest(event) ==
    hashAuditValue("evidenceManifest", collectAuditEvidenceManifest(event))

digestAuditEntry(core) == hashAuditValue("entry", core)

buildAuditRecorderReceiptCore(core, entryDigest) ==
    [ledger |-> core.ledger, sequence |-> core.sequence, event |-> core.event.id,
     entryDigest |-> entryDigest, previous |-> core.previous, at |-> core.at,
     recorder |-> core.recorder]

\* What the recorder signs for one event at one position.
SignEntry(ledger, sequence, previous, event, at, recorder) ==
    LET core == [ledger |-> ledger, sequence |-> sequence,
                 previous |-> previous, at |-> at, recorder |-> recorder,
                 eventDigest |-> digestAuditEvent(event), event |-> event,
                 manifest |-> digestAuditEvidenceManifest(event),
                 suite |-> "entry-suite"]
        receipt == buildAuditRecorderReceiptCore(core, digestAuditEntry(core))
    IN [core |-> core, eventDigest |-> digestAuditEvent(event),
        entryDigest |-> digestAuditEntry(core),
        receipt |-> [core |-> receipt, jws |-> Signature(recorder, receipt)]]

-----------------------------------------------------------------------------
(* Checkpoints, observations, proofs and anchors.                          *)

signedAuditCheckpointSchema(checkpoint) ==
    /\ checkpoint.core.treeSize # 0
    /\ checkpoint.core.last >= checkpoint.core.first

\* signCheckpoint; previous is the latest checkpoint's digest or NoDigest.
SignCheckpoint(entries, previous, at, issuer) ==
    LET core == [ledger |-> entries[1].core.ledger,
                 treeSize |-> Len(entries),
                 first |-> entries[1].core.sequence,
                 last |-> entries[Len(entries)].core.sequence,
                 root |-> root([i \in 1..Len(entries) |-> entries[i].entryDigest]),
                 head |-> entries[Len(entries)].entryDigest,
                 previous |-> previous, at |-> at, issuer |-> issuer,
                 suite |-> "checkpoint-suite"]
    IN [core |-> core, digest |-> hashAuditValue("checkpoint", core),
        jws |-> Signature(issuer, core)]

auditObservationReceiptSchema(receipt) == receipt.core.at >= 0

SignObservation(observer, checkpoint, at, previous) ==
    LET core == [observer |-> observer, ledger |-> checkpoint.core.ledger,
                 checkpoint |-> checkpoint.digest,
                 treeSize |-> checkpoint.core.treeSize, at |-> at,
                 previous |-> previous]
    IN [core |-> core, digest |-> hashAuditValue("observation", core),
        jws |-> Signature(observer, core)]

AnchorKinds == {"worm", "rfc3161", "scitt"}

auditAnchorReceiptSchema(receipt) == receipt.kind \in AnchorKinds

InclusionItem(entries, sequence, checkpoint) ==
    LET leaves == [i \in 1..checkpoint.core.treeSize |-> entries[i].entryDigest]
    IN [ledger |-> checkpoint.core.ledger, sequence |-> sequence,
        entryDigest |-> leaves[sequence + 1], checkpoint |-> checkpoint.digest,
        leafIndex |-> sequence, treeSize |-> checkpoint.core.treeSize,
        path |-> inclusionProof(leaves, sequence)]

ConsistencyItem(entries, old, new) ==
    LET leaves == [i \in 1..new.core.treeSize |-> entries[i].entryDigest]
    IN [ledger |-> new.core.ledger, old |-> old.digest, new |-> new.digest,
        oldSize |-> old.core.treeSize, newSize |-> new.core.treeSize,
        path |-> consistencyProof(leaves, old.core.treeSize)]

-----------------------------------------------------------------------------
(* Verdicts.                                                               *)

PROFILE_DIMENSIONS == <<"crypto", "chain", "checkpoint", "anchor">>

Dimensions == {"crypto", "chain", "checkpoint", "anchor", "scope",
               "asObserved", "current"}

dimension(verdict, reasons) == [verdict |-> verdict, reasons |-> reasons]

When(condition, reason) == IF condition THEN {reason} ELSE {}

INDETERMINATE_REASONS == {"NOT_EVALUATED", "KEY_BOUNDARY_UNRESOLVED"}

verdictOf(reasons) ==
    IF reasons = {} THEN "valid"
    ELSE IF reasons \subseteq INDETERMINATE_REASONS THEN "indeterminate"
    ELSE "invalid"

Judged(reasons) == dimension(verdictOf(reasons), reasons)

\* The checks of replay-bundle.ts that know no indeterminate reason.
Strict(reasons) == dimension(IF reasons = {} THEN "valid" ELSE "invalid", reasons)

mergeAuditDimensions(values) ==
    IF values = {} THEN dimension("indeterminate", {"NOT_EVALUATED"})
    ELSE dimension(IF \E v \in values : v.verdict = "invalid" THEN "invalid"
                   ELSE IF \A v \in values : v.verdict = "valid" THEN "valid"
                   ELSE "indeterminate",
                   UNION {v.reasons : v \in values})

\* Every dimension the required profile rests on is invalid unless valid;
\* anchor integrity also needs a supporting anchor.
applyRequiredAuditProfile(report, policy, supportingAnchors) ==
    LET needed == {PROFILE_DIMENSIONS[i] : i \in 1..policy.profile}
        unmet(d) == \/ report[d].verdict # "valid"
                    \/ d = "anchor" /\ ~supportingAnchors
    IN [d \in Dimensions |->
            IF policy.profile # Absent /\ d \in needed /\ unmet(d)
            THEN dimension("invalid",
                           report[d].reasons \cup {"REQUIRED_PROFILE_UNMET"})
            ELSE report[d]]

\* A report whose integrity dimensions are invalid for one reason.
Refused(reason, authorization) ==
    [d \in Dimensions |->
        IF d \in {"asObserved", "current"} THEN authorization[d]
        ELSE dimension("invalid", {reason})]

NotEvaluated == dimension("indeterminate", {"NOT_EVALUATED"})

invalidPolicyReport ==
    Refused("VERIFICATION_POLICY_INVALID",
            [asObserved |-> NotEvaluated, current |-> NotEvaluated])

malformedBundleReport ==
    [Refused("BUNDLE_SCHEMA_INVALID",
        [asObserved |-> dimension("indeterminate",
                            {"AUTHORIZATION_COLLATERAL_NOT_VERIFIED"}),
         current |-> dimension("indeterminate",
                            {"CURRENT_AUTHORIZATION_NOT_EVALUATED"})])
        EXCEPT !.checkpoint = dimension("indeterminate", {"CHECKPOINT_MISSING"}),
               !.anchor = dimension("indeterminate",
                                    {"OBSERVER_EVIDENCE_MISSING"})]

-----------------------------------------------------------------------------
(* Key trust.                                                              *)

historicalAuditKeyPolicySchema(key) ==
    key.from = Absent \/ key.until = Absent \/ key.from <= key.until

auditVerificationPolicySchema(policy) ==
    /\ \A epoch \in policy.epochs :
          epoch.keys # {} /\ \A k \in epoch.keys : historicalAuditKeyPolicySchema(k)
    /\ \A k \in policy.observers : historicalAuditKeyPolicySchema(k)
    /\ \A x \in policy.exporters :
          /\ x.keys # {} /\ x.ledgers # {} /\ x.purposes # {}
          /\ \A k \in x.keys : historicalAuditKeyPolicySchema(k)
    /\ policy.suites # {} /\ policy.algorithms # {}

\* keyIsValidAt, atTime
keyIsValidAt(interval, at) ==
    /\ interval.from = Absent \/ at >= interval.from
    /\ interval.until = Absent \/ at <= interval.until

\* boundaries(): a checkpoint core places a bound by its recomputed digest.
Placed(digest, ledger, cores) ==
    {c.treeSize : c \in {k \in cores : /\ hashAuditValue("checkpoint", k) = digest
                                       /\ k.ledger = ledger}}

positionWithin(bounds, ledger, position, cores) ==
    LET from == Placed(bounds.fromCheckpoint, ledger, cores)
        until == Placed(bounds.untilCheckpoint, ledger, cores)
        unplaced(digest, sizes) == digest # NoDigest /\ sizes = {}
    IN IF (\E s \in from : position <= s) \/ (\E s \in until : position > s)
       THEN "outside"
       ELSE IF \/ unplaced(bounds.fromCheckpoint, from)
               \/ unplaced(bounds.untilCheckpoint, until)
       THEN "unresolved" ELSE "within"

strictest(statuses) ==
    IF "outside" \in statuses THEN "outside"
    ELSE IF "unresolved" \in statuses THEN "unresolved" ELSE "within"

\* The best status of the signer's keys, each bounded by the epoch as well.
keyTrust(keys, signer, at, ledger, position, cores, epoch) ==
    LET usable == {k \in keys : k.signer = signer /\ keyIsValidAt(k, at)}
        statuses == {strictest({positionWithin(epoch, ledger, position, cores),
                                positionWithin(k, ledger, position, cores)}) :
                        k \in usable}
    IN IF "within" \in statuses THEN "within"
       ELSE IF "unresolved" \in statuses THEN "unresolved" ELSE "outside"

keyIsCurrent(keys, signer, now) ==
    \E k \in keys : /\ k.signer = signer
                    /\ keyIsValidAt(k, now)
                    /\ k.untilCheckpoint = NoDigest

Unbounded == [fromCheckpoint |-> NoDigest, untilCheckpoint |-> NoDigest]

\* trustedLedgerEpochs.find(...): no keys and no bounds for an unknown ledger.
EpochPolicy(policy, ledger) ==
    IF \E e \in policy.epochs : e.ledger = ledger
    THEN CHOOSE e \in policy.epochs : e.ledger = ledger
    ELSE [ledger |-> ledger, keys |-> {},
          fromCheckpoint |-> NoDigest, untilCheckpoint |-> NoDigest]

TrustReasons(status, untrusted) ==
    When(status = "outside", untrusted)
    \cup When(status = "unresolved", "KEY_BOUNDARY_UNRESOLVED")

=============================================================================
