--------------------------- MODULE AuditVerifier ---------------------------
(***************************************************************************)
(* AuditArtifactVerifier (src/src/audit/verifier.ts) and verifyAuditBundle *)
(* (replay-bundle.ts) as operators.  deps are the verifier's collaborators:*)
(* now (its clock, or Absent), skew, authorization (a set with at most one *)
(* collateral verifier's pair of answers) and anchors (a set with at most  *)
(* one anchor verifier: the receipts it accepts).                          *)
(***************************************************************************)
EXTENDS AuditArtifacts

-----------------------------------------------------------------------------
(* Entries.                                                                *)

verifyEntry(entry, policy, cores) ==
    LET core == entry.core
        epoch == EpochPolicy(policy, core.ledger)
    IN UNION {
        When(core.suite \notin policy.suites, "UNSUPPORTED_SUITE"),
        When(core.recorder.alg \notin policy.algorithms, "UNSUPPORTED_ALGORITHM"),
        TrustReasons(keyTrust(epoch.keys, core.recorder, core.at, core.ledger,
                              core.sequence + 1, cores, epoch),
                     "UNTRUSTED_RECORDER"),
        When(\/ digestAuditEvent(core.event) # core.eventDigest
             \/ digestAuditEvent(core.event) # entry.eventDigest,
             "EVENT_DIGEST_MISMATCH"),
        When(digestAuditEvidenceManifest(core.event) # core.manifest,
             "EVIDENCE_MANIFEST_DIGEST_MISMATCH"),
        When(digestAuditEntry(core) # entry.entryDigest, "ENTRY_DIGEST_MISMATCH"),
        When(buildAuditRecorderReceiptCore(core, entry.entryDigest)
                # entry.receipt.core, "RECEIPT_MISMATCH"),
        When(~Verifies(entry.receipt.core, entry.receipt.jws, core.recorder),
             "SIGNATURE_INVALID")}

\* Entry i of the well-formed entries, against the one before it.
verifyChainPosition(entries, i) ==
    LET core == entries[i].core IN
    IF i = 1
    THEN IF core.sequence = 0
         THEN When(\/ core.previous # NoDigest
                   \/ core.event.type # <<"ledger", "epoch.started">>,
                   "GENESIS_INVALID")
         ELSE When(core.previous = NoDigest, "PREDECESSOR_MISMATCH")
    ELSE LET before == entries[i - 1] IN
         When(core.ledger # before.core.ledger, "LEDGER_SCOPE_MISMATCH")
         \cup When(core.sequence # before.core.sequence + 1, "SEQUENCE_GAP")
         \cup When(core.previous # before.entryDigest, "PREDECESSOR_MISMATCH")

\* Whether every signer is still listed now: {} under as_observed.
verifyCurrentKeys(policy, deps, entries, checkpoints, observations, exporters) ==
    LET recorderKeys(ledger) == EpochPolicy(policy, ledger).keys
        current ==
            /\ \A e \in entries :
                  keyIsCurrent(recorderKeys(e.core.ledger), e.core.recorder, deps.now)
            /\ \A c \in checkpoints :
                  keyIsCurrent(recorderKeys(c.core.ledger), c.core.issuer, deps.now)
            /\ \A r \in observations :
                  keyIsCurrent(policy.observers, r.core.observer, deps.now)
            /\ \A x \in exporters :
                  keyIsCurrent(UNION {a.keys : a \in policy.exporters}, x, deps.now)
    IN IF policy.mode = "as_observed" THEN {}
       ELSE IF deps.now = Absent THEN {NotEvaluated}
       ELSE {IF current THEN dimension("valid", {})
             ELSE dimension("invalid", {"KEY_NOT_CURRENT"})}

\* The authorization collateral, where a verifier for it is configured.
Authorization(entries, deps) ==
    IF deps.authorization # {}
    THEN CHOOSE answer \in deps.authorization : TRUE
    ELSE [asObserved |-> dimension("indeterminate",
              {IF \E e \in entries : e.core.event.authorized
               THEN "AUTHORIZATION_COLLATERAL_NOT_VERIFIED"
               ELSE "AUTHORIZATION_EVIDENCE_MISSING"}),
          current |-> dimension("indeterminate",
              {"CURRENT_AUTHORIZATION_NOT_EVALUATED"})]

verifyEntries(entries, policy, cores, deps) ==
    IF ~auditVerificationPolicySchema(policy) THEN invalidPolicyReport
    ELSE
    LET good == SelectSeq(entries, signedAuditEntrySchema)
        malformed == When(Len(good) # Len(entries), "SCHEMA_INVALID")
        empty == entries = <<>>
        crypto == malformed \cup
            UNION {verifyEntry(good[i], policy, cores) : i \in DOMAIN good}
        chain == malformed
            \cup When(empty, "BUNDLE_SELECTION_INCOMPLETE")
            \cup UNION {verifyChainPosition(good, i) : i \in DOMAIN good}
        authorization == Authorization(ToSet(good), deps)
        keys == verifyCurrentKeys(policy, deps, ToSet(good), {}, {}, {})
        report == [crypto |-> IF empty THEN dimension("invalid", crypto)
                              ELSE Judged(crypto),
                   chain |-> Strict(chain),
                   checkpoint |-> dimension("indeterminate", {"CHECKPOINT_MISSING"}),
                   anchor |-> dimension("indeterminate",
                                        {"OBSERVER_EVIDENCE_MISSING"}),
                   scope |-> dimension(IF empty THEN "invalid"
                                       ELSE "indeterminate", {"NOT_EVALUATED"}),
                   asObserved |-> authorization.asObserved,
                   current |-> IF keys = {} THEN authorization.current
                               ELSE mergeAuditDimensions(
                                        keys \cup {authorization.current})]
    IN applyRequiredAuditProfile(report, policy, FALSE)

-----------------------------------------------------------------------------
(* Checkpoints and observations.  Both are called with schema-valid        *)
(* artifacts and a valid policy: the callers check that first.             *)

checkSignedCheckpoint(checkpoint, policy, cores) ==
    LET core == checkpoint.core
        epoch == EpochPolicy(policy, core.ledger)
    IN UNION {
        When(core.suite \notin policy.suites, "UNSUPPORTED_SUITE"),
        When(core.issuer.alg \notin policy.algorithms, "UNSUPPORTED_ALGORITHM"),
        TrustReasons(keyTrust(epoch.keys, core.issuer, core.at, core.ledger,
                              core.treeSize, cores \cup {core}, epoch),
                     "UNTRUSTED_RECORDER"),
        When(hashAuditValue("checkpoint", core) # checkpoint.digest,
             "CHECKPOINT_DIGEST_MISMATCH"),
        When(~Verifies(core, checkpoint.jws, core.issuer),
             "CHECKPOINT_SIGNATURE_INVALID")}

\* With the complete prefix: the root is recomputed.
verifyCheckpoint(checkpoint, entries, policy, cores) ==
    LET core == checkpoint.core
        ranged == /\ core.treeSize = Len(entries)
                  /\ entries[1].core.sequence = core.first
                  /\ entries[Len(entries)].core.sequence = core.last
                  /\ entries[Len(entries)].entryDigest = core.head
                  /\ \A i \in DOMAIN entries : entries[i].core.ledger = core.ledger
        leaves == [i \in DOMAIN entries |-> entries[i].entryDigest]
    IN Judged(checkSignedCheckpoint(checkpoint, policy, cores)
              \cup IF ranged
                   THEN When(root(leaves) # core.root, "CHECKPOINT_ROOT_MISMATCH")
                   ELSE {"CHECKPOINT_RANGE_MISMATCH"})

\* Mutant: the last sequence is compared with the size.
lastIsSize(checkpoint, policy, cores) ==
    Judged(checkSignedCheckpoint(checkpoint, policy, cores)
           \cup When(checkpoint.core.last # checkpoint.core.treeSize,
                     "CHECKPOINT_RANGE_MISMATCH"))

\* Without the leaves: only what the recorder signed.
verifySignedCheckpoint(checkpoint, policy, cores) ==
    LET core == checkpoint.core IN
    Judged(checkSignedCheckpoint(checkpoint, policy, cores)
           \cup When(core.first # 0 \/ core.last + 1 # core.treeSize,
                     "CHECKPOINT_RANGE_MISMATCH"))

FreshnessReasons(at, policy, deps) ==
    IF policy.freshness = Absent THEN {}
    ELSE IF deps.now = Absent THEN {"NOT_EVALUATED"}
    ELSE IF at > deps.now + deps.skew THEN {"OBSERVATION_FUTURE_DATED"}
    ELSE When(deps.now - at > policy.freshness, "OBSERVATION_STALE")

verifyObservation(checkpoint, receipt, policy, cores, deps) ==
    LET core == receipt.core IN
    Judged(UNION {
        When(\/ core.ledger # checkpoint.core.ledger
             \/ core.checkpoint # checkpoint.digest
             \/ core.treeSize # checkpoint.core.treeSize,
             "OBSERVATION_SCOPE_MISMATCH"),
        When(core.observer.alg \notin policy.algorithms, "UNSUPPORTED_ALGORITHM"),
        TrustReasons(keyTrust(policy.observers, core.observer, core.at,
                              core.ledger, core.treeSize,
                              cores \cup {checkpoint.core}, Unbounded),
                     "UNTRUSTED_OBSERVER"),
        FreshnessReasons(core.at, policy, deps),
        When(hashAuditValue("observation", core) # receipt.digest,
             "OBSERVATION_DIGEST_MISMATCH"),
        When(~Verifies(core, receipt.jws, core.observer),
             "OBSERVATION_SIGNATURE_INVALID")})

-----------------------------------------------------------------------------
(* Replay bundles.  A component holds its media type, disposition, digest, *)
(* reason and content; an inventory item is the same without the content.  *)

\* A path is the sequence of its segments; a leading slash is an empty one.
assertPath(path) ==
    path # <<>> /\ \A i \in DOMAIN path : path[i] \notin {"", ".", ".."}

InventoryItemSchema(item) ==
    IF item.disposition = "included"
    THEN item.digest # NoDigest /\ item.reason = ""
    ELSE item.digest = NoDigest /\ item.reason # ""

componentMetadata(component) ==
    [path |-> component.path, media |-> component.media,
     disposition |-> component.disposition, digest |-> component.digest,
     reason |-> component.reason]

\* hasContent is the presence of the content property.
ComponentSchema(component) ==
    /\ InventoryItemSchema(componentMetadata(component))
    /\ component.hasContent <=> component.disposition = "included"

auditReplayBundleSchema(bundle) ==
    LET core == bundle.manifest.core IN
    /\ core.selections # {}
    /\ \A s \in core.selections : s.last >= s.first
    /\ \A item \in core.inventory : InventoryItemSchema(item)
    /\ \A a, b \in core.inventory : a.path = b.path => a = b
    /\ \A component \in bundle.components : ComponentSchema(component)

\* export(): paths are unique (a duplicate throws) and excluded items carry a
\* reason; the inventory is what the signature covers.
ExportBundle(selections, components, purpose, policy, at, exporter) ==
    LET core == [selections |-> selections, exporter |-> exporter,
                 purpose |-> purpose, at |-> at,
                 policyDigest |-> hashAuditValue("policy", policy),
                 inventory |-> {componentMetadata(c) : c \in components},
                 suite |-> "bundle-suite"]
    IN [manifest |-> [core |-> core,
                      digest |-> hashAuditValue("bundleManifest", core),
                      jws |-> Signature(exporter, core)],
        components |-> components]

IncludedComponent(path, media, content) ==
    [path |-> path, media |-> media, disposition |-> "included", reason |-> "",
     digest |-> <<"component", content>>, hasContent |-> TRUE,
     content |-> content]

OmittedComponent(path, media, disposition) ==
    [path |-> path, media |-> media, disposition |-> disposition,
     reason |-> "withheld", digest |-> NoDigest, hasContent |-> FALSE,
     content |-> <<>>]

exporterAuthorization(core, policy) ==
    LET usable == UNION {{k \in a.keys : /\ k.signer = core.exporter
                                         /\ keyIsValidAt(k, core.at)} :
            a \in {x \in policy.exporters :
                      /\ core.purpose \in x.purposes
                      /\ \A s \in core.selections : s.ledger.id \in x.ledgers}}
        unplaced == {k \in usable : \/ k.fromCheckpoint # NoDigest
                                    \/ k.untilCheckpoint # NoDigest}
    IN IF usable \ unplaced # {} THEN "authorized"
       ELSE IF unplaced # {} THEN "unresolved" ELSE "unauthorized"

\* The manifest and the inventory, against the components that came with it.
ManifestReasons(bundle, policy) ==
    LET core == bundle.manifest.core
        exporter == exporterAuthorization(core, policy)
        paths == {item.path : item \in core.inventory}
        supplied(p) == {c \in bundle.components : c.path = p}
        matching(item) == \E c \in supplied(item.path) : componentMetadata(c) = item
    IN UNION {
        When(core.suite \notin policy.suites, "UNSUPPORTED_SUITE"),
        When(core.exporter.alg \notin policy.algorithms, "UNSUPPORTED_ALGORITHM"),
        When(exporter = "unauthorized", "BUNDLE_EXPORTER_UNAUTHORIZED"),
        When(exporter = "unresolved", "KEY_BOUNDARY_UNRESOLVED"),
        When(hashAuditValue("bundleManifest", core) # bundle.manifest.digest,
             "BUNDLE_MANIFEST_DIGEST_MISMATCH"),
        When(hashAuditValue("policy", policy) # core.policyDigest,
             "VERIFICATION_POLICY_MISMATCH"),
        When(~Verifies(core, bundle.manifest.jws, core.exporter),
             "BUNDLE_SIGNATURE_INVALID"),
        When(\/ \E p \in paths \cup {c.path : c \in bundle.components} :
                   Cardinality(supplied(p)) # 1 \/ p \notin paths
             \/ \E item \in core.inventory : ~matching(item),
             "BUNDLE_INVENTORY_MISMATCH"),
        When(\E p \in paths : ~assertPath(p), "BUNDLE_SCHEMA_INVALID"),
        When(\E c \in bundle.components :
                /\ componentMetadata(c) \in core.inventory
                /\ c.disposition = "included"
                /\ c.digest # <<"component", c.content>>,
             "BUNDLE_COMPONENT_DIGEST_MISMATCH")}

\* includedArrays: the arrays of one media type, joined.
includedArrays(bundle, media) ==
    LET of == {c \in bundle.components : c.disposition = "included"
                                         /\ c.media = media}
    IN FlattenSeq(SetToSeq({c.content : c \in of}))

isCompletePrefix(entries, treeSize) ==
    /\ Len(entries) = treeSize
    /\ \A i \in DOMAIN entries : entries[i].core.sequence = i - 1

OfLedger(entries, ledger) ==
    SelectSeq(entries, LAMBDA e : e.core.ledger = ledger)

\* Each ledger's entries in their order, and the malformed ones together.
verifyEntryGroups(candidates, policy, cores, deps) ==
    LET good == SelectSeq(candidates, signedAuditEntrySchema)
        bad == SelectSeq(candidates, LAMBDA e : ~signedAuditEntrySchema(e))
        ledgers == {good[i].core.ledger : i \in DOMAIN good}
        reports == {verifyEntries(OfLedger(good, l), policy, cores, deps) :
                        l \in ledgers}
                   \cup IF bad = <<>> /\ good # <<>> THEN {}
                        ELSE {verifyEntries(bad, policy, cores, deps)}
    IN [d \in Dimensions |-> mergeAuditDimensions({r[d] : r \in reports})]

inclusionKey(checkpoint, entryDigest, sequence) ==
    <<checkpoint, entryDigest, sequence>>

consistencyKey(old, new) == <<old, new>>

InclusionHolds(item, entries, checkpoints) ==
    /\ \E e \in entries : /\ e.entryDigest = item.entryDigest
                          /\ e.core.sequence = item.sequence
                          /\ e.core.ledger = item.ledger
    /\ \E c \in checkpoints :
          /\ c.digest = item.checkpoint /\ c.core.ledger = item.ledger
          /\ item.treeSize = c.core.treeSize /\ item.leafIndex = item.sequence
          /\ verifyInclusion(item.entryDigest, item.leafIndex, item.treeSize,
                             c.core.root, item.path)

ConsistencyHolds(item, checkpoints) ==
    \E old, new \in checkpoints :
        /\ old.digest = item.old /\ old.core.ledger = item.ledger
        /\ new.digest = item.new /\ new.core.ledger = item.ledger
        /\ item.oldSize = old.core.treeSize /\ item.newSize = new.core.treeSize
        /\ verifyConsistency(item.oldSize, item.newSize, old.core.root,
                             new.core.root, item.path)

verifyMerkleProofComponents(inclusions, consistencies, entries, checkpoints) ==
    LET okInclusions == {p \in inclusions : InclusionHolds(p, entries, checkpoints)}
        okConsistencies == {p \in consistencies : ConsistencyHolds(p, checkpoints)}
    IN [dimension |-> Strict(When(\/ okInclusions # inclusions
                                  \/ okConsistencies # consistencies,
                                  "MERKLE_PROOF_INVALID")),
        inclusions |-> {inclusionKey(p.checkpoint, p.entryDigest, p.sequence) :
                            p \in okInclusions},
        consistencies |-> {consistencyKey(p.old, p.new) : p \in okConsistencies}]

verifyInclusionBinding(checkpoint, covered, verified) ==
    Strict(UNION {
        When(inclusionKey(checkpoint.digest, e.entryDigest, e.core.sequence)
                \notin verified, "MERKLE_PROOF_MISSING")
        \cup When(/\ e.core.sequence = checkpoint.core.treeSize - 1
                  /\ e.entryDigest # checkpoint.core.head,
                  "CHECKPOINT_RANGE_MISMATCH") : e \in covered})

\* Two neighbours by size in one ledger's included checkpoints: linked, or far
\* enough apart for an omitted one and bound by a verified consistency proof.
NeighbourReasons(before, after, group, verified) ==
    LET claimed == after.core.previous
        omittable == /\ claimed # NoDigest
                     /\ claimed \notin {c.digest : c \in group}
                     /\ after.core.treeSize - before.core.treeSize > 1
    IN IF after.core.treeSize = before.core.treeSize
       THEN {"CHECKPOINT_FORK_DETECTED"}
       ELSE When(/\ claimed # before.digest
                 /\ ~(omittable /\ consistencyKey(before.digest, after.digest)
                                        \in verified),
                 "CHECKPOINT_CHAIN_MISMATCH")

Neighbours(group) ==
    {p \in group \X group :
        /\ p[1] # p[2] /\ p[1].core.treeSize <= p[2].core.treeSize
        /\ ~\E c \in group : /\ p[1].core.treeSize < c.core.treeSize
                             /\ c.core.treeSize < p[2].core.treeSize}

\* A successor genesis names the terminal checkpoint of its predecessor epoch.
EpochReasons(entry, checkpoints, selections) ==
    LET link == entry.core.event.link
        of == {c \in checkpoints : c.core.ledger = link.ledger}
        terminal == {c \in of : c.digest = link.terminal}
    IN IF \/ entry.core.sequence # 0
          \/ entry.core.event.type # <<"ledger", "epoch.started">>
          \/ link.terminal = NoDigest
          \/ ~\E s \in selections : s.ledger = link.ledger
       THEN {}
       ELSE IF terminal = {} THEN {"CHECKPOINT_CHAIN_MISMATCH"}
       ELSE When(\E t \in terminal, c \in of : c.core.treeSize > t.core.treeSize,
                 "CHECKPOINT_FORK_DETECTED")

verifyCheckpointHistory(checkpoints, entries, selections, verified) ==
    LET group(ledger) == {c \in checkpoints : c.core.ledger = ledger}
        sizes(ledger) == {c.core.treeSize : c \in group(ledger)}
    IN Strict(UNION {
        UNION {NeighbourReasons(p[1], p[2], group(p[1].core.ledger), verified) :
                  p \in UNION {Neighbours(group(c.core.ledger)) : c \in checkpoints}},
        When(\E s \in selections : sizes(s.ledger) # s.sizes, "CHECKPOINT_MISSING"),
        UNION {EpochReasons(e, checkpoints, selections) : e \in entries}})

\* By observer and ledger, in order of time: each names the one before it.
verifyObservationHistory(observations) ==
    LET before(a, b) == /\ a # b
                        /\ a.core.observer = b.core.observer
                        /\ a.core.ledger = b.core.ledger
                        /\ \/ a.core.at < b.core.at
                           \/ /\ a.core.at = b.core.at
                              /\ a.core.treeSize <= b.core.treeSize
        next(a, b) == /\ before(a, b)
                      /\ ~\E c \in observations \ {a, b} : before(a, c) /\ before(c, b)
    IN Strict(When(\E a, b \in observations :
                      next(a, b) /\ b.core.previous # a.digest,
                   "OBSERVATION_CHAIN_MISMATCH"))

verifySupportingAnchors(receipts, checkpoints, policy, deps) ==
    LET trusted(r) == \E a \in policy.anchors : /\ a.kind = r.kind
                                                /\ a.provider = r.provider
                                                /\ keyIsValidAt(a, r.at)
        known(r) == \E c \in checkpoints : c.digest = r.checkpoint
        accepted(r) == \E issued \in deps.anchors : r \in issued
    IN Judged(UNION {
        UNION {When(~auditAnchorReceiptSchema(r), "SCHEMA_INVALID"),
               When(~trusted(r), "UNTRUSTED_SUPPORTING_ANCHOR"),
               When(~known(r), "SUPPORTING_ANCHOR_INVALID"),
               When(known(r) /\ deps.anchors = {}, "NOT_EVALUATED"),
               When(known(r) /\ deps.anchors # {} /\ ~accepted(r),
                    "SUPPORTING_ANCHOR_INVALID")} : r \in receipts})

\* Mutant: only the head of a selection is looked for.
headIsComplete(selections, entries, omissions) ==
    IF \E s \in selections : ~\E i \in DOMAIN entries : entries[i].entryDigest = s.head
    THEN dimension("invalid", {"BUNDLE_SELECTION_INCOMPLETE"})
    ELSE dimension("valid", {})

selectionCompleteness(selections, entries, omissions) ==
    LET sequences(s) == [i \in DOMAIN OfLedger(entries, s.ledger) |->
                            OfLedger(entries, s.ledger)[i].core.sequence]
        complete(s) ==
            /\ Len(sequences(s)) = Cardinality(ToSet(sequences(s)))
            /\ ToSet(sequences(s)) = s.first..s.last
            /\ \E i \in DOMAIN entries : /\ entries[i].core.ledger = s.ledger
                                         /\ entries[i].core.sequence = s.last
                                         /\ entries[i].entryDigest = s.head
        withheld == {CASE d = "redacted" -> "EXPLICITLY_REDACTED"
                       [] d = "disposed" -> "EXPLICITLY_DISPOSED"
                       [] OTHER -> "EXPLICITLY_UNAVAILABLE" :
                        d \in {c.disposition : c \in omissions}
                              \cap {"redacted", "disposed", "unavailable"}}
    IN IF \E s \in selections : ~complete(s)
       THEN dimension("invalid", withheld \cup {"BUNDLE_SELECTION_INCOMPLETE"})
       ELSE dimension(IF withheld = {} THEN "valid" ELSE "indeterminate", withheld)

-----------------------------------------------------------------------------

CheckpointDimension(bundle, entries, policy, cores, missing) ==
    LET candidates == ToSet(includedArrays(bundle, "checkpoints"))
        good == {c \in candidates : signedAuditCheckpointSchema(c)}
        proofs == verifyMerkleProofComponents(
                      ToSet(includedArrays(bundle, "inclusionProofs")),
                      ToSet(includedArrays(bundle, "consistencyProofs")),
                      ToSet(entries), good)
        covered(c) == SelectSeq(OfLedger(entries, c.core.ledger),
                                LAMBDA e : e.core.sequence < c.core.treeSize)
        result(c) ==
            IF ~signedAuditCheckpointSchema(c)
            THEN dimension("invalid", {"SCHEMA_INVALID"})
            ELSE IF isCompletePrefix(covered(c), c.core.treeSize)
            THEN verifyCheckpoint(c, covered(c), policy, cores)
            ELSE mergeAuditDimensions(
                    {verifySignedCheckpoint(c, policy, cores),
                     verifyInclusionBinding(c, ToSet(covered(c)), proofs.inclusions)})
        selections == bundle.manifest.core.selections
    IN IF candidates # {}
       THEN mergeAuditDimensions(
                {result(c) : c \in candidates}
                \cup {verifyCheckpointHistory(good, ToSet(entries), selections,
                                              proofs.consistencies),
                      proofs.dimension})
       ELSE IF \E s \in selections : s.sizes # {}
       THEN dimension("invalid", {"CHECKPOINT_MISSING"})
       ELSE missing

AnchorDimension(bundle, checkpoints, policy, cores, deps, missing) ==
    LET receipts == ToSet(includedArrays(bundle, "observations"))
        anchors == ToSet(includedArrays(bundle, "anchors"))
        of(r) == {c \in checkpoints : c.digest = r.core.checkpoint}
        result(r) ==
            IF ~auditObservationReceiptSchema(r)
            THEN dimension("invalid", {"SCHEMA_INVALID"})
            ELSE IF of(r) = {}
            THEN dimension("invalid", {"OBSERVATION_SCOPE_MISMATCH"})
            ELSE verifyObservation(CHOOSE c \in of(r) : TRUE, r, policy, cores, deps)
        observed ==
            IF receipts = {} THEN missing
            ELSE mergeAuditDimensions({result(r) : r \in receipts}
                     \cup {verifyObservationHistory(
                              {r \in receipts : auditObservationReceiptSchema(r)})})
    IN IF anchors = {} THEN observed
       ELSE mergeAuditDimensions(
                {observed, verifySupportingAnchors(anchors, checkpoints, policy, deps)})

verifyAuditBundle(bundle, policy, deps) ==
    IF ~auditVerificationPolicySchema(policy) THEN invalidPolicyReport
    ELSE IF ~auditReplayBundleSchema(bundle)
    THEN applyRequiredAuditProfile(malformedBundleReport, policy, FALSE)
    ELSE
    LET candidates == includedArrays(bundle, "entries")
        entries == SelectSeq(candidates, signedAuditEntrySchema)
        checkpoints == {c \in ToSet(includedArrays(bundle, "checkpoints")) :
                            signedAuditCheckpointSchema(c)}
        observations == {r \in ToSet(includedArrays(bundle, "observations")) :
                            auditObservationReceiptSchema(r)}
        cores == {c.core : c \in checkpoints}
        groups == verifyEntryGroups(candidates, policy, cores, deps)
        core == bundle.manifest.core
        manifest == ManifestReasons(bundle, policy)
        keys == verifyCurrentKeys(policy, deps, {}, checkpoints, observations,
                                  {core.exporter})
        report ==
            [groups EXCEPT
                !.crypto = mergeAuditDimensions({Judged(manifest), groups.crypto}),
                !.checkpoint = CheckpointDimension(bundle, entries, policy, cores,
                                                   groups.checkpoint),
                !.anchor = AnchorDimension(bundle, checkpoints, policy, cores,
                                           deps, groups.anchor),
                !.scope = selectionCompleteness(core.selections, entries,
                              {c \in bundle.components : c.disposition # "included"}),
                !.current = IF keys = {} THEN groups.current
                            ELSE mergeAuditDimensions(keys \cup {groups.current})]
    IN applyRequiredAuditProfile(report, policy,
                                 includedArrays(bundle, "anchors") # <<>>)

=============================================================================
