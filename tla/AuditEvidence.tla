--------------------------- MODULE AuditEvidence ---------------------------
(***************************************************************************)
(* What is made of an audit journal after it is recorded: checkpoints      *)
(* (src/src/audit/checkpoint.ts), their publication to observers and       *)
(* anchors (checkpoint-coordinator.ts, providers/observer.ts, anchor.ts),  *)
(* verified mirrors (mirror-service.ts), paged reads (read-service.ts),    *)
(* the timeline projection (projection.ts) and exported bundles with their *)
(* offline verification (replay-bundle.ts).                                *)
(* An action is the code between two awaits on shared state.               *)
(*                                                                         *)
(* The journal only grows, except where the fault "restore" puts an older  *)
(* prefix back and recording goes on from there: `lost` then keeps the     *)
(* history that had been signed.  The clock advances with every entry.     *)
(***************************************************************************)
EXTENDS AuditVerifier

CONSTANTS
    Calls,          \* createAndPublish() calls
    BuilderOf,      \* BuilderOf[call]: the AuditCheckpointBuilder it uses
    Observers,      \* the coordinator's observers, as signers
    Anchors,        \* its anchor providers: [kind, provider]
    Deliveries,     \* deliveries to the mirror: delivery -> sequence number
    Readers,        \* clients that page through the ledger
    Workers,        \* AuditProjectionWorkers of one projection
    Settings,       \* what a behaviour may start from: see SettingType
    MaxAttempts,    \* maxPublishAttempts
    MinObservers,   \* requirements.minimumObservers
    AnchorKindsRequired, \* requirements.requiredAnchorKinds
    PageLimit,      \* the limit of listEntries
    PolicyKinds     \* verification policies an auditor may use: see PolicyOf

Builders == {BuilderOf[c] : c \in Calls}

FaultKinds == {"hook", "reply", "restore", "backoff"}

SettingType ==
    [calls: SUBSET Calls, deliveries: SUBSET DOMAIN Deliveries,
     readers: SUBSET Readers, workers: SUBSET Workers, anchors: SUBSET Anchors,
     entries: Nat, hooks: BOOLEAN, export: BOOLEAN,
     faults: SUBSET FaultKinds]

ASSUME EvidenceAssumption ==
    /\ IsFiniteSet(Calls) /\ IsFiniteSet(Observers) /\ IsFiniteSet(Anchors)
    /\ Settings \subseteq SettingType
    /\ MaxAttempts \in Nat \ {0} /\ MinObservers \in Nat
    /\ AnchorKindsRequired \subseteq AnchorKinds
    /\ PageLimit \in Nat \ {0} /\ \A d \in DOMAIN Deliveries : Deliveries[d] \in Nat
    /\ PolicyKinds \subseteq {"plain", "strict", "retired"}

VARIABLES
    setting,
    clock,          \* advances with every entry
    journal,        \* the signed entries of the ledger epoch
    lost,           \* the history a restore took back, <<>> if none
    store,          \* AuditCheckpointStore: the signed checkpoints
    tails,          \* tails[b]: calls holding or awaiting builder b's lock
    failedHooks,    \* failedHooks[b]: checkpoints whose hook is due again
    hooked,         \* digests whose lifecycle hook completed
    pc, local,      \* the calls
    observed,       \* observed[o]: checkpoint and receipt last observed
    receipts,       \* every observation receipt signed
    anchored,       \* every anchor receipt issued
    mirror,         \* the mirror's journal
    ingest,         \* ingest[d]: the state of delivery d
    reader,         \* reader[r]: cursor, head and pages read so far
    records,        \* the projection: the entries it was derived from
    worker,         \* worker[w]: a synchronize() or rebuild() under way
    reconciled,     \* a reconcile() under way and its status
    audit           \* the last bundle an auditor verified

callVars == <<store, tails, failedHooks, hooked, pc, local>>
publicVars == <<observed, receipts, anchored>>
mirrorVars == <<mirror, ingest>>
projectionVars == <<records, worker, reconciled>>
viewVars == <<reader, projectionVars>>
vars == <<setting, clock, journal, lost, callVars, publicVars, mirrorVars,
          viewVars, audit>>

TheLedger == [id |-> "ledger", epoch |-> "epoch"]
Recorder == [did |-> "recorder", alg |-> "EdDSA"]
Exporter == [did |-> "exporter", alg |-> "EdDSA"]

NoCheckpoint == <<>>

Event(id, type) ==
    [id |-> id, type |-> type, family |-> expectedFamily(type), evidence |-> {},
     authorized |-> FALSE,
     link |-> [ledger |-> [id |-> "ledger", epoch |-> "before"],
               terminal |-> NoDigest]]

\* The n-th event; after a restore other events are recorded in its place.
EventAt(n, again) ==
    Event(<<n, again>>, IF n = 0 THEN <<"ledger", "epoch.started">>
                        ELSE <<"tool", "call.completed">>)

Latest == IF store = {} THEN NoCheckpoint
          ELSE <<CHOOSE c \in store : \A d \in store :
                    d.core.treeSize <= c.core.treeSize>>

NoLocal == [head |-> NoDigest, count |-> 0, entries |-> <<>>,
            put |-> NoCheckpoint, checkpoint |-> NoCheckpoint, inserted |-> FALSE,
            due |-> <<>>, tries |-> <<>>, got |-> {}]

NotReconciled == [at |-> "idle", headAt |-> 0, head |-> NoDigest, offsetAt |-> 0,
                  offset |-> NoDigest, status |-> "none"]

Init ==
    /\ setting \in Settings
    /\ clock = 0 /\ journal = <<>> /\ lost = <<>>
    /\ store = {} /\ hooked = {}
    /\ tails = [b \in Builders |-> <<>>]
    /\ failedHooks = [b \in Builders |-> <<>>]
    /\ pc = [c \in Calls |-> "idle"]
    /\ local = [c \in Calls |-> NoLocal]
    /\ observed = [o \in Observers |-> <<>>]
    /\ receipts = {} /\ anchored = {}
    /\ mirror = <<>>
    /\ ingest = [d \in DOMAIN Deliveries |-> [at |-> "sent", head |-> NoDigest,
                                            entry |-> <<>>]]
    /\ reader = [r \in Readers |-> [at |-> "idle", head |-> 0, cursor |-> 0,
                                    read |-> <<>>]]
    /\ records = <<>>
    /\ worker = [w \in Workers |-> [at |-> "idle", count |-> 0,
                                     head |-> NoDigest, entry |-> <<>>]]
    /\ reconciled = NotReconciled
    /\ audit = <<>>

-----------------------------------------------------------------------------
(* The journal: the recorder itself is module AuditRecorder.               *)

HeadDigest(entries) ==
    IF entries = <<>> THEN NoDigest ELSE entries[Len(entries)].entryDigest

Record ==
    /\ Len(journal) < setting.entries
    /\ journal' = Append(journal,
           SignEntry(TheLedger, Len(journal), HeadDigest(journal),
                     EventAt(Len(journal), lost # <<>>), clock, Recorder))
    /\ clock' = clock + 1
    /\ UNCHANGED <<setting, lost, callVars, publicVars, mirrorVars, viewVars, audit>>

\* An older prefix is put back: what was signed after it is gone.
Restore ==
    /\ "restore" \in setting.faults /\ lost = <<>>
    /\ \E n \in 1..Len(journal) - 1 : journal' = SubSeq(journal, 1, n)
    /\ lost' = journal
    /\ UNCHANGED <<setting, clock, callVars, publicVars, mirrorVars, viewVars, audit>>

-----------------------------------------------------------------------------
(* createCheckpoint.                                                       *)

Goto(c, at) == pc' = [pc EXCEPT ![c] = at]

\* serialized(): join the builder's queue for the ledger.
StartCheckpoint(c) ==
    /\ c \in setting.calls /\ pc[c] = "idle" /\ journal # <<>>
    /\ tails' = [tails EXCEPT ![BuilderOf[c]] = Append(@, c)]
    /\ Goto(c, "head")
    /\ UNCHANGED <<setting, clock, journal, lost, store, failedHooks, hooked, local,
                   publicVars, mirrorVars, viewVars, audit>>

Holds(c) == tails[BuilderOf[c]] # <<>> /\ Head(tails[BuilderOf[c]]) = c

Release(c) == tails' = [tails EXCEPT ![BuilderOf[c]] = Tail(@)]

\* snapshotAtHead: the head first, then the entries up to it.
ReadHead(c) ==
    /\ pc[c] = "head" /\ Holds(c)
    /\ local' = [local EXCEPT ![c].head = HeadDigest(journal),
                              ![c].count = Len(journal)]
    /\ Goto(c, "entries")
    /\ UNCHANGED <<setting, clock, journal, lost, store, tails, failedHooks, hooked,
                   publicVars, mirrorVars, viewVars, audit>>

ReadEntries(c) ==
    /\ pc[c] = "entries"
    /\ LET l == local[c]
           n == IF Len(journal) < l.count THEN Len(journal) ELSE l.count
           entries == SubSeq(journal, 1, n)
           stable == n = l.count /\ HeadDigest(entries) = l.head
       IN /\ local' = [local EXCEPT ![c].entries = entries]
          /\ IF stable THEN Goto(c, "latest") /\ UNCHANGED tails
             ELSE Goto(c, "failed") /\ Release(c)     \* JOURNAL_FAILURE
    /\ UNCHANGED <<setting, clock, journal, lost, store, failedHooks, hooked,
                   publicVars, mirrorVars, viewVars, audit>>

Leaves(entries) == [i \in DOMAIN entries |-> entries[i].entryDigest]

\* Mutant: an older tree is not compared.
NeverExtends(previous, entries) == TRUE

\* assertExtends: the latest checkpoint's tree is a prefix of the snapshot.
assertExtends(previous, entries) ==
    LET n == previous.core.treeSize IN
    /\ n <= Len(entries)                              \* CHECKPOINT_ROLLBACK
    /\ LET prefix == SubSeq(entries, 1, n)            \* CHECKPOINT_CONFLICT
       IN /\ previous.core.root = root(Leaves(prefix))
          /\ previous.core.head = HeadDigest(prefix)

\* getLatest, and signCheckpoint unless the tree has not grown.
SignLatest(c) ==
    /\ pc[c] = "latest"
    /\ LET entries == local[c].entries
           none == Latest = NoCheckpoint
           same == ~none /\ Latest[1].core.treeSize = Len(entries)
           extends == IF none THEN TRUE ELSE assertExtends(Latest[1], entries)
       IN \/ /\ ~extends
             /\ local' = [local EXCEPT ![c] = NoLocal]
             /\ Goto(c, "failed") /\ Release(c)
          \/ /\ extends /\ same
             /\ local' = [local EXCEPT ![c] = [NoLocal EXCEPT !.checkpoint = Latest]]
             /\ Goto(c, "hooks") /\ Release(c)
          \/ /\ extends /\ ~same
             /\ local' = [local EXCEPT ![c].put =
                    <<SignCheckpoint(entries,
                        IF none THEN NoDigest ELSE Latest[1].digest,
                        clock, Recorder)>>]
             /\ Goto(c, "put") /\ UNCHANGED tails
    /\ UNCHANGED <<setting, clock, journal, lost, store, failedHooks, hooked,
                   publicVars, mirrorVars, viewVars, audit>>

\* MemoryAuditCheckpointStore.putIfAbsent: one checkpoint per tree size.
putIfAbsent(checkpoint) ==
    LET same == {c \in store : c.core.treeSize = checkpoint.core.treeSize}
    IN IF same = {} THEN "inserted"
       ELSE IF checkpoint \in same THEN "existing" ELSE "conflict"

PutCheckpoint(c) ==
    /\ pc[c] = "put" /\ Release(c)
    /\ LET checkpoint == local[c].put[1]
           result == putIfAbsent(checkpoint)
       IN IF result = "conflict"
          THEN Goto(c, "failed") /\ UNCHANGED <<store, local>>
          ELSE /\ store' = store \cup {checkpoint}
               /\ local' = [local EXCEPT ![c] =
                      [NoLocal EXCEPT !.checkpoint = <<checkpoint>>,
                                      !.inserted = result = "inserted"]]
               /\ Goto(c, "hooks")
    /\ UNCHANGED <<setting, clock, journal, lost, failedHooks, hooked,
                   publicVars, mirrorVars, viewVars, audit>>

\* The hooks that are due: those that failed, then the new checkpoint's.
TakeHooks(c) ==
    /\ pc[c] = "hooks"
    /\ LET b == BuilderOf[c]
           due == failedHooks[b] \o IF local[c].inserted
                                    THEN local[c].checkpoint ELSE <<>>
       IN IF setting.hooks
          THEN /\ failedHooks' = [failedHooks EXCEPT ![b] = <<>>]
               /\ local' = [local EXCEPT ![c].due = due]
               /\ Goto(c, IF due = <<>> THEN "publish" ELSE "hook")
          ELSE Goto(c, "publish") /\ UNCHANGED <<failedHooks, local>>
    /\ UNCHANGED <<setting, clock, journal, lost, store, tails, hooked,
                   publicVars, mirrorVars, viewVars, audit>>

HookCompletes(c) ==
    /\ pc[c] = "hook"
    /\ hooked' = hooked \cup {Head(local[c].due).digest}
    /\ local' = [local EXCEPT ![c].due = Tail(@)]
    /\ Goto(c, IF Len(local[c].due) = 1 THEN "publish" ELSE "hook")
    /\ UNCHANGED <<setting, clock, journal, lost, store, tails, failedHooks,
                   publicVars, mirrorVars, viewVars, audit>>

\* Mutant: what failed meanwhile is overwritten.
HookFailsAlone(c) ==
    /\ "hook" \in setting.faults /\ pc[c] = "hook"
    /\ failedHooks' = [failedHooks EXCEPT ![BuilderOf[c]] = local[c].due]
    /\ local' = [local EXCEPT ![c].due = <<>>]
    /\ Goto(c, "failed")
    /\ UNCHANGED <<setting, clock, journal, lost, store, tails, hooked,
                   publicVars, mirrorVars, viewVars, audit>>

\* The rest of the due list goes before what failed meanwhile.
HookFails(c) ==
    /\ "hook" \in setting.faults /\ pc[c] = "hook"
    /\ failedHooks' = [failedHooks EXCEPT ![BuilderOf[c]] = local[c].due \o @]
    /\ local' = [local EXCEPT ![c].due = <<>>]
    /\ Goto(c, "failed")
    /\ UNCHANGED <<setting, clock, journal, lost, store, tails, hooked,
                   publicVars, mirrorVars, viewVars, audit>>

-----------------------------------------------------------------------------
(* createAndPublish: observers in parallel, then anchors in parallel.      *)

\* The consistency the observer checks, with the proof of the ledger's own
\* read service: the journal must hold the new checkpoint's tree.
verifyObserverConsistency(old, new) ==
    LET n == new.core.treeSize IN
    /\ n <= Len(journal) /\ HeadDigest(SubSeq(journal, 1, n)) = new.core.head
    /\ verifyConsistency(old.core.treeSize, n, old.core.root, new.core.root,
           consistencyProof(Leaves(SubSeq(journal, 1, n)), old.core.treeSize))

\* Mutant: a larger tree is taken for an extension.
LargerIsNew(o, checkpoint) ==
    IF observed[o] = <<>> THEN "new"
    ELSE LET old == observed[o][1].checkpoint IN
         IF checkpoint.core.treeSize < old.core.treeSize THEN "rollback"
         ELSE IF checkpoint.digest = old.digest THEN "existing" ELSE "new"

\* publishSerialized's verdict on a checkpoint.
ObserverVerdict(o, checkpoint) ==
    IF observed[o] = <<>> THEN "new"
    ELSE LET old == observed[o][1].checkpoint IN
         IF checkpoint.core.treeSize < old.core.treeSize THEN "rollback"
         ELSE IF checkpoint.core.treeSize = old.core.treeSize
         THEN IF /\ checkpoint.core.root = old.core.root
                 /\ checkpoint.digest = old.digest
              THEN "existing" ELSE "conflict"
         ELSE IF verifyObserverConsistency(old, checkpoint) THEN "new" ELSE "conflict"

Targets == Observers \cup Anchors

Tried(c, t) == Cardinality({i \in DOMAIN local[c].tries : local[c].tries[i] = t})

Got(c, t) == t \in local[c].got

\* Still to be tried: no answer yet, attempts left.
Pending(c, t) == ~Got(c, t) /\ Tried(c, t) < MaxAttempts

\* publishWithRetry: an attempt that throws counts; a backoff that throws
\* uses up the attempts that were left.
Attempt(c, t, ok) ==
    LET left == MaxAttempts - Tried(c, t)
        tried(n) == local[c].tries \o [i \in 1..n |-> t]
    IN \/ ok /\ local' = [local EXCEPT ![c].got = @ \cup {t}]
       \/ ~ok /\ local' = [local EXCEPT ![c].tries = tried(1)]
       \/ /\ ~ok /\ left > 1 /\ "backoff" \in setting.faults
          /\ local' = [local EXCEPT ![c].tries = tried(left)]

\* The reply may be lost after the observer has recorded its observation.
PublishObserver(c, o) ==
    /\ pc[c] = "publish" /\ Pending(c, o)
    /\ LET checkpoint == local[c].checkpoint[1]
           verdict == ObserverVerdict(o, checkpoint)
           receipt == SignObservation(o, checkpoint, clock,
                          IF observed[o] = <<>> THEN NoDigest
                          ELSE observed[o][1].receipt.digest)
       IN /\ IF verdict = "new"
             THEN /\ observed' = [observed EXCEPT ![o] =
                         <<[checkpoint |-> checkpoint, receipt |-> receipt]>>]
                  /\ receipts' = receipts \cup {receipt}
             ELSE UNCHANGED <<observed, receipts>>
          /\ \/ Attempt(c, o, verdict \in {"new", "existing"})
             \/ "reply" \in setting.faults /\ Attempt(c, o, FALSE)
    /\ UNCHANGED <<setting, clock, journal, lost, store, tails, failedHooks, hooked, pc,
                   anchored, mirrorVars, viewVars, audit>>

ObserversDone(c) ==
    /\ pc[c] = "publish"
    /\ \A o \in Observers : ~Pending(c, o)
    /\ Goto(c, "anchor")
    /\ UNCHANGED <<setting, clock, journal, lost, store, tails, failedHooks, hooked,
                   local, publicVars, mirrorVars, viewVars, audit>>

\* An anchor provider (external) issues a receipt for whatever it is given.
PublishAnchor(c, a) ==
    /\ pc[c] = "anchor" /\ Pending(c, a)
    /\ anchored' = anchored \cup
          {[kind |-> a.kind, provider |-> a.provider, at |-> clock,
            checkpoint |-> local[c].checkpoint[1].digest]}
    /\ \/ Attempt(c, a, TRUE)
       \/ "reply" \in setting.faults /\ Attempt(c, a, FALSE)
    /\ UNCHANGED <<setting, clock, journal, lost, store, tails, failedHooks, hooked, pc,
                   observed, receipts, mirrorVars, viewVars, audit>>

\* assertRequirements: the checkpoint stays whatever the outcome.
assertRequirements(c) ==
    /\ Cardinality(local[c].got \cap Observers) >= MinObservers
    /\ \A k \in AnchorKindsRequired : \E a \in local[c].got \cap Anchors : a.kind = k

FinishPublication(c) ==
    /\ pc[c] = "anchor"
    /\ \A a \in setting.anchors : ~Pending(c, a)
    /\ Goto(c, IF assertRequirements(c) THEN "published" ELSE "failed")
    /\ UNCHANGED <<setting, clock, journal, lost, store, tails, failedHooks, hooked,
                   local, publicVars, mirrorVars, viewVars, audit>>

-----------------------------------------------------------------------------
(* AuditMirrorService.ingest: entries arrive in any order, and twice.      *)

Ingest(d, at) == ingest' = [ingest EXCEPT ![d].at = at]

Holding(entry) == \E i \in DOMAIN mirror : mirror[i].entryDigest = entry.entryDigest

\* Trust in the recorder, the observers, the anchors and the exporter.  The
\* strict policy requires AAP-4; under the retired one the recorder's key is
\* valid only until the latest checkpoint.
PolicyOf(kind) ==
    LET key(signer) == [signer |-> signer, from |-> Absent, until |-> Absent,
                        fromCheckpoint |-> NoDigest, untilCheckpoint |-> NoDigest]
        retired == IF kind = "retired" /\ Latest # NoCheckpoint
                   THEN Latest[1].digest ELSE NoDigest
    IN [epochs |-> {[ledger |-> TheLedger, fromCheckpoint |-> NoDigest,
                     untilCheckpoint |-> NoDigest,
                     keys |-> {[key(Recorder) EXCEPT !.untilCheckpoint = retired]}]},
        observers |-> {key(o) : o \in Observers},
        anchors |-> {[kind |-> a.kind, provider |-> a.provider, from |-> Absent,
                      until |-> Absent] : a \in Anchors},
        exporters |-> {[keys |-> {key(Exporter)}, ledgers |-> {TheLedger.id},
                        purposes |-> {"review"}]},
        suites |-> {"entry-suite", "checkpoint-suite", "bundle-suite"},
        algorithms |-> {"EdDSA"},
        mode |-> IF kind = "plain" THEN "as_observed" ELSE "both",
        freshness |-> Absent,
        profile |-> IF kind = "strict" THEN 4 ELSE Absent]

\* The signature is verified, then a duplicate is looked for.
IngestLookup(d) ==
    /\ d \in setting.deliveries /\ ingest[d].at = "sent"
    /\ ingest[d].entry # <<>> \/ Deliveries[d] < Len(journal)
    /\ LET entry == IF ingest[d].entry # <<>> THEN ingest[d].entry[1]
                    ELSE journal[Deliveries[d] + 1]
           report == verifyEntries(<<entry>>, PolicyOf("plain"), {},
                         [now |-> Absent, skew |-> 0, authorization |-> {},
                          anchors |-> {}])
       IN ingest' = [ingest EXCEPT ![d].entry = <<entry>>, ![d].at =
                        IF report.crypto.verdict # "valid" THEN "refused"
                        ELSE IF Holding(entry) THEN "stored" ELSE "looked"]
    /\ UNCHANGED <<setting, clock, journal, lost, callVars, publicVars, mirror, viewVars, audit>>

IngestHead(d) ==
    /\ ingest[d].at = "looked"
    /\ LET entry == ingest[d].entry[1]
           n == entry.core.sequence
       IN ingest' = [ingest EXCEPT ![d].head = HeadDigest(mirror), ![d].at =
                        IF n > Len(mirror) THEN "early"
                        ELSE IF n = Len(mirror)
                                /\ entry.core.previous = HeadDigest(mirror)
                        THEN "append" ELSE "continuity"]
    /\ UNCHANGED <<setting, clock, journal, lost, callVars, publicVars, mirror, viewVars, audit>>

\* Mutant: the head is not compared on append.
IngestAppendBlind(d) ==
    /\ ingest[d].at = "append"
    /\ mirror' = Append(mirror, ingest[d].entry[1])
    /\ Ingest(d, "stored")
    /\ UNCHANGED <<setting, clock, journal, lost, callVars, publicVars, viewVars, audit>>

\* compareAndAppend: a duplicate is answered before the head is compared.  On a
\* conflict the duplicate is looked up again.
IngestAppend(d) ==
    /\ ingest[d].at = "append"
    /\ LET entry == ingest[d].entry[1] IN
       \/ /\ ~Holding(entry) /\ HeadDigest(mirror) = ingest[d].head
          /\ mirror' = Append(mirror, entry)
          /\ Ingest(d, "stored")
       \/ /\ Holding(entry) \/ HeadDigest(mirror) # ingest[d].head
          /\ Ingest(d, IF Holding(entry) THEN "stored" ELSE "continuity")
          /\ UNCHANGED mirror
    /\ UNCHANGED <<setting, clock, journal, lost, callVars, publicVars, viewVars, audit>>

\* MIRROR_OUT_OF_ORDER may be retried.
IngestRetry(d) ==
    /\ ingest[d].at = "early" /\ Deliveries[d] <= Len(mirror)
    /\ Ingest(d, "sent")
    /\ UNCHANGED <<setting, clock, journal, lost, callVars, publicVars, mirror, viewVars, audit>>

-----------------------------------------------------------------------------
(* LocalAuditReadService.listEntries, followed from cursor to cursor.  A   *)
(* cursor is the number of entries before the page.                        *)

ListHead(r) ==
    /\ r \in setting.readers /\ reader[r].at = "idle" /\ journal # <<>>
    /\ reader' = [reader EXCEPT ![r].at = "page", ![r].head = Len(journal)]
    /\ UNCHANGED <<setting, clock, journal, lost, callVars, publicVars, mirrorVars,
                   projectionVars, audit>>

\* Mutant: the cursor is that of the head.
ListPageToHead(r) ==
    /\ reader[r].at = "page"
    /\ LET me == reader[r]
           page == SubSeq(journal, me.cursor + 1, me.cursor + PageLimit)
       IN reader' = [reader EXCEPT ![r] = [me EXCEPT
              !.at = "done", !.cursor = me.head, !.read = @ \o page]]
    /\ UNCHANGED <<setting, clock, journal, lost, callVars, publicVars, mirrorVars,
                   projectionVars, audit>>

\* The page ends at the head that was read before it.
ListPage(r) ==
    /\ reader[r].at = "page"
    /\ LET me == reader[r]
           upTo == CHOOSE n \in {Len(journal), me.head, me.cursor + PageLimit} :
                      \A m \in {Len(journal), me.head, me.cursor + PageLimit} : n <= m
           page == SubSeq(journal, me.cursor + 1, upTo)
           next == IF page = <<>> \/ upTo = me.head THEN "done" ELSE "idle"
       IN reader' = [reader EXCEPT ![r] = [me EXCEPT
              !.at = next, !.cursor = me.cursor + Len(page), !.read = @ \o page]]
    /\ UNCHANGED <<setting, clock, journal, lost, callVars, publicVars, mirrorVars,
                   projectionVars, audit>>

-----------------------------------------------------------------------------
(* AuditProjectionWorker over a MemoryAuditProjectionProvider: the offset  *)
(* is that of the last record.                                             *)

Synchronizing(w, at) == worker' = [worker EXCEPT ![w].at = at]

\* rebuild() resets the projection before it synchronizes.
SyncStart(w) ==
    /\ w \in setting.workers /\ worker[w].at = "idle" /\ journal # <<>>
    /\ records' \in {records, <<>>}
    /\ Synchronizing(w, "offset")
    /\ UNCHANGED <<setting, clock, journal, lost, callVars, publicVars, mirrorVars,
                   reader, reconciled, audit>>

SyncOffset(w) ==
    /\ worker[w].at = "offset"
    /\ worker' = [worker EXCEPT ![w].at = "next", ![w].count = Len(records),
                                ![w].head = HeadDigest(records)]
    /\ UNCHANGED <<setting, clock, journal, lost, callVars, publicVars, mirrorVars,
                   reader, records, reconciled, audit>>

\* The next entry must name the offset's digest as its predecessor.
SyncNext(w) ==
    /\ worker[w].at = "next"
    /\ LET n == worker[w].count IN
       IF n >= Len(journal) THEN Synchronizing(w, "done")
       ELSE IF journal[n + 1].core.previous # worker[w].head
       THEN Synchronizing(w, "conflict")
       ELSE worker' = [worker EXCEPT ![w].at = "apply",
                                     ![w].entry = <<journal[n + 1]>>]
    /\ UNCHANGED <<setting, clock, journal, lost, callVars, publicVars, mirrorVars,
                   reader, records, reconciled, audit>>

\* Mutant: the expected offset is not compared.
applyAnyway(entry, count, head) ==
    IF entry.core.sequence < Len(records) THEN "duplicate" ELSE "applied"

\* compareAndApply: the record, the offset and the sequence in one step.
compareAndApply(entry, count, head) ==
    LET n == entry.core.sequence IN
    IF n < Len(records)
    THEN IF records[n + 1].entryDigest = entry.entryDigest
         THEN "duplicate" ELSE "conflict"
    ELSE IF Len(records) = count /\ HeadDigest(records) = head /\ n = count
    THEN "applied" ELSE "conflict"

SyncApply(w) ==
    /\ worker[w].at = "apply"
    /\ LET me == worker[w]
           entry == me.entry[1]
           result == compareAndApply(entry, me.count, me.head)
       IN /\ worker' = [worker EXCEPT ![w] =
                 IF result = "conflict" THEN [me EXCEPT !.at = "conflict"]
                 ELSE [at |-> "next", count |-> entry.core.sequence + 1,
                       head |-> entry.entryDigest, entry |-> <<>>]]
          /\ records' = IF result = "applied" THEN Append(records, entry) ELSE records
    /\ UNCHANGED <<setting, clock, journal, lost, callVars, publicVars, mirrorVars,
                   reader, reconciled, audit>>

\* reconcile() reads the journal head and the offset at once, in either order.
ReconcileHead ==
    /\ setting.workers # {} /\ reconciled.at \in {"idle", "offset"}
    /\ reconciled' = [reconciled EXCEPT !.head = HeadDigest(journal),
                          !.headAt = Len(journal),
                          !.at = IF @ = "idle" THEN "head" ELSE "judge"]
    /\ UNCHANGED <<setting, clock, journal, lost, callVars, publicVars, mirrorVars,
                   reader, records, worker, audit>>

ReconcileOffset ==
    /\ setting.workers # {} /\ reconciled.at \in {"idle", "head"}
    /\ reconciled' = [reconciled EXCEPT !.offset = HeadDigest(records),
                          !.offsetAt = Len(records),
                          !.at = IF @ = "idle" THEN "offset" ELSE "judge"]
    /\ UNCHANGED <<setting, clock, journal, lost, callVars, publicVars, mirrorVars,
                   reader, records, worker, audit>>

\* A projection that is behind is compared with the journal entry at its offset.
ReconcileJudge ==
    /\ reconciled.at = "judge"
    /\ LET r == reconciled
           held == r.offsetAt <= Len(journal)
                   /\ journal[r.offsetAt].entryDigest = r.offset
       IN reconciled' = [r EXCEPT !.at = "done", !.status =
              IF r.headAt = 0 /\ r.offsetAt = 0 THEN "empty"
              ELSE IF r.offsetAt = 0 THEN "pending"
              ELSE IF r.headAt = r.offsetAt
              THEN IF r.head = r.offset THEN "verified" ELSE "gap_detected"
              ELSE IF r.offsetAt < r.headAt /\ held THEN "pending"
              ELSE "gap_detected"]
    /\ UNCHANGED <<setting, clock, journal, lost, callVars, publicVars, mirrorVars,
                   reader, records, worker, audit>>

-----------------------------------------------------------------------------
(* An exported bundle and its verification.                                *)

\* What reaches the verifier in place of the exported entries: an exporter can
\* sign what it likes but has no recorder key, and a carrier has no key.
Alterations == {"none", "edit", "forge", "drop", "swap", "carrier", "withhold"}

EditLast(entries) ==
    [entries EXCEPT ![Len(entries)].core.event.id = <<99, FALSE>>]

\* The event is replaced and every digest recomputed; the signature is not.
ForgeLast(entries) ==
    LET e == entries[Len(entries)]
        f == SignEntry(e.core.ledger, e.core.sequence, e.core.previous,
                       Event(<<99, FALSE>>, e.core.event.type), e.core.at, Exporter)
        core == [f.core EXCEPT !.recorder = Recorder]
        receipt == buildAuditRecorderReceiptCore(core, digestAuditEntry(core))
    IN [entries EXCEPT ![Len(entries)] =
           [f EXCEPT !.core = core, !.entryDigest = digestAuditEntry(core),
                     !.receipt = [core |-> receipt, jws |-> e.receipt.jws]]]

Altered(entries, how) ==
    CASE how = "edit" -> EditLast(entries)
      [] how = "forge" -> ForgeLast(entries)
      [] how = "drop" -> Tail(entries)
      [] how = "swap" -> [i \in DOMAIN entries |->
                            entries[IF i = 1 THEN Len(entries)
                                    ELSE IF i = Len(entries) THEN 1 ELSE i]]
      [] OTHER -> entries

Component(media, content) == IncludedComponent(<<media>>, media, content)

\* The proofs an export of the read service would add.
Proofs(history, included, first, last) ==
    LET provable == {c \in included : /\ c.core.treeSize <= Len(history)
                                      /\ HeadDigest(SubSeq(history, 1, c.core.treeSize))
                                            = c.core.head}
    IN [inclusion |-> {InclusionItem(history, p[1], p[2]) :
                          p \in {q \in (first..last) \X provable :
                                    q[1] < q[2].core.treeSize}},
        consistency |-> {ConsistencyItem(history, p[1], p[2]) :
                          p \in {q \in provable \X provable :
                                    q[1].core.treeSize < q[2].core.treeSize}}]

BundleOf(history, first, last, included, how, policy) ==
    LET entries == SubSeq(history, first + 1, last + 1)
        proofs == Proofs(history, included, first, last)
        digests == {c.digest : c \in included}
        selection == [ledger |-> TheLedger, first |-> first, last |-> last,
                      head |-> HeadDigest(entries),
                      sizes |-> {c.core.treeSize : c \in included}]
        sent == Component("entries", IF how = "carrier" THEN entries
                                     ELSE Altered(entries, how))
        checkpoints == IF how = "withhold"
                       THEN OmittedComponent(<<"checkpoints">>, "checkpoints",
                                             "unavailable")
                       ELSE Component("checkpoints", SetToSeq(included))
        bundle == ExportBundle({selection},
            {sent, checkpoints,
             Component("inclusionProofs", SetToSeq(proofs.inclusion)),
             Component("consistencyProofs", SetToSeq(proofs.consistency)),
             Component("observations", SetToSeq({r \in receipts :
                                          r.core.checkpoint \in digests})),
             Component("anchors", SetToSeq({a \in anchored :
                                          a.checkpoint \in digests}))},
            "review", policy, clock, Exporter)
    IN IF how # "carrier" THEN bundle
       ELSE [bundle EXCEPT !.components =
                (@ \ {sent}) \cup {[sent EXCEPT !.content = EditLast(entries)]}]

Deps == [now |-> clock, skew |-> 0, authorization |-> {}, anchors |-> {anchored}]

Quiet == \A c \in Calls : pc[c] \in {"idle", "published", "failed"}

\* An export from the journal, or from the history a restore took back.  What
\* was altered is verified under the plain policy, which asks least.
Export ==
    /\ setting.export /\ Quiet /\ audit = <<>>
    /\ \E history \in {journal, lost} \ {<<>>}, how \in Alterations,
          kind \in PolicyKinds, included \in SUBSET store :
       \E first \in 0..Len(history) - 1 : \E last \in first..Len(history) - 1 :
          /\ how \in {"drop", "swap"} => last > first
          /\ how # "none" => kind = "plain"
          /\ audit' = <<[history |-> history, first |-> first, last |-> last,
                         included |-> included, how |-> how, kind |-> kind,
                         report |-> verifyAuditBundle(
                            BundleOf(history, first, last, included, how,
                                     PolicyOf(kind)), PolicyOf(kind), Deps)]>>
    /\ UNCHANGED <<setting, clock, journal, lost, callVars, publicVars, mirrorVars,
                   viewVars>>

-----------------------------------------------------------------------------

CallStep(c) ==
    \/ StartCheckpoint(c) \/ ReadHead(c) \/ ReadEntries(c) \/ SignLatest(c)
    \/ PutCheckpoint(c) \/ TakeHooks(c) \/ HookCompletes(c) \/ HookFails(c)
    \/ \E o \in Observers : PublishObserver(c, o)
    \/ ObserversDone(c)
    \/ \E a \in setting.anchors : PublishAnchor(c, a)
    \/ FinishPublication(c)

DeliveryStep(d) ==
    \/ IngestLookup(d) \/ IngestHead(d) \/ IngestAppend(d) \/ IngestRetry(d)

ReaderStep(r) == ListHead(r) \/ ListPage(r)

WorkerStep(w) == SyncStart(w) \/ SyncOffset(w) \/ SyncNext(w) \/ SyncApply(w)

\* A behaviour is followed up to its audit, which changes nothing else.
Next ==
    /\ audit = <<>>
    /\ \/ Record \/ Restore \/ Export
       \/ \E c \in Calls : CallStep(c)
       \/ \E d \in DOMAIN Deliveries : DeliveryStep(d)
       \/ \E r \in Readers : ReaderStep(r)
       \/ \E w \in Workers : WorkerStep(w)
       \/ ReconcileHead \/ ReconcileOffset \/ ReconcileJudge

Spec == Init /\ [][Next]_vars

-----------------------------------------------------------------------------
(* Properties.                                                             *)

\* The history h holds the tree a checkpoint core signs.
Commits(h, core) ==
    /\ core.treeSize <= Len(h)
    /\ core.root = root(Leaves(SubSeq(h, 1, core.treeSize)))

OneBuilder == Cardinality({BuilderOf[c] : c \in setting.calls}) <= 1

\* What one builder stores is one chain over one history: every checkpoint
\* names the next smaller one as its predecessor and all of them commit to
\* prefixes of the same journal, however concurrent createCheckpoint calls,
\* appends and a restored journal interleave (checkpoint.ts, storeCheckpoint).
CheckpointsChain ==
    OneBuilder =>
        /\ \E h \in {journal, lost} : \A c \in store : Commits(h, c.core)
        /\ \A c \in store :
              LET smaller == {d \in store : d.core.treeSize < c.core.treeSize}
              IN IF smaller = {} THEN c.core.previous = NoDigest
                 ELSE \E d \in smaller :
                        /\ c.core.previous = d.digest
                        /\ \A x \in smaller : x.core.treeSize <= d.core.treeSize

\* No lifecycle hook is forgotten: a stored checkpoint's hook has completed, or
\* a running call is about to run it, or the builder's next call will, although
\* a call takes the due list before it awaits the first hook (checkpoint.ts,
\* createCheckpoint).
HooksNotLost ==
    setting.hooks =>
        \A x \in store :
            \/ x.digest \in hooked
            \/ \E b \in Builders : x \in ToSet(failedHooks[b])
            \/ \E c \in setting.calls :
                  \/ x \in ToSet(local[c].due)
                  \/ pc[c] = "hooks" /\ local[c].inserted
                     /\ x \in ToSet(local[c].checkpoint)

\* The hooks that failed are kept oldest first (the comment on failedHooks).
HooksOldestFirst ==
    \A b \in Builders : \A i, j \in DOMAIN failedHooks[b] :
        i < j => failedHooks[b][i].core.treeSize < failedHooks[b][j].core.treeSize

\* An observer signs for one history only, even when several builders race or
\* the journal is restored: its receipts form one chain, and the trees of all
\* the checkpoints it has observed are prefixes of one history (observer.ts,
\* publishSerialized).
ObserverOneHistory ==
    \A o \in Observers :
        LET mine == {r \in receipts : r.core.observer = o} IN
        /\ \E h \in {journal, lost} :
              \A r \in mine : Commits(h, r.core.checkpoint[2])
        /\ \A r \in mine :
              LET smaller == {q \in mine : q.core.treeSize < r.core.treeSize}
              IN IF smaller = {} THEN r.core.previous = NoDigest
                 ELSE \E q \in smaller :
                        /\ r.core.previous = q.digest
                        /\ \A x \in smaller : x.core.treeSize <= q.core.treeSize

\* The mirror holds a prefix of a history the recorder signed; an entry
\* reported stored is held, and a delivery is told that continuity failed only
\* if the mirror follows another history or already has an entry in its place,
\* be it the same one stored by a concurrent delivery (mirror-service.ts,
\* ingest).
MirrorFaithful ==
    /\ \E h \in {journal, lost} : IsPrefix(mirror, h)
    /\ \A d \in setting.deliveries :
          /\ ingest[d].at = "stored" => Holding(ingest[d].entry[1])
          /\ ingest[d].at = "continuity" =>
                LET core == ingest[d].entry[1].core IN
                \/ Len(mirror) > core.sequence
                \/ /\ Len(mirror) = core.sequence
                   /\ core.previous # HeadDigest(mirror)

\* A reader that follows the cursors of listEntries to the end has read every
\* entry up to the head of its last page once, in order, while entries are
\* being appended (read-service.ts, listEntries).  A cursor is a number: it says
\* nothing of a journal that was restored meanwhile.
PagingComplete ==
    lost = <<>> =>
        \A r \in setting.readers :
            /\ reader[r].read = SubSeq(journal, 1, reader[r].cursor)
            /\ reader[r].at = "done" => reader[r].cursor = reader[r].head

\* The projection holds a prefix of one history, in order and without gaps,
\* however synchronize and rebuild of two workers, appends and a restored
\* journal interleave; and reconcile sees a gap in a journal that was never
\* restored only if the projection ran past the head read first (projection.ts).
ProjectionFaithful ==
    /\ \E h \in {journal, lost} : IsPrefix(records, h)
    /\ (reconciled.status = "gap_detected" /\ lost = <<>>) =>
          reconciled.offsetAt > reconciled.headAt

IsValid(d) == audit[1].report[d].verdict = "valid"

\* An unaltered export of the ledger verifies: its entries, its chain, its
\* selection and any subset of its checkpoints are found valid, and with all
\* checkpoints their observations are too (replay-bundle.ts).
HonestExportVerifies ==
    LET a == audit[1] IN
    (audit # <<>> /\ lost = <<>> /\ OneBuilder /\ a.how = "none"
        /\ a.kind = "plain") =>
        /\ IsValid("crypto") /\ IsValid("chain") /\ IsValid("scope")
        /\ a.included # {} => IsValid("checkpoint")
        /\ (a.included = store /\ receipts # {}) => IsValid("anchor")

\* A bundle found valid holds what the recorder signed: altered, dropped,
\* reordered or forged entries never pass; under a key retired at a checkpoint
\* nothing recorded after it passes; and what an observed checkpoint of a
\* bundle that meets AAP-4 covers is what that checkpoint's history holds.
ValidIsGenuine ==
    audit # <<>> =>
        LET a == audit[1] IN
        /\ (IsValid("crypto") /\ IsValid("chain") /\ IsValid("scope")) =>
              a.how = "none"
        /\ (a.kind = "retired" /\ store # {} /\ IsValid("crypto")) =>
              Latest[1] \in a.included /\ a.last < Latest[1].core.treeSize
        /\ (a.kind = "strict"
                /\ \A d \in ToSet(PROFILE_DIMENSIONS) \cup {"scope"} : IsValid(d)) =>
              /\ \E r \in receipts : r.core.checkpoint \in {c.digest : c \in a.included}
              /\ \A c \in a.included : \E h \in {journal, lost} :
                    /\ Commits(h, c.core)
                    /\ \A n \in a.first..a.last : n < c.core.treeSize =>
                          a.history[n + 1] = h[n + 1]

\* One builder's checkpoints are complete in both respects: they chain over one
\* history, and each gets its lifecycle hook (createCheckpoint).
CheckpointsSound == CheckpointsChain /\ HooksNotLost

\* Every copy of the ledger is a copy of it: the mirror, what a reader pages
\* through and the projection each hold a prefix of one signed history, although
\* they read while entries are appended or the journal is restored.
CopiesFaithful == MirrorFaithful /\ PagingComplete /\ ProjectionFaithful
=============================================================================
