--------------------------- MODULE AuditRecorder ---------------------------
(***************************************************************************)
(* The authoritative audit recorder: several AuditRecorderService replicas *)
(* of one ledger epoch (src/src/audit/recorder-service.ts) that share a    *)
(* compare-and-append journal (providers/journal.ts, memory-journal.ts)    *)
(* and an evidence store (evidence.ts).  Every `await` of the code is a    *)
(* boundary between two actions; what runs between two awaits is one       *)
(* action.                                                                 *)
(*                                                                         *)
(* Hashes are collision free, so a digest IS what it commits to: the       *)
(* digest of an entry is the sequence of signing acts from the genesis     *)
(* entry through it.  A head is such a digest, the null head is <<>>, and  *)
(* a head's sequence number is its length minus one.  A signing act is     *)
(* named by the process that signs: a call for a producer event, a         *)
(* recorder for its genesis event.  (Two signing acts differ because each  *)
(* reads the recorder's clock; the signer key is shared by the replicas.)  *)
(***************************************************************************)
EXTENDS Naturals, Sequences, FiniteSets

CONSTANTS
    Recorders,      \* the recorder replicas (one process each)
    Calls,          \* the submitAuthenticated() calls of a behaviour
    Keys,           \* idempotency keys of producer events
    GenesisKey,     \* idempotency key of the epoch's genesis event
    Contents,       \* event digests
    Objects,        \* opaque evidence object IDs
    Configs,        \* recorder epoch configurations
    ConfigOf,       \* ConfigOf[r]: the configuration replica r was built with
    Submission,     \* Submission[c]: what call c carries, and to which replica
    Prior,          \* (key, content) pairs committed in retained earlier epochs
    Settings,       \* what a behaviour may start from: see SettingType
    MaxConflicts,   \* maxAppendConflicts
    MaxRestores,    \* bound on journal restores
    MaxCrashes      \* bound on recorder crashes

Procs == Calls \cup Recorders

SubmissionType ==
    [recorder: Recorders, key: Keys, content: Contents,
     evidence: SUBSET Objects, authorized: BOOLEAN, pinned: BOOLEAN]

FaultKinds ==
    {"lag", "journal", "evidence", "guard", "restore", "quiet", "crash"}

\* The calls that are made, the faults of the environment, and whether the
\* epoch has a previousEpochId to verify and seal.
SettingType == [calls: SUBSET Calls, faults: SUBSET FaultKinds, linked: BOOLEAN]

ASSUME RecorderAssumption ==
    /\ Calls \cap Recorders = {}
    /\ GenesisKey \notin Keys
    /\ Contents \cap Recorders = {}
    /\ IsFiniteSet(Calls)
    /\ ConfigOf \in [Recorders -> Configs]
    /\ Submission \in [Calls -> SubmissionType]
    /\ Prior \subseteq [key: Keys, content: Contents]
    /\ \A a, b \in Prior : a.key = b.key => a = b
    /\ Settings \subseteq SettingType
    /\ MaxConflicts \in Nat /\ MaxRestores \in Nat /\ MaxCrashes \in Nat

RecorderOf(p) == IF p \in Recorders THEN p ELSE Submission[p].recorder

\* identifyEvent: the idempotency key and the event digest of a process's event.
\* A genesis event carries recorder-authored timing, so its digest is its own.
KeyOf(p) == IF p \in Recorders THEN GenesisKey ELSE Submission[p].key
ContentOf(p) == IF p \in Recorders THEN p ELSE Submission[p].content

VARIABLES
    log,        \* journal: the entries of this ledger epoch, in order
    restores,   \* number of restores the journal went through
    committed,  \* committed[r]: highest head r has itself appended
    reported,   \* reported[r]: highest head a compare-and-append reported to r
    held,       \* held[r][o]: write-ahead evidence holds of r's calls in flight
    crashes,    \* number of recorder crashes
    store,      \* store[o]: the evidence provider's state of object o
    sealed,     \* the predecessor epoch is verified and sealed
    pc,         \* control point of each process
    at,         \* locals of the append attempt of each process
    todo,       \* evidence objects a call has still to persist
    item,       \* the object a call is persisting, and whether it existed
    fresh,      \* objects a call newly stored
    err,        \* the failure a call will report after compensation
    out,        \* what the caller of each call was told
    setting     \* the setting of this behaviour; it never changes

journalVars  == <<log, restores>>
memoryVars   == <<committed, reported, held, crashes>>
evidenceVars == <<todo, item, fresh, err>>
vars == <<journalVars, memoryVars, store, sealed, pc, at, evidenceVars, out, setting>>

Faults == setting.faults
HasPredecessor == setting.linked

-----------------------------------------------------------------------------
(* The journal.                                                            *)

Digest(e) == Append(e.prev, e.by)
SignerOf(d) == d[Len(d)]

HeadAt(n) == IF n = 0 THEN <<>> ELSE Digest(log[n])
JournalHead == HeadAt(Len(log))

\* getHead: a read may come from a replica that lags behind the journal.
ReadableHeads ==
    IF "lag" \in Faults THEN {HeadAt(n) : n \in 0..Len(log)} ELSE {JournalHead}

\* Mutant of Existing: an index of this epoch only.
ExistingInEpoch(k) ==
    {[digest |-> Digest(log[i]), content |-> ContentOf(log[i].by)] :
        i \in {j \in 1..Len(log) : KeyOf(log[j].by) = k}}

\* The logical-ledger idempotency index: what is committed under key k, in this
\* epoch or (with no digest of this epoch) in a retained earlier one.
Existing(k) ==
    {[digest |-> Digest(log[i]), content |-> ContentOf(log[i].by)] :
        i \in {j \in 1..Len(log) : KeyOf(log[j].by) = k}}
    \cup {[digest |-> <<>>, content |-> e.content] : e \in {x \in Prior : x.key = k}}

\* getByIdempotencyKey: a read that finds nothing may be a lagging replica's.
MayMiss(k) == Existing(k) = {} \/ "lag" \in Faults

HigherHead(current, candidate) ==
    IF Len(candidate) > Len(current) THEN candidate ELSE current

-----------------------------------------------------------------------------
(* Process state.                                                          *)

Codes == {"REJECTED", "EVENT_ID_CONFLICT", "EPOCH_MISMATCH", "READ_FAILED",
          "INVALID_CONFIGURATION", "EVIDENCE_FAILURE", "JOURNAL_FAILURE",
          "REGRESSION", "NO_ADVANCE", "EXHAUSTED", "CRASHED"}

NoResult  == [kind |-> "none", digest |-> <<>>, found |-> {}]
NoAttempt == [head |-> <<>>, committed |-> <<>>, reported |-> <<>>,
              tries |-> 0, res |-> NoResult]
NoOutcome == [kind |-> "none", entry |-> <<>>]
NoHold    == [holders |-> 0, shared |-> FALSE]

Outcome(kind, entry) == [kind |-> kind, entry |-> entry]

\* Control points at which a call holds its evidence objects.
HoldingPoints ==
    {"has", "put", "relookup", "head", "append", "result", "confirm", "dispose"}

InFlight(c) == pc[c] \notin {"idle", "done"}

Init ==
    /\ log = <<>> /\ restores = 0
    /\ committed = [r \in Recorders |-> <<>>]
    /\ reported = [r \in Recorders |-> <<>>]
    /\ held = [r \in Recorders |-> [o \in Objects |-> NoHold]]
    /\ crashes = 0
    /\ store = [o \in Objects |-> "absent"]
    /\ sealed = FALSE
    /\ pc = [p \in Procs |-> "idle"]
    /\ at = [p \in Procs |-> NoAttempt]
    /\ todo = [c \in Calls |-> {}]
    /\ item = [c \in Calls |-> [objs |-> {}, existed |-> FALSE]]
    /\ fresh = [c \in Calls |-> {}]
    /\ err = [c \in Calls |-> "none"]
    /\ out = [c \in Calls |-> NoOutcome]
    /\ setting \in Settings

-----------------------------------------------------------------------------
(* Evidence holds: holdEvidence and releaseEvidence.                       *)

\* Mutant of HoldAll: holds are counted, sharing is not noticed.
HoldAllUnshared(h, objs) ==
    [o \in Objects |-> IF o \in objs THEN [h[o] EXCEPT !.holders = @ + 1] ELSE h[o]]

HoldAll(h, objs) ==
    [o \in Objects |->
        IF o \in objs
        THEN [holders |-> h[o].holders + 1, shared |-> h[o].holders > 0]
        ELSE h[o]]

ReleaseAll(h, objs) ==
    [o \in Objects |->
        IF o \notin objs THEN h[o]
        ELSE IF h[o].holders = 1 THEN NoHold
        ELSE [h[o] EXCEPT !.holders = @ - 1]]

-----------------------------------------------------------------------------
(* How a call ends.                                                        *)

\* The call settles before it has registered any hold.
FinishEarly(c, o) ==
    /\ pc' = [pc EXCEPT ![c] = "done"]
    /\ out' = [out EXCEPT ![c] = o]
    /\ UNCHANGED <<held, at, evidenceVars>>

\* The call settles and the `finally` clause releases its holds.
FinishHolding(c, o) ==
    /\ pc' = [pc EXCEPT ![c] = "done"]
    /\ out' = [out EXCEPT ![c] = o]
    /\ held' = [held EXCEPT ![RecorderOf(c)] =
                    ReleaseAll(@, Submission[c].evidence)]
    /\ at' = [at EXCEPT ![c] = NoAttempt]
    /\ todo' = [todo EXCEPT ![c] = {}]
    /\ item' = [item EXCEPT ![c] = [objs |-> {}, existed |-> FALSE]]
    /\ fresh' = [fresh EXCEPT ![c] = {}]
    /\ err' = [err EXCEPT ![c] = "none"]

\* The shared initialization promise settles: every call awaiting it resumes.
FinishGenesis(r, o) ==
    LET waiting == {c \in Calls : pc[c] = "awaitInit" /\ RecorderOf(c) = r}
        ok == o.kind = "recorded"
    IN  /\ pc' = [p \in Procs |->
                    IF p = r THEN "idle"
                    ELSE IF p \in waiting THEN IF ok THEN "hold" ELSE "done"
                    ELSE pc[p]]
        /\ out' = [c \in Calls |->
                    IF c \in waiting /\ ~ok THEN o ELSE out[c]]
        /\ at' = [at EXCEPT ![r] = NoAttempt]
        /\ UNCHANGED <<held, evidenceVars>>

\* appendEvent returns or throws.  A failed append of a call that newly stored
\* evidence goes on to compensate.
EndAppend(p, o) ==
    IF p \in Recorders THEN FinishGenesis(p, o)
    ELSE IF o.kind \in {"recorded", "prior"} \/ fresh[p] = {} THEN FinishHolding(p, o)
    ELSE /\ pc' = [pc EXCEPT ![p] = "confirm"]
         /\ err' = [err EXCEPT ![p] = o.kind]
         /\ at' = [at EXCEPT ![p] = NoAttempt]
         /\ UNCHANGED <<held, todo, item, fresh, out>>

\* Mutant of Resolve: the receipt is for the candidate, not the committed entry.
ResolveToCandidate(p, x) == Outcome("recorded", Append(at[p].head, p))

\* resolveDuplicate for a producer event; validateExistingGenesis for genesis.
Resolve(p, x) ==
    IF p \in Recorders
    THEN IF ConfigOf[SignerOf(x.digest)] = ConfigOf[p]
         THEN Outcome("recorded", x.digest) ELSE Outcome("JOURNAL_FAILURE", <<>>)
    ELSE IF x.content # ContentOf(p) THEN Outcome("EVENT_ID_CONFLICT", <<>>)
    ELSE Outcome(IF x.digest = <<>> THEN "prior" ELSE "recorded", x.digest)

-----------------------------------------------------------------------------
(* submitAuthenticated, up to the append.                                  *)

\* validateSubmissionEnvelope, validateEventAuthority and the authorizer.
Submit(c) ==
    /\ c \in setting.calls /\ pc[c] = "idle"
    /\ IF Submission[c].authorized
       THEN /\ pc' = [pc EXCEPT ![c] = "lookup"]
            /\ UNCHANGED <<held, at, evidenceVars, out>>
       ELSE FinishEarly(c, Outcome("REJECTED", <<>>))
    /\ UNCHANGED <<journalVars, committed, reported, crashes, store, sealed>>

\* Logical-ledger idempotency first, the epoch pin second.
Lookup(c) ==
    /\ pc[c] = "lookup"
    /\ \/ /\ "journal" \in Faults
          /\ FinishEarly(c, Outcome("READ_FAILED", <<>>))
       \/ \E x \in Existing(KeyOf(c)) : FinishEarly(c, Resolve(c, x))
       \/ /\ MayMiss(KeyOf(c))
          /\ IF Submission[c].pinned
             THEN FinishEarly(c, Outcome("EPOCH_MISMATCH", <<>>))
             ELSE /\ pc' = [pc EXCEPT ![c] = "init"]
                  /\ UNCHANGED <<held, at, evidenceVars, out>>
    /\ UNCHANGED <<journalVars, committed, reported, crashes, store, sealed>>

\* `this.initialization ??= appendEvent(genesis)`: start it or join it.
JoinGenesis(c) ==
    /\ pc' = [pc EXCEPT ![c] = "awaitInit",
                        ![RecorderOf(c)] = IF @ = "idle" THEN "relookup" ELSE @]
    /\ UNCHANGED <<held, at, evidenceVars, out>>

\* ensureInitialized: an existing head is validated through its genesis entry.
EnsureInitialized(c) ==
    /\ pc[c] = "init"
    /\ \/ /\ "journal" \in Faults
          /\ FinishEarly(c, Outcome("READ_FAILED", <<>>))
       \/ \E h \in ReadableHeads \ {<<>>} :
            IF ConfigOf[h[1]] = ConfigOf[RecorderOf(c)]
            THEN /\ pc' = [pc EXCEPT ![c] = "hold"]
                 /\ UNCHANGED <<held, at, evidenceVars, out>>
            ELSE FinishEarly(c, Outcome("JOURNAL_FAILURE", <<>>))
       \/ /\ <<>> \in ReadableHeads
          /\ IF HasPredecessor
             THEN /\ pc' = [pc EXCEPT ![c] = "seal"]
                  /\ UNCHANGED <<held, at, evidenceVars, out>>
             ELSE JoinGenesis(c)
    /\ UNCHANGED <<journalVars, committed, reported, crashes, store, sealed>>

\* epochTransitionGuard.verifyAndSeal (external, idempotent).
Seal(c) ==
    /\ pc[c] = "seal"
    /\ \/ /\ sealed' = TRUE
          /\ JoinGenesis(c)
       \/ /\ "guard" \in Faults
          /\ FinishEarly(c, Outcome("INVALID_CONFIGURATION", <<>>))
          /\ UNCHANGED sealed
    /\ UNCHANGED <<journalVars, committed, reported, crashes, store>>

Hold(c) ==
    /\ pc[c] = "hold"
    /\ held' = [held EXCEPT ![RecorderOf(c)] = HoldAll(@, Submission[c].evidence)]
    /\ todo' = [todo EXCEPT ![c] = Submission[c].evidence]
    /\ pc' = [pc EXCEPT ![c] =
                IF Submission[c].evidence = {} THEN "relookup" ELSE "has"]
    /\ UNCHANGED <<journalVars, committed, reported, crashes, store, sealed,
                   at, item, fresh, err, out>>

\* persistSubmittedEvidence, one object: has() ...
HasEvidence(c) ==
    /\ pc[c] = "has"
    /\ \/ \E o \in todo[c] :
            /\ item' = [item EXCEPT ![c] =
                            [objs |-> {o}, existed |-> store[o] = "stored"]]
            /\ pc' = [pc EXCEPT ![c] = "put"]
            /\ UNCHANGED <<held, at, todo, fresh, err, out>>
       \/ /\ "evidence" \in Faults
          /\ FinishHolding(c, Outcome("EVIDENCE_FAILURE", <<>>))
    /\ UNCHANGED <<journalVars, committed, reported, crashes, store, sealed>>

\* ... then putIfAbsent(), which refuses an object that was disposed.
PutEvidence(c) ==
    LET objs == item[c].objs IN
    /\ pc[c] = "put"
    /\ \/ /\ \A o \in objs : store[o] # "disposed"
          /\ store' = [o \in Objects |-> IF o \in objs THEN "stored" ELSE store[o]]
          /\ fresh' = [fresh EXCEPT ![c] = IF item[c].existed THEN @ ELSE @ \cup objs]
          /\ todo' = [todo EXCEPT ![c] = @ \ objs]
          /\ pc' = [pc EXCEPT ![c] = IF todo[c] = objs THEN "relookup" ELSE "has"]
          /\ UNCHANGED <<held, at, item, err, out>>
       \/ /\ "evidence" \in Faults \/ \E o \in objs : store[o] = "disposed"
          /\ FinishHolding(c, Outcome("EVIDENCE_FAILURE", <<>>))
          /\ UNCHANGED store
    /\ UNCHANGED <<journalVars, committed, reported, crashes, sealed>>

-----------------------------------------------------------------------------
(* appendEvent, for producer events and for genesis.                       *)

\* Mutant of Snapshot: the recorder trusts the head it reads over its own commits.
SnapshotForgetful(p, tries, rep) ==
    [head |-> <<>>, committed |-> <<>>, reported |-> rep,
     tries |-> tries, res |-> NoResult]

\* Mutant of Snapshot: the retry budget starts afresh with every attempt.
SnapshotUncounted(p, tries, rep) ==
    [head |-> <<>>, committed |-> committed[RecorderOf(p)], reported |-> rep,
     tries |-> 0, res |-> NoResult]

\* The heads this recorder knows when an attempt starts, captured before the
\* attempt's first await.
Snapshot(p, tries, rep) ==
    [head |-> <<>>, committed |-> committed[RecorderOf(p)], reported |-> rep,
     tries |-> tries, res |-> NoResult]

Relookup(p) ==
    /\ pc[p] = "relookup"
    /\ \/ /\ "journal" \in Faults
          /\ EndAppend(p, Outcome("READ_FAILED", <<>>))
       \/ \E x \in Existing(KeyOf(p)) : EndAppend(p, Resolve(p, x))
       \/ /\ MayMiss(KeyOf(p))
          /\ pc' = [pc EXCEPT ![p] = "head"]
          /\ at' = [at EXCEPT ![p] = Snapshot(p, 0, reported[RecorderOf(p)])]
          /\ UNCHANGED <<held, evidenceVars, out>>
    /\ UNCHANGED <<journalVars, committed, reported, crashes, store, sealed>>

\* getHead raised to the committed head, and buildCandidate's genesis check.
ReadHead(p) ==
    /\ pc[p] = "head"
    /\ \/ /\ "journal" \in Faults
          /\ EndAppend(p, Outcome("READ_FAILED", <<>>))
       \/ \E h \in ReadableHeads :
            LET hd == HigherHead(at[p].committed, h) IN
            \/ /\ (p \in Recorders) = (hd = <<>>)
               /\ pc' = [pc EXCEPT ![p] = "append"]
               /\ at' = [at EXCEPT ![p].head = hd]
               /\ UNCHANGED <<held, evidenceVars, out>>
            \/ /\ p \in Recorders /\ hd # <<>>
               /\ pc' = [pc EXCEPT ![p] = "race"]
               /\ UNCHANGED <<held, at, evidenceVars, out>>
            \/ /\ p \notin Recorders /\ hd = <<>>
               /\ EndAppend(p, Outcome("JOURNAL_FAILURE", <<>>))
    /\ UNCHANGED <<journalVars, committed, reported, crashes, store, sealed>>

\* Genesis found a head: either another replica's genesis is committed, or the
\* candidate would not be the first entry and is refused.
GenesisRace(r) ==
    /\ pc[r] = "race"
    /\ \/ /\ "journal" \in Faults
          /\ EndAppend(r, Outcome("READ_FAILED", <<>>))
       \/ \E x \in Existing(GenesisKey) : EndAppend(r, Resolve(r, x))
       \/ /\ MayMiss(GenesisKey)
          /\ EndAppend(r, Outcome("JOURNAL_FAILURE", <<>>))
    /\ UNCHANGED <<journalVars, committed, reported, crashes, store, sealed>>

Result(kind, digest, found) == [kind |-> kind, digest |-> digest, found |-> found]
Candidate(p) == [by |-> p, prev |-> at[p].head]

\* Mutant of HeadMatches: the journal appends without comparing heads.
HeadUnchecked(p) == TRUE

\* headsEqual(expectedHead, actualHead).
HeadMatches(p) == at[p].head = JournalHead

\* journal.compareAndAppend takes effect at the journal.  A call that throws
\* may or may not have been applied.
CompareAndAppend(p) ==
    /\ pc[p] = "append"
    /\ pc' = [pc EXCEPT ![p] = "result"]
    /\ \/ \E x \in Existing(KeyOf(p)) :
            /\ at' = [at EXCEPT ![p].res = Result("existing", <<>>, {x})]
            /\ UNCHANGED log
       \/ /\ Existing(KeyOf(p)) = {}
          /\ ~HeadMatches(p)
          /\ at' = [at EXCEPT ![p].res = Result("conflict", JournalHead, {})]
          /\ UNCHANGED log
       \/ /\ Existing(KeyOf(p)) = {}
          /\ HeadMatches(p)
          /\ log' = Append(log, Candidate(p))
          /\ \/ at' = [at EXCEPT ![p].res =
                            Result("appended", Digest(Candidate(p)), {})]
             \/ /\ "journal" \in Faults
                /\ at' = [at EXCEPT ![p].res = Result("error", <<>>, {})]
       \/ /\ "journal" \in Faults
          /\ at' = [at EXCEPT ![p].res = Result("error", <<>>, {})]
          /\ UNCHANGED log
    /\ UNCHANGED <<restores, memoryVars, store, sealed, evidenceVars, out>>

\* assertNoRegression, against the heads known when the append was issued.
Forks(known, actual) ==
    known # <<>> /\ Len(known) = Len(actual) /\ known # actual

\* Mutant of Regressed: compares with the heads known now.
RegressedNow(p) ==
    LET actual == at[p].res.digest  r == RecorderOf(p) IN
    \/ Len(actual) < Len(committed[r])
    \/ Forks(committed[r], actual)
    \/ Forks(reported[r], actual)

Regressed(p) ==
    LET actual == at[p].res.digest IN
    \/ Len(actual) < Len(at[p].committed)
    \/ Forks(at[p].committed, actual)
    \/ Forks(at[p].reported, actual)

Raise(heads, r, d) == [heads EXCEPT ![r] = HigherHead(@, d)]

HandleAppended(p) ==
    LET r == RecorderOf(p) IN
    /\ pc[p] = "result" /\ at[p].res.kind = "appended"
    /\ committed' = Raise(committed, r, at[p].res.digest)
    /\ reported' = Raise(reported, r, at[p].res.digest)
    /\ EndAppend(p, Outcome("recorded", at[p].res.digest))
    /\ UNCHANGED <<journalVars, crashes, store, sealed>>

HandleExisting(p) ==
    /\ pc[p] = "result" /\ at[p].res.kind = "existing"
    /\ \E x \in at[p].res.found : EndAppend(p, Resolve(p, x))
    /\ UNCHANGED <<journalVars, committed, reported, crashes, store, sealed>>

HandleError(p) ==
    /\ pc[p] = "result" /\ at[p].res.kind = "error"
    /\ EndAppend(p, Outcome("JOURNAL_FAILURE", <<>>))
    /\ UNCHANGED <<journalVars, committed, reported, crashes, store, sealed>>

\* Mutant of BudgetSpent: `attempt < maxAppendConflicts`.
BudgetSpentEarly(p) == at[p].tries + 1 >= MaxConflicts

\* The attempt loop runs while attempt <= maxAppendConflicts.
BudgetSpent(p) == at[p].tries >= MaxConflicts

HandleConflict(p) ==
    LET r == RecorderOf(p)
        actual == at[p].res.digest
        raised == HigherHead(reported[r], actual)
    IN
    /\ pc[p] = "result" /\ at[p].res.kind = "conflict"
    /\ \/ /\ Regressed(p)
          /\ EndAppend(p, Outcome("REGRESSION", <<>>))
          /\ UNCHANGED reported
       \/ /\ ~Regressed(p)
          /\ reported' = Raise(reported, r, actual)
          /\ \/ /\ actual = at[p].head
                /\ EndAppend(p, Outcome("NO_ADVANCE", <<>>))
             \/ /\ actual # at[p].head
                /\ BudgetSpent(p)
                /\ EndAppend(p, Outcome("EXHAUSTED", <<>>))
             \/ /\ actual # at[p].head
                /\ ~BudgetSpent(p)
                /\ pc' = [pc EXCEPT ![p] = "head"]
                /\ at' = [at EXCEPT ![p] = Snapshot(p, at[p].tries + 1, raised)]
                /\ UNCHANGED <<held, evidenceVars, out>>
    /\ UNCHANGED <<journalVars, committed, crashes, store, sealed>>

-----------------------------------------------------------------------------
(* disposeUncommittedEvidence, after a failed append.                      *)

ConfirmUncommitted(c) ==
    /\ pc[c] = "confirm"
    /\ \/ /\ Existing(KeyOf(c)) # {} \/ "journal" \in Faults
          /\ FinishHolding(c, Outcome(err[c], <<>>))
       \/ /\ MayMiss(KeyOf(c))
          /\ pc' = [pc EXCEPT ![c] = "dispose"]
          /\ UNCHANGED <<held, at, evidenceVars, out>>
    /\ UNCHANGED <<journalVars, committed, reported, crashes, store, sealed>>

\* One object of the loop: skipped when a concurrent call of this recorder
\* held it, disposed otherwise.  A provider failure ends the compensation.
Dispose(c) ==
    /\ pc[c] = "dispose"
    /\ \/ /\ fresh[c] = {}
          /\ FinishHolding(c, Outcome(err[c], <<>>))
          /\ UNCHANGED store
       \/ /\ "evidence" \in Faults
          /\ FinishHolding(c, Outcome(err[c], <<>>))
          /\ UNCHANGED store
       \/ \E o \in fresh[c] :
            /\ store' = IF held[RecorderOf(c)][o].shared THEN store
                        ELSE [store EXCEPT ![o] = "disposed"]
            /\ fresh' = [fresh EXCEPT ![c] = @ \ {o}]
            /\ UNCHANGED <<held, pc, at, todo, item, err, out>>
    /\ UNCHANGED <<journalVars, committed, reported, crashes, sealed>>

-----------------------------------------------------------------------------
(* The environment.                                                        *)

\* An append attempt is in flight: its head is read or being read.
Attempting == \E p \in Procs : pc[p] \in {"head", "race", "append", "result"}

\* A failover to a lagging primary, or a restore: the journal loses a suffix.
\* Under "quiet" it happens only between append attempts.
RestoreJournal ==
    /\ "restore" \in Faults /\ restores < MaxRestores
    /\ "quiet" \in Faults => ~Attempting
    /\ \E n \in 0..(Len(log) - 1) : log' = SubSeq(log, 1, n)
    /\ restores' = restores + 1
    /\ UNCHANGED <<memoryVars, store, sealed, pc, at, evidenceVars, out>>

\* A replica's process dies: its memory and its calls in flight are lost.
CrashRecorder(r) ==
    LET lost == {c \in Calls : InFlight(c) /\ RecorderOf(c) = r} IN
    /\ "crash" \in Faults /\ crashes < MaxCrashes
    /\ lost # {}
    /\ crashes' = crashes + 1
    /\ committed' = [committed EXCEPT ![r] = <<>>]
    /\ reported' = [reported EXCEPT ![r] = <<>>]
    /\ held' = [held EXCEPT ![r] = [o \in Objects |-> NoHold]]
    /\ pc' = [p \in Procs |-> IF p = r THEN "idle"
                              ELSE IF p \in lost THEN "done" ELSE pc[p]]
    /\ at' = [p \in Procs |-> IF p \in lost \cup {r} THEN NoAttempt ELSE at[p]]
    /\ todo' = [c \in Calls |-> IF c \in lost THEN {} ELSE todo[c]]
    /\ item' = [c \in Calls |-> IF c \in lost THEN [objs |-> {}, existed |-> FALSE]
                                ELSE item[c]]
    /\ fresh' = [c \in Calls |-> IF c \in lost THEN {} ELSE fresh[c]]
    /\ err' = [c \in Calls |-> IF c \in lost THEN "none" ELSE err[c]]
    /\ out' = [c \in Calls |-> IF c \in lost THEN Outcome("CRASHED", <<>>) ELSE out[c]]
    /\ UNCHANGED <<journalVars, store, sealed>>

\* Every call is answered and every promise is settled.
Quiescent ==
    /\ \A c \in setting.calls : pc[c] = "done"
    /\ \A r \in Recorders : pc[r] = "idle"
    /\ UNCHANGED vars

-----------------------------------------------------------------------------

CallStep(c) ==
    \/ Lookup(c) \/ EnsureInitialized(c) \/ Seal(c) \/ Hold(c)
    \/ HasEvidence(c) \/ PutEvidence(c)
    \/ ConfirmUncommitted(c) \/ Dispose(c)

AppendStep(p) ==
    \/ Relookup(p) \/ ReadHead(p) \/ CompareAndAppend(p)
    \/ HandleAppended(p) \/ HandleExisting(p) \/ HandleError(p) \/ HandleConflict(p)

Next ==
    /\ UNCHANGED setting
    /\ \/ \E c \in Calls : Submit(c) \/ CallStep(c)
       \/ \E r \in Recorders : GenesisRace(r) \/ CrashRecorder(r)
       \/ \E p \in Procs : AppendStep(p)
       \/ RestoreJournal
       \/ Quiescent

Spec == Init /\ [][Next]_vars

\* The event loop runs every continuation that is ready, and the journal and
\* the providers settle every promise they returned.
Fairness ==
    /\ \A c \in Calls : WF_vars(CallStep(c) /\ UNCHANGED setting)
    /\ \A p \in Procs : WF_vars(AppendStep(p) /\ UNCHANGED setting)
    /\ \A r \in Recorders : WF_vars(GenesisRace(r) /\ UNCHANGED setting)

FairSpec == Spec /\ Fairness

-----------------------------------------------------------------------------
(* Properties.                                                             *)

Acts == Seq(Procs)
FoundType == [digest: Acts, content: Contents \cup Recorders]
Points == HoldingPoints \cup
    {"idle", "lookup", "init", "seal", "awaitInit", "hold", "race", "done"}
OutcomeKinds == Codes \cup {"none", "recorded", "prior"}

EntryType == [by: Procs, prev: Acts]
ResultType == [kind: {"none", "existing", "conflict", "appended", "error"},
               digest: Acts, found: SUBSET FoundType]
AttemptType == [head: Acts, committed: Acts, reported: Acts, tries: Nat,
                res: ResultType]
OutcomeType == [kind: OutcomeKinds, entry: Acts]

JournalType ==
    /\ log \in Seq(EntryType)
    /\ restores \in Nat
    /\ store \in [Objects -> {"absent", "stored", "disposed"}]
    /\ sealed \in BOOLEAN

MemoryType ==
    /\ committed \in [Recorders -> Acts]
    /\ reported \in [Recorders -> Acts]
    /\ crashes \in Nat

HoldsType == held \in [Recorders -> [Objects -> [holders: Nat, shared: BOOLEAN]]]

ProcessType ==
    /\ pc \in [Procs -> Points]
    /\ at \in [Procs -> AttemptType]
    /\ todo \in [Calls -> SUBSET Objects]
    /\ item \in [Calls -> [objs: SUBSET Objects, existed: BOOLEAN]]
    /\ fresh \in [Calls -> SUBSET Objects]
    /\ err \in [Calls -> Codes \cup {"none"}]
    /\ out \in [Calls -> OutcomeType]

\* The type of every variable: what the recorder, the journal and the evidence
\* provider may hold.  A hold count is never negative and a receipt is a digest.
TypeOK == JournalType /\ MemoryType /\ HoldsType /\ ProcessType

\* The epoch is one hash chain: every entry commits to the entry before it, the
\* first one is a genesis event and no other is.  Holds through replica races,
\* stale reads, ambiguous append failures, restores and crashes, because the
\* journal compares the whole head and buildCandidate checks its position.
ChainIntegrity ==
    \A i \in 1..Len(log) :
        /\ log[i].prev = HeadAt(i - 1)
        /\ log[i].by \in Recorders <=> i = 1

\* An authenticated event identity is committed at most once in the logical
\* ledger, retained earlier epochs included, however often it is redelivered
\* and to whichever replica.
ExactlyOnce ==
    /\ \A i, j \in 1..Len(log) : KeyOf(log[i].by) = KeyOf(log[j].by) => i = j
    /\ \A i \in 1..Len(log), e \in Prior : KeyOf(log[i].by) # e.key

\* Until the journal itself is restored, what submitAuthenticated returned is a
\* committed entry of this chain, under the caller's event identity and with
\* the caller's content, at the place the receipt says.
ReceiptDurable ==
    restores = 0 =>
        \A c \in Calls : out[c].kind = "recorded" =>
            \E n \in 1..Len(log) :
                /\ out[c].entry = HeadAt(n)
                /\ KeyOf(log[n].by) = KeyOf(c)
                /\ ContentOf(log[n].by) = ContentOf(c)

\* assertNoRegression never rejects a journal that only moved forward: a
\* concurrent submission's later commit does not make a correct answer stale.
NoFalseRegression ==
    restores = 0 => \A c \in Calls : /\ out[c].kind \notin {"REGRESSION", "NO_ADVANCE"}
                                     /\ err[c] \notin {"REGRESSION", "NO_ADVANCE"}

\* disposeUncommittedEvidence never strips a committed entry of its evidence.  The
\* settings that may fail an append keep the object at one replica: heldEvidence
\* belongs to a process, and a second one would not see the hold.
EvidenceRetained ==
    \A i \in 1..Len(log) : log[i].by \in Calls =>
        \A o \in Submission[log[i].by].evidence : store[o] = "stored"

\* The calls of replica r in flight that hold object o.
Holders(r, o) ==
    {c \in Calls : /\ RecorderOf(c) = r
                   /\ pc[c] \in HoldingPoints
                   /\ o \in Submission[c].evidence}

\* heldEvidence counts exactly the submissions in flight, however they end: no
\* hold leaks (which would keep every later orphan) and none is dropped early.
\* Part of the invariant proved in AuditRecorderProofs.
HoldsBalanced ==
    \A r \in Recorders, o \in Objects : held[r][o].holders = Cardinality(Holders(r, o))

\* A recorder that lives on never hands out receipts of its own for two
\* different entries at one sequence, also when the journal moved backwards between
\* two append attempts ("quiet"; during one it may move to the very head expected).
NoSecondReceipt ==
    \A c, d \in Calls :
        /\ out[c].kind = "recorded" /\ SignerOf(out[c].entry) = c
        /\ out[d].kind = "recorded" /\ SignerOf(out[d].entry) = d
        /\ RecorderOf(c) = RecorderOf(d)
        /\ Len(out[c].entry) = Len(out[d].entry)
        => c = d

\* Without faults a submission is turned down only for a reason of its own: the
\* caller, the epoch it pins, or its identity being taken by other content.
\* Contention alone never fails it while the budget covers the other appends.
RecordedUnlessRefused ==
    Faults = {} /\ MaxConflicts + 1 >= Cardinality({KeyOf(c) : c \in setting.calls}) =>
        \A c \in Calls :
            LET k == out[c].kind IN
            /\ k \in {"none", "recorded", "prior", "REJECTED", "EPOCH_MISMATCH",
                      "EVENT_ID_CONFLICT", "EVIDENCE_FAILURE", "JOURNAL_FAILURE"}
            /\ k = "REJECTED" => ~Submission[c].authorized
            /\ k = "EPOCH_MISMATCH" => Submission[c].pinned
            /\ k = "EVENT_ID_CONFLICT" =>
                  \E x \in Existing(KeyOf(c)) : x.content # ContentOf(c)
            /\ k = "JOURNAL_FAILURE" => ConfigOf[log[1].by] # ConfigOf[RecorderOf(c)]
            /\ k = "EVIDENCE_FAILURE" =>
                  \E o \in Submission[c].evidence : store[o] = "disposed"

\* What a caller was told holds for good: one event identity is committed once, the
\* receipt names that commit, and no process signs two entries for one place
\* (submitAuthenticated, appendEvent, assertNoRegression).
ReceiptsHold == ExactlyOnce /\ ReceiptDurable /\ NoSecondReceipt

\* A submission fails for a cause only: no race, retry or late answer alone turns it
\* into a regression, and without faults every refusal is the caller's own.
NoFalseRefusal == NoFalseRegression /\ RecordedUnlessRefused

\* Every submission the recorder accepted for processing is answered, also when
\* providers fail, genesis is shared, or contention spends the retry budget.
EveryCallAnswered == \A c \in Calls : pc[c] = "lookup" ~> pc[c] = "done"

-----------------------------------------------------------------------------
(* The abstract ledger this recorder implements while its journal is not   *)
(* restored.                                                               *)

Ledger == INSTANCE AuditLedger WITH
    Genesis <- Recorders,
    ledger  <- [i \in 1..Len(log) |-> log[i].by],
    receipt <- [c \in Calls |->
                   IF out[c].kind = "recorded" THEN out[c].entry ELSE <<>>]

\* Replicas, retries, races, stale reads and ambiguous append failures refine
\* to one append-only history with idempotent receipts.
ImplementsLedger == Ledger!Spec
=============================================================================
