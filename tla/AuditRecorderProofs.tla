------------------------ MODULE AuditRecorderProofs ------------------------
(***************************************************************************)
(* Machine-checked proofs about AuditRecorder, for any set of replicas,    *)
(* calls, keys, evidence objects and any fault model: types and holds; the *)
(* epoch is one hash chain; receipts are durable and unique; no race is    *)
(* taken for a regression; the recorder implements AuditLedger.            *)
(***************************************************************************)
EXTENDS AuditRecorder, FiniteSetTheorems, SequenceTheorems, TLAPS

USE RecorderAssumption

-----------------------------------------------------------------------------
(* Facts about the constants and the journal's operators.                  *)

\* A process is a call or a replica, and both have a replica they run in.
LEMMA ProcFacts ==
    /\ \A p \in Procs : RecorderOf(p) \in Recorders
    /\ \A p \in Procs : p \in Calls <=> p \notin Recorders
    /\ \A p \in Procs : ContentOf(p) \in Contents \cup Recorders
    /\ \A c \in Calls : c \in Procs /\ KeyOf(c) \in Keys
    /\ \A r \in Recorders : r \in Procs /\ KeyOf(r) = GenesisKey
BY DEF Procs, RecorderOf, ContentOf, KeyOf, SubmissionType

\* The fields of a journal entry.
LEMMA EntryFacts ==
    ASSUME JournalType
    PROVE  /\ Len(log) \in Nat
           /\ \A n \in 1..Len(log) : log[n].by \in Procs /\ log[n].prev \in Acts
<1>1. log \in Seq(EntryType)
  BY DEF JournalType
<1>2. Len(log) \in Nat /\ \A n \in 1..Len(log) : log[n] \in EntryType
  BY <1>1
<1> QED BY <1>2 DEF EntryType

\* Every head of a well-typed journal is a chain of signing acts.
LEMMA HeadFacts ==
    ASSUME JournalType
    PROVE  /\ \A n \in 0..Len(log) : HeadAt(n) \in Acts
           /\ \A n \in 1..Len(log) : HeadAt(n) # <<>>
           /\ JournalHead \in Acts
           /\ ReadableHeads \subseteq Acts
<1>1. \A n \in 1..Len(log) : log[n].by \in Procs /\ log[n].prev \in Acts
  BY EntryFacts
<1>2. \A n \in 1..Len(log) : Digest(log[n]) \in Acts /\ Digest(log[n]) # <<>>
  BY <1>1 DEF Acts, Digest
<1>3. Len(log) \in Nat
  BY DEF JournalType
<1>4. <<>> \in Acts
  BY DEF Acts
<1> QED BY <1>2, <1>3, <1>4 DEF HeadAt, JournalHead, ReadableHeads

\* What the idempotency index returns is a committed entry or a retained one.
LEMMA ExistingFacts ==
    ASSUME JournalType, NEW k
    PROVE  Existing(k) \subseteq FoundType
<1>1. \A n \in 1..Len(log) : Digest(log[n]) \in Acts /\ log[n].by \in Procs
  BY EntryFacts DEF Acts, Digest
<1>2. <<>> \in Acts
  BY DEF Acts
<1> QED BY <1>1, <1>2, ProcFacts DEF Existing, FoundType

\* Resolving a duplicate gives a well-formed answer, and never "none".
LEMMA ResolveFacts ==
    ASSUME NEW p \in Procs, NEW x \in FoundType
    PROVE  Resolve(p, x) \in OutcomeType /\ Resolve(p, x).kind # "none"
<1>1. x.digest \in Acts /\ <<>> \in Acts
  BY DEF FoundType, Acts
<1> QED BY <1>1 DEF Resolve, Outcome, OutcomeType, OutcomeKinds, Codes

-----------------------------------------------------------------------------
(* The four ways in which a call or a genesis ends keep the types of the   *)
(* process state.                                                          *)

LEMMA FinishEarlyType ==
    ASSUME ProcessType, NEW c \in Calls, NEW o \in OutcomeType, FinishEarly(c, o)
    PROVE  ProcessType'
BY ProcFacts DEF ProcessType, FinishEarly, evidenceVars, Points

LEMMA FinishHoldingType ==
    ASSUME ProcessType, NEW c \in Calls, NEW o \in OutcomeType, FinishHolding(c, o)
    PROVE  ProcessType'
<1>1. NoAttempt \in AttemptType
  BY DEF NoAttempt, AttemptType, NoResult, ResultType, Acts
<1> QED BY <1>1, ProcFacts DEF ProcessType, FinishHolding, Points

LEMMA FinishGenesisType ==
    ASSUME ProcessType, NEW r \in Recorders, NEW o \in OutcomeType, FinishGenesis(r, o)
    PROVE  ProcessType'
<1>1. NoAttempt \in AttemptType
  BY DEF NoAttempt, AttemptType, NoResult, ResultType, Acts
<1>2. pc' \in [Procs -> Points]
  BY DEF FinishGenesis, ProcessType, Points
<1>3. out' \in [Calls -> OutcomeType]
  BY DEF FinishGenesis, ProcessType
<1> QED BY <1>1, <1>2, <1>3, ProcFacts DEF ProcessType, FinishGenesis, evidenceVars

LEMMA EndAppendType ==
    ASSUME ProcessType, NEW p \in Procs, NEW o \in OutcomeType, o.kind # "none",
           EndAppend(p, o)
    PROVE  ProcessType'
<1>1. CASE p \in Recorders
  BY <1>1, FinishGenesisType DEF EndAppend
<1>2. CASE p \in Calls /\ (o.kind \in {"recorded", "prior"} \/ fresh[p] = {})
  BY <1>2, FinishHoldingType, ProcFacts DEF EndAppend
<1>3. CASE p \in Calls /\ ~(o.kind \in {"recorded", "prior"} \/ fresh[p] = {})
  <2>1. o.kind \in Codes
    BY <1>3 DEF OutcomeType, OutcomeKinds
  <2>2. NoAttempt \in AttemptType
    BY DEF NoAttempt, AttemptType, NoResult, ResultType, Acts
  <2>3. /\ pc' = [pc EXCEPT ![p] = "confirm"]
        /\ err' = [err EXCEPT ![p] = o.kind]
        /\ at' = [at EXCEPT ![p] = NoAttempt]
        /\ UNCHANGED <<todo, item, fresh, out>>
    BY <1>3, ProcFacts DEF EndAppend
  <2>4. "confirm" \in Points
    BY DEF Points, HoldingPoints
  <2> QED BY <1>3, <2>1, <2>2, <2>3, <2>4 DEF ProcessType
<1> QED BY <1>1, <1>2, <1>3, ProcFacts

\* A failure outcome is well formed.
LEMMA FailureType ==
    \A k \in Codes \cup {"none", "prior"} :
        /\ Outcome(k, <<>>) \in OutcomeType
        /\ k # "none" => Outcome(k, <<>>).kind # "none"
BY DEF Outcome, OutcomeType, OutcomeKinds, Acts

-----------------------------------------------------------------------------
(* Every step keeps the types of the journal, of the replicas' heads and   *)
(* of the processes.                                                       *)

\* Steps of a call before and after the append.
LEMMA CallType ==
    ASSUME JournalType, MemoryType, ProcessType, NEW c \in Calls,
           Submit(c) \/ CallStep(c)
    PROVE  JournalType' /\ MemoryType' /\ ProcessType'
<1> USE DEF journalVars, memoryVars, evidenceVars
<1>p. c \in Procs /\ RecorderOf(c) \in Recorders
  BY ProcFacts
<1>x. \A x \in Existing(KeyOf(c)) : Resolve(c, x) \in OutcomeType
  BY <1>p, ExistingFacts, ResolveFacts
<1>j. ASSUME NEW q \in Points, pc' = [pc EXCEPT ![c] = q],
             UNCHANGED <<held, at, evidenceVars, out>>
      PROVE  ProcessType'
  BY <1>j, <1>p DEF ProcessType
<1>g. JoinGenesis(c) => ProcessType'
  BY <1>p DEF JoinGenesis, ProcessType, Points, HoldingPoints
<1>1. CASE Submit(c)
  <2>1. ProcessType'
    BY <1>1, <1>j, FinishEarlyType, FailureType DEF Submit, Points, Codes
  <2> QED BY <1>1, <2>1 DEF Submit, JournalType, MemoryType
<1>2. CASE Lookup(c)
  <2>1. ProcessType'
    BY <1>2, <1>j, <1>x, FinishEarlyType, FailureType DEF Lookup, Points, Codes
  <2> QED BY <1>2, <2>1 DEF Lookup, JournalType, MemoryType
<1>3. CASE EnsureInitialized(c)
  <2>1. ProcessType'
    BY <1>3, <1>j, <1>g, FinishEarlyType, FailureType
       DEF EnsureInitialized, Points, Codes
  <2> QED BY <1>3, <2>1 DEF EnsureInitialized, JournalType, MemoryType
<1>4. CASE Seal(c)
  <2>1. ProcessType'
    BY <1>4, <1>g, FinishEarlyType, FailureType DEF Seal, Codes
  <2> QED BY <1>4, <2>1 DEF Seal, JournalType, MemoryType
<1>5. CASE Hold(c)
  <2>1. Submission[c].evidence \in SUBSET Objects
    BY DEF SubmissionType
  <2>2. ProcessType'
    BY <1>5, <1>p, <2>1 DEF Hold, ProcessType, Points, HoldingPoints
  <2> QED BY <1>5, <2>2 DEF Hold, JournalType, MemoryType
<1>6. CASE HasEvidence(c)
  <2>1. ProcessType'
    <3>1. CASE FinishHolding(c, Outcome("EVIDENCE_FAILURE", <<>>))
      BY <3>1, FinishHoldingType, FailureType DEF Codes
    <3>2. ASSUME NEW o \in todo[c],
                 item' = [item EXCEPT ![c] = [objs |-> {o}, existed |-> store[o] = "stored"]],
                 pc' = [pc EXCEPT ![c] = "put"],
                 UNCHANGED <<held, at, todo, fresh, err, out>>
          PROVE  ProcessType'
      BY <1>p, <3>2 DEF ProcessType, Points, HoldingPoints
    <3> QED BY <1>6, <3>1, <3>2 DEF HasEvidence
  <2> QED BY <1>6, <2>1 DEF HasEvidence, JournalType, MemoryType
<1>7. CASE PutEvidence(c)
  <2>1. CASE FinishHolding(c, Outcome("EVIDENCE_FAILURE", <<>>)) /\ UNCHANGED store
    <3>1. ProcessType'
      BY <2>1, FinishHoldingType, FailureType DEF Codes
    <3> QED BY <1>7, <2>1, <3>1 DEF PutEvidence, JournalType, MemoryType
  <2>2. CASE /\ store' = [o \in Objects |-> IF o \in item[c].objs THEN "stored" ELSE store[o]]
             /\ fresh' = [fresh EXCEPT ![c] =
                            IF item[c].existed THEN @ ELSE @ \cup item[c].objs]
             /\ todo' = [todo EXCEPT ![c] = @ \ item[c].objs]
             /\ pc' = [pc EXCEPT ![c] =
                            IF todo[c] = item[c].objs THEN "relookup" ELSE "has"]
             /\ UNCHANGED <<held, at, item, err, out>>
    <3>1. "relookup" \in Points /\ "has" \in Points
      BY DEF Points, HoldingPoints
    <3>2. item[c].objs \in SUBSET Objects
      BY DEF ProcessType
    <3>3. ProcessType'
      BY <1>p, <2>2, <3>1, <3>2 DEF ProcessType
    <3>4. store' \in [Objects -> {"absent", "stored", "disposed"}]
      BY <2>2 DEF JournalType
    <3> QED BY <1>7, <3>3, <3>4 DEF PutEvidence, JournalType, MemoryType
  <2> QED BY <1>7, <2>1, <2>2 DEF PutEvidence
<1>8. CASE ConfirmUncommitted(c)
  <2>1. Outcome(err[c], <<>>) \in OutcomeType
    BY FailureType DEF ProcessType
  <2>2. ProcessType'
    BY <1>8, <1>j, <2>1, FinishHoldingType DEF ConfirmUncommitted, Points, HoldingPoints
  <2> QED BY <1>8, <2>2 DEF ConfirmUncommitted, JournalType, MemoryType
<1>9. CASE Dispose(c)
  <2>1. Outcome(err[c], <<>>) \in OutcomeType
    BY FailureType DEF ProcessType
  <2>2. CASE FinishHolding(c, Outcome(err[c], <<>>)) /\ UNCHANGED store
    <3>1. ProcessType'
      BY <2>1, <2>2, FinishHoldingType
    <3> QED BY <1>9, <2>2, <3>1 DEF Dispose, JournalType, MemoryType
  <2>3. ASSUME NEW o \in fresh[c],
               store' = IF held[RecorderOf(c)][o].shared THEN store
                        ELSE [store EXCEPT ![o] = "disposed"],
               fresh' = [fresh EXCEPT ![c] = @ \ {o}],
               UNCHANGED <<held, pc, at, todo, item, err, out>>
        PROVE  JournalType' /\ ProcessType'
    <3>1. ProcessType'
      BY <2>3 DEF ProcessType
    <3>2. store' \in [Objects -> {"absent", "stored", "disposed"}]
      BY <2>3 DEF JournalType
    <3> QED BY <1>9, <3>1, <3>2 DEF Dispose, JournalType
  <2> QED BY <1>9, <2>2, <2>3 DEF Dispose, MemoryType
<1> QED BY <1>1, <1>2, <1>3, <1>4, <1>5, <1>6, <1>7, <1>8, <1>9 DEF CallStep

\* Steps of an append, of a producer event or of genesis.
LEMMA AppendType ==
    ASSUME JournalType, MemoryType, ProcessType, NEW p \in Procs,
           AppendStep(p) \/ (p \in Recorders /\ GenesisRace(p))
    PROVE  JournalType' /\ MemoryType' /\ ProcessType'
<1> USE DEF journalVars, memoryVars, evidenceVars
<1>r. RecorderOf(p) \in Recorders
  BY ProcFacts
<1>x. \A k : \A x \in Existing(k) :
          Resolve(p, x) \in OutcomeType /\ Resolve(p, x).kind # "none"
  BY ExistingFacts, ResolveFacts
<1>f. \A k \in Codes : Outcome(k, <<>>) \in OutcomeType /\ Outcome(k, <<>>).kind # "none"
  BY FailureType DEF Codes
<1>a. at[p] \in AttemptType /\ at[p].res \in ResultType
  BY DEF ProcessType, AttemptType
<1>n. <<>> \in Acts /\ NoResult \in ResultType
  BY DEF Acts, NoResult, ResultType
<1>h. \A c, d \in Acts : HigherHead(c, d) \in Acts
  BY DEF HigherHead
<1>q. \A q \in HoldingPoints \cup {"race"} : q \in Points
  BY DEF Points
<1>1. CASE Relookup(p)
  <2>1. CASE EndAppend(p, Outcome("READ_FAILED", <<>>))
    <3>1. ProcessType'
      BY <2>1, <1>f, EndAppendType DEF Codes
    <3> QED BY <1>1, <3>1 DEF Relookup, JournalType, MemoryType
  <2>2. CASE \E x \in Existing(KeyOf(p)) : EndAppend(p, Resolve(p, x))
    <3>1. ProcessType'
      BY <2>2, <1>x, EndAppendType
    <3> QED BY <1>1, <3>1 DEF Relookup, JournalType, MemoryType
  <2>3. CASE /\ pc' = [pc EXCEPT ![p] = "head"]
             /\ at' = [at EXCEPT ![p] = Snapshot(p, 0, reported[RecorderOf(p)])]
             /\ UNCHANGED <<held, evidenceVars, out>>
    <3>1. Snapshot(p, 0, reported[RecorderOf(p)]) \in AttemptType
      BY <1>r, <1>n DEF Snapshot, AttemptType, MemoryType
    <3>2. ProcessType'
      BY <2>3, <3>1, <1>q DEF ProcessType, HoldingPoints
    <3> QED BY <1>1, <3>2 DEF Relookup, JournalType, MemoryType
  <2> QED BY <1>1, <2>1, <2>2, <2>3 DEF Relookup
<1>2. CASE ReadHead(p)
  <2>1. CASE \E k \in Codes : EndAppend(p, Outcome(k, <<>>))
    <3>1. ProcessType'
      BY <2>1, <1>f, EndAppendType
    <3> QED BY <1>2, <3>1 DEF ReadHead, JournalType, MemoryType
  <2>2. ASSUME NEW h \in ReadableHeads,
               pc' = [pc EXCEPT ![p] = "append"],
               at' = [at EXCEPT ![p].head = HigherHead(at[p].committed, h)],
               UNCHANGED <<held, evidenceVars, out>>
        PROVE  ProcessType'
    <3>1. HigherHead(at[p].committed, h) \in Acts
      BY <1>a, <1>h, HeadFacts DEF AttemptType
    <3>2. [at[p] EXCEPT !.head = HigherHead(at[p].committed, h)] \in AttemptType
      BY <1>a, <3>1 DEF AttemptType
    <3>3. at' = [at EXCEPT ![p] = [at[p] EXCEPT !.head = HigherHead(at[p].committed, h)]]
      BY <2>2
    <3>4. at' \in [Procs -> AttemptType]
      BY <3>2, <3>3 DEF ProcessType
    <3> QED BY <2>2, <3>4, <1>q DEF ProcessType, HoldingPoints
  <2>3. CASE /\ pc' = [pc EXCEPT ![p] = "race"]
             /\ UNCHANGED <<held, at, evidenceVars, out>>
    BY <1>2, <2>3, <1>q DEF ReadHead, ProcessType, JournalType, MemoryType
  <2>4. "READ_FAILED" \in Codes /\ "JOURNAL_FAILURE" \in Codes
    BY DEF Codes
  <2>5. UNCHANGED <<journalVars, committed, reported, crashes, store, sealed>>
    BY <1>2 DEF ReadHead
  <2> QED BY <1>2, <2>1, <2>2, <2>3, <2>4, <2>5 DEF ReadHead, JournalType, MemoryType
<1>3. CASE CompareAndAppend(p)
  <2>1. pc' \in [Procs -> Points]
    BY <1>3, <1>q DEF CompareAndAppend, ProcessType, HoldingPoints
  <2>2. Candidate(p) \in EntryType /\ Digest(Candidate(p)) \in Acts
    BY <1>a DEF Candidate, EntryType, AttemptType, Digest, Acts
  <2>3. log' \in Seq(EntryType)
    <3>1. log' = log \/ log' = Append(log, Candidate(p))
      BY <1>3 DEF CompareAndAppend
    <3> QED BY <2>2, <3>1 DEF JournalType
  <2>4. PICK res : at' = [at EXCEPT ![p].res = res] /\ res \in ResultType
    <3>1. ASSUME NEW x \in Existing(KeyOf(p)) PROVE Result("existing", <<>>, {x}) \in ResultType
      BY <1>n, ExistingFacts DEF Result, ResultType
    <3>2. /\ Result("conflict", JournalHead, {}) \in ResultType
          /\ Result("appended", Digest(Candidate(p)), {}) \in ResultType
          /\ Result("error", <<>>, {}) \in ResultType
      BY <1>n, <2>2, HeadFacts DEF Result, ResultType
    <3> QED BY <1>3, <3>1, <3>2 DEF CompareAndAppend
  <2>5. at' \in [Procs -> AttemptType]
    <3>1. [at[p] EXCEPT !.res = res] \in AttemptType
      BY <1>a, <2>4 DEF AttemptType
    <3>2. at' = [at EXCEPT ![p] = [at[p] EXCEPT !.res = res]]
      BY <2>4
    <3> QED BY <3>1, <3>2 DEF ProcessType
  <2> QED BY <1>3, <2>1, <2>3, <2>5 DEF CompareAndAppend, JournalType, MemoryType, ProcessType
<1>4. CASE HandleAppended(p)
  <2>1. at[p].res.digest \in Acts
    BY <1>a DEF ResultType
  <2>2. /\ Outcome("recorded", at[p].res.digest) \in OutcomeType
        /\ Outcome("recorded", at[p].res.digest).kind # "none"
    BY <2>1 DEF Outcome, OutcomeType, OutcomeKinds
  <2>3. ProcessType'
    BY <1>4, <2>2, EndAppendType DEF HandleAppended
  <2>4. MemoryType'
    BY <1>4, <1>r, <1>h, <2>1 DEF HandleAppended, Raise, MemoryType
  <2> QED BY <1>4, <2>3, <2>4 DEF HandleAppended, JournalType
<1>5. CASE HandleExisting(p)
  <2>1. \A x \in at[p].res.found : x \in FoundType
    BY <1>a DEF ResultType
  <2>2. ProcessType'
    BY <1>5, <2>1, ResolveFacts, EndAppendType DEF HandleExisting
  <2> QED BY <1>5, <2>2 DEF HandleExisting, JournalType, MemoryType
<1>6. CASE HandleError(p)
  <2>1. ProcessType'
    BY <1>6, <1>f, EndAppendType DEF HandleError, Codes
  <2> QED BY <1>6, <2>1 DEF HandleError, JournalType, MemoryType
<1>7. CASE HandleConflict(p)
  <2>1. at[p].res.digest \in Acts
    BY <1>a DEF ResultType
  <2>2. MemoryType'
    BY <1>7, <1>r, <1>h, <2>1 DEF HandleConflict, Raise, MemoryType
  <2>3. {"REGRESSION", "NO_ADVANCE", "EXHAUSTED"} \subseteq Codes
    BY DEF Codes
  <2>4. ProcessType'
    <3>1. CASE \E k \in Codes : EndAppend(p, Outcome(k, <<>>))
      BY <3>1, <1>f, EndAppendType
    <3>2. CASE /\ pc' = [pc EXCEPT ![p] = "head"]
               /\ at' = [at EXCEPT ![p] = Snapshot(p, at[p].tries + 1,
                              HigherHead(reported[RecorderOf(p)], at[p].res.digest))]
               /\ UNCHANGED <<held, evidenceVars, out>>
      <4>1. Snapshot(p, at[p].tries + 1,
                HigherHead(reported[RecorderOf(p)], at[p].res.digest)) \in AttemptType
        BY <1>a, <1>r, <1>n, <1>h, <2>1 DEF Snapshot, AttemptType, MemoryType
      <4> QED BY <3>2, <4>1, <1>q DEF ProcessType, HoldingPoints
    <3> QED BY <1>7, <2>3, <3>1, <3>2 DEF HandleConflict
  <2> QED BY <1>7, <2>2, <2>4 DEF HandleConflict, JournalType
<1>8. CASE p \in Recorders /\ GenesisRace(p)
  <2>1. ProcessType'
    BY <1>8, <1>x, <1>f, EndAppendType DEF GenesisRace, Codes
  <2> QED BY <1>8, <2>1 DEF GenesisRace, JournalType, MemoryType
<1> QED BY <1>1, <1>2, <1>3, <1>4, <1>5, <1>6, <1>7, <1>8 DEF AppendStep

\* Steps of the environment.
LEMMA EnvironmentType ==
    ASSUME JournalType, MemoryType, ProcessType,
           RestoreJournal \/ (\E r \in Recorders : CrashRecorder(r))
    PROVE  JournalType' /\ MemoryType' /\ ProcessType'
<1> USE DEF journalVars, memoryVars, evidenceVars
<1>1. CASE RestoreJournal
  <2>1. log' \in Seq(EntryType)
    BY <1>1 DEF RestoreJournal, JournalType
  <2> QED BY <1>1, <2>1 DEF RestoreJournal, JournalType, MemoryType, ProcessType
<1>2. ASSUME NEW r \in Recorders, CrashRecorder(r)
      PROVE  JournalType' /\ MemoryType' /\ ProcessType'
  <2>1. NoAttempt \in AttemptType /\ <<>> \in Acts
    BY DEF NoAttempt, AttemptType, NoResult, ResultType, Acts
  <2>2. Outcome("CRASHED", <<>>) \in OutcomeType
    BY FailureType DEF Codes
  <2>3. MemoryType'
    BY <1>2, <2>1 DEF CrashRecorder, MemoryType
  <2>4. pc' \in [Procs -> Points] /\ at' \in [Procs -> AttemptType]
    BY <1>2, <2>1 DEF CrashRecorder, ProcessType, Points
  <2>5. /\ todo' \in [Calls -> SUBSET Objects]
        /\ item' \in [Calls -> [objs: SUBSET Objects, existed: BOOLEAN]]
        /\ fresh' \in [Calls -> SUBSET Objects]
        /\ err' \in [Calls -> Codes \cup {"none"}]
        /\ out' \in [Calls -> OutcomeType]
    BY <1>2, <2>2 DEF CrashRecorder, ProcessType
  <2> QED BY <1>2, <2>3, <2>4, <2>5 DEF CrashRecorder, JournalType, ProcessType
<1> QED BY <1>1, <1>2

-----------------------------------------------------------------------------
(* The hold counts.  A count is a natural number only because it is the    *)
(* number of holders: releaseEvidence decrements it without looking.       *)

LEMMA HoldersFinite ==
    \A r, o : IsFiniteSet(Holders(r, o)) /\ Cardinality(Holders(r, o)) \in Nat
<1>1. ASSUME NEW r, NEW o PROVE IsFiniteSet(Holders(r, o)) /\ Cardinality(Holders(r, o)) \in Nat
  <2>1. Holders(r, o) \subseteq Calls
    BY DEF Holders
  <2> QED BY <2>1, FS_Subset, FS_CardinalityType
<1> QED BY <1>1

LEMMA HoldsUnchanged ==
    ASSUME HoldsType, HoldsBalanced, UNCHANGED held,
           \A c \in Calls : pc'[c] \in HoldingPoints <=> pc[c] \in HoldingPoints
    PROVE  HoldsType' /\ HoldsBalanced'
<1>1. \A r, o : Holders(r, o)' = Holders(r, o)
  BY DEF Holders
<1> QED BY <1>1 DEF HoldsType, HoldsBalanced

LEMMA HoldsRelease ==
    ASSUME HoldsType, HoldsBalanced, ProcessType, NEW c \in Calls, NEW o,
           pc[c] \in HoldingPoints, FinishHolding(c, o)
    PROVE  HoldsType' /\ HoldsBalanced'
<1> DEFINE r0 == RecorderOf(c)
           E == Submission[c].evidence
<1>1. r0 \in Recorders /\ c \in Procs /\ E \subseteq Objects
  BY ProcFacts DEF SubmissionType
<1>2. held' = [held EXCEPT ![r0] = ReleaseAll(held[r0], E)]
  BY DEF FinishHolding
<1>3. pc' = [pc EXCEPT ![c] = "done"] /\ "done" \notin HoldingPoints
  BY DEF FinishHolding, HoldingPoints
<1>4. ASSUME NEW r \in Recorders, NEW x \in Objects
      PROVE  /\ held'[r][x] \in [holders: Nat, shared: BOOLEAN]
             /\ held'[r][x].holders = Cardinality(Holders(r, x)')
  <2>1. held[r][x] \in [holders: Nat, shared: BOOLEAN]
        /\ held[r][x].holders = Cardinality(Holders(r, x))
    BY DEF HoldsType, HoldsBalanced
  <2>2. CASE r = r0 /\ x \in E
    <3>1. c \in Holders(r, x)
      BY <2>2 DEF Holders
    <3>2. Holders(r, x)' = Holders(r, x) \ {c}
      BY <1>1, <1>3, <2>2 DEF Holders, ProcessType
    <3>3. Cardinality(Holders(r, x)') = Cardinality(Holders(r, x)) - 1
      BY <3>1, <3>2, HoldersFinite, FS_RemoveElement
    <3>4. Cardinality(Holders(r, x)) >= 1
      BY <3>1, HoldersFinite, FS_EmptySet
    <3>5. held'[r][x] = IF held[r][x].holders = 1 THEN NoHold
                        ELSE [held[r][x] EXCEPT !.holders = @ - 1]
      BY <1>2, <2>2 DEF ReleaseAll, HoldsType
    <3>6. Cardinality(Holders(r, x)) \in Nat
      BY HoldersFinite
    <3>7. CASE held[r][x].holders = 1
      BY <2>1, <3>3, <3>5, <3>7 DEF NoHold
    <3>8. CASE held[r][x].holders # 1
      <4>1. held[r][x].holders - 1 \in Nat
        BY <2>1, <3>4, <3>6
      <4> QED BY <2>1, <3>3, <3>5, <3>8, <4>1
    <3> QED BY <3>7, <3>8
  <2>3. CASE ~(r = r0 /\ x \in E)
    <3>1. Holders(r, x)' = Holders(r, x)
      BY <1>1, <1>3, <2>3 DEF Holders, ProcessType
    <3>2. held'[r][x] = held[r][x]
      BY <1>2, <2>3 DEF ReleaseAll, HoldsType
    <3> QED BY <2>1, <3>1, <3>2
  <2> QED BY <2>2, <2>3
<1>5. HoldsType'
  BY <1>2, <1>4 DEF HoldsType, ReleaseAll
<1> QED BY <1>4, <1>5 DEF HoldsBalanced

LEMMA HoldsAcquire ==
    ASSUME HoldsType, HoldsBalanced, ProcessType, NEW c \in Calls, Hold(c)
    PROVE  HoldsType' /\ HoldsBalanced'
<1> DEFINE r0 == RecorderOf(c)
           E == Submission[c].evidence
<1>1. r0 \in Recorders /\ c \in Procs /\ E \subseteq Objects
  BY ProcFacts DEF SubmissionType
<1>2. held' = [held EXCEPT ![r0] = HoldAll(held[r0], E)]
  BY DEF Hold
<1>3. pc[c] \notin HoldingPoints /\ \E q \in HoldingPoints : pc' = [pc EXCEPT ![c] = q]
  BY DEF Hold, HoldingPoints
<1>4. ASSUME NEW r \in Recorders, NEW x \in Objects
      PROVE  /\ held'[r][x] \in [holders: Nat, shared: BOOLEAN]
             /\ held'[r][x].holders = Cardinality(Holders(r, x)')
  <2>1. held[r][x] \in [holders: Nat, shared: BOOLEAN]
        /\ held[r][x].holders = Cardinality(Holders(r, x))
    BY DEF HoldsType, HoldsBalanced
  <2>2. CASE r = r0 /\ x \in E
    <3>1. c \notin Holders(r, x)
      BY <1>3 DEF Holders
    <3>2. Holders(r, x)' = Holders(r, x) \cup {c}
      BY <1>1, <1>3, <2>2 DEF Holders, ProcessType
    <3>3. Cardinality(Holders(r, x)') = Cardinality(Holders(r, x)) + 1
      BY <3>1, <3>2, HoldersFinite, FS_AddElement
    <3>4. held'[r][x] = [holders |-> held[r][x].holders + 1,
                         shared |-> held[r][x].holders > 0]
      BY <1>2, <2>2 DEF HoldAll, HoldsType
    <3> QED BY <2>1, <3>3, <3>4
  <2>3. CASE ~(r = r0 /\ x \in E)
    <3>1. Holders(r, x)' = Holders(r, x)
      BY <1>1, <1>3, <2>3 DEF Holders, ProcessType
    <3>2. held'[r][x] = held[r][x]
      BY <1>2, <2>3 DEF HoldAll, HoldsType
    <3> QED BY <2>1, <3>1, <3>2
  <2> QED BY <2>2, <2>3
<1>5. HoldsType'
  BY <1>2, <1>4 DEF HoldsType, HoldAll
<1> QED BY <1>4, <1>5 DEF HoldsBalanced

LEMMA HoldsEndAppend ==
    ASSUME HoldsType, HoldsBalanced, ProcessType, NEW p \in Procs, NEW o,
           pc[p] \in HoldingPoints \cup {"race"}, pc[p] = "race" => p \in Recorders,
           EndAppend(p, o)
    PROVE  HoldsType' /\ HoldsBalanced'
<1>1. CASE p \in Recorders
  <2>1. FinishGenesis(p, o)
    BY <1>1 DEF EndAppend
  <2>2. \A c \in Calls : pc'[c] \in HoldingPoints <=> pc[c] \in HoldingPoints
    BY <1>1, <2>1, ProcFacts DEF FinishGenesis, HoldingPoints
  <2> QED BY <2>1, <2>2, HoldsUnchanged DEF FinishGenesis
<1>2. CASE p \in Calls /\ (o.kind \in {"recorded", "prior"} \/ fresh[p] = {})
  BY <1>2, HoldsRelease, ProcFacts DEF EndAppend
<1>3. CASE p \in Calls /\ ~(o.kind \in {"recorded", "prior"} \/ fresh[p] = {})
  <2>1. pc' = [pc EXCEPT ![p] = "confirm"] /\ UNCHANGED held
    BY <1>3, ProcFacts DEF EndAppend
  <2>2. \A c \in Calls : pc'[c] \in HoldingPoints <=> pc[c] \in HoldingPoints
    BY <1>3, <2>1, ProcFacts DEF ProcessType, HoldingPoints
  <2> QED BY <2>1, <2>2, HoldsUnchanged
<1> QED BY <1>1, <1>2, <1>3, ProcFacts

LEMMA HoldsCallStep ==
    ASSUME HoldsType, HoldsBalanced, ProcessType, NEW c \in Calls,
           Submit(c) \/ CallStep(c)
    PROVE  HoldsType' /\ HoldsBalanced'
<1> USE DEF evidenceVars
<1>p. c \in Procs /\ RecorderOf(c) \in Recorders /\ RecorderOf(c) \notin Calls
  BY ProcFacts
<1>e. ASSUME NEW o, pc[c] \notin HoldingPoints, FinishEarly(c, o)
      PROVE  HoldsType' /\ HoldsBalanced'
  <2>1. \A d \in Calls : pc'[d] \in HoldingPoints <=> pc[d] \in HoldingPoints
    BY <1>p, <1>e DEF FinishEarly, ProcessType, HoldingPoints
  <2> QED BY <1>e, <2>1, HoldsUnchanged DEF FinishEarly
<1>j. ASSUME NEW q, q \in HoldingPoints <=> pc[c] \in HoldingPoints,
             pc' = [pc EXCEPT ![c] = q], UNCHANGED held
      PROVE  HoldsType' /\ HoldsBalanced'
  <2>1. \A d \in Calls : pc'[d] \in HoldingPoints <=> pc[d] \in HoldingPoints
    BY <1>p, <1>j DEF ProcessType
  <2> QED BY <1>j, <2>1, HoldsUnchanged
<1>g. ASSUME pc[c] \notin HoldingPoints, JoinGenesis(c)
      PROVE  HoldsType' /\ HoldsBalanced'
  <2>1. \A d \in Calls : pc'[d] \in HoldingPoints <=> pc[d] \in HoldingPoints
    BY <1>p, <1>g, ProcFacts DEF JoinGenesis, ProcessType, HoldingPoints
  <2> QED BY <1>g, <2>1, HoldsUnchanged DEF JoinGenesis
<1>1. CASE Submit(c)
  BY <1>1, <1>e, <1>j DEF Submit, HoldingPoints
<1>2. CASE Lookup(c)
  BY <1>2, <1>e, <1>j DEF Lookup, HoldingPoints
<1>3. CASE EnsureInitialized(c)
  BY <1>3, <1>e, <1>j, <1>g DEF EnsureInitialized, HoldingPoints
<1>4. CASE Seal(c)
  BY <1>4, <1>e, <1>g DEF Seal, HoldingPoints
<1>5. CASE Hold(c)
  BY <1>5, HoldsAcquire
<1>6. CASE HasEvidence(c)
  BY <1>6, <1>j, HoldsRelease DEF HasEvidence, HoldingPoints
<1>7. CASE PutEvidence(c)
  <2>1. CASE FinishHolding(c, Outcome("EVIDENCE_FAILURE", <<>>))
    BY <1>7, <2>1, HoldsRelease DEF PutEvidence, HoldingPoints
  <2>2. CASE /\ pc' = [pc EXCEPT ![c] =
                            IF todo[c] = item[c].objs THEN "relookup" ELSE "has"]
             /\ UNCHANGED held
    <3>1. pc[c] \in HoldingPoints /\ {"relookup", "has"} \subseteq HoldingPoints
      BY <1>7 DEF PutEvidence, HoldingPoints
    <3> QED BY <2>2, <3>1, <1>j
  <2> QED BY <1>7, <2>1, <2>2 DEF PutEvidence
<1>8. CASE ConfirmUncommitted(c)
  BY <1>8, <1>j, HoldsRelease DEF ConfirmUncommitted, HoldingPoints
<1>9. CASE Dispose(c)
  <2>1. CASE FinishHolding(c, Outcome(err[c], <<>>))
    BY <1>9, <2>1, HoldsRelease DEF Dispose, HoldingPoints
  <2>2. CASE UNCHANGED <<held, pc>>
    BY <2>2, HoldsUnchanged
  <2> QED BY <1>9, <2>1, <2>2 DEF Dispose
<1> QED BY <1>1, <1>2, <1>3, <1>4, <1>5, <1>6, <1>7, <1>8, <1>9 DEF CallStep

LEMMA HoldsAppendStep ==
    ASSUME HoldsType, HoldsBalanced, ProcessType, NEW p \in Procs,
           AppendStep(p) \/ (p \in Recorders /\ GenesisRace(p))
    PROVE  HoldsType' /\ HoldsBalanced'
<1> USE DEF memoryVars, evidenceVars
<1>j. ASSUME NEW q \in HoldingPoints \cup {"race"}, q = "race" => p \in Recorders,
             pc[p] \in HoldingPoints,
             pc' = [pc EXCEPT ![p] = q], UNCHANGED held
      PROVE  HoldsType' /\ HoldsBalanced'
  <2>1. \A d \in Calls : pc'[d] \in HoldingPoints <=> pc[d] \in HoldingPoints
    BY <1>j, ProcFacts DEF ProcessType
  <2> QED BY <1>j, <2>1, HoldsUnchanged
<1>n. "race" \notin HoldingPoints /\ {"relookup", "head", "append", "result"} \subseteq HoldingPoints
  BY DEF HoldingPoints
<1>e. ASSUME NEW o, pc[p] \in HoldingPoints, EndAppend(p, o)
      PROVE  HoldsType' /\ HoldsBalanced'
  BY <1>e, <1>n, HoldsEndAppend
<1>1. CASE Relookup(p)
  BY <1>1, <1>n, <1>e, <1>j DEF Relookup
<1>2. CASE ReadHead(p)
  BY <1>2, <1>n, <1>e, <1>j DEF ReadHead
<1>3. CASE CompareAndAppend(p)
  BY <1>3, <1>n, <1>j DEF CompareAndAppend
<1>4. CASE HandleAppended(p)
  BY <1>4, <1>n, <1>e DEF HandleAppended
<1>5. CASE HandleExisting(p)
  BY <1>5, <1>n, <1>e DEF HandleExisting
<1>6. CASE HandleError(p)
  BY <1>6, <1>n, <1>e DEF HandleError
<1>7. CASE HandleConflict(p)
  BY <1>7, <1>n, <1>e, <1>j DEF HandleConflict
<1>8. CASE p \in Recorders /\ GenesisRace(p)
  BY <1>8, HoldsEndAppend DEF GenesisRace
<1> QED BY <1>1, <1>2, <1>3, <1>4, <1>5, <1>6, <1>7, <1>8 DEF AppendStep

\* A crash drops the counts of a replica together with its calls.
LEMMA HoldsCrash ==
    ASSUME HoldsType, HoldsBalanced, ProcessType, NEW r \in Recorders, CrashRecorder(r)
    PROVE  HoldsType' /\ HoldsBalanced'
<1>1. \A x : Holders(r, x)' = {}
  BY ProcFacts DEF Holders, CrashRecorder, InFlight, ProcessType, HoldingPoints
<1>2. \A s \in Recorders \ {r} : \A x : Holders(s, x)' = Holders(s, x)
  BY ProcFacts DEF Holders, CrashRecorder, ProcessType
<1>3. /\ \A x \in Objects : held'[r][x] = NoHold
      /\ \A s \in Recorders \ {r} : held'[s] = held[s]
      /\ HoldsType'
  BY DEF CrashRecorder, HoldsType, NoHold
<1>4. Cardinality({}) = 0
  BY FS_EmptySet
<1>5. ASSUME NEW s \in Recorders, NEW x \in Objects
      PROVE  held'[s][x].holders = Cardinality(Holders(s, x)')
  <2>1. CASE s = r
    <3>1. Cardinality(Holders(r, x)') = 0
      BY <1>1, <1>4
    <3>2. held'[r][x].holders = 0
      BY <1>3 DEF NoHold
    <3> QED BY <2>1, <3>1, <3>2
  <2>2. CASE s # r
    BY <1>2, <1>3, <2>2 DEF HoldsBalanced
  <2> QED BY <2>1, <2>2
<1> QED BY <1>3, <1>5 DEF HoldsBalanced

-----------------------------------------------------------------------------
(* Type correctness and balanced holds.                                    *)

LEMMA InitType == Init => TypeOK /\ HoldsBalanced
<1> SUFFICES ASSUME Init PROVE TypeOK /\ HoldsBalanced
  OBVIOUS
<1>1. JournalType /\ MemoryType
  <2>1. <<>> \in Seq(EntryType) /\ <<>> \in Acts
    BY DEF Acts
  <2> QED BY <2>1 DEF Init, JournalType, MemoryType
<1>2. NoAttempt \in AttemptType /\ NoOutcome \in OutcomeType
  BY DEF NoAttempt, AttemptType, NoResult, ResultType, Acts, NoOutcome, OutcomeType, OutcomeKinds
<1>3. ProcessType
  BY <1>2 DEF Init, ProcessType, Points
<1>4. HoldsType
  BY DEF Init, HoldsType, NoHold
<1>5. \A r, x : Holders(r, x) = {}
  BY ProcFacts DEF Init, Holders, HoldingPoints
<1>6. HoldsBalanced
  BY <1>5, FS_EmptySet DEF Init, HoldsBalanced, NoHold
<1> QED BY <1>1, <1>3, <1>4, <1>6 DEF TypeOK

LEMMA NextType ==
    ASSUME TypeOK, HoldsBalanced, [Next]_vars
    PROVE  TypeOK' /\ HoldsBalanced'
<1> USE DEF TypeOK
<1>1. ASSUME NEW c \in Calls, Submit(c) \/ CallStep(c) PROVE TypeOK' /\ HoldsBalanced'
  BY <1>1, CallType, HoldsCallStep
<1>2. ASSUME NEW p \in Procs, AppendStep(p) \/ (p \in Recorders /\ GenesisRace(p))
      PROVE  TypeOK' /\ HoldsBalanced'
  BY <1>2, AppendType, HoldsAppendStep
<1>3. ASSUME NEW r \in Recorders, CrashRecorder(r) PROVE TypeOK' /\ HoldsBalanced'
  BY <1>3, EnvironmentType, HoldsCrash
<1>4. CASE RestoreJournal
  <2>1. UNCHANGED <<held, pc>>
    BY <1>4 DEF RestoreJournal, memoryVars
  <2> QED BY <1>4, <2>1, EnvironmentType, HoldsUnchanged
<1>5. CASE UNCHANGED vars
  <2>1. UNCHANGED <<log, restores, committed, reported, held, crashes, store, sealed,
                    pc, at, todo, item, fresh, err, out>>
    BY <1>5 DEF vars, journalVars, memoryVars, evidenceVars
  <2>2. HoldsType' /\ HoldsBalanced'
    BY <2>1, HoldsUnchanged
  <2> QED BY <2>1, <2>2 DEF JournalType, MemoryType, ProcessType
<1>6. \A r \in Recorders : r \in Procs
  BY ProcFacts
<1> QED BY <1>1, <1>2, <1>3, <1>4, <1>5, <1>6 DEF Next, Quiescent

\* Every behaviour of the recorder is well typed (in particular, no hold count
\* drops below zero), and heldEvidence counts exactly the calls in flight.
THEOREM TypeCorrect == Spec => [](TypeOK /\ HoldsBalanced)
<1>1. Init => TypeOK /\ HoldsBalanced
  BY InitType
<1>2. TypeOK /\ HoldsBalanced /\ [Next]_vars => (TypeOK /\ HoldsBalanced)'
  BY NextType
<1> QED BY <1>1, <1>2, PTL DEF Spec

-----------------------------------------------------------------------------
(* The chain.  compareAndAppend alone does not make the first entry a      *)
(* genesis event: that rests on the position buildCandidate checked when   *)
(* the candidate was signed, which the inductive invariant remembers.      *)

\* A candidate waiting to be appended is a genesis event iff it comes first.
CandidatePosition ==
    \A p \in Procs : pc[p] = "append" => (p \in Recorders <=> at[p].head = <<>>)

ChainInv == ChainIntegrity /\ ExactlyOnce /\ CandidatePosition

\* No way of ending an append creates or alters a waiting candidate.
LEMMA EndAppendPosition ==
    ASSUME ProcessType, NEW p \in Procs, NEW o, EndAppend(p, o)
    PROVE  \A q \in Procs : pc'[q] = "append" => pc[q] = "append" /\ at'[q] = at[q]
<1>1. CASE p \in Recorders
  BY <1>1 DEF EndAppend, FinishGenesis, ProcessType
<1>2. CASE p \in Calls /\ (o.kind \in {"recorded", "prior"} \/ fresh[p] = {})
  BY <1>2, ProcFacts DEF EndAppend, FinishHolding, ProcessType
<1>3. CASE p \in Calls /\ ~(o.kind \in {"recorded", "prior"} \/ fresh[p] = {})
  <2>1. pc' = [pc EXCEPT ![p] = "confirm"] /\ at' = [at EXCEPT ![p] = NoAttempt]
    BY <1>3, ProcFacts DEF EndAppend
  <2> QED BY <2>1 DEF ProcessType
<1> QED BY <1>1, <1>2, <1>3, ProcFacts

\* Only compareAndAppend extends the journal, and only a restore shortens it.
LEMMA PositionStep ==
    ASSUME TypeOK, CandidatePosition, [Next]_vars
    PROVE  CandidatePosition'
<1> USE DEF TypeOK, journalVars, memoryVars, evidenceVars
<1>s. ASSUME \A q \in Procs : pc'[q] = "append" => pc[q] = "append" /\ at'[q] = at[q]
      PROVE  CandidatePosition'
  BY <1>s DEF CandidatePosition
<1>1. ASSUME NEW c \in Calls, Submit(c) \/ CallStep(c) PROVE CandidatePosition'
  <2>p. c \in Procs /\ RecorderOf(c) \in Procs
    BY ProcFacts
  <2>e. ASSUME NEW o, FinishEarly(c, o) \/ FinishHolding(c, o) \/ JoinGenesis(c)
        PROVE  CandidatePosition'
    BY <1>s, <2>p, <2>e DEF FinishEarly, FinishHolding, JoinGenesis, ProcessType
  <2>j. ASSUME NEW x, x # "append", pc' = [pc EXCEPT ![c] = x], UNCHANGED at
        PROVE  CandidatePosition'
    BY <1>s, <2>p, <2>j DEF ProcessType
  <2>1. CASE Submit(c)
    BY <2>1, <2>e, <2>j DEF Submit
  <2>2. CASE Lookup(c)
    BY <2>2, <2>e, <2>j DEF Lookup
  <2>3. CASE EnsureInitialized(c)
    BY <2>3, <2>e, <2>j DEF EnsureInitialized
  <2>4. CASE Seal(c)
    BY <2>4, <2>e DEF Seal
  <2>5. CASE Hold(c)
    BY <2>5, <2>j DEF Hold
  <2>6. CASE HasEvidence(c)
    BY <2>6, <2>e, <2>j DEF HasEvidence
  <2>7. CASE PutEvidence(c)
    BY <2>7, <2>e, <2>j DEF PutEvidence
  <2>8. CASE ConfirmUncommitted(c)
    BY <2>8, <2>e, <2>j DEF ConfirmUncommitted
  <2>9. CASE Dispose(c)
    <3>1. CASE FinishHolding(c, Outcome(err[c], <<>>))
      BY <3>1, <2>e
    <3>2. CASE UNCHANGED <<pc, at>>
      BY <3>2, <1>s
    <3> QED BY <2>9, <3>1, <3>2 DEF Dispose
  <2> QED BY <1>1, <2>1, <2>2, <2>3, <2>4, <2>5, <2>6, <2>7, <2>8, <2>9 DEF CallStep
<1>2. ASSUME NEW p \in Procs, AppendStep(p) \/ GenesisRace(p) PROVE CandidatePosition'
  <2>e. ASSUME NEW o, EndAppend(p, o) PROVE CandidatePosition'
    BY <1>s, <2>e, EndAppendPosition
  <2>j. ASSUME NEW x, x # "append", pc' = [pc EXCEPT ![p] = x],
               \A q \in Procs : q # p => at'[q] = at[q]
        PROVE  CandidatePosition'
    BY <1>s, <2>j DEF ProcessType
  <2>1. CASE Relookup(p)
    BY <2>1, <2>e, <2>j DEF Relookup, ProcessType
  <2>2. CASE ReadHead(p)
    <3>1. CASE \E o : EndAppend(p, o)
      BY <3>1, <2>e
    <3>2. CASE pc' = [pc EXCEPT ![p] = "race"] /\ UNCHANGED at
      BY <3>2, <2>j
    <3>3. ASSUME NEW hd, (p \in Recorders) = (hd = <<>>),
                 pc' = [pc EXCEPT ![p] = "append"], at' = [at EXCEPT ![p].head = hd]
          PROVE  CandidatePosition'
      <4>1. \A q \in Procs : q # p => pc'[q] = pc[q] /\ at'[q] = at[q]
        BY <3>3 DEF ProcessType
      <4>2. at'[p].head = hd
        BY <3>3 DEF ProcessType, AttemptType
      <4> QED BY <3>3, <4>1, <4>2 DEF CandidatePosition
    <3> QED BY <2>2, <3>1, <3>2, <3>3 DEF ReadHead
  <2>3. CASE CompareAndAppend(p)
    BY <2>3, <2>j DEF CompareAndAppend, ProcessType
  <2>4. CASE HandleAppended(p)
    BY <2>4, <2>e DEF HandleAppended
  <2>5. CASE HandleExisting(p)
    BY <2>5, <2>e DEF HandleExisting
  <2>6. CASE HandleError(p)
    BY <2>6, <2>e DEF HandleError
  <2>7. CASE HandleConflict(p)
    BY <2>7, <2>e, <2>j DEF HandleConflict, ProcessType
  <2>8. CASE GenesisRace(p)
    BY <2>8, <2>e DEF GenesisRace
  <2> QED BY <1>2, <2>1, <2>2, <2>3, <2>4, <2>5, <2>6, <2>7, <2>8 DEF AppendStep
<1>3. ASSUME NEW r \in Recorders, CrashRecorder(r) PROVE CandidatePosition'
  BY <1>3, <1>s, ProcFacts DEF CrashRecorder, InFlight, ProcessType
<1>4. CASE RestoreJournal
  BY <1>4, <1>s DEF RestoreJournal
<1>5. CASE UNCHANGED vars
  BY <1>5, <1>s DEF vars
<1>6. \A r \in Recorders : r \in Procs
  BY ProcFacts
<1> QED BY <1>1, <1>2, <1>3, <1>4, <1>5, <1>6 DEF Next, Quiescent

LEMMA LogStep ==
    ASSUME [Next]_vars
    PROVE  \/ UNCHANGED <<log, restores>>
           \/ RestoreJournal
           \/ \E p \in Procs :
                /\ pc[p] = "append" /\ Existing(KeyOf(p)) = {} /\ HeadMatches(p)
                /\ log' = Append(log, Candidate(p)) /\ UNCHANGED restores
<1> USE DEF journalVars, memoryVars, evidenceVars
<1>1. ASSUME NEW c \in Calls, Submit(c) \/ CallStep(c) PROVE UNCHANGED <<log, restores>>
  BY <1>1 DEF CallStep, Submit, Lookup, EnsureInitialized, Seal, Hold, HasEvidence,
              PutEvidence, ConfirmUncommitted, Dispose
<1>2. ASSUME NEW p \in Procs, AppendStep(p), ~CompareAndAppend(p)
      PROVE  UNCHANGED <<log, restores>>
  BY <1>2 DEF AppendStep, Relookup, ReadHead, HandleAppended, HandleExisting,
              HandleError, HandleConflict
<1>3. ASSUME NEW r \in Recorders, GenesisRace(r) \/ CrashRecorder(r)
      PROVE  UNCHANGED <<log, restores>>
  BY <1>3 DEF GenesisRace, CrashRecorder
<1>4. ASSUME NEW p \in Procs, CompareAndAppend(p), log' # log
      PROVE  /\ pc[p] = "append" /\ Existing(KeyOf(p)) = {} /\ HeadMatches(p)
             /\ log' = Append(log, Candidate(p)) /\ UNCHANGED restores
  BY <1>4 DEF CompareAndAppend
<1>5. ASSUME NEW p \in Procs, CompareAndAppend(p) PROVE UNCHANGED restores
  BY <1>5 DEF CompareAndAppend
<1>6. CASE UNCHANGED vars
  BY <1>6 DEF vars
<1> QED BY <1>1, <1>2, <1>3, <1>4, <1>5, <1>6 DEF Next, Quiescent

\* What an append leaves in place, and what it adds.
LEMMA AppendFacts ==
    ASSUME JournalType, NEW e \in EntryType, log' = Append(log, e)
    PROVE  /\ Len(log') = Len(log) + 1
           /\ log'[Len(log) + 1] = e
           /\ \A i \in 1..Len(log) : log'[i] = log[i]
           /\ \A i \in 0..Len(log) : HeadAt(i)' = HeadAt(i)
<1>1. /\ Len(log') = Len(log) + 1 /\ log'[Len(log) + 1] = e
      /\ \A i \in 1..Len(log) : log'[i] = log[i]
  BY DEF JournalType
<1>2. ASSUME NEW i \in 0..Len(log) PROVE HeadAt(i)' = HeadAt(i)
  <2>1. CASE i = 0
    BY <2>1 DEF HeadAt
  <2>2. CASE i # 0
    BY <1>1, <2>2 DEF HeadAt, Digest
  <2> QED BY <2>1, <2>2
<1> QED BY <1>1, <1>2

\* A restore keeps a prefix.
LEMMA RestoreFacts ==
    ASSUME JournalType, RestoreJournal
    PROVE  /\ Len(log') \in 0..Len(log)
           /\ \A i \in 1..Len(log') : log'[i] = log[i]
           /\ \A i \in 0..Len(log') : HeadAt(i)' = HeadAt(i)
<1>1. Len(log') \in 0..Len(log) /\ \A i \in 1..Len(log') : log'[i] = log[i]
  <2>1. PICK n \in 0..(Len(log) - 1) : log' = SubSeq(log, 1, n)
    BY DEF RestoreJournal
  <2>2. log \in Seq(EntryType) /\ n \in Int
    BY <2>1, EntryFacts DEF JournalType
  <2> QED BY <2>1, <2>2
<1>2. ASSUME NEW i \in 0..Len(log') PROVE HeadAt(i)' = HeadAt(i)
  <2>1. CASE i = 0
    BY <2>1 DEF HeadAt
  <2>2. CASE i # 0
    BY <1>1, <2>2 DEF HeadAt, Digest
  <2> QED BY <2>1, <2>2
<1> QED BY <1>1, <1>2

\* The index finds every committed entry of this epoch and every retained one.
LEMMA ExistingEmpty ==
    ASSUME NEW k, Existing(k) = {}
    PROVE  /\ \A i \in 1..Len(log) : KeyOf(log[i].by) # k
           /\ \A e \in Prior : e.key # k
<1>1. ASSUME NEW i \in 1..Len(log), KeyOf(log[i].by) = k PROVE FALSE
  <2>1. [digest |-> Digest(log[i]), content |-> ContentOf(log[i].by)] \in Existing(k)
    BY <1>1 DEF Existing
  <2> QED BY <2>1
<1>2. ASSUME NEW e \in Prior, e.key = k PROVE FALSE
  <2>1. [digest |-> <<>>, content |-> e.content] \in Existing(k)
    BY <1>2 DEF Existing
  <2> QED BY <2>1
<1> QED BY <1>1, <1>2

LEMMA ChainStep ==
    ASSUME TypeOK, ChainInv, [Next]_vars
    PROVE  ChainInv'
<1>1. CandidatePosition'
  BY PositionStep DEF ChainInv
<1>2. ChainIntegrity' /\ ExactlyOnce'
  <2>1. CASE UNCHANGED log
    <3>1. \A i : HeadAt(i)' = HeadAt(i)
      BY <2>1 DEF HeadAt
    <3> QED BY <2>1, <3>1 DEF ChainInv, ChainIntegrity, ExactlyOnce
  <2>2. CASE RestoreJournal
    <3>1. /\ Len(log') \in 0..Len(log)
          /\ \A i \in 1..Len(log') : log'[i] = log[i] /\ HeadAt(i - 1)' = HeadAt(i - 1)
      BY <2>2, RestoreFacts, EntryFacts DEF TypeOK
    <3>2. ChainIntegrity'
      BY <3>1, EntryFacts DEF ChainInv, ChainIntegrity, TypeOK
    <3>3. Len(log) \in Nat /\ Len(log') \in Nat /\ 1..Len(log') \subseteq 1..Len(log)
      BY <3>1, EntryFacts DEF TypeOK
    <3>4. \A i \in 1..Len(log') : KeyOf(log'[i].by) = KeyOf(log[i].by)
      BY <3>1
    <3>5. ExactlyOnce'
      BY <3>3, <3>4 DEF ChainInv, ExactlyOnce
    <3> QED BY <3>2, <3>5
  <2>3. ASSUME NEW p \in Procs, pc[p] = "append", Existing(KeyOf(p)) = {},
               HeadMatches(p), log' = Append(log, Candidate(p))
        PROVE  ChainIntegrity' /\ ExactlyOnce'
    <3>1. Candidate(p) \in EntryType
      BY DEF Candidate, EntryType, TypeOK, ProcessType, AttemptType
    <3>2. /\ Len(log') = Len(log) + 1 /\ Len(log) \in Nat
          /\ log'[Len(log) + 1] = Candidate(p)
          /\ \A i \in 1..Len(log) : log'[i] = log[i]
          /\ \A i \in 0..Len(log) : HeadAt(i)' = HeadAt(i)
      BY <2>3, <3>1, AppendFacts, EntryFacts DEF TypeOK
    <3>3. Candidate(p).by = p /\ Candidate(p).prev = HeadAt(Len(log))
      BY <2>3 DEF Candidate, HeadMatches, JournalHead
    <3>4. p \in Recorders <=> Len(log) = 0
      <4>1. p \in Recorders <=> HeadAt(Len(log)) = <<>>
        BY <2>3 DEF ChainInv, CandidatePosition, HeadMatches, JournalHead
      <4>2. HeadAt(0) = <<>> /\ (Len(log) # 0 => HeadAt(Len(log)) # <<>>)
        BY <3>2, HeadFacts DEF HeadAt, TypeOK
      <4> QED BY <4>1, <4>2
    <3>5. ChainIntegrity'
      <4> SUFFICES ASSUME NEW i \in 1..(Len(log) + 1)
                   PROVE  /\ log'[i].prev = HeadAt(i - 1)'
                          /\ log'[i].by \in Recorders <=> i = 1
        BY <3>2 DEF ChainIntegrity
      <4>1. CASE i \in 1..Len(log)
        BY <3>2, <4>1 DEF ChainInv, ChainIntegrity
      <4>2. CASE i = Len(log) + 1
        BY <3>2, <3>3, <3>4, <4>2
      <4> QED BY <3>2, <4>1, <4>2
    <3>6. ExactlyOnce'
      <4>1. /\ \A i \in 1..Len(log) : KeyOf(log[i].by) # KeyOf(p)
            /\ \A e \in Prior : e.key # KeyOf(p)
        BY <2>3, ExistingEmpty
      <4>2. \A i \in 1..Len(log') : i \in 1..Len(log) \/ i = Len(log) + 1
        BY <3>2
      <4> QED BY <3>2, <3>3, <4>1, <4>2 DEF ChainInv, ExactlyOnce
    <3> QED BY <3>5, <3>6
  <2> QED BY <2>1, <2>2, <2>3, LogStep
<1> QED BY <1>1, <1>2 DEF ChainInv

\* However many replicas race, crash, read stale heads, get no answer from the
\* journal or see it restored, the epoch is one hash chain that starts with its
\* only genesis entry, and no event identity is committed twice.
THEOREM ChainCorrect == Spec => [](ChainIntegrity /\ ExactlyOnce)
<1>1. Init => ChainInv
  BY ProcFacts DEF Init, ChainInv, ChainIntegrity, ExactlyOnce, CandidatePosition
<1>2. TypeOK /\ TypeOK' /\ ChainInv /\ [Next]_vars => ChainInv'
  BY ChainStep
<1>3. ChainInv => ChainIntegrity /\ ExactlyOnce
  BY DEF ChainInv
<1> QED BY <1>1, <1>2, <1>3, TypeCorrect, PTL DEF Spec

-----------------------------------------------------------------------------
(* What a step may do, seen from the receipts.                             *)

AttemptPoints == {"head", "race", "append", "result"}
Past == {"confirm", "dispose", "done"}

\* Every process keeps its attempt, or is in none afterwards.
Resting ==
    \A q \in Procs : \/ pc'[q] = pc[q] /\ at'[q] = at[q]
                     \/ pc'[q] \notin AttemptPoints /\ at'[q] \in {at[q], NoAttempt}

\* The call has presented its candidate to the journal, for the only time.
Spent(c) == \/ pc[c] \in Past
            \/ pc[c] = "result" /\ at[c].res.kind \in {"appended", "error"}

SpentKept == \A c \in Calls : /\ Spent(c) => Spent(c)'
                              /\ pc[c] = "done" => pc'[c] = "done"

\* Why call c may be told that digest d is its committed entry.
Justified(c, d) ==
    \/ /\ pc[c] = "result" /\ at[c].res.kind = "appended" /\ d = at[c].res.digest
       /\ committed' = Raise(committed, RecorderOf(c), d)
    \/ \E x \in FoundType : /\ d = x.digest /\ d # <<>> /\ x.content = ContentOf(c)
                            /\ \/ pc[c] \in {"lookup", "relookup"} /\ x \in Existing(KeyOf(c))
                               \/ pc[c] = "result" /\ at[c].res.kind = "existing" /\ x \in at[c].res.found

\* At most one caller gets a receipt, and for a reason; a settled call stays so.
Telling ==
    \/ \A c \in Calls : \/ out'[c] = out[c]
                        \/ pc[c] # "done" /\ out'[c].kind # "recorded"
    \/ \E c \in Calls, d \in Acts : /\ pc[c] # "done" /\ pc'[c] = "done" /\ Justified(c, d)
                                    /\ out' = [out EXCEPT ![c] = Outcome("recorded", d)]

Regressions == {"REGRESSION", "NO_ADVANCE"}

\* A call fails with a regression only if a conflicting head looks like one.
LooksRegressed(p) ==
    /\ pc[p] = "result" /\ at[p].res.kind = "conflict"
    /\ Regressed(p) \/ at[p].res.digest = at[p].head

Accusing ==
    \/ \E p \in Procs : LooksRegressed(p)
    \/ \A c \in Calls : /\ out'[c].kind \in Regressions =>
                             out[c].kind \in Regressions \/ err[c] \in Regressions
                        /\ err'[c] \in Regressions => err[c] \in Regressions

\* A settled call says so: until then it has no outcome.
LEMMA ResolveTells ==
    ASSUME TypeOK, NEW c \in Calls, NEW x \in FoundType, Resolve(c, x).kind = "recorded"
    PROVE  /\ Resolve(c, x) = Outcome("recorded", x.digest) /\ x.digest # <<>>
           /\ x.digest \in Acts /\ x.content = ContentOf(c)
<1>1. x.digest \in Acts
  BY DEF FoundType
<1> QED BY <1>1, ProcFacts DEF Resolve, Outcome

LEMMA ResolveSilent ==
    ASSUME NEW p \in Procs, NEW x
    PROVE  Resolve(p, x).kind \notin Regressions
BY DEF Resolve, Outcome, Regressions

\* Steps of a call outside its append.
LEMMA CallFacts ==
    ASSUME TypeOK, NEW c \in Calls, Submit(c) \/ CallStep(c)
    PROVE  /\ Resting /\ SpentKept /\ Telling /\ Accusing
           /\ UNCHANGED <<log, restores, committed, reported>>
<1> USE DEF TypeOK, journalVars, memoryVars, evidenceVars
<1>p. c \in Procs /\ RecorderOf(c) \in Procs /\ RecorderOf(c) \in Recorders /\ c \notin Recorders
  BY ProcFacts
<1>q. \A d \in Calls : d \in Procs /\ d \notin Recorders
  BY ProcFacts
<1>x. \A x \in Existing(KeyOf(c)) : x \in FoundType
  BY ExistingFacts
<1>0. UNCHANGED <<log, restores, committed, reported>>
  BY DEF Submit, CallStep, Lookup, EnsureInitialized, Seal, Hold, HasEvidence, PutEvidence,
         ConfirmUncommitted, Dispose
<1>1. pc[c] \notin {"result", "done"}
  BY DEF Submit, CallStep, Lookup, EnsureInitialized, Seal, Hold, HasEvidence, PutEvidence,
         ConfirmUncommitted, Dispose
<1>e. ASSUME NEW o, FinishEarly(c, o) \/ FinishHolding(c, o)
      PROVE  /\ Resting /\ SpentKept /\ pc'[c] = "done" /\ out' = [out EXCEPT ![c] = o]
             /\ \A d \in Calls : err'[d] \in {err[d], "none"}
  BY <1>e, <1>p, <1>q, <1>1
     DEF FinishEarly, FinishHolding, ProcessType, Resting, SpentKept, Spent, AttemptPoints, Past
<1>g. ASSUME JoinGenesis(c), pc[c] \in {"init", "seal"}
      PROVE  Resting /\ SpentKept /\ UNCHANGED <<out, err>>
  BY <1>g, <1>p, <1>q DEF JoinGenesis, ProcessType, Resting, SpentKept, Spent, AttemptPoints, Past
<1>j. ASSUME NEW w, w \notin AttemptPoints, pc[c] \in Past => w \in Past,
             pc' = [pc EXCEPT ![c] = w], UNCHANGED <<at, out, err>>
      PROVE  Resting /\ SpentKept /\ Telling /\ Accusing
  BY <1>j, <1>p, <1>q, <1>1
     DEF ProcessType, Resting, SpentKept, Spent, Telling, Accusing, Past
<1>f. ASSUME NEW o \in {Outcome(k, <<>>) : k \in (Codes \ Regressions) \cup {err[c]}},
             FinishEarly(c, o) \/ FinishHolding(c, o)
      PROVE  Resting /\ SpentKept /\ Telling /\ Accusing
  <2>1. o.kind # "recorded" /\ (o.kind \in Regressions => err[c] \in Regressions)
    BY <1>f DEF Outcome, Codes, ProcessType
  <2>2. \A d \in Calls : out'[d] = IF d = c THEN o ELSE out[d]
    BY <1>e, <1>f DEF ProcessType
  <2>3. Telling
    BY <2>1, <2>2, <1>1 DEF Telling
  <2>4. Accusing
    BY <2>1, <2>2, <1>e, <1>f DEF Accusing, Regressions
  <2> QED BY <1>e, <1>f, <2>3, <2>4
<1>k. \A k \in {"REJECTED", "READ_FAILED", "EPOCH_MISMATCH", "JOURNAL_FAILURE", "INVALID_CONFIGURATION",
               "EVIDENCE_FAILURE"} : Outcome(k, <<>>) \in {Outcome(l, <<>>) : l \in (Codes \ Regressions) \cup {err[c]}}
  BY DEF Codes, Regressions
<1>l. Outcome(err[c], <<>>) \in {Outcome(l, <<>>) : l \in (Codes \ Regressions) \cup {err[c]}}
  OBVIOUS
<1> DEFINE Fine == Resting /\ SpentKept /\ Telling /\ Accusing
<1>2. CASE Submit(c)
  BY <1>2, <1>j, <1>f, <1>k DEF Submit, AttemptPoints, Past
<1>3. CASE Lookup(c)
  <2>1. ASSUME NEW x \in Existing(KeyOf(c)), FinishEarly(c, Resolve(c, x)) PROVE Fine
    <3>1. \A d \in Calls : out'[d] = IF d = c THEN Resolve(c, x) ELSE out[d]
      BY <1>e, <2>1 DEF ProcessType
    <3>2. Telling
      <4>1. CASE Resolve(c, x).kind # "recorded"
        BY <3>1, <4>1, <1>1 DEF Telling
      <4>2. CASE Resolve(c, x).kind = "recorded"
        <5>1. /\ Resolve(c, x) = Outcome("recorded", x.digest) /\ x.digest \in Acts
              /\ x.digest # <<>> /\ x.content = ContentOf(c) /\ x \in FoundType
          BY <4>2, <1>x, ResolveTells
        <5>2. Justified(c, x.digest)
          BY <5>1, <1>3 DEF Justified, Lookup
        <5> QED BY <5>1, <5>2, <1>1, <1>e, <2>1 DEF Telling
      <4> QED BY <4>1, <4>2
    <3>3. Accusing
      BY <3>1, <1>e, <2>1, <1>p, ResolveSilent DEF Accusing, Regressions
    <3> QED BY <3>2, <3>3, <1>e, <2>1
  <2> QED BY <1>3, <2>1, <1>j, <1>f, <1>k DEF Lookup, AttemptPoints, Past
<1>4. CASE EnsureInitialized(c)
  BY <1>4, <1>g, <1>j, <1>f, <1>k DEF EnsureInitialized, AttemptPoints, Past, Telling, Accusing
<1>5. CASE Seal(c)
  BY <1>5, <1>g, <1>f, <1>k DEF Seal, AttemptPoints, Past, Telling, Accusing
<1>6. CASE Hold(c)
  BY <1>6, <1>j DEF Hold, AttemptPoints, Past
<1>7. CASE HasEvidence(c)
  BY <1>7, <1>j, <1>f, <1>k DEF HasEvidence, AttemptPoints, Past
<1>8. CASE PutEvidence(c)
  BY <1>8, <1>j, <1>f, <1>k DEF PutEvidence, AttemptPoints, Past
<1>9. CASE ConfirmUncommitted(c)
  BY <1>9, <1>j, <1>f, <1>l DEF ConfirmUncommitted, AttemptPoints, Past
<1>10. CASE Dispose(c)
  <2>1. CASE UNCHANGED <<pc, at, out, err>>
    BY <1>0, <2>1 DEF Resting, SpentKept, Spent, Telling, Accusing
  <2> QED BY <1>10, <2>1, <1>f, <1>l DEF Dispose
<1> QED BY <1>0, <1>2, <1>3, <1>4, <1>5, <1>6, <1>7, <1>8, <1>9, <1>10 DEF CallStep

\* However appendEvent ends, the attempt is over; only its own caller may get a receipt.
LEMMA EndFacts ==
    ASSUME TypeOK, NEW p \in Procs, pc[p] \in {"relookup", "head", "race", "result"},
           NEW o, EndAppend(p, o)
    PROVE  /\ Resting /\ SpentKept
           /\ \A c \in Calls : /\ out'[c] = out[c] \/ (out'[c] = o /\ pc[c] # "done")
                               /\ err'[c] \in {err[c], "none", o.kind}
           /\ o.kind = "recorded" =>
                IF p \in Recorders THEN UNCHANGED out
                ELSE pc'[p] = "done" /\ out' = [out EXCEPT ![p] = o]
<1> USE DEF TypeOK, journalVars, memoryVars, evidenceVars
<1>q. \A d \in Calls : d \in Procs /\ d \notin Recorders
  BY ProcFacts
<1>1. CASE p \in Recorders
  <2>1. FinishGenesis(p, o)
    BY <1>1 DEF EndAppend
  <2>2. Resting
    BY <2>1 DEF FinishGenesis, ProcessType, Resting, AttemptPoints
  <2>3. SpentKept
    BY <2>1, <1>1, <1>q DEF FinishGenesis, ProcessType, SpentKept, Spent, Past
  <2> QED BY <1>1, <2>1, <2>2, <2>3 DEF FinishGenesis, ProcessType
<1>2. CASE p \in Calls /\ (o.kind \in {"recorded", "prior"} \/ fresh[p] = {})
  <2>1. FinishHolding(p, o)
    BY <1>2, <1>q DEF EndAppend
  <2> QED BY <1>2, <2>1, <1>q
          DEF FinishHolding, ProcessType, Resting, SpentKept, Spent, AttemptPoints, Past
<1>3. CASE p \in Calls /\ ~(o.kind \in {"recorded", "prior"} \/ fresh[p] = {})
  <2>1. /\ pc' = [pc EXCEPT ![p] = "confirm"] /\ err' = [err EXCEPT ![p] = o.kind]
        /\ at' = [at EXCEPT ![p] = NoAttempt] /\ UNCHANGED out
    BY <1>3, <1>q DEF EndAppend
  <2> QED BY <1>3, <2>1, <1>q
          DEF ProcessType, Resting, SpentKept, Spent, AttemptPoints, Past
<1> QED BY <1>1, <1>2, <1>3 DEF Procs

\* The ways in which an attempt goes on.
Starts(p, rep) ==
    /\ pc' = [pc EXCEPT ![p] = "head"]
    /\ \E n \in Nat : at' = [at EXCEPT ![p] = Snapshot(p, n, rep)]

Reads(p) ==
    \E h \in ReadableHeads :
        /\ pc[p] = "head" /\ pc' = [pc EXCEPT ![p] = "append"]
        /\ at' = [at EXCEPT ![p].head = HigherHead(at[p].committed, h)]

Races(p) == pc[p] = "head" /\ pc' = [pc EXCEPT ![p] = "race"] /\ UNCHANGED at

\* What an append attempt does to the attempts.
Going(p) ==
    \/ Resting
    \/ pc[p] = "relookup" /\ Starts(p, reported[RecorderOf(p)])
    \/ /\ pc[p] = "result" /\ at[p].res.kind = "conflict"
       /\ Starts(p, HigherHead(reported[RecorderOf(p)], at[p].res.digest))
    \/ Reads(p) \/ Races(p) \/ CompareAndAppend(p)

\* What it does to the heads its replica remembers.
Remembering(p) ==
    /\ \/ UNCHANGED committed
       \/ /\ pc[p] = "result" /\ at[p].res.kind = "appended"
          /\ committed' = Raise(committed, RecorderOf(p), at[p].res.digest)
    /\ \/ UNCHANGED reported
       \/ /\ pc[p] = "result" /\ at[p].res.kind \in {"appended", "conflict"}
          /\ reported' = Raise(reported, RecorderOf(p), at[p].res.digest)

\* Steps of an append, of a producer event or of genesis.
LEMMA AttemptFacts ==
    ASSUME TypeOK, NEW p \in Procs, AppendStep(p) \/ (p \in Recorders /\ GenesisRace(p))
    PROVE  /\ Going(p) /\ SpentKept /\ Telling /\ Accusing /\ Remembering(p)
           /\ UNCHANGED restores
           /\ CompareAndAppend(p) \/ UNCHANGED log
<1> USE DEF TypeOK, journalVars, memoryVars, evidenceVars
<1> DEFINE Fine == Going(p) /\ SpentKept /\ Telling /\ Accusing
           Same == UNCHANGED <<log, restores, committed, reported>>
<1>p. RecorderOf(p) \in Recorders /\ (p \in Recorders \/ p \in Calls)
  BY ProcFacts DEF Procs
<1>q. \A d \in Calls : d \in Procs /\ d \notin Recorders
  BY ProcFacts
<1>a. at[p] \in AttemptType /\ at[p].res \in ResultType
  BY DEF ProcessType, AttemptType
<1>f. ASSUME NEW o, EndAppend(p, o), pc[p] \in {"relookup", "head", "race", "result"},
             o.kind # "recorded", o.kind \in Regressions => LooksRegressed(p)
      PROVE  Fine
  BY <1>f, EndFacts DEF Going, Telling, Accusing, Regressions
<1>k. \A k \in {"READ_FAILED", "JOURNAL_FAILURE", "EXHAUSTED"} :
          Outcome(k, <<>>).kind # "recorded" /\ Outcome(k, <<>>).kind \notin Regressions
  BY DEF Outcome, Regressions
<1>r. ASSUME NEW x \in FoundType, EndAppend(p, Resolve(p, x)),
             \/ pc[p] = "relookup" /\ x \in Existing(KeyOf(p))
             \/ pc[p] = "race" /\ p \in Recorders
             \/ pc[p] = "result" /\ at[p].res.kind = "existing" /\ x \in at[p].res.found
      PROVE  Fine
  <2>1. Resolve(p, x).kind \notin Regressions
    BY ResolveSilent
  <2>2. CASE Resolve(p, x).kind # "recorded"
    BY <1>f, <1>r, <2>1, <2>2
  <2>3. CASE Resolve(p, x).kind = "recorded" /\ p \in Recorders
    <3>1. UNCHANGED out /\ Resting /\ SpentKept
      BY <1>r, <2>3, EndFacts
    <3>2. Accusing
      BY <1>r, <2>1, <2>3, EndFacts DEF Accusing, Regressions
    <3> QED BY <3>1, <3>2 DEF Going, Telling
  <2>4. CASE Resolve(p, x).kind = "recorded" /\ p \in Calls
    <3>1. /\ Resolve(p, x) = Outcome("recorded", x.digest) /\ x.digest # <<>>
          /\ x.digest \in Acts /\ x.content = ContentOf(p)
      BY <2>4, ResolveTells
    <3>2. /\ out' = [out EXCEPT ![p] = Outcome("recorded", x.digest)]
          /\ pc'[p] = "done" /\ Resting /\ SpentKept
      BY <1>r, <1>q, <2>4, <3>1, EndFacts
    <3>3. Accusing
      BY <1>r, <2>1, <2>4, EndFacts DEF Accusing, Regressions
    <3>4. Justified(p, x.digest) /\ pc[p] # "done"
      BY <1>r, <1>q, <2>4, <3>1 DEF Justified
    <3> QED BY <2>4, <3>1, <3>2, <3>3, <3>4 DEF Going, Telling
  <2> QED BY <1>p, <2>2, <2>3, <2>4
<1>g. ASSUME UNCHANGED <<out, err>>, Going(p), SpentKept
      PROVE  Fine
  BY <1>g DEF Telling, Accusing
<1>s. ASSUME Same PROVE Remembering(p) /\ UNCHANGED log
  BY <1>s DEF Remembering
<1>1. CASE Relookup(p)
  <2>1. Same
    BY <1>1 DEF Relookup
  <2>2. ASSUME EndAppend(p, Outcome("READ_FAILED", <<>>)) PROVE Fine
    BY <1>1, <1>f, <1>k, <2>2 DEF Relookup
  <2>3. ASSUME \E x \in Existing(KeyOf(p)) : EndAppend(p, Resolve(p, x)) PROVE Fine
    BY <1>1, <1>r, <2>3, ExistingFacts DEF Relookup
  <2>4. ASSUME pc' = [pc EXCEPT ![p] = "head"],
               at' = [at EXCEPT ![p] = Snapshot(p, 0, reported[RecorderOf(p)])],
               UNCHANGED <<held, evidenceVars, out>>
        PROVE  Fine
    <3>1. Going(p)
      BY <1>1, <2>4 DEF Relookup, Going, Starts
    <3>2. SpentKept
      BY <1>1, <2>4 DEF Relookup, SpentKept, Spent, ProcessType, Past
    <3> QED BY <1>g, <2>4, <3>1, <3>2
  <2> QED BY <1>1, <1>s, <2>1, <2>2, <2>3, <2>4 DEF Relookup
<1>2. CASE ReadHead(p)
  <2>1. Same
    BY <1>2 DEF ReadHead
  <2>2. ASSUME \E k \in {"READ_FAILED", "JOURNAL_FAILURE"} : EndAppend(p, Outcome(k, <<>>)) PROVE Fine
    BY <1>2, <1>f, <1>k, <2>2 DEF ReadHead
  <2>3. ASSUME NEW h \in ReadableHeads,
               pc' = [pc EXCEPT ![p] = "append"],
               at' = [at EXCEPT ![p].head = HigherHead(at[p].committed, h)],
               UNCHANGED <<held, evidenceVars, out>>
        PROVE  Fine
    <3>1. Going(p)
      BY <1>2, <2>3 DEF ReadHead, Going, Reads
    <3>2. SpentKept
      BY <1>2, <2>3 DEF ReadHead, SpentKept, Spent, ProcessType, Past
    <3> QED BY <1>g, <2>3, <3>1, <3>2
  <2>4. ASSUME pc' = [pc EXCEPT ![p] = "race"] /\ UNCHANGED <<held, at, evidenceVars, out>> PROVE Fine
    <3>1. Going(p)
      BY <1>2, <2>4 DEF ReadHead, Going, Races
    <3>2. SpentKept
      BY <1>2, <2>4 DEF ReadHead, SpentKept, Spent, ProcessType, Past
    <3> QED BY <1>g, <2>4, <3>1, <3>2
  <2> QED BY <1>2, <1>s, <2>1, <2>2, <2>3, <2>4 DEF ReadHead
<1>3. CASE CompareAndAppend(p)
  <2>1. SpentKept
    <3>1. ~ Spent(p) /\ pc[p] # "done"
      BY <1>3 DEF CompareAndAppend, Spent, Past
    <3>2. \A d \in Procs : d # p => pc'[d] = pc[d] /\ at'[d] = at[d]
      BY <1>3 DEF CompareAndAppend, ProcessType
    <3> QED BY <1>q, <3>1, <3>2 DEF SpentKept, Spent
  <2> QED BY <1>3, <1>g, <2>1 DEF CompareAndAppend, Going, Remembering
<1>4. CASE HandleAppended(p)
  <2>1. /\ pc[p] = "result" /\ at[p].res.kind = "appended" /\ UNCHANGED <<log, restores>>
        /\ committed' = Raise(committed, RecorderOf(p), at[p].res.digest)
        /\ reported' = Raise(reported, RecorderOf(p), at[p].res.digest)
        /\ EndAppend(p, Outcome("recorded", at[p].res.digest))
    BY <1>4 DEF HandleAppended
  <2>2. at[p].res.digest \in Acts
    BY <1>a DEF ResultType
  <2>3. Resting /\ SpentKept
    BY <2>1, EndFacts
  <2>4. Accusing
    BY <2>1, EndFacts DEF Accusing, Regressions, Outcome
  <2>5. Telling
    <3>1. CASE p \in Recorders
      BY <2>1, <3>1, EndFacts DEF Telling, Outcome
    <3>2. CASE p \in Calls
      <4>1. pc'[p] = "done" /\ out' = [out EXCEPT ![p] = Outcome("recorded", at[p].res.digest)]
        BY <1>q, <2>1, <3>2, EndFacts DEF Outcome
      <4>2. Justified(p, at[p].res.digest) /\ pc[p] # "done"
        BY <2>1 DEF Justified
      <4> QED BY <2>2, <3>2, <4>1, <4>2 DEF Telling
    <3> QED BY <1>p, <3>1, <3>2
  <2> QED BY <2>1, <2>3, <2>4, <2>5 DEF Going, Remembering
<1>5. CASE HandleExisting(p)
  <2>1. \A x \in at[p].res.found : x \in FoundType
    BY <1>a DEF ResultType
  <2> QED BY <1>5, <1>r, <1>s, <2>1 DEF HandleExisting
<1>6. CASE HandleError(p)
  BY <1>6, <1>f, <1>k, <1>s DEF HandleError
<1>7. CASE HandleConflict(p)
  <2>1. /\ pc[p] = "result" /\ at[p].res.kind = "conflict" /\ UNCHANGED <<log, restores, committed>>
        /\ UNCHANGED reported \/ reported' = Raise(reported, RecorderOf(p), at[p].res.digest)
    BY <1>7 DEF HandleConflict
  <2>2. ASSUME NEW k \in {"REGRESSION", "NO_ADVANCE", "EXHAUSTED"},
               EndAppend(p, Outcome(k, <<>>)), k # "EXHAUSTED" => LooksRegressed(p)
        PROVE  Fine
    BY <1>f, <2>1, <2>2 DEF Outcome, Regressions
  <2>3. ASSUME pc' = [pc EXCEPT ![p] = "head"],
               at' = [at EXCEPT ![p] = Snapshot(p, at[p].tries + 1,
                            HigherHead(reported[RecorderOf(p)], at[p].res.digest))],
               UNCHANGED <<held, evidenceVars, out>>
        PROVE  Fine
    <3>1. Going(p)
      <4>1. at[p].tries + 1 \in Nat
        BY <1>a DEF AttemptType
      <4>2. Starts(p, HigherHead(reported[RecorderOf(p)], at[p].res.digest))
        BY <2>3, <4>1 DEF Starts
      <4> QED BY <2>1, <4>2 DEF Going
    <3>2. SpentKept
      BY <2>1, <2>3 DEF SpentKept, Spent, ProcessType, Past
    <3> QED BY <1>g, <2>3, <3>1, <3>2
  <2>4. Fine
    BY <1>7, <2>1, <2>2, <2>3 DEF HandleConflict, LooksRegressed
  <2> QED BY <2>1, <2>4 DEF Remembering
<1>8. CASE p \in Recorders /\ GenesisRace(p)
  <2>1. Same /\ KeyOf(p) = GenesisKey
    BY <1>8, ProcFacts DEF GenesisRace
  <2> QED BY <1>8, <1>r, <1>f, <1>k, <1>s, <2>1, ExistingFacts DEF GenesisRace
<1> QED BY <1>1, <1>2, <1>3, <1>4, <1>5, <1>6, <1>7, <1>8 DEF AppendStep

\* A crash ends the attempts of its replica.
LEMMA CrashFacts ==
    ASSUME TypeOK, NEW r \in Recorders, CrashRecorder(r)
    PROVE  /\ Resting /\ SpentKept /\ Telling /\ Accusing /\ UNCHANGED <<log, restores>>
           /\ "crash" \in Faults
           /\ committed' = [committed EXCEPT ![r] = <<>>]
           /\ reported' = [reported EXCEPT ![r] = <<>>]
<1> USE DEF TypeOK, journalVars
<1>q. \A d \in Calls : d \in Procs /\ d \notin Recorders
  BY ProcFacts
<1>1. Resting /\ SpentKept
  BY <1>q DEF CrashRecorder, InFlight, ProcessType, Resting, SpentKept, Spent, AttemptPoints, Past
<1>2. \A c \in Calls : /\ \/ out'[c] = out[c]
                          \/ out'[c] = Outcome("CRASHED", <<>>) /\ pc[c] # "done"
                       /\ err'[c] \in {err[c], "none"}
  BY DEF CrashRecorder, InFlight, ProcessType
<1>3. Telling /\ Accusing
  BY <1>2 DEF Telling, Accusing, Outcome, Regressions
<1> QED BY <1>1, <1>3 DEF CrashRecorder

\* Every step, as the receipts see it.
LEMMA StepFacts ==
    ASSUME TypeOK, [Next]_vars
    PROVE  /\ SpentKept /\ Telling /\ Accusing /\ UNCHANGED setting
           /\ \/ Resting /\ UNCHANGED <<log, restores, committed, reported>>
              \/ \E p \in Procs : /\ Going(p) /\ Remembering(p) /\ UNCHANGED restores
                                  /\ CompareAndAppend(p) \/ UNCHANGED log
              \/ \E r \in Recorders : /\ Resting /\ UNCHANGED <<log, restores>>
                                      /\ "crash" \in Faults
                                      /\ committed' = [committed EXCEPT ![r] = <<>>]
                                      /\ reported' = [reported EXCEPT ![r] = <<>>]
              \/ RestoreJournal /\ UNCHANGED <<pc, at, committed, reported, out, err>>
<1>0. UNCHANGED setting
  BY DEF Next, vars
<1>1. CASE UNCHANGED vars
  <2>1. UNCHANGED <<pc, at, out, err, log, restores, committed, reported>>
    BY <1>1 DEF vars, journalVars, memoryVars, evidenceVars
  <2>2. Resting /\ SpentKept /\ Telling /\ Accusing
    BY <2>1 DEF Resting, SpentKept, Spent, Telling, Accusing
  <2> QED BY <1>0, <2>1, <2>2
<1>2. ASSUME NEW c \in Calls, Submit(c) \/ CallStep(c)
      PROVE  /\ Resting /\ SpentKept /\ Telling /\ Accusing
             /\ UNCHANGED <<log, restores, committed, reported>>
  BY <1>2, CallFacts
<1>3. ASSUME NEW p \in Procs, AppendStep(p) \/ (p \in Recorders /\ GenesisRace(p))
      PROVE  /\ Going(p) /\ SpentKept /\ Telling /\ Accusing /\ Remembering(p)
             /\ UNCHANGED restores
             /\ CompareAndAppend(p) \/ UNCHANGED log
  BY <1>3, AttemptFacts
<1>4. ASSUME NEW r \in Recorders, CrashRecorder(r)
      PROVE  /\ Resting /\ SpentKept /\ Telling /\ Accusing /\ UNCHANGED <<log, restores>>
             /\ "crash" \in Faults
             /\ committed' = [committed EXCEPT ![r] = <<>>]
             /\ reported' = [reported EXCEPT ![r] = <<>>]
  BY <1>4, CrashFacts
<1>5. CASE RestoreJournal
  <2>1. UNCHANGED <<pc, at, committed, reported, out, err>>
    BY <1>5 DEF RestoreJournal, memoryVars, evidenceVars
  <2>2. SpentKept /\ Telling /\ Accusing
    BY <2>1 DEF SpentKept, Spent, Telling, Accusing
  <2> QED BY <1>0, <1>5, <2>1, <2>2
<1>6. \A r \in Recorders : r \in Procs
  BY ProcFacts
<1>7. CASE \E c \in Calls : Submit(c) \/ CallStep(c)
  BY <1>0, <1>2, <1>7
<1>8. CASE \E p \in Procs : AppendStep(p) \/ (p \in Recorders /\ GenesisRace(p))
  BY <1>0, <1>3, <1>8
<1>9. CASE \E r \in Recorders : CrashRecorder(r)
  BY <1>0, <1>4, <1>9
<1> QED BY <1>1, <1>5, <1>6, <1>7, <1>8, <1>9 DEF Next, Quiescent

-----------------------------------------------------------------------------
(* The inductive invariant, for receipts while the journal is not restored *)
(* and for restores between append attempts.                               *)

\* The head of n entries spells them out.
HeadsSpell ==
    \A n \in 0..Len(log) : /\ Len(HeadAt(n)) = n
                           /\ \A i \in 1..n : HeadAt(n)[i] = log[i].by

\* A head the journal has or had while it only grew.
On(d) == \E n \in 0..Len(log) : d = HeadAt(n)

\* Digest d is the committed entry of an event with this key and content.
CommittedAs(d, k, content) ==
    \E n \in 1..Len(log) : /\ d = HeadAt(n)
                           /\ KeyOf(log[n].by) = k /\ ContentOf(log[n].by) = content

Restores == "restore" \in Faults
QuietRestores == "quiet" \in Faults

\* The heads that replicas and attempts remember are heads of the journal.
HeadsOn ==
    restores = 0 =>
        /\ \A r \in Recorders : On(committed[r]) /\ On(reported[r])
        /\ \A p \in Procs : On(at[p].committed) /\ On(at[p].reported) /\ On(at[p].res.digest)

\* What a reply of the journal says is still so when it is handled.
RepliesOn ==
    \A p \in Procs : pc[p] = "result" =>
        /\ at[p].res.kind = "existing" /\ restores = 0 =>
             \A x \in at[p].res.found :
                 x.digest = <<>> \/ CommittedAs(x.digest, KeyOf(p), x.content)
        /\ at[p].res.kind = "conflict" => at[p].head # at[p].res.digest
        /\ at[p].res.kind = "conflict" /\ restores = 0 =>
             Len(at[p].committed) <= Len(at[p].res.digest)
        /\ at[p].res.kind = "appended" /\ (restores = 0 \/ QuietRestores) =>
             \E n \in 1..Len(log) : at[p].res.digest = HeadAt(n) /\ log[n].by = p

\* A call signs once, so what it finds committed under its key another call signed.
SignedOnce ==
    /\ \A i \in 1..Len(log) : log[i].by \in Calls => Spent(log[i].by)
    /\ \A c \in Calls : pc[c] = "result" /\ at[c].res.kind = "existing" =>
         \A x \in at[c].res.found : x.digest # <<>> => SignerOf(x.digest) # c
    /\ \A c \in Calls : out[c].kind = "recorded" => pc[c] = "done"
    /\ restores # 0 => Restores

ReceiptInv ==
    HeadsSpell /\ HeadsOn /\ RepliesOn /\ SignedOnce /\ ReceiptDurable /\ NoFalseRegression

\* A call that holds a receipt for an entry it signed itself.
Own(c) == out[c].kind = "recorded" /\ SignerOf(out[c].entry) = c

\* A call whose entry the journal has and whose recorder has not learned it yet.
Pending(c) == pc[c] = "result" /\ at[c].res.kind = "appended"

\* Replicas live on and the journal moves backwards only between attempts.
Steady == QuietRestores /\ "crash" \notin Faults

\* A replica expects a head no shorter than what it had committed when it started.
HeadCovers ==
    \A p \in Procs : pc[p] = "append" => Len(at[p].committed) <= Len(at[p].head)

\* What a replica appends next comes after every entry it gave a receipt for.
SteadyInv ==
    Steady =>
        /\ \A c \in Calls : Own(c) => Len(out[c].entry) <= Len(committed[RecorderOf(c)])
        /\ \A p \in Procs : pc[p] \in {"head", "append"} =>
             \/ Len(committed[RecorderOf(p)]) <= Len(at[p].committed)
             \/ Len(committed[RecorderOf(p)]) <= Len(log)
        /\ \A c, d \in Calls : Own(c) /\ Pending(d) /\ RecorderOf(c) = RecorderOf(d) =>
             Len(out[c].entry) # Len(at[d].res.digest)
        /\ NoSecondReceipt

-----------------------------------------------------------------------------
(* The journal and the attempts in a step.                                 *)

\* The journal keeps what it has.
Grows ==
    /\ Len(log) \in Nat /\ Len(log') \in Nat /\ Len(log) <= Len(log')
    /\ \A i \in 1..Len(log) : log'[i] = log[i]
    /\ \A i \in 0..Len(log) : HeadAt(i)' = HeadAt(i)

\* What compareAndAppend replies, and what it did.
CasReply(p) ==
    LET res == at'[p].res IN
    \/ /\ UNCHANGED log /\ res.kind = "existing" /\ res.digest = <<>>
       /\ \E x \in Existing(KeyOf(p)) : res.found = {x}
    \/ UNCHANGED log /\ res.kind = "conflict" /\ res.digest = JournalHead /\ at[p].head # JournalHead
    \/ /\ log' = Append(log, Candidate(p)) /\ Existing(KeyOf(p)) = {} /\ at[p].head = JournalHead
       /\ \/ res.kind = "appended" /\ res.digest = Digest(Candidate(p))
          \/ res.kind = "error" /\ res.digest = <<>>
    \/ UNCHANGED log /\ res.kind = "error" /\ res.digest = <<>>

LEMMA CasFacts ==
    ASSUME TypeOK, NEW p \in Procs, CompareAndAppend(p)
    PROVE  /\ pc[p] = "append" /\ pc' = [pc EXCEPT ![p] = "result"]
           /\ \A q \in Procs : q # p => pc'[q] = pc[q] /\ at'[q] = at[q]
           /\ pc'[p] = "result"
           /\ at'[p].head = at[p].head /\ at'[p].committed = at[p].committed
           /\ at'[p].reported = at[p].reported
           /\ UNCHANGED <<restores, committed, reported, out>>
           /\ CasReply(p)
<1>1. PICK res : /\ at' = [at EXCEPT ![p].res = res]
                 /\ \/ /\ UNCHANGED log
                       /\ \E x \in Existing(KeyOf(p)) : res = Result("existing", <<>>, {x})
                    \/ /\ UNCHANGED log /\ ~HeadMatches(p)
                       /\ res = Result("conflict", JournalHead, {})
                    \/ /\ log' = Append(log, Candidate(p)) /\ Existing(KeyOf(p)) = {} /\ HeadMatches(p)
                       /\ res \in {Result("appended", Digest(Candidate(p)), {}), Result("error", <<>>, {})}
                    \/ UNCHANGED log /\ res = Result("error", <<>>, {})
  BY DEF CompareAndAppend
<1>2. /\ at'[p].res = res
      /\ at'[p].head = at[p].head /\ at'[p].committed = at[p].committed
      /\ at'[p].reported = at[p].reported
      /\ \A q \in Procs : q # p => at'[q] = at[q]
  BY <1>1 DEF TypeOK, ProcessType, AttemptType
<1>3. CasReply(p)
  BY <1>1, <1>2 DEF CasReply, Result, HeadMatches
<1>4. /\ pc[p] = "append" /\ pc' = [pc EXCEPT ![p] = "result"]
      /\ UNCHANGED <<restores, committed, reported, out>>
  BY DEF CompareAndAppend, memoryVars
<1>5. pc'[p] = "result" /\ \A q \in Procs : q # p => pc'[q] = pc[q]
  BY <1>4 DEF TypeOK, ProcessType
<1> QED BY <1>2, <1>3, <1>4, <1>5

\* A candidate that is appended is the journal's new head.
LEMMA CandidateFacts ==
    ASSUME TypeOK, NEW p \in Procs, log' = Append(log, Candidate(p)), at[p].head = JournalHead
    PROVE  /\ Grows /\ Len(log') = Len(log) + 1
           /\ log'[Len(log) + 1] = Candidate(p) /\ Candidate(p).by = p
           /\ \A n : n = Len(log) + 1 => HeadAt(n)' = Digest(Candidate(p))
           /\ Digest(Candidate(p)) = Append(HeadAt(Len(log)), p)
           /\ Digest(Candidate(p)) \in Acts
<1>1. Candidate(p) \in EntryType /\ at[p].head \in Acts
  BY DEF Candidate, EntryType, TypeOK, ProcessType, AttemptType
<1>2. /\ Len(log') = Len(log) + 1 /\ Len(log) \in Nat
      /\ log'[Len(log) + 1] = Candidate(p)
      /\ \A i \in 1..Len(log) : log'[i] = log[i]
      /\ \A i \in 0..Len(log) : HeadAt(i)' = HeadAt(i)
  BY <1>1, AppendFacts, EntryFacts DEF TypeOK
<1>3. \A n : n = Len(log) + 1 => HeadAt(n)' = Digest(Candidate(p))
  BY <1>2 DEF HeadAt, Digest
<1>4. Candidate(p).by = p /\ Candidate(p).prev = HeadAt(Len(log))
  BY DEF Candidate, JournalHead
<1>5. Grows
  BY <1>2 DEF Grows
<1>6. Digest(Candidate(p)) \in Acts /\ Digest(Candidate(p)) = Append(HeadAt(Len(log)), p)
  BY <1>1, <1>4 DEF Digest, Acts, EntryType
<1> QED BY <1>2, <1>3, <1>4, <1>5, <1>6

LEMMA GrowsFacts ==
    ASSUME TypeOK, UNCHANGED log \/ (\E p \in Procs : CompareAndAppend(p))
    PROVE  Grows
<1>1. CASE UNCHANGED log
  BY <1>1, EntryFacts DEF Grows, HeadAt, TypeOK
<1>2. ASSUME NEW p \in Procs, CompareAndAppend(p) PROVE Grows
  BY <1>1, <1>2, CasFacts, CandidateFacts DEF CasReply
<1> QED BY <1>1, <1>2

\* What holds of a head, of an entry or of a position goes on holding while it grows.
LEMMA OnGrows ==
    ASSUME Grows
    PROVE  /\ \A d : On(d) => On(d)'
           /\ \A d, k, x : CommittedAs(d, k, x) => CommittedAs(d, k, x)'
<1>1. /\ \A n \in 0..Len(log) : n \in 0..Len(log') /\ HeadAt(n)' = HeadAt(n)
      /\ \A n \in 1..Len(log) : n \in 1..Len(log') /\ HeadAt(n)' = HeadAt(n) /\ log'[n] = log[n]
  BY DEF Grows
<1> QED BY <1>1 DEF On, CommittedAs

LEMMA SpellStep ==
    ASSUME TypeOK, HeadsSpell, [Next]_vars
    PROVE  HeadsSpell'
<1>1. CASE UNCHANGED log
  BY <1>1 DEF HeadsSpell, HeadAt, Digest
<1>2. CASE RestoreJournal
  <2>1. /\ Len(log') \in 0..Len(log) /\ Len(log) \in Nat
        /\ \A i \in 1..Len(log') : log'[i] = log[i]
        /\ \A i \in 0..Len(log') : HeadAt(i)' = HeadAt(i)
    BY <1>2, RestoreFacts, EntryFacts DEF TypeOK
  <2> QED BY <2>1 DEF HeadsSpell
<1>3. ASSUME NEW p \in Procs, CompareAndAppend(p), log' # log
      PROVE  HeadsSpell'
  <2>1. log' = Append(log, Candidate(p)) /\ at[p].head = JournalHead
    BY <1>3, CasFacts DEF CasReply
  <2>2. /\ Grows /\ Len(log') = Len(log) + 1
        /\ log'[Len(log) + 1].by = p
        /\ \A n : n = Len(log) + 1 => HeadAt(n)' = Append(HeadAt(Len(log)), p)
    BY <2>1, CandidateFacts
  <2>3. /\ HeadAt(Len(log)) \in Acts /\ Len(HeadAt(Len(log))) = Len(log) /\ Len(log) \in Nat
        /\ \A i \in 1..Len(log) : HeadAt(Len(log))[i] = log[i].by
    BY <2>2, HeadFacts DEF TypeOK, HeadsSpell, Grows
  <2>4. /\ Len(Append(HeadAt(Len(log)), p)) = Len(log) + 1
        /\ \A i \in 1..Len(log) : Append(HeadAt(Len(log)), p)[i] = log[i].by
        /\ Append(HeadAt(Len(log)), p)[Len(log) + 1] = p
    BY <2>3 DEF Acts
  <2> SUFFICES ASSUME NEW n \in 0..Len(log')
               PROVE  /\ Len(HeadAt(n)') = n
                      /\ \A i \in 1..n : HeadAt(n)'[i] = log'[i].by
    BY DEF HeadsSpell
  <2>5. CASE n \in 0..Len(log)
    BY <2>2, <2>3, <2>5 DEF Grows, HeadsSpell
  <2>6. CASE n = Len(log) + 1
    BY <2>2, <2>3, <2>4, <2>6 DEF Grows
  <2> QED BY <2>2, <2>3, <2>5, <2>6
<1>4. \/ UNCHANGED log \/ RestoreJournal \/ \E p \in Procs : CompareAndAppend(p)
  BY StepFacts
<1> QED BY <1>1, <1>2, <1>3, <1>4

\* What a step does to the attempt of process q.
Snapped(q) ==
    /\ pc'[q] = "head"
    /\ at'[q].head = <<>> /\ at'[q].committed = committed[RecorderOf(q)] /\ at'[q].res = NoResult
    /\ \/ at'[q].reported = reported[RecorderOf(q)]
       \/ at'[q].reported = HigherHead(reported[RecorderOf(q)], at[q].res.digest)

HeadRead(q) ==
    /\ pc[q] = "head" /\ pc'[q] = "append"
    /\ at'[q].committed = at[q].committed /\ at'[q].reported = at[q].reported
    /\ at'[q].res = at[q].res
    /\ \E h \in ReadableHeads : at'[q].head = HigherHead(at[q].committed, h)

Goes(q) ==
    \/ pc'[q] = pc[q] /\ at'[q] = at[q]
    \/ pc'[q] \notin AttemptPoints /\ at'[q] \in {at[q], NoAttempt}
    \/ Snapped(q) \/ HeadRead(q)
    \/ pc'[q] = "race" /\ at'[q] = at[q]
    \/ CompareAndAppend(q)

LEMMA GoesFacts ==
    ASSUME TypeOK, Resting \/ (\E p \in Procs : Going(p)), NEW q \in Procs
    PROVE  Goes(q)
<1>a. at \in [Procs -> AttemptType] /\ pc \in [Procs -> Points]
  BY DEF TypeOK, ProcessType
<1>1. CASE Resting
  BY <1>1 DEF Resting, Goes
<1>2. ASSUME NEW p \in Procs, NEW rep, Starts(p, rep),
             \/ rep = reported[RecorderOf(p)]
             \/ rep = HigherHead(reported[RecorderOf(p)], at[p].res.digest)
      PROVE  Goes(q)
  <2>1. PICK n \in Nat : at' = [at EXCEPT ![p] = Snapshot(p, n, rep)]
    BY <1>2 DEF Starts
  <2>2. CASE q = p
    BY <1>a, <1>2, <2>1, <2>2 DEF Starts, Snapshot, Goes, Snapped
  <2>3. CASE q # p
    BY <1>a, <1>2, <2>1, <2>3 DEF Starts, Goes
  <2> QED BY <2>2, <2>3
<1>3. ASSUME NEW p \in Procs, Reads(p) PROVE Goes(q)
  <2>1. PICK h \in ReadableHeads :
          /\ pc[p] = "head" /\ pc' = [pc EXCEPT ![p] = "append"]
          /\ at' = [at EXCEPT ![p].head = HigherHead(at[p].committed, h)]
    BY <1>3 DEF Reads
  <2>2. CASE q = p
    BY <1>a, <2>1, <2>2 DEF Goes, HeadRead, AttemptType
  <2>3. CASE q # p
    BY <1>a, <2>1, <2>3 DEF Goes
  <2> QED BY <2>2, <2>3
<1>4. ASSUME NEW p \in Procs, Races(p) PROVE Goes(q)
  BY <1>a, <1>4 DEF Races, Goes
<1>5. ASSUME NEW p \in Procs, CompareAndAppend(p) PROVE Goes(q)
  BY <1>5, CasFacts DEF Goes
<1> QED BY <1>1, <1>2, <1>3, <1>4, <1>5 DEF Going

\* The null head and the head of the journal are heads of it, and so is the higher of two.
LEMMA OnFacts ==
    ASSUME TypeOK
    PROVE  /\ On(<<>>) /\ On(JournalHead)
           /\ \A d, e : On(d) /\ On(e) => On(HigherHead(d, e))
<1>1. 0 \in 0..Len(log) /\ Len(log) \in 0..Len(log) /\ HeadAt(0) = <<>>
  BY EntryFacts DEF TypeOK, HeadAt
<1> QED BY <1>1 DEF On, JournalHead, HigherHead

LEMMA HeadsOnStep ==
    ASSUME TypeOK, HeadsOn, RepliesOn, [Next]_vars
    PROVE  HeadsOn'
<1> SUFFICES ASSUME restores' = 0 PROVE HeadsOn'
  BY DEF HeadsOn
<1>1. CASE RestoreJournal
  BY <1>1 DEF RestoreJournal, TypeOK, JournalType
<1> SUFFICES ASSUME ~RestoreJournal PROVE HeadsOn'
  BY <1>1
<1>2. /\ UNCHANGED restores
      /\ UNCHANGED log \/ (\E p \in Procs : CompareAndAppend(p))
      /\ Resting \/ (\E p \in Procs : Going(p))
  BY StepFacts
<1>3. Grows
  BY <1>2, GrowsFacts
<1>4. \A d : On(d) => On(d)'
  BY <1>3, OnGrows
<1>5. /\ \A r \in Recorders : On(committed[r]) /\ On(reported[r])
      /\ \A p \in Procs : On(at[p].committed) /\ On(at[p].reported) /\ On(at[p].res.digest)
  BY <1>2 DEF HeadsOn
<1>6. ASSUME NEW r \in Recorders PROVE On(committed'[r]) /\ On(reported'[r])
  <2>1. ASSUME NEW p \in Procs, Remembering(p) PROVE On(committed'[r]) /\ On(reported'[r])
    BY <1>5, <2>1, OnFacts DEF Remembering, Raise, TypeOK, MemoryType
  <2>2. CASE \E c \in Recorders : /\ committed' = [committed EXCEPT ![c] = <<>>]
                                  /\ reported' = [reported EXCEPT ![c] = <<>>]
    BY <1>5, <2>2, OnFacts DEF TypeOK, MemoryType
  <2>3. CASE UNCHANGED <<committed, reported>>
    BY <1>5, <2>3
  <2> QED BY <2>1, <2>2, <2>3, StepFacts
<1>7. ASSUME NEW q \in Procs
      PROVE  /\ On(at'[q].committed) /\ On(at'[q].reported)
             /\ On(at'[q].res.digest) \/ CompareAndAppend(q)
  <2>1. Goes(q) /\ RecorderOf(q) \in Recorders
    BY <1>2, GoesFacts, ProcFacts
  <2>2. CASE at'[q] = at[q]
    BY <1>5, <2>2
  <2>3. CASE at'[q] = NoAttempt
    BY <2>3, OnFacts DEF NoAttempt, NoResult
  <2>4. CASE Snapped(q)
    BY <1>5, <2>1, <2>4, OnFacts DEF Snapped, NoResult
  <2>5. CASE HeadRead(q)
    BY <1>5, <2>5 DEF HeadRead
  <2>6. CASE CompareAndAppend(q)
    BY <1>5, <2>6, CasFacts
  <2> QED BY <2>1, <2>2, <2>3, <2>4, <2>5, <2>6 DEF Goes
<1>8. ASSUME NEW q \in Procs, CompareAndAppend(q) PROVE On(at[q].res.digest)'
  <2>1. CasReply(q)
    BY <1>8, CasFacts
  <2>2. CASE at'[q].res.digest = Digest(Candidate(q)) /\ log' = Append(log, Candidate(q))
              /\ at[q].head = JournalHead
    <3>1. /\ Len(log') = Len(log) + 1 /\ Len(log) \in Nat
          /\ \A n : n = Len(log) + 1 => HeadAt(n)' = Digest(Candidate(q))
      BY <2>2, CandidateFacts, EntryFacts DEF TypeOK
    <3>2. Len(log') \in 0..Len(log') /\ \A n : n = Len(log') => HeadAt(n)' = at'[q].res.digest
      BY <2>2, <3>1
    <3> QED BY <3>2 DEF On
  <2>3. CASE at'[q].res.digest \in {<<>>, JournalHead}
    <3>1. On(at'[q].res.digest)
      BY <2>3, OnFacts
    <3> QED BY <1>4, <3>1 DEF On
  <2> QED BY <2>1, <2>2, <2>3 DEF CasReply
<1>9. \A r \in Recorders : On(committed[r])' /\ On(reported[r])'
  BY <1>4, <1>6 DEF On
<1>10. \A q \in Procs : On(at[q].committed)' /\ On(at[q].reported)' /\ On(at[q].res.digest)'
  BY <1>4, <1>7, <1>8 DEF On
<1> QED BY <1>9, <1>10 DEF HeadsOn

\* What the index finds is committed in this epoch, by the process that signed it, or
\* retained from an earlier one.
LEMMA ExistingOn ==
    ASSUME TypeOK, NEW k, NEW x \in Existing(k)
    PROVE  \/ x.digest = <<>>
           \/ \E n \in 1..Len(log) : /\ x.digest = HeadAt(n) /\ SignerOf(x.digest) = log[n].by
                                     /\ KeyOf(log[n].by) = k /\ x.content = ContentOf(log[n].by)
<1>1. ASSUME NEW i \in 1..Len(log), KeyOf(log[i].by) = k,
             x = [digest |-> Digest(log[i]), content |-> ContentOf(log[i].by)]
      PROVE  /\ x.digest = HeadAt(i) /\ SignerOf(x.digest) = log[i].by
             /\ x.content = ContentOf(log[i].by)
  <2>1. log[i].by \in Procs /\ log[i].prev \in Acts /\ i # 0
    BY EntryFacts DEF TypeOK
  <2>2. SignerOf(Digest(log[i])) = log[i].by
    BY <2>1 DEF SignerOf, Digest, Acts
  <2> QED BY <1>1, <2>1, <2>2 DEF HeadAt
<1> QED BY <1>1 DEF Existing

\* Heads of the journal are told apart by their lengths.
LEMMA OnLength ==
    ASSUME TypeOK, HeadsSpell
    PROVE  /\ Len(JournalHead) = Len(log)
           /\ \A d : On(d) => Len(d) \in Nat /\ Len(d) <= Len(log)
           /\ \A d, e : On(d) /\ On(e) /\ Len(d) = Len(e) => d = e
<1>1. Len(log) \in Nat
  BY EntryFacts DEF TypeOK
<1>2. \A n \in 0..Len(log) : Len(HeadAt(n)) = n
  BY DEF HeadsSpell
<1> QED BY <1>1, <1>2 DEF On, JournalHead

\* A process is waiting for a reply because it was, or because it asks now.
LEMMA Waiting ==
    ASSUME TypeOK, [Next]_vars, NEW q \in Procs, pc'[q] = "result"
    PROVE  \/ pc[q] = "result" /\ at'[q] = at[q] /\ (RestoreJournal => ~QuietRestores)
           \/ CompareAndAppend(q)
<1>1. CASE RestoreJournal
  BY <1>1, StepFacts DEF RestoreJournal, Attempting, QuietRestores
<1>2. CASE ~RestoreJournal
  <2>1. Goes(q)
    BY <1>2, StepFacts, GoesFacts
  <2> QED BY <1>2, <2>1 DEF Goes, Snapped, HeadRead, AttemptPoints
<1> QED BY <1>1, <1>2

LEMMA RepliesOnStep ==
    ASSUME TypeOK, ReceiptInv, [Next]_vars
    PROVE  RepliesOn'
<1> DEFINE Reply(q) ==
        /\ at'[q].res.kind = "existing" /\ restores' = 0 =>
             \A x \in at'[q].res.found :
                 x.digest = <<>> \/ CommittedAs(x.digest, KeyOf(q), x.content)'
        /\ at'[q].res.kind = "conflict" => at'[q].head # at'[q].res.digest
        /\ at'[q].res.kind = "conflict" /\ restores' = 0 =>
             Len(at'[q].committed) <= Len(at'[q].res.digest)
        /\ at'[q].res.kind = "appended" /\ (restores' = 0 \/ QuietRestores) =>
             \E n \in 1..Len(log') : at'[q].res.digest = HeadAt(n)' /\ log'[n].by = q
<1>1. UNCHANGED setting /\ (restores' = 0 => restores = 0)
  BY StepFacts DEF RestoreJournal, TypeOK, JournalType
<1>2. ASSUME NEW q \in Procs, pc[q] = "result", at'[q] = at[q], RestoreJournal => ~QuietRestores
      PROVE  Reply(q)
  <2>1. CASE RestoreJournal
    <3>1. restores' # 0 /\ ~QuietRestores
      BY <1>2, <2>1 DEF RestoreJournal, TypeOK, JournalType
    <3> QED BY <1>2, <3>1 DEF ReceiptInv, RepliesOn
  <2>2. CASE ~RestoreJournal
    <3>1. Grows
      BY <2>2, StepFacts, GrowsFacts
    <3>2. \A n \in 1..Len(log) : n \in 1..Len(log') /\ HeadAt(n)' = HeadAt(n) /\ log'[n] = log[n]
      BY <3>1 DEF Grows
    <3>3. restores' = restores
      BY <2>2, StepFacts
    <3> QED BY <1>2, <3>1, <3>2, <3>3, OnGrows DEF ReceiptInv, RepliesOn
  <2> QED BY <2>1, <2>2
<1>3. ASSUME NEW q \in Procs, CompareAndAppend(q) PROVE Reply(q)
  <2>1. /\ CasReply(q) /\ at'[q].head = at[q].head /\ at'[q].committed = at[q].committed
        /\ UNCHANGED restores
    BY <1>3, CasFacts
  <2>2. CASE UNCHANGED log /\ at'[q].res.kind = "existing"
    <3>1. \A n : HeadAt(n)' = HeadAt(n)
      BY <2>2 DEF HeadAt, Digest
    <3>2. PICK x \in Existing(KeyOf(q)) : at'[q].res.found = {x}
      BY <2>1, <2>2 DEF CasReply
    <3>3. x.digest = <<>> \/ CommittedAs(x.digest, KeyOf(q), x.content)
      BY ExistingOn DEF CommittedAs
    <3>4. x.digest = <<>> \/ CommittedAs(x.digest, KeyOf(q), x.content)'
      BY <2>2, <3>1, <3>3 DEF CommittedAs
    <3> QED BY <2>2, <3>2, <3>4
  <2>3. CASE at'[q].res.kind = "conflict"
    <3>1. at'[q].res.digest = JournalHead /\ at[q].head # JournalHead
      BY <2>1, <2>3 DEF CasReply
    <3>2. restores = 0 => Len(at[q].committed) <= Len(JournalHead)
      BY OnLength DEF ReceiptInv, HeadsOn
    <3> QED BY <2>1, <2>3, <3>1, <3>2
  <2>4. CASE at'[q].res.kind = "appended"
    <3>1. /\ log' = Append(log, Candidate(q)) /\ at[q].head = JournalHead
          /\ at'[q].res.digest = Digest(Candidate(q))
      BY <2>1, <2>4 DEF CasReply
    <3>2. /\ Len(log') = Len(log) + 1 /\ Len(log) \in Nat /\ log'[Len(log) + 1].by = q
          /\ \A n : n = Len(log) + 1 => HeadAt(n)' = Digest(Candidate(q))
      BY <3>1, CandidateFacts, EntryFacts DEF TypeOK
    <3> QED BY <2>4, <3>1, <3>2
  <2> QED BY <2>1, <2>2, <2>3, <2>4 DEF CasReply
<1>4. \A q \in Procs : pc'[q] = "result" => Reply(q)
  BY <1>2, <1>3, Waiting
<1> QED BY <1>1, <1>4 DEF RepliesOn, QuietRestores, Faults

LEMMA SignedOnceStep ==
    ASSUME TypeOK, ReceiptInv, [Next]_vars
    PROVE  SignedOnce'
<1>p. \A c \in Calls : c \in Procs
  BY ProcFacts
<1>1. \A c \in Calls : Spent(c) => Spent(c)'
  BY StepFacts DEF SpentKept
<1>2. \A i \in 1..Len(log') : log'[i].by \in Calls => Spent(log[i].by)'
  <2>1. CASE RestoreJournal
    <3>1. /\ Len(log') \in 0..Len(log) /\ Len(log) \in Nat
          /\ \A i \in 1..Len(log') : log'[i] = log[i]
      BY <2>1, RestoreFacts, EntryFacts DEF TypeOK
    <3> QED BY <1>1, <3>1 DEF ReceiptInv, SignedOnce, Spent
  <2>2. CASE UNCHANGED log
    BY <1>1, <2>2 DEF ReceiptInv, SignedOnce, Spent
  <2>3. ASSUME NEW q \in Procs, CompareAndAppend(q), log' # log
        PROVE  \A i \in 1..Len(log') : log'[i].by \in Calls => Spent(log[i].by)'
    <3>1. log' = Append(log, Candidate(q)) /\ at[q].head = JournalHead
          /\ pc'[q] = "result" /\ at'[q].res.kind \in {"appended", "error"}
      BY <2>3, CasFacts DEF CasReply
    <3>2. /\ Len(log') = Len(log) + 1 /\ Len(log) \in Nat /\ log'[Len(log) + 1].by = q
          /\ \A i \in 1..Len(log) : log'[i] = log[i]
      BY <3>1, CandidateFacts, EntryFacts DEF TypeOK, Grows
    <3>3. \A i \in 1..Len(log) : log'[i].by \in Calls => Spent(log[i].by)'
      BY <1>1, <3>2 DEF ReceiptInv, SignedOnce, Spent
    <3>4. \A i : i = Len(log) + 1 => Spent(log[i].by)'
      BY <3>1, <3>2 DEF Spent
    <3> QED BY <3>2, <3>3, <3>4
  <2> QED BY <2>1, <2>2, <2>3, StepFacts
<1>3. ASSUME NEW c \in Calls, pc'[c] = "result", at'[c].res.kind = "existing",
             NEW x \in at'[c].res.found, x.digest # <<>>
      PROVE  SignerOf(x.digest) # c
  <2>1. CASE pc[c] = "result" /\ at'[c] = at[c]
    BY <1>3, <2>1 DEF ReceiptInv, SignedOnce
  <2>2. CASE CompareAndAppend(c)
    <3>1. pc[c] = "append" /\ x \in Existing(KeyOf(c))
      BY <1>3, <1>p, <2>2, CasFacts DEF CasReply
    <3>2. ~Spent(c)
      BY <3>1 DEF Spent, Past
    <3> QED BY <1>3, <3>1, <3>2, ExistingOn DEF ReceiptInv, SignedOnce
  <2> QED BY <1>3, <1>p, <2>1, <2>2, Waiting
<1>4. \A c \in Calls : out'[c].kind = "recorded" => pc'[c] = "done"
  <2>1. SpentKept /\ Telling /\ \A c \in Calls : out[c].kind = "recorded" => pc[c] = "done"
    BY StepFacts DEF ReceiptInv, SignedOnce
  <2> QED BY <2>1 DEF SpentKept, Telling, TypeOK, ProcessType
<1>5. restores' # 0 => Restores'
  <2>1. setting' = setting /\ (restores' = restores \/ Restores)
    BY StepFacts DEF RestoreJournal, Restores
  <2> QED BY <2>1 DEF ReceiptInv, SignedOnce, Restores, Faults
<1> QED BY <1>2, <1>3, <1>4, <1>5 DEF SignedOnce

\* A conflicting head never looks like a regression while the journal only grew.
LEMMA NotRegressed ==
    ASSUME TypeOK, ReceiptInv, restores = 0, NEW p \in Procs
    PROVE  ~LooksRegressed(p)
<1> SUFFICES ASSUME LooksRegressed(p) PROVE FALSE
  OBVIOUS
<1> DEFINE actual == at[p].res.digest
<1>1. /\ pc[p] = "result" /\ at[p].res.kind = "conflict"
      /\ Regressed(p) \/ actual = at[p].head
  BY DEF LooksRegressed
<1>2. actual # at[p].head /\ Len(at[p].committed) <= Len(actual)
  BY <1>1 DEF ReceiptInv, RepliesOn
<1>3. On(actual) /\ On(at[p].committed) /\ On(at[p].reported)
  BY DEF ReceiptInv, HeadsOn
<1>4. Len(actual) \in Nat /\ Len(at[p].committed) \in Nat
  BY <1>3, OnLength DEF ReceiptInv
<1>5. ~Forks(at[p].committed, actual) /\ ~Forks(at[p].reported, actual)
  BY <1>3, OnLength DEF ReceiptInv, Forks
<1> QED BY <1>1, <1>2, <1>4, <1>5 DEF Regressed

LEMMA DurableStep ==
    ASSUME TypeOK, ReceiptInv, [Next]_vars
    PROVE  ReceiptDurable' /\ NoFalseRegression'
<1> SUFFICES ASSUME restores' = 0
             PROVE  /\ \A c \in Calls : out'[c].kind = "recorded" =>
                          CommittedAs(out[c].entry, KeyOf(c), ContentOf(c))'
                    /\ \A c \in Calls : out'[c].kind \notin Regressions /\ err'[c] \notin Regressions
  BY DEF ReceiptDurable, NoFalseRegression, CommittedAs, Regressions
<1>p. \A c \in Calls : c \in Procs
  BY ProcFacts
<1>1. ~RestoreJournal /\ restores = 0
  BY StepFacts DEF RestoreJournal, TypeOK, JournalType
<1>2. Grows
  BY <1>1, StepFacts, GrowsFacts
<1>3. \A d, k, x : CommittedAs(d, k, x) => CommittedAs(d, k, x)'
  BY <1>2, OnGrows
<1>4. \A c \in Calls : out[c].kind = "recorded" => CommittedAs(out[c].entry, KeyOf(c), ContentOf(c))
  BY <1>1 DEF ReceiptInv, ReceiptDurable, CommittedAs
<1>5. ASSUME NEW c \in Calls, NEW d \in Acts, Justified(c, d)
      PROVE  CommittedAs(d, KeyOf(c), ContentOf(c))
  <2>1. CASE pc[c] = "result" /\ at[c].res.kind = "appended" /\ d = at[c].res.digest
    <3>1. PICK n \in 1..Len(log) : d = HeadAt(n) /\ log[n].by = c
      BY <1>1, <1>p, <2>1 DEF ReceiptInv, RepliesOn
    <3> QED BY <3>1 DEF CommittedAs
  <2>2. ASSUME NEW x \in Existing(KeyOf(c)), d = x.digest, d # <<>>, x.content = ContentOf(c)
        PROVE  CommittedAs(d, KeyOf(c), ContentOf(c))
    BY <2>2, ExistingOn DEF CommittedAs
  <2>3. ASSUME NEW x \in at[c].res.found, pc[c] = "result", at[c].res.kind = "existing",
               d = x.digest, d # <<>>, x.content = ContentOf(c)
        PROVE  CommittedAs(d, KeyOf(c), ContentOf(c))
    BY <1>1, <1>p, <2>3 DEF ReceiptInv, RepliesOn
  <2> QED BY <1>5, <2>1, <2>2, <2>3 DEF Justified
<1>6. ASSUME NEW c \in Calls, out'[c].kind = "recorded"
      PROVE  CommittedAs(out'[c].entry, KeyOf(c), ContentOf(c))
  BY <1>4, <1>5, <1>6, StepFacts DEF Telling, TypeOK, ProcessType, Outcome
<1>7. \A c \in Calls : out'[c].kind = "recorded" => CommittedAs(out[c].entry, KeyOf(c), ContentOf(c))'
  BY <1>3, <1>6 DEF CommittedAs
<1>8. \A c \in Calls : out'[c].kind \notin Regressions /\ err'[c] \notin Regressions
  <2>1. \A c \in Calls : out[c].kind \notin Regressions /\ err[c] \notin Regressions
    BY <1>1 DEF ReceiptInv, NoFalseRegression, Regressions
  <2>2. ~ \E p \in Procs : LooksRegressed(p)
    BY <1>1, NotRegressed
  <2> QED BY <2>1, <2>2, StepFacts DEF Accusing
<1> QED BY <1>7, <1>8

LEMMA ReceiptInvInit == Init => ReceiptInv
<1> SUFFICES ASSUME Init PROVE ReceiptInv
  OBVIOUS
<1>1. Len(log) = 0 /\ HeadAt(0) = <<>> /\ On(<<>>)
  BY DEF Init, HeadAt, On
<1>p. \A r \in Recorders : r \in Procs
  BY ProcFacts
<1>q. \A c \in Calls : c \in Procs
  BY ProcFacts
<1>2. HeadsSpell /\ HeadsOn
  BY <1>1 DEF Init, HeadsSpell, HeadsOn, NoAttempt, NoResult
<1>3. RepliesOn /\ SignedOnce
  BY <1>1, <1>q DEF Init, RepliesOn, SignedOnce, NoOutcome
<1>4. ReceiptDurable /\ NoFalseRegression
  BY DEF Init, ReceiptDurable, NoFalseRegression, NoOutcome
<1> QED BY <1>2, <1>3, <1>4 DEF ReceiptInv

LEMMA ReceiptInvStep ==
    ASSUME TypeOK, ReceiptInv, [Next]_vars
    PROVE  ReceiptInv'
BY SpellStep, HeadsOnStep, RepliesOnStep, SignedOnceStep, DurableStep DEF ReceiptInv

-----------------------------------------------------------------------------
(* Restores between attempts: no replica vouches twice for one place.      *)

LEMMA HeadCoversStep ==
    ASSUME TypeOK, HeadCovers, [Next]_vars
    PROVE  HeadCovers'
<1> SUFFICES ASSUME NEW q \in Procs, pc'[q] = "append"
             PROVE  Len(at'[q].committed) <= Len(at'[q].head)
  BY DEF HeadCovers
<1>1. CASE pc[q] = "append" /\ at'[q] = at[q]
  BY <1>1 DEF HeadCovers
<1>2. CASE HeadRead(q)
  <2>1. PICK h \in ReadableHeads : at'[q].head = HigherHead(at[q].committed, h)
    BY <1>2 DEF HeadRead
  <2>2. h \in Acts /\ at[q].committed \in Acts
    BY HeadFacts DEF TypeOK, ProcessType, AttemptType
  <2>3. Len(h) \in Nat /\ Len(at[q].committed) \in Nat
    BY <2>2 DEF Acts
  <2> QED BY <1>2, <2>1, <2>3 DEF HeadRead, HigherHead
<1>3. CASE RestoreJournal
  BY <1>1, <1>3 DEF RestoreJournal
<1>4. CASE ~RestoreJournal
  <2>1. Goes(q)
    BY <1>4, StepFacts, GoesFacts
  <2>2. ~CompareAndAppend(q)
    BY CasFacts
  <2> QED BY <1>1, <1>2, <2>1, <2>2 DEF Goes, Snapped, AttemptPoints
<1> QED BY <1>3, <1>4

\* A receipt for an entry of the caller's own is there already, or comes from the reply
\* to its append.
LEMMA NewOwn ==
    ASSUME TypeOK, ReceiptInv, [Next]_vars, NEW c \in Calls, Own(c)'
    PROVE  \/ Own(c) /\ out'[c] = out[c]
           \/ /\ Pending(c) /\ out'[c].entry = at[c].res.digest
              /\ committed' = Raise(committed, RecorderOf(c), at[c].res.digest)
              /\ ~Own(c) /\ \A d \in Calls : d # c => out'[d] = out[d]
<1>p. \A d \in Calls : d \in Procs
  BY ProcFacts
<1>1. CASE out'[c] = out[c]
  BY <1>1 DEF Own
<1>2. CASE out'[c] # out[c]
  <2>1. PICK e \in Calls, d \in Acts : /\ pc[e] # "done" /\ Justified(e, d)
                                       /\ out' = [out EXCEPT ![e] = Outcome("recorded", d)]
    BY <1>2, StepFacts DEF Telling, Own
  <2>2. e = c /\ (\A f \in Calls : f # c => out'[f] = out[f]) /\ out'[c] = Outcome("recorded", d)
    BY <1>2, <2>1 DEF TypeOK, ProcessType
  <2>3. SignerOf(d) = c /\ out'[c].entry = d
    BY <2>2 DEF Own, Outcome
  <2>4. ~Own(c)
    BY <2>1, <2>2 DEF ReceiptInv, SignedOnce, Own
  <2>5. ASSUME NEW x \in Existing(KeyOf(c)), d = x.digest, d # <<>>, pc[c] \in {"lookup", "relookup"}
        PROVE  FALSE
    <3>1. Spent(c)
      BY <2>3, <2>5, ExistingOn DEF ReceiptInv, SignedOnce
    <3> QED BY <2>5, <3>1 DEF Spent, Past
  <2>6. ASSUME NEW x \in at[c].res.found, d = x.digest, d # <<>>, pc[c] = "result",
               at[c].res.kind = "existing"
        PROVE  FALSE
    BY <2>3, <2>6 DEF ReceiptInv, SignedOnce
  <2> QED BY <2>1, <2>2, <2>3, <2>4, <2>5, <2>6 DEF Justified, Pending
<1> QED BY <1>1, <1>2

\* In steady operation the reply to an append is still the journal's entry.
LEMMA PendingOn ==
    ASSUME TypeOK, ReceiptInv, Steady, NEW p \in Procs, Pending(p)
    PROVE  \E n \in 1..Len(log) : /\ at[p].res.digest = HeadAt(n) /\ log[n].by = p
                                  /\ Len(at[p].res.digest) = n
<1>1. PICK n \in 1..Len(log) : at[p].res.digest = HeadAt(n) /\ log[n].by = p
  BY DEF Pending, ReceiptInv, RepliesOn, Steady
<1>2. n \in 0..Len(log)
  BY EntryFacts DEF TypeOK
<1> QED BY <1>1, <1>2 DEF ReceiptInv, HeadsSpell

\* The committed head of a replica that lives on only rises, and to a head the journal has.
LEMMA CommittedRises ==
    ASSUME TypeOK, ReceiptInv, Steady, [Next]_vars, NEW r \in Recorders
    PROVE  /\ Len(committed[r]) \in Nat /\ Len(committed'[r]) \in Nat
           /\ Len(committed[r]) <= Len(committed'[r])
           /\ committed'[r] = committed[r] \/ (Len(committed'[r]) <= Len(log) /\ Len(log) <= Len(log'))
<1>1. Len(committed[r]) \in Nat
  BY DEF TypeOK, MemoryType, Acts
<1>2. CASE committed'[r] = committed[r]
  BY <1>1, <1>2
<1>3. CASE committed'[r] # committed[r]
  <2>1. PICK p \in Procs : /\ Pending(p) /\ Going(p)
                           /\ committed' = Raise(committed, RecorderOf(p), at[p].res.digest)
                           /\ CompareAndAppend(p) \/ UNCHANGED log
    BY <1>3, StepFacts DEF Remembering, Pending, Steady
  <2>2. committed'[r] = HigherHead(committed[r], at[p].res.digest)
    BY <1>3, <2>1 DEF Raise, TypeOK, MemoryType
  <2>3. PICK n \in 1..Len(log) : Len(at[p].res.digest) = n
    BY <2>1, PendingOn
  <2>4. Len(log) \in Nat /\ Len(log') \in Nat /\ Len(log) <= Len(log')
    BY <2>1, GrowsFacts DEF Grows
  <2> QED BY <1>1, <1>3, <2>2, <2>3, <2>4 DEF HigherHead
<1> QED BY <1>2, <1>3

LEMMA SteadyStep ==
    ASSUME TypeOK, ReceiptInv, ReceiptInv', HeadCovers, SteadyInv, [Next]_vars
    PROVE  SteadyInv'
<1>s. Steady' = Steady
  BY StepFacts DEF Steady, QuietRestores, Faults
<1> SUFFICES ASSUME Steady PROVE SteadyInv'
  BY <1>s DEF SteadyInv
<1>p. \A d \in Calls : d \in Procs /\ RecorderOf(d) \in Recorders
  BY ProcFacts
<1>1. \A c \in Calls : Own(c)' => Len(out'[c].entry) <= Len(committed'[RecorderOf(c)])
  <2> SUFFICES ASSUME NEW c \in Calls, Own(c)'
               PROVE  Len(out'[c].entry) <= Len(committed'[RecorderOf(c)])
    OBVIOUS
  <2>1. /\ Len(committed[RecorderOf(c)]) \in Nat /\ Len(committed'[RecorderOf(c)]) \in Nat
        /\ Len(committed[RecorderOf(c)]) <= Len(committed'[RecorderOf(c)])
    BY <1>p, CommittedRises
  <2>2. CASE Own(c) /\ out'[c] = out[c]
    <3>1. Len(out[c].entry) \in Nat
      BY DEF TypeOK, ProcessType, OutcomeType, Acts
    <3> QED BY <2>1, <2>2, <3>1 DEF SteadyInv
  <2>3. CASE /\ Pending(c) /\ out'[c].entry = at[c].res.digest
             /\ committed' = Raise(committed, RecorderOf(c), at[c].res.digest)
    <3>1. committed'[RecorderOf(c)] = HigherHead(committed[RecorderOf(c)], at[c].res.digest)
      BY <1>p, <2>3 DEF Raise, TypeOK, MemoryType
    <3>2. Len(at[c].res.digest) \in Nat
      BY <1>p, <2>3, PendingOn
    <3> QED BY <2>1, <2>3, <3>1, <3>2 DEF HigherHead
  <2> QED BY <2>2, <2>3, NewOwn
<1>2. \A p \in Procs : pc'[p] \in {"head", "append"} =>
          \/ Len(committed'[RecorderOf(p)]) <= Len(at'[p].committed)
          \/ Len(committed'[RecorderOf(p)]) <= Len(log')
  <2> SUFFICES ASSUME NEW p \in Procs, pc'[p] \in {"head", "append"}
               PROVE  \/ Len(committed'[RecorderOf(p)]) <= Len(at'[p].committed)
                      \/ Len(committed'[RecorderOf(p)]) <= Len(log')
    OBVIOUS
  <2> DEFINE r == RecorderOf(p)
  <2>1. r \in Recorders
    BY ProcFacts
  <2>2. /\ Len(committed[r]) \in Nat /\ Len(committed'[r]) \in Nat
        /\ committed'[r] = committed[r] \/ (Len(committed'[r]) <= Len(log) /\ Len(log) <= Len(log'))
    BY <2>1, CommittedRises
  <2>3. Len(log) \in Nat /\ Len(log') \in Nat
    <3>1. CASE RestoreJournal
      BY <3>1, RestoreFacts, EntryFacts DEF TypeOK
    <3>2. CASE ~RestoreJournal
      BY <3>2, StepFacts, GrowsFacts DEF Grows
    <3> QED BY <3>1, <3>2
  <2>4. CASE committed'[r] # committed[r]
    BY <2>2, <2>3, <2>4
  <2>5. CASE committed'[r] = committed[r] /\ pc[p] \in {"head", "append"}
             /\ at'[p].committed = at[p].committed
    <3>1. ~RestoreJournal
      BY <2>5 DEF RestoreJournal, Attempting, Steady, QuietRestores
    <3>2. Len(log) <= Len(log')
      BY <3>1, StepFacts, GrowsFacts DEF Grows
    <3> QED BY <2>2, <2>3, <2>5, <3>2 DEF SteadyInv
  <2>6. CASE committed'[r] = committed[r] /\ Snapped(p)
    BY <2>2, <2>6 DEF Snapped
  <2>7. CASE RestoreJournal
    BY <2>7, StepFacts DEF RestoreJournal, Attempting, Steady, QuietRestores
  <2>8. CASE ~RestoreJournal
    <3>1. Goes(p) /\ ~CompareAndAppend(p)
      BY <2>8, StepFacts, GoesFacts, CasFacts
    <3> QED BY <2>4, <2>5, <2>6, <3>1 DEF Goes, HeadRead, AttemptPoints
  <2> QED BY <2>7, <2>8
<1>3. ASSUME NEW c \in Calls, NEW d \in Calls, Own(c)', Pending(d)', RecorderOf(c) = RecorderOf(d)
      PROVE  Len(out'[c].entry) # Len(at'[d].res.digest)
  <2>1. CASE Own(c) /\ out'[c] = out[c] /\ Pending(d) /\ at'[d] = at[d]
    BY <1>3, <2>1 DEF SteadyInv
  <2>2. CASE Pending(c) /\ out'[c].entry = at[c].res.digest /\ Pending(d) /\ at'[d] = at[d]
    <3>1. c # d
      BY <1>3 DEF ReceiptInv, SignedOnce, Own, Pending
    <3>2. PICK n \in 1..Len(log) : log[n].by = c /\ Len(at[c].res.digest) = n
      BY <1>p, <2>2, PendingOn
    <3>3. PICK m \in 1..Len(log) : log[m].by = d /\ Len(at[d].res.digest) = m
      BY <1>p, <2>2, PendingOn
    <3> QED BY <2>2, <3>1, <3>2, <3>3
  <2>3. CASE CompareAndAppend(d)
    <3>1. /\ log' = Append(log, Candidate(d)) /\ at[d].head = JournalHead
          /\ at'[d].res.digest = Digest(Candidate(d)) /\ pc[d] = "append" /\ UNCHANGED out
      BY <1>p, <1>3, <2>3, CasFacts DEF CasReply, Pending
    <3>2. Own(c) /\ out'[c] = out[c]
      BY <1>3, <3>1 DEF Own
    <3>3. Len(at'[d].res.digest) = Len(log) + 1 /\ Len(log) \in Nat
      <4>1. /\ Digest(Candidate(d)) = Append(HeadAt(Len(log)), d)
            /\ HeadAt(Len(log)) \in Acts /\ Len(HeadAt(Len(log))) = Len(log) /\ Len(log) \in Nat
        BY <1>p, <3>1, CandidateFacts, HeadFacts, EntryFacts DEF TypeOK, ReceiptInv, HeadsSpell
      <4> QED BY <3>1, <4>1 DEF Acts
    <3>4. Len(out[c].entry) <= Len(committed[RecorderOf(d)])
      BY <1>3, <3>2 DEF SteadyInv
    <3>5. \/ Len(committed[RecorderOf(d)]) <= Len(at[d].committed)
          \/ Len(committed[RecorderOf(d)]) <= Len(log)
      BY <1>p, <3>1 DEF SteadyInv
    <3>6. Len(at[d].committed) <= Len(log)
      BY <1>p, <3>1, OnLength DEF HeadCovers, ReceiptInv
    <3>7. Len(out[c].entry) \in Nat /\ Len(committed[RecorderOf(d)]) \in Nat /\ Len(at[d].committed) \in Nat
      BY <1>p DEF TypeOK, ProcessType, OutcomeType, MemoryType, AttemptType, Acts
    <3> QED BY <3>2, <3>3, <3>4, <3>5, <3>6, <3>7
  <2>4. \/ CompareAndAppend(d)
        \/ Pending(d) /\ at'[d] = at[d]
    BY <1>p, <1>3, Waiting DEF Pending
  <2> QED BY <1>3, <2>1, <2>2, <2>3, <2>4, NewOwn
<1>4. ASSUME NEW c \in Calls, NEW d \in Calls, Own(c)', Own(d)', RecorderOf(c) = RecorderOf(d),
             Len(out'[c].entry) = Len(out'[d].entry)
      PROVE  c = d
  <2>1. CASE Own(c) /\ out'[c] = out[c] /\ Own(d) /\ out'[d] = out[d]
    BY <1>4, <2>1 DEF SteadyInv, NoSecondReceipt, Own
  <2>2. CASE Own(c) /\ out'[c] = out[c] /\ Pending(d) /\ out'[d].entry = at[d].res.digest
    BY <1>4, <2>2 DEF SteadyInv
  <2>3. CASE Own(d) /\ out'[d] = out[d] /\ Pending(c) /\ out'[c].entry = at[c].res.digest
    BY <1>4, <2>3 DEF SteadyInv
  <2>4. CASE /\ ~Own(c) /\ ~Own(d)
             /\ \A e \in Calls : e # c => out'[e] = out[e]
    BY <1>4, <2>4 DEF Own
  <2> QED BY <1>4, <2>1, <2>2, <2>3, <2>4, NewOwn
<1>5. NoSecondReceipt'
  BY <1>4 DEF NoSecondReceipt, Own
<1> QED BY <1>1, <1>2, <1>3, <1>5 DEF SteadyInv

-----------------------------------------------------------------------------
(* The theorems.                                                           *)

LEMMA SteadyInit == Init => HeadCovers /\ SteadyInv
<1> SUFFICES ASSUME Init PROVE HeadCovers /\ SteadyInv
  OBVIOUS
<1>1. \A c \in Calls : ~Own(c)
  BY DEF Init, Own, NoOutcome
<1>2. NoSecondReceipt
  BY <1>1 DEF NoSecondReceipt, Own
<1>3. \A p \in Procs : pc[p] = "idle"
  BY DEF Init
<1> QED BY <1>1, <1>2, <1>3 DEF HeadCovers, SteadyInv

LEMMA ReceiptsCorrect == Spec => [](ReceiptInv /\ HeadCovers /\ SteadyInv)
<1>1. Init => ReceiptInv /\ HeadCovers /\ SteadyInv
  BY ReceiptInvInit, SteadyInit
<1>2. TypeOK /\ ReceiptInv /\ HeadCovers /\ SteadyInv /\ [Next]_vars
        => (ReceiptInv /\ HeadCovers /\ SteadyInv)'
  BY ReceiptInvStep, HeadCoversStep, SteadyStep
<1> QED BY <1>1, <1>2, TypeCorrect, PTL DEF Spec

\* While the journal only grew, two receipts for one place are for one entry.
LEMMA DurableUnique ==
    ASSUME TypeOK, ReceiptInv, restores = 0
    PROVE  NoSecondReceipt
<1> SUFFICES ASSUME NEW c \in Calls, NEW d \in Calls, Own(c), Own(d),
                    Len(out[c].entry) = Len(out[d].entry)
             PROVE  c = d
  BY DEF NoSecondReceipt, Own
<1>1. PICK n \in 1..Len(log) : out[c].entry = HeadAt(n)
  BY DEF ReceiptInv, ReceiptDurable, Own
<1>2. PICK m \in 1..Len(log) : out[d].entry = HeadAt(m)
  BY DEF ReceiptInv, ReceiptDurable, Own
<1>3. n \in 0..Len(log) /\ m \in 0..Len(log)
  BY EntryFacts DEF TypeOK
<1>4. n = m
  BY <1>1, <1>2, <1>3 DEF ReceiptInv, HeadsSpell
<1> QED BY <1>1, <1>2, <1>4 DEF Own

\* A journal may be restored only between append attempts, and only under replicas that
\* live on: a replica that lost its memory, or whose attempt a restore overtakes, has
\* nothing to compare the restored head with.
RestoresAreQuiet ==
    \A s \in Settings : "restore" \in s.faults => "quiet" \in s.faults /\ "crash" \notin s.faults

\* Under that condition, and without any when no journal is restored: an event identity
\* is committed once; what a caller was told is a committed entry of its own event for
\* as long as the journal is not restored; and one replica never vouches for two entries
\* at one place (submitAuthenticated, appendEvent, compareAndAppend).
THEOREM ReceiptsAreHonoured ==
    ASSUME RestoresAreQuiet
    PROVE  Spec => []ReceiptsHold
<1> DEFINE Quiet == Restores => Steady
<1>1. Init => Quiet
  BY DEF Init, RestoresAreQuiet, Restores, Steady, QuietRestores, Faults
<1>2. Quiet /\ [Next]_vars => Quiet'
  BY DEF Next, vars, Restores, Steady, QuietRestores, Faults
<1>3. TypeOK /\ ReceiptInv /\ SteadyInv /\ ExactlyOnce /\ Quiet => ReceiptsHold
  BY DurableUnique DEF ReceiptsHold, ReceiptInv, SignedOnce, SteadyInv
<1> HIDE DEF Quiet
<1> QED BY <1>1, <1>2, <1>3, ReceiptsCorrect, ChainCorrect, TypeCorrect, PTL DEF Spec

\* No race, retry, stale read or late answer ever makes assertNoRegression reject a
\* journal that only moved forward, whatever the faults and however many the replicas.
THEOREM NeverFalselyRegressed == Spec => []NoFalseRegression
<1>1. ReceiptInv => NoFalseRegression
  BY DEF ReceiptInv
<1> QED BY <1>1, ReceiptsCorrect, PTL

-----------------------------------------------------------------------------
(* The abstract ledger.  A step of the recorder commits an entry, hands    *)
(* out one receipt, or is invisible.                                       *)

\* The history of AuditLedger and the receipts of its callers.
History == [i \in 1..Len(log) |-> log[i].by]
Receipts == [c \in Calls |-> IF out[c].kind = "recorded" THEN out[c].entry ELSE <<>>]

\* The head of the journal is its history, and a head of n entries the first n of it.
LEMMA HistoryFacts ==
    ASSUME TypeOK, HeadsSpell
    PROVE  /\ History = JournalHead /\ Len(History) = Len(log) /\ Len(log) \in Nat
           /\ \A n \in 0..Len(log) : HeadAt(n) = SubSeq(History, 1, n)
<1>1. Len(log) \in Nat /\ JournalHead \in Seq(Procs)
  BY EntryFacts, HeadFacts DEF TypeOK, Acts
<1>2. Len(JournalHead) = Len(log) /\ \A i \in 1..Len(log) : JournalHead[i] = log[i].by
  BY <1>1 DEF JournalHead, HeadsSpell
<1>3. History = JournalHead
  <2>1. JournalHead \in [1..Len(log) -> Procs]
    BY <1>1, <1>2, LenProperties
  <2> QED BY <1>2, <2>1 DEF History
<1>4. ASSUME NEW n \in 0..Len(log) PROVE HeadAt(n) = SubSeq(History, 1, n)
  <2>1. HeadAt(n) \in Seq(Procs) /\ Len(HeadAt(n)) = n /\ \A i \in 1..n : HeadAt(n)[i] = log[i].by
    BY HeadFacts DEF TypeOK, Acts, HeadsSpell
  <2>2. \A i \in 1..n : History[i] = log[i].by /\ History[i] \in Procs
    BY <1>1, EntryFacts DEF History, TypeOK
  <2>3. /\ SubSeq(History, 1, n) \in Seq(Procs) /\ Len(SubSeq(History, 1, n)) = n
        /\ \A i \in 1..n : SubSeq(History, 1, n)[i] = History[i]
    <3>1. n \in Int /\ 1 \in Int /\ n \in Nat
      BY <1>1
    <3>2. /\ SubSeq(History, 1, n) \in Seq(Procs)
          /\ Len(SubSeq(History, 1, n)) = IF 1 <= n THEN n - 1 + 1 ELSE 0
          /\ \A i \in 1 .. n - 1 + 1 : SubSeq(History, 1, n)[i] = History[1 + i - 1]
      BY <2>2, <3>1, SubSeqProperties
    <3> QED BY <3>1, <3>2
  <2> QED BY <2>1, <2>2, <2>3, SeqEqual
<1> QED BY <1>1, <1>2, <1>3, <1>4

\* An append is the abstract commit of its signer's event.
LEMMA CommitRefined ==
    ASSUME TypeOK, ReceiptInv, ReceiptInv', TypeOK', CandidatePosition,
           NEW q \in Procs, CompareAndAppend(q), log' # log
    PROVE  Ledger!Commit(q) /\ q \in Recorders \cup Calls
<1>1. /\ log' = Append(log, Candidate(q)) /\ at[q].head = JournalHead /\ Existing(KeyOf(q)) = {}
      /\ pc[q] = "append" /\ UNCHANGED out
  BY CasFacts DEF CasReply
<1>2. History = JournalHead /\ Len(History) = Len(log) /\ Len(log) \in Nat
  BY HistoryFacts DEF ReceiptInv
<1>3. /\ Len(log') = Len(log) + 1 /\ log'[Len(log) + 1].by = q
      /\ \A i \in 1..Len(log) : log'[i] = log[i]
  BY <1>1, <1>2, EntryFacts, CandidateFacts DEF TypeOK
<1>5. History' = Append(History, q)
  <2>1. History \in Seq(Procs)
    BY <1>2, HeadFacts DEF TypeOK, Acts
  <2>2. /\ Append(History, q) \in Seq(Procs) /\ Len(Append(History, q)) = Len(log) + 1
        /\ \A i \in 1..Len(log) : Append(History, q)[i] = History[i]
        /\ Append(History, q)[Len(log) + 1] = q
    BY <1>2, <2>1, AppendProperties
  <2>3. Append(History, q) = [i \in 1..Len(log) + 1 |-> Append(History, q)[i]]
    BY <2>2, LenProperties
  <2>4. History' = [i \in 1..Len(log) + 1 |-> log'[i].by]
    BY <1>3 DEF History
  <2>5. ASSUME NEW i \in 1..Len(log) + 1 PROVE Append(History, q)[i] = log'[i].by
    <3>1. CASE i = Len(log) + 1
      BY <1>3, <2>2, <3>1
    <3>2. CASE i \in 1..Len(log)
      <4>1. History[i] = log[i].by
        BY <3>2 DEF History
      <4> QED BY <1>3, <2>2, <3>2, <4>1
    <3> QED BY <1>2, <3>1, <3>2
  <2> QED BY <2>3, <2>4, <2>5
<1>6. q \in Recorders <=> History = <<>>
  BY <1>1, <1>2 DEF CandidatePosition
<1>7. \A i \in 1..Len(History) : KeyOf(History[i]) # KeyOf(q)
  <2>1. \A i \in 1..Len(log) : KeyOf(log[i].by) # KeyOf(q)
    BY <1>1, ExistingEmpty
  <2> QED BY <1>2, <2>1 DEF History
<1>8. UNCHANGED Receipts
  BY <1>1 DEF Receipts
<1> QED BY <1>5, <1>6, <1>7, <1>8 DEF Ledger!Commit, History, Receipts, Procs

\* A new receipt is the abstract acknowledgement of its caller.
LEMMA AcknowledgeRefined ==
    ASSUME TypeOK, ReceiptInv, ReceiptInv', TypeOK', restores' = 0, UNCHANGED log,
           NEW c \in Calls, NEW d \in Acts, pc[c] # "done",
           out' = [out EXCEPT ![c] = Outcome("recorded", d)]
    PROVE  Ledger!Acknowledge(c)
<1>1. out[c].kind # "recorded" /\ out \in [Calls -> OutcomeType]
  BY DEF ReceiptInv, SignedOnce, TypeOK, ProcessType
<1>2. Receipts[c] = <<>>
  BY <1>1 DEF Receipts
<1>3. out'[c] = Outcome("recorded", d) /\ \A e \in Calls : e # c => out'[e] = out[e]
  BY <1>1
<1>4. Receipts' = [Receipts EXCEPT ![c] = d]
  <2>1. Receipts'[c] = d /\ \A e \in Calls : e # c => Receipts'[e] = Receipts[e]
    BY <1>3 DEF Receipts, Outcome
  <2>2. Receipts = [e \in Calls |-> Receipts[e]] /\ Receipts' = [e \in Calls |-> Receipts'[e]]
    BY DEF Receipts
  <2> HIDE DEF Receipts
  <2> QED BY <2>1, <2>2
<1>5. PICK n \in 1..Len(log) : /\ d = HeadAt(n)
                               /\ KeyOf(log[n].by) = KeyOf(c) /\ ContentOf(log[n].by) = ContentOf(c)
  <2>1. \A n : HeadAt(n)' = HeadAt(n)
    BY DEF HeadAt, Digest
  <2> QED BY <1>3, <2>1 DEF ReceiptInv, ReceiptDurable, Outcome
<1>6. /\ Len(History) = Len(log) /\ Len(log) \in Nat /\ UNCHANGED History
      /\ d = SubSeq(History, 1, n) /\ History[n] = log[n].by
  <2>1. n \in 0..Len(log) /\ History[n] = log[n].by
    BY EntryFacts DEF TypeOK, History
  <2> QED BY <1>5, <2>1, HistoryFacts DEF ReceiptInv, History
<1> QED BY <1>2, <1>4, <1>5, <1>6 DEF Ledger!Acknowledge, History, Receipts

LEMMA LedgerStep ==
    ASSUME TypeOK, TypeOK', ReceiptInv, ReceiptInv', CandidatePosition, restores' = 0, [Next]_vars
    PROVE  [Ledger!Next]_(Ledger!vars)
<1>1. ~RestoreJournal
  BY DEF RestoreJournal, TypeOK, JournalType
<1>2. CASE log' # log
  <2>1. PICK q \in Procs : CompareAndAppend(q)
    BY <1>1, <1>2, StepFacts
  <2>2. Ledger!Commit(q) /\ q \in Recorders \cup Calls
    BY <1>2, <2>1, CommitRefined
  <2> QED BY <2>2 DEF Ledger!Next
<1>3. CASE UNCHANGED log
  <2>1. CASE \A c \in Calls : \/ out'[c] = out[c]
                              \/ pc[c] # "done" /\ out'[c].kind # "recorded"
    <3>1. \A c \in Calls : out'[c] = out[c] \/ (out[c].kind # "recorded" /\ out'[c].kind # "recorded")
      BY <2>1 DEF ReceiptInv, SignedOnce
    <3>2. UNCHANGED <<History, Receipts>>
      BY <1>3, <3>1 DEF History, Receipts
    <3> QED BY <3>2 DEF Ledger!vars, History, Receipts
  <2>2. ASSUME NEW c \in Calls, NEW d \in Acts, pc[c] # "done",
               out' = [out EXCEPT ![c] = Outcome("recorded", d)]
        PROVE  [Ledger!Next]_(Ledger!vars)
    <3>1. Ledger!Acknowledge(c)
      BY <1>3, <2>2, AcknowledgeRefined
    <3> QED BY <3>1 DEF Ledger!Next
  <2> QED BY <2>1, <2>2, StepFacts DEF Telling
<1> QED BY <1>2, <1>3

\* While its journal is not restored the recorder implements the abstract ledger: any
\* number of replicas, retries, races, stale reads, lost replies and crashes amount to
\* one append-only history with idempotent receipts.
THEOREM RecorderImplementsLedger ==
    ASSUME \A s \in Settings : "restore" \notin s.faults
    PROVE  Spec => ImplementsLedger
<1> DEFINE Kept == ~Restores
<1>1. Init => Kept
  BY DEF Init, Restores, Faults
<1>2. Kept /\ [Next]_vars => Kept'
  BY DEF Next, vars, Restores, Faults
<1>3. Init => CandidatePosition
  BY DEF Init, CandidatePosition
<1>4. TypeOK /\ CandidatePosition /\ [Next]_vars => CandidatePosition'
  BY PositionStep
<1>5. Init => Ledger!Init
  <2> SUFFICES ASSUME Init PROVE Ledger!Init
    OBVIOUS
  <2>1. log = <<>> /\ \A c \in Calls : out[c].kind # "recorded"
    BY DEF Init, NoOutcome
  <2>2. History = <<>> /\ Receipts = [c \in Calls |-> <<>>]
    <3>1. TypeOK /\ HeadsSpell
      BY InitType, ReceiptInvInit DEF ReceiptInv
    <3>2. JournalHead = <<>>
      BY <2>1 DEF JournalHead, HeadAt
    <3> QED BY <2>1, <3>1, <3>2, HistoryFacts DEF Receipts
  <2> QED BY <2>2 DEF Ledger!Init, History, Receipts
<1> DEFINE Once == restores = 0
<1>6. ReceiptInv /\ Kept => Once
  BY DEF ReceiptInv, SignedOnce
<1> DEFINE Inv == TypeOK /\ ReceiptInv /\ CandidatePosition /\ Once
<1>7. Inv /\ Inv' /\ [Next]_vars => [Ledger!Next]_(Ledger!vars)
  BY LedgerStep
<1> HIDE DEF Kept, Once
<1>8. Spec => []Kept
  BY <1>1, <1>2, PTL DEF Spec
<1>9. Spec => []CandidatePosition
  BY <1>3, <1>4, TypeCorrect, PTL DEF Spec
<1>10. Spec => []Inv
  BY <1>6, <1>8, <1>9, ReceiptsCorrect, TypeCorrect, PTL
<1>11. Spec => [][Ledger!Next]_(Ledger!vars)
  <2> HIDE DEF Inv
  <2> QED BY <1>7, <1>10, PTL DEF Spec
<1>12. Spec => Ledger!Init
  BY <1>5 DEF Spec
<1> QED BY <1>11, <1>12 DEF ImplementsLedger, Ledger!Spec
=============================================================================
