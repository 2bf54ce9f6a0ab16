--------------------------- MODULE EvidenceStore ---------------------------
(***************************************************************************)
(* Encrypted evidence: WebCryptoEvidenceEncryptor and                      *)
(* MemoryAuditEvidenceProvider (src/src/audit/evidence.ts).  A read waits  *)
(* for the access policy and again for the access record, while puts,      *)
(* legal holds and disposals go on.  AuditRecorder has the part of this    *)
(* store that the recorder calls.                                          *)
(*                                                                         *)
(* A ciphertext is the record of what went into it, and its digest is the  *)
(* ciphertext; sealing draws a nonce and an object id nobody drew before.  *)
(***************************************************************************)
EXTENDS Naturals, FiniteSets

CONSTANTS
    Plaintexts,      \* what may be sealed
    SealingKeys,     \* keys, as [name, algorithm]
    EntityData,      \* authenticated data of an entity; "" is none
    MaxSealed,       \* bound on the objects sealed
    EvidenceReaders, \* calls of get
    HoldIds          \* ids of legal holds

ASSUME SealedAssumption == MaxSealed \in Nat

VARIABLES
    sealed,    \* the inputs encrypt returned: [ref, ciphertext]
    states,    \* states[id]: {} or {[ref, bytes, holds]}, bytes {} once disposed
    granted,   \* holds granted while the bytes were there and not released since
    access     \* access[r]: [stage, ref, reported, bytes] of a call of get

evidenceVars == <<sealed, states, granted, access>>

ObjectIds == 1 .. MaxSealed
NoRef == [objectId |-> 0]
NoAccess == [stage |-> "idle", ref |-> NoRef, reported |-> "nothing", bytes |-> {}]

EvidenceInit ==
    /\ sealed = {} /\ granted = {}
    /\ states = [id \in ObjectIds |-> {}]
    /\ access = [r \in EvidenceReaders |-> NoAccess]

-----------------------------------------------------------------------------
(* Sealing.                                                                *)

\* encrypt: {} when it refuses the key or the authenticated data.
encrypt(plain, key, aad, id) ==
    LET bytes == [plain |-> plain, key |-> key, aad |-> aad, nonce |-> id]
    IN IF key.algorithm # "AES-GCM" \/ aad = "" THEN {}
       ELSE {[ciphertext |-> bytes,
              ref |-> [objectId |-> id, ciphertextDigest |-> bytes, size |-> 1, nonce |-> id,
                       aadDigest |-> aad]]}

\* decrypt: {} for every integrity error.
decrypt(input, key, aad) ==
    LET bytes == input.ciphertext
        ref == input.ref
    IN IF aad # "" /\ ref.ciphertextDigest = bytes /\ ref.aadDigest = aad
          /\ bytes.key = key /\ bytes.nonce = ref.nonce /\ bytes.aad = aad
       THEN {bytes.plain} ELSE {}

Seal ==
    /\ Cardinality(sealed) < MaxSealed
    /\ \E plain \in Plaintexts, key \in SealingKeys, aad \in EntityData :
         \E input \in encrypt(plain, key, aad, Cardinality(sealed) + 1) : sealed' = sealed \cup {input}
    /\ UNCHANGED <<states, granted, access>>

-----------------------------------------------------------------------------
(* Storing.                                                                *)

\* What may be presented: what was sealed, or its parts put together otherwise.
Presentable ==
    sealed
    \cup {[x EXCEPT !.ciphertext = y.ciphertext] : x, y \in sealed}
    \cup {[x EXCEPT !.ref.objectId = y.ref.objectId] : x, y \in sealed}
    \cup {[x EXCEPT !.ref.size = 2] : x \in sealed}

\* The digest is awaited, and the rest is one step.
Intact(input) == input.ciphertext = input.ref.ciphertextDigest /\ input.ref.size = 1

\* Mutant of Storable: what was disposed may be stored again.
StorableAgain(input) == \A s \in states[input.ref.objectId] : s.bytes = {}

\* An id that is known is not stored again; whatever differs from it, or was
\* disposed, is refused.
Storable(input) == states[input.ref.objectId] = {}

\* putIfAbsent, of an input that is not refused.
putEvidence(input) ==
    /\ input \in Presentable /\ Intact(input) /\ Storable(input)
    /\ states' = [states EXCEPT ![input.ref.objectId] =
                    {[ref |-> input.ref, bytes |-> {input.ciphertext}, holds |-> {}]}]
    /\ UNCHANGED <<sealed, granted, access>>

BytesOf(id) == UNION {s.bytes : s \in states[id]}

\* has.
has(ref) == BytesOf(ref.objectId) # {}

-----------------------------------------------------------------------------
(* Reading.                                                                *)

Refs == {x.ref : x \in Presentable}

\* get up to the access policy.
Get(r, ref) ==
    /\ access[r].stage = "idle" /\ ref \in Refs
    /\ access' = [access EXCEPT ![r].stage = "authorizing", ![r].ref = ref]
    /\ UNCHANGED <<sealed, states, granted>>

\* The policy decides.  The object is looked up after that, and the access is reported
\* as it is then; a denial is reported too.
Decide(r) ==
    /\ access[r].stage = "authorizing"
    /\ LET id == access[r].ref.objectId
           found == IF states[id] = {} THEN "missing" ELSE IF has(access[r].ref) THEN "found" ELSE "disposed"
       IN \E report \in {"denied", found} :
            access' = [access EXCEPT ![r].stage = "reporting", ![r].reported = report]
    /\ UNCHANGED <<sealed, states, granted>>

\* Mutant of Returned: what a missing object has become meanwhile is returned.
ReturnedNow(r) == BytesOf(access[r].ref.objectId)

\* What get returns: a copy of the bytes the object it looked up has by now.
Returned(r) ==
    IF access[r].reported \in {"denied", "missing"} THEN {} ELSE BytesOf(access[r].ref.objectId)

\* The report is made, or fails and with it the call.
Return(r) ==
    /\ access[r].stage = "reporting"
    /\ \E bytes \in {Returned(r), {}} :
         access' = [access EXCEPT ![r].stage = "done", ![r].bytes = bytes]
    /\ UNCHANGED <<sealed, states, granted>>

-----------------------------------------------------------------------------
(* Retention: applyRetention of a stored object.                           *)

legalHold(id, hold) ==
    /\ states[id] # {}
    /\ states' = [states EXCEPT ![id] = {[s EXCEPT !.holds = @ \cup {hold}] : s \in @}]
    /\ granted' = IF BytesOf(id) # {} THEN granted \cup {<<id, hold>>} ELSE granted
    /\ UNCHANGED <<sealed, access>>

\* Mutant of Released: a release ends every hold of the object.
ReleasedAll(holds, hold) == {}

Released(holds, hold) == holds \ {hold}

releaseHold(id, hold) ==
    /\ states[id] # {}
    /\ states' = [states EXCEPT ![id] = {[s EXCEPT !.holds = Released(@, hold)] : s \in @}]
    /\ granted' = granted \ {<<id, hold>>}
    /\ UNCHANGED <<sealed, access>>

\* A disposal is refused while a hold is active.
dispose(id) ==
    /\ states[id] # {} /\ \A s \in states[id] : s.holds = {}
    /\ states' = [states EXCEPT ![id] = {[s EXCEPT !.bytes = {}] : s \in @}]
    /\ UNCHANGED <<sealed, granted, access>>

EvidenceNext ==
    \/ Seal
    \/ \E input \in Presentable : putEvidence(input)
    \/ \E r \in EvidenceReaders : (\E ref \in Refs : Get(r, ref)) \/ Decide(r) \/ Return(r)
    \/ \E id \in ObjectIds :
         dispose(id) \/ \E hold \in HoldIds : legalHold(id, hold) \/ releaseHold(id, hold)

EvidenceSpec == EvidenceInit /\ [][EvidenceNext]_evidenceVars

-----------------------------------------------------------------------------
(* Properties.                                                             *)

Disposed(id) == states[id] # {} /\ BytesOf(id) = {}

\* Who opens what a read returned, with any key and any entity's data, finds what was
\* sealed for them under the reference they asked with, or an error.
OpensAsSealed ==
    \A r \in EvidenceReaders : \A bytes \in access[r].bytes, key \in SealingKeys, aad \in EntityData :
        LET opened == decrypt([ref |-> access[r].ref, ciphertext |-> bytes], key, aad) IN
        opened # {} => \E input \in sealed : /\ input.ref.ciphertextDigest = access[r].ref.ciphertextDigest
                                             /\ input.ciphertext.key = key /\ input.ref.aadDigest = aad
                                             /\ opened = {input.ciphertext.plain}

\* Evidence under a legal hold stays until that hold is released, whichever others are
\* released; what is disposed stays so, and no read that ends afterwards returns it,
\* although it may have been reported as found; a read returns bytes only with a report
\* that says so; and they open only as they were sealed (MemoryAuditEvidenceProvider,
\* WebCryptoEvidenceEncryptor).
EvidenceGoverned ==
    [][ /\ OpensAsSealed
        /\ \A g \in granted : BytesOf(g[1]) # {}
        /\ \A id \in ObjectIds : Disposed(id) => Disposed(id)'
        /\ \A r \in EvidenceReaders : access[r].stage = "reporting" /\ access'[r].bytes # {} =>
             access[r].reported = "found" /\ ~ Disposed(access[r].ref.objectId) ]_evidenceVars
=============================================================================
