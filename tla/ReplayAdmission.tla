--------------------------- MODULE ReplayAdmission ---------------------------
(***************************************************************************)
(* Replay protection: one signed message is admitted at most once.  Three  *)
(* verifiers share this scheme (a timestamp window, then a nonce record    *)
(* that outlives the window): the handshake (session/manager.ts), the      *)
(* detached proof (proof/verifier.ts) and the entity-card proof            *)
(* (card/proof/verify.ts).  They share nonceRetentionSeconds, admitNonce   *)
(* and the memory nonce caches.                                            *)
(*                                                                         *)
(* Time is counted in ticks, Tps to the second, so that second-granularity *)
(* checks and millisecond caches differ as they do in the code.  The       *)
(* awaits between the window check of a message and its admission take up  *)
(* to MaxDelay[kind] ticks.                                                *)
(***************************************************************************)
EXTENDS Integers, FiniteSets, FiniteSetsExt

CONSTANTS
    Requests,       \* presentations of messages to a verifier
    Signers, Nonces, \* the DIDs that sign, and the nonces they use
    Message,        \* Message[r]: [kind, did, nonce, created, expires, genuine]
    Skew0,          \* configured skew of each kind, seconds
    MinSkew, MaxSkew, \* clamp of setTimestampSkew
    MinTtl,         \* configured minimum retention of each kind, seconds
    Tps,            \* ticks per second
    MaxDelay,       \* bound on the time between check and admission, ticks
    Settings,       \* what a behaviour may start from: see SettingType
    MaxTime         \* bound on the clock, ticks

Kinds == {"handshake", "proof", "card"}

\* The presentations that are made, whether the nonce cache has consume(), whether
\* it may fail, and the values setTimestampSkew is called with.
SettingType ==
    [requests: SUBSET Requests, atomic: BOOLEAN, faults: SUBSET {"cache"},
     advertised: SUBSET Nat]

ASSUME AdmissionAssumption ==
    /\ Message \in [Requests -> [kind: Kinds, did: Signers, nonce: Nonces,
                                 created: Nat, expires: Nat, genuine: BOOLEAN]]
    \* A handshake is not signed: whoever sends one is its author.
    /\ \A r \in Requests : Message[r].kind = "handshake" => Message[r].genuine
    /\ Skew0 \in [Kinds -> Nat] /\ MinTtl \in [Kinds -> Nat] /\ MaxDelay \in [Kinds -> Nat]
    /\ MinSkew \in Nat /\ MaxSkew \in Nat /\ MinSkew <= MaxSkew
    /\ Tps \in Nat \ {0} /\ MaxTime \in Nat
    /\ Settings \subseteq SettingType

VARIABLES
    now,        \* the verifier's clock, ticks
    skew,       \* skew[k]: the skew the verifier of kind k applies
    cache,      \* recorded nonces: [key, expiry]
    pc,         \* control point of each request
    age,        \* age[r]: ticks since the window of r was checked, while in flight
    ttl,        \* ttl[r]: the retention computed before has(), seconds
    before,     \* before[r]: presentations of r's message admitted before r arrived
    late,       \* the presentations admitted after the last instant of their window
    setting     \* the setting of this behaviour; it never changes

admissionVars == <<now, skew, cache, pc, age, ttl, before, late, setting>>

Atomic == setting.atomic
Faults == setting.faults

Settled == {"admitted", "replayed", "stale", "denied"}

NonceKey(r) == <<Message[r].did, Message[r].nonce>>

FloorSec(t) == t \div Tps
CeilSec(t) == (t + Tps - 1) \div Tps
Abs(n) == IF n < 0 THEN -n ELSE n

AdmissionInit ==
    /\ now = 0 /\ skew = Skew0 /\ cache = {}
    /\ pc = [r \in Requests |-> "idle"]
    /\ age = [r \in Requests |-> 0]
    /\ ttl = [r \in Requests |-> 0]
    /\ before = [r \in Requests |-> {}] /\ late = {}
    /\ setting \in Settings

-----------------------------------------------------------------------------
(* Windows.                                                                *)

\* validateHandshake: whole seconds, inclusive.
HandshakeFresh(m) == Abs(FloorSec(now) - m.created) <= skew["handshake"]

\* isWithinSkew: milliseconds, inclusive.
ProofFresh(m) == Abs(now - m.created * Tps) <= skew["proof"] * Tps

\* checkWindow: whole seconds, inclusive.
CardFresh(m) ==
    /\ m.created < m.expires
    /\ m.created <= FloorSec(now) + skew["card"]
    /\ m.expires >= FloorSec(now) - skew["card"]

Fresh(m) == CASE m.kind = "handshake" -> HandshakeFresh(m)
              [] m.kind = "proof" -> ProofFresh(m)
              [] m.kind = "card" -> CardFresh(m)

-----------------------------------------------------------------------------
(* Retention.                                                              *)

\* Mutant of NonceRetentionSeconds: no extra second.
RetentionUnpadded(minimum, validUntil, t) == Max({1, minimum, CeilSec(validUntil * Tps - t)})

NonceRetentionSeconds(minimum, validUntil, t) ==
    Max({1, minimum, CeilSec((validUntil + 1) * Tps - t)})

\* The last second in which a verifier may still find the message fresh.
ValidUntil(m) ==
    CASE m.kind = "handshake" -> m.created + skew["handshake"]
      [] m.kind = "proof" -> m.created + Max({skew["proof"], MaxSkew})
      [] m.kind = "card" -> m.expires + skew["card"]

\* Whether the message's window has closed for good.
Closed(m) == now >= (ValidUntil(m) + 1) * Tps
Admitted(r) ==
    /\ pc' = [pc EXCEPT ![r] = "admitted"]
    /\ late' = IF Closed(Message[r]) THEN late \cup {r} ELSE late

Retention(m) == NonceRetentionSeconds(MinTtl[m.kind], ValidUntil(m), now)

-----------------------------------------------------------------------------
(* The nonce cache: one record per (did, nonce).                           *)

Recorded(k) == \E c \in cache : c.key = k /\ c.expiry > now

Record(k, seconds) ==
    {c \in cache : c.key # k} \cup {[key |-> k, expiry |-> now + seconds * Tps]}

\* admitNonce through consume(): test and set in one step.
Consume(r) ==
    \/ /\ Recorded(NonceKey(r))
       /\ pc' = [pc EXCEPT ![r] = "replayed"]
       /\ UNCHANGED <<cache, late>>
    \/ /\ ~Recorded(NonceKey(r))
       /\ Admitted(r)
       /\ cache' = Record(NonceKey(r), Retention(Message[r]))
    \/ /\ "cache" \in Faults
       /\ pc' = [pc EXCEPT ![r] = "denied"] /\ UNCHANGED late
       /\ cache' \in {cache, Record(NonceKey(r), Retention(Message[r]))}

\* admitNonce through has(), for a cache without consume().
Has(r) ==
    \/ /\ Recorded(NonceKey(r))
       /\ pc' = [pc EXCEPT ![r] = "replayed"]
       /\ UNCHANGED ttl
    \/ /\ ~Recorded(NonceKey(r))
       /\ pc' = [pc EXCEPT ![r] = "add"]
       /\ ttl' = [ttl EXCEPT ![r] = Retention(Message[r])]
    \/ /\ "cache" \in Faults
       /\ pc' = [pc EXCEPT ![r] = "denied"]
       /\ UNCHANGED ttl

Admit(r) == IF Atomic THEN Consume(r) /\ UNCHANGED ttl ELSE Has(r) /\ UNCHANGED <<cache, late>>

-----------------------------------------------------------------------------
(* The verifiers.                                                          *)

Present(r) ==
    /\ pc[r] = "idle" /\ r \in setting.requests
    /\ before' = [before EXCEPT ![r] =
                    {q \in Requests : Message[q] = Message[r] /\ pc[q] = "admitted"}]
    /\ UNCHANGED <<now, skew, age>>

\* validateHandshake: window check and nonce call in one synchronous run.
Handshake(r) ==
    /\ Message[r].kind = "handshake"
    /\ Present(r)
    /\ IF Fresh(Message[r]) THEN Admit(r)
       ELSE pc' = [pc EXCEPT ![r] = "stale"] /\ UNCHANGED <<cache, ttl, late>>

\* Mutant of CheckWindow: the nonce is spent before the signature is verified.
ConsumeFirst(r) ==
    /\ Message[r].kind # "handshake"
    /\ Present(r)
    /\ IF Fresh(Message[r])
       THEN /\ pc' = [pc EXCEPT ![r] = IF Recorded(NonceKey(r)) THEN "replayed" ELSE "verify"]
            /\ cache' = IF Recorded(NonceKey(r)) THEN cache ELSE Record(NonceKey(r), Retention(Message[r]))
            /\ UNCHANGED <<ttl, late>>
       ELSE pc' = [pc EXCEPT ![r] = "stale"] /\ UNCHANGED <<cache, ttl, late>>

\* verifyProof and verifyCardProof check the window, then await the signature
\* and the bindings.
CheckWindow(r) ==
    /\ Message[r].kind # "handshake"
    /\ Present(r)
    /\ pc' = [pc EXCEPT ![r] = IF Fresh(Message[r]) THEN "verify" ELSE "stale"]
    /\ UNCHANGED <<cache, ttl, late>>

\* Only an authentic message reaches the nonce cache.
Verify(r) ==
    /\ pc[r] = "verify"
    /\ \/ /\ Message[r].genuine
          /\ Admit(r)
       \/ /\ ~Message[r].genuine
          /\ pc' = [pc EXCEPT ![r] = "denied"]
          /\ UNCHANGED <<cache, ttl, late>>
    /\ UNCHANGED <<now, skew, age, before>>

\* The second half of the has()/add() fallback.
Add(r) ==
    /\ pc[r] = "add"
    /\ \/ /\ Admitted(r)
          /\ cache' = Record(NonceKey(r), ttl[r])
       \/ /\ "cache" \in Faults
          /\ pc' = [pc EXCEPT ![r] = "denied"] /\ UNCHANGED late
          /\ cache' \in {cache, Record(NonceKey(r), ttl[r])}
    /\ ttl' = [ttl EXCEPT ![r] = 0]
    /\ UNCHANGED <<now, skew, age, before>>

\* evictExpired, from sweepIfDue or cleanup().
Sweep ==
    /\ cache' = {c \in cache : now < c.expiry}
    /\ cache' # cache
    /\ UNCHANGED <<now, skew, pc, age, ttl, before, late>>

\* setTimestampSkew: clamped to the supported range.
SetTimestampSkew(v) ==
    /\ skew' = [skew EXCEPT !["proof"] = Max({MinSkew, Min({MaxSkew, v})})]
    /\ UNCHANGED <<now, cache, pc, age, ttl, before, late>>

InFlight(r) == pc[r] \in {"verify", "add"}

\* Verifications in flight finish within their delay bound.
Tick ==
    /\ now < MaxTime
    /\ \A r \in Requests : InFlight(r) => age[r] < MaxDelay[Message[r].kind]
    /\ now' = now + 1
    /\ age' = [r \in Requests |-> IF InFlight(r) THEN age[r] + 1 ELSE 0]
    /\ UNCHANGED <<skew, cache, pc, ttl, before, late>>

AdmissionNext ==
    /\ UNCHANGED setting
    /\ \/ \E r \in Requests : Handshake(r) \/ CheckWindow(r) \/ Verify(r) \/ Add(r)
       \/ \E v \in setting.advertised : SetTimestampSkew(v)
       \/ Sweep
       \/ Tick

AdmissionSpec == AdmissionInit /\ [][AdmissionNext]_admissionVars

-----------------------------------------------------------------------------
(* Properties.                                                             *)

SamePair(r, q) == r # q /\ Message[r] = Message[q] /\ pc[r] = "admitted" /\ pc[q] = "admitted"

\* A message that was admitted is not admitted again: not by a presentation that
\* began later, nor, on an atomic cache, by one that overlaps it, whatever the skew is
\* set to and however late in the last accepted second one arrives.  The one
\* exception is a presentation whose verification, begun in time, is still under way
\* when the window has closed and the record of the first one has expired
\* (consume(), nonceRetentionSeconds, verifyCardProof's awaits).  On a cache without
\* consume(), or one that fails, this supposes that no signer uses a nonce for a second
\* message.
AdmittedOnce ==
    \A r, q \in Requests : SamePair(r, q) /\ (Atomic \/ q \in before[r]) => late \cap {r, q} # {}

\* While the cache does not fail, a genuine message is refused as a replay only
\* after it was admitted: forged copies of its nonce do not spend it.
ReplayedOnlyIfSpent == Faults = {} =>
    \A r \in Requests : pc[r] = "replayed" /\ Message[r].genuine =>
        \E q \in Requests : NonceKey(q) = NonceKey(r) /\ Message[q].genuine /\ pc[q] \in {"admitted", "add"}

\* A genuine message is admitted once and no other presentation, forged or
\* overlapping, takes its place (admitNonce, verifyCardProof).
ReplayGuarded == AdmittedOnce /\ ReplayedOnlyIfSpent
=============================================================================
