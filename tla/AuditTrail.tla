----------------------------- MODULE AuditTrail -----------------------------
(***************************************************************************)
(* The producer side of the audit ledger: AuditTrailService (service.ts)   *)
(* with its source state (providers/source-state.ts) and outbox            *)
(* (providers/outbox.ts).  Trails are producer processes; each emits for   *)
(* one source, and sources may share the outbox.  Awaits separate actions. *)
(* The source state and the outbox are durable: they survive a crash.      *)
(*                                                                         *)
(* A digest is what it commits to, so an event's link to its predecessor   *)
(* is the predecessor itself: {} for no link, {e} for a link to e.         *)
(***************************************************************************)
EXTENDS Naturals, Sequences, FiniteSets

CONSTANTS
    Trails,         \* producer processes
    Sources,        \* source IDs
    Jobs,           \* record() and recordSourceHighWater() calls
    Ids,            \* event IDs
    Bodies,         \* event contents the caller decides
    Job,            \* Job[j]: [trail, id, body, kind]
    Flushers,       \* concurrent flush() loops
    TrailOf,        \* TrailOf[f]: the trail whose flush() it is
    Window,         \* redeliveryWindow
    OutboxLimit,    \* the limit passed to flush()
    TrailSettings,  \* what a behaviour may start from: see TrailSettingType
    MaxTrailCrashes \* bound on producer crashes

RecordKinds == {"event", "invalid", "highwater"}

TrailFaultKinds == {"build", "recorder", "outbox", "state", "crash"}

\* The calls that are made and the flush loops that run, the source of each
\* trail, the delivery mode, whether the outbox is acknowledged by (source,
\* event ID) or by bare ID, and the faults of the environment.
TrailSettingType ==
    [jobs: SUBSET Jobs, flushers: SUBSET Flushers, sourceOf: [Trails -> Sources],
     delivery: {"buffered", "required", "best-effort"}, keyed: BOOLEAN,
     faults: SUBSET TrailFaultKinds]

ASSUME TrailAssumption ==
    /\ Job \in [Jobs -> [trail: Trails, id: Ids, body: Bodies, kind: RecordKinds]]
    /\ TrailOf \in [Flushers -> Trails]
    /\ Window \in Nat /\ OutboxLimit \in Nat \ {0} /\ MaxTrailCrashes \in Nat
    /\ TrailSettings \subseteq TrailSettingType

VARIABLES
    src,        \* src[s]: the source state of s
    outbox,     \* pending items (frozen events), in enqueue order
    ledger,     \* events the recorder committed, in order
    lock,       \* lock[t]: jobs in t's source construction chain, oldest first
    step,       \* control point of each job
    claimed,    \* claimed[j]: the source claim a job builds its event on
    mark,       \* mark[j]: the high-water mark a job read
    ev,         \* ev[j]: {} or the event the job froze
    fl,         \* fl[f]: locals of a flush loop
    trailCrashes,
    tset        \* the setting of this behaviour; it never changes

jobVars == <<step, claimed, mark, ev>>
trailVars == <<src, outbox, ledger, lock, jobVars, fl, trailCrashes, tset>>

SourceOf == tset.sourceOf
Delivery == tset.delivery
KeyedBySource == tset.keyed
TrailFaults == tset.faults

SourceOfJob(j) == SourceOf[Job[j].trail]

-----------------------------------------------------------------------------
(* MemoryAuditSourceState, as functions on the state of one source.        *)

InSeq(q) == {q[i] : i \in 1..Len(q)}

\* A Map or a Set in its insertion order after delete(x).
Deleted(q, x) ==
    IF x \notin InSeq(q) THEN q
    ELSE LET k == CHOOSE i \in 1..Len(q) : q[i] = x
         IN [i \in 1..(Len(q) - 1) |-> q[IF i < k THEN i ELSE i + 1]]

NewSource == [next |-> 0, pending |-> {}, claims |-> {}, retained |-> <<>>, latest |-> {}]

ClaimsOf(st, id) == {c \in st.claims : c.id = id}

\* claimEvent: the retained claim, or the next sequence linked to the latest event.
ClaimEvent(st, id) ==
    IF ClaimsOf(st, id) # {}
    THEN IF id \in InSeq(st.retained)
         THEN [st EXCEPT !.retained = Append(Deleted(@, id), id)]
         ELSE st
    ELSE [st EXCEPT !.next = @ + 1,
                    !.pending = @ \cup {[seq |-> st.next + 1, id |-> id]},
                    !.claims = @ \cup {[id |-> id, seq |-> st.next + 1,
                                        prev |-> st.latest, digest |-> {}]},
                    !.latest = {}]

\* abandonClaim: only the newest claim, and only before it was emitted.
AbandonClaim(st, id, q) ==
    LET mine == {c \in ClaimsOf(st, id) : c.seq = q /\ c.digest = {} /\ q = st.next} IN
    IF mine = {} THEN st
    ELSE [st EXCEPT !.next = @ - 1, !.claims = @ \ mine,
                    !.pending = {p \in @ : p.seq # q},
                    !.latest = UNION {c.prev : c \in mine}]

\* markEmitted accepts e: the claim is still there and was not emitted as other content.
Emittable(st, e) ==
    \E c \in ClaimsOf(st, e.id) : c.seq = e.seq /\ c.digest \subseteq {e}

\* Mutant of MarkEmitted: links the next event to whatever was emitted last.
MarkEmittedLast(st, e) ==
    [st EXCEPT !.claims = {IF c.id = e.id THEN [c EXCEPT !.digest = {e}] ELSE c : c \in @},
               !.latest = {e}]

MarkEmitted(st, e) ==
    [st EXCEPT !.claims = {IF c.id = e.id THEN [c EXCEPT !.digest = {e}] ELSE c : c \in @},
               !.latest = IF e.seq = st.next THEN {e} ELSE @]

\* Mutant of MarkReceipted: everything up to the receipted sequence is cleared.
MarkReceiptedBelow(st, q) == [st EXCEPT !.pending = {p \in @ : p.seq > q}]

\* markReceipted: the claim moves to the bounded redelivery window.
MarkReceipted(st, q) ==
    LET done == {p \in st.pending : p.seq = q}
        kept == IF done = {} THEN st.retained
                ELSE Append(st.retained, (CHOOSE p \in done : TRUE).id)
        over == IF Len(kept) > Window THEN Len(kept) - Window ELSE 0
    IN  [st EXCEPT !.pending = @ \ done,
                   !.retained = SubSeq(kept, over + 1, Len(kept)),
                   !.claims = {c \in @ : \A i \in 1..over : c.id # kept[i]}]

\* getState: every sequence up to this one is receipted.
HighestReceipted(st) ==
    IF st.pending = {} THEN st.next
    ELSE (CHOOSE q \in {p.seq : p \in st.pending} : \A p \in st.pending : q <= p.seq) - 1

-----------------------------------------------------------------------------

NoClaim == [seq |-> 0, prev |-> {}]
NoFlush == [pc |-> "idle", rest |-> <<>>, blocked |-> {}]

TrailInit ==
    /\ src = [s \in Sources |-> NewSource]
    /\ outbox = <<>> /\ ledger = <<>>
    /\ lock = [t \in Trails |-> <<>>]
    /\ step = [j \in Jobs |-> "idle"]
    /\ claimed = [j \in Jobs |-> NoClaim]
    /\ mark = [j \in Jobs |-> 0]
    /\ ev = [j \in Jobs |-> {}]
    /\ fl = [f \in Flushers |-> NoFlush]
    /\ trailCrashes = 0
    /\ tset \in TrailSettings

-----------------------------------------------------------------------------
(* record() and recordSourceHighWater().                                   *)

\* The job joins its trail's chain of source constructions; a high-water event
\* first reads what it is going to declare.
ReadHighWater(j) ==
    /\ j \in tset.jobs /\ step[j] = "idle" /\ Job[j].kind = "highwater"
    /\ mark' = [mark EXCEPT ![j] = src[SourceOfJob(j)].next]
    /\ step' = [step EXCEPT ![j] = "read"]
    /\ UNCHANGED <<src, outbox, ledger, lock, claimed, ev, fl, trailCrashes>>

StartRecord(j) ==
    /\ j \in tset.jobs
    /\ step[j] = IF Job[j].kind = "highwater" THEN "read" ELSE "idle"
    /\ lock' = [lock EXCEPT ![Job[j].trail] = Append(@, j)]
    /\ step' = [step EXCEPT ![j] = "queued"]
    /\ UNCHANGED <<src, outbox, ledger, claimed, mark, ev, fl, trailCrashes>>

\* Mutant of ReleaseLock: the chain is only released on success.
KeepLockOnFailure(j, point) ==
    /\ step' = [step EXCEPT ![j] = point]
    /\ lock' = IF point = "failed" THEN lock ELSE [lock EXCEPT ![Job[j].trail] = Tail(@)]

\* The `finally` of withSourceConstruction.
ReleaseLock(j, point) ==
    /\ step' = [step EXCEPT ![j] = point]
    /\ lock' = [lock EXCEPT ![Job[j].trail] = Tail(@)]

\* Local validation first, then claimEvent.
Claim(j) ==
    LET s == SourceOfJob(j)
        st == ClaimEvent(src[s], Job[j].id)
    IN
    /\ step[j] = "queued" /\ Head(lock[Job[j].trail]) = j
    /\ \/ /\ Job[j].kind = "invalid"
          /\ ReleaseLock(j, "failed")
          /\ UNCHANGED <<src, claimed>>
       \/ /\ Job[j].kind # "invalid"
          /\ src' = [src EXCEPT ![s] = st]
          /\ \E c \in ClaimsOf(st, Job[j].id) :
                claimed' = [claimed EXCEPT ![j] = [seq |-> c.seq, prev |-> c.prev]]
          /\ step' = [step EXCEPT ![j] = "claimed"]
          /\ UNCHANGED lock
    /\ UNCHANGED <<outbox, ledger, mark, ev, fl, trailCrashes>>

\* buildEvent on the claim: the frozen producer event.
Event(j) ==
    [src |-> SourceOfJob(j), id |-> Job[j].id, seq |-> claimed[j].seq,
     prev |-> claimed[j].prev, body |-> Job[j].body, mark |-> mark[j]]

\* digestAuditEvent and markEmitted; either may throw.
Emit(j) ==
    LET s == SourceOfJob(j)  e == Event(j) IN
    /\ step[j] = "claimed"
    /\ \/ /\ Emittable(src[s], e)
          /\ src' = [src EXCEPT ![s] = MarkEmitted(@, e)]
          /\ ev' = [ev EXCEPT ![j] = {e}]
          /\ IF Delivery = "buffered"
             THEN step' = [step EXCEPT ![j] = "enqueue"] /\ UNCHANGED lock
             ELSE ReleaseLock(j, "submit")
       \/ /\ ~Emittable(src[s], e) \/ "build" \in TrailFaults
          /\ step' = [step EXCEPT ![j] = "abandon"]
          /\ UNCHANGED <<src, ev, lock>>
    /\ UNCHANGED <<outbox, ledger, claimed, mark, fl, trailCrashes>>

Abandon(j) ==
    LET s == SourceOfJob(j) IN
    /\ step[j] = "abandon"
    /\ \/ src' = [src EXCEPT ![s] = AbandonClaim(@, Job[j].id, claimed[j].seq)]
       \/ "state" \in TrailFaults /\ UNCHANGED src
    /\ ReleaseLock(j, "failed")
    /\ UNCHANGED <<outbox, ledger, claimed, mark, ev, fl, trailCrashes>>

SameItem(x, y) == x.src = y.src /\ x.id = y.id
InOutbox(e) == e \in InSeq(outbox)

\* outbox.enqueue, idempotent per (source, event ID).
Enqueue(j) ==
    /\ step[j] = "enqueue"
    /\ \E e \in ev[j] :
        LET clash == \E i \in 1..Len(outbox) : SameItem(outbox[i], e) /\ outbox[i] # e IN
        \/ /\ ~clash
           /\ outbox' = IF InOutbox(e) THEN outbox ELSE Append(outbox, e)
           /\ ReleaseLock(j, "pending")
        \/ /\ clash \/ "outbox" \in TrailFaults
           /\ ReleaseLock(j, "failed")
           /\ UNCHANGED outbox
    /\ UNCHANGED <<src, ledger, claimed, mark, ev, fl, trailCrashes>>

-----------------------------------------------------------------------------
(* The recorder, as AuditLedger promises it: an identity is committed once *)
(* and redelivery of the same event returns its entry.  A submission that  *)
(* fails may or may not have been committed.                               *)

Committed(e) == \E i \in 1..Len(ledger) : ledger[i] = e
Conflicting(e) == \E i \in 1..Len(ledger) : SameItem(ledger[i], e) /\ ledger[i] # e

CommitEvent(e) == ledger' = IF Committed(e) THEN ledger ELSE Append(ledger, e)

SubmitAccepted(e) == ~Conflicting(e) /\ CommitEvent(e)

SubmitFailed(e) ==
    \/ /\ Conflicting(e) \/ "recorder" \in TrailFaults
       /\ UNCHANGED ledger
    \/ /\ "recorder" \in TrailFaults /\ ~Conflicting(e)
       /\ CommitEvent(e)

\* markReceipted rejects a sequence that was never claimed; a failure of the
\* source state is reported and never turns a commit into a failure.
Receipt(e) ==
    \/ /\ e.seq <= src[e.src].next
       /\ src' = [src EXCEPT ![e.src] = MarkReceipted(@, e.seq)]
    \/ /\ e.seq > src[e.src].next \/ "state" \in TrailFaults
       /\ UNCHANGED src

-----------------------------------------------------------------------------
(* Direct delivery.                                                        *)

SubmitEvent(j) ==
    /\ step[j] = "submit"
    /\ \E e \in ev[j] :
        \/ SubmitAccepted(e) /\ step' = [step EXCEPT ![j] = "receipt"]
        \/ SubmitFailed(e) /\ step' = [step EXCEPT ![j] = "failed"]
    /\ UNCHANGED <<src, outbox, lock, claimed, mark, ev, fl, trailCrashes>>

MarkRecorded(j) ==
    /\ step[j] = "receipt"
    /\ \E e \in ev[j] : Receipt(e)
    /\ step' = [step EXCEPT ![j] = "recorded"]
    /\ UNCHANGED <<outbox, ledger, lock, claimed, mark, ev, fl, trailCrashes>>

-----------------------------------------------------------------------------
(* flush().                                                                *)

\* outbox.pending(limit) yields a snapshot.
FlushStart(f) ==
    /\ f \in tset.flushers /\ Delivery = "buffered"
    /\ fl[f].pc = "idle" /\ outbox # <<>>
    /\ fl' = [fl EXCEPT ![f] =
                [pc |-> "next", blocked |-> {},
                 rest |-> SubSeq(outbox, 1, IF OutboxLimit < Len(outbox) THEN OutboxLimit ELSE Len(outbox))]]
    /\ UNCHANGED <<src, outbox, ledger, lock, jobVars, trailCrashes>>

\* The item at hand.
Current(f) == Head(fl[f].rest)
Advance(f, blocked) ==
    fl' = [fl EXCEPT ![f] = IF Len(@.rest) = 1 THEN NoFlush
                            ELSE [pc |-> "next", rest |-> Tail(@.rest), blocked |-> blocked]]

\* Mutant of Skipped: a failed item does not hold back its source.
NeverSkipped(f) == FALSE

Skipped(f) == Current(f).src \in fl[f].blocked

FlushSkip(f) ==
    /\ fl[f].pc = "next" /\ Skipped(f)
    /\ Advance(f, fl[f].blocked)
    /\ UNCHANGED <<src, outbox, ledger, lock, jobVars, trailCrashes>>

FlushSubmit(f) ==
    /\ fl[f].pc = "next" /\ ~Skipped(f)
    /\ \/ /\ SubmitAccepted(Current(f))
          /\ fl' = [fl EXCEPT ![f].pc = "receipt"]
       \/ /\ SubmitFailed(Current(f))
          /\ fl' = [fl EXCEPT ![f].pc = "fail"]
    /\ UNCHANGED <<src, outbox, lock, jobVars, trailCrashes>>

\* Mutant of Acknowledged: items are matched by event ID alone.
AcknowledgedById(e) == {x \in InSeq(outbox) : x.id = e.id}

\* storedKey: the items that the key flush() passes for e names.
Acknowledged(e) ==
    {x \in InSeq(outbox) :
        IF KeyedBySource THEN SameItem(x, e) ELSE x.id = e.id}

\* A bare event ID pending for several sources is refused.
Ambiguous(e) == ~KeyedBySource /\ Cardinality(Acknowledged(e)) > 1

\* outbox.markFailed counts the attempt (no retry cap in this package) and the
\* source is held back for the rest of this flush.  If it throws, flush() throws.
FlushFail(f) ==
    /\ fl[f].pc = "fail"
    /\ \/ /\ ~Ambiguous(Current(f))
          /\ Advance(f, fl[f].blocked \cup {Current(f).src})
       \/ /\ Ambiguous(Current(f)) \/ "outbox" \in TrailFaults
          /\ fl' = [fl EXCEPT ![f] = NoFlush]
    /\ UNCHANGED <<src, outbox, ledger, lock, jobVars, trailCrashes>>

FlushReceipt(f) ==
    /\ fl[f].pc = "receipt"
    /\ Receipt(Current(f))
    /\ fl' = [fl EXCEPT ![f].pc = "ack"]
    /\ UNCHANGED <<outbox, ledger, lock, jobVars, trailCrashes>>

\* markDelivered removes the item under this key, whatever it now holds; a
\* failure is reported and the item stays.
FlushAck(f) ==
    /\ fl[f].pc = "ack"
    /\ \/ /\ ~Ambiguous(Current(f))
          /\ IF Acknowledged(Current(f)) = {} THEN UNCHANGED outbox
             ELSE \E x \in Acknowledged(Current(f)) : outbox' = Deleted(outbox, x)
       \/ /\ Ambiguous(Current(f)) \/ "outbox" \in TrailFaults
          /\ UNCHANGED outbox
    /\ Advance(f, fl[f].blocked)
    /\ UNCHANGED <<src, ledger, lock, jobVars, trailCrashes>>

-----------------------------------------------------------------------------

Settled == {"pending", "recorded", "failed", "crashed"}

\* The producer process dies with its calls and flushes.
CrashTrail(t) ==
    /\ "crash" \in TrailFaults /\ trailCrashes < MaxTrailCrashes
    /\ \/ \E j \in Jobs : Job[j].trail = t /\ step[j] \notin Settled \cup {"idle"}
       \/ \E f \in Flushers : TrailOf[f] = t /\ fl[f].pc # "idle"
    /\ trailCrashes' = trailCrashes + 1
    /\ lock' = [lock EXCEPT ![t] = <<>>]
    /\ step' = [j \in Jobs |-> IF Job[j].trail = t /\ step[j] \notin Settled \cup {"idle"}
                             THEN "crashed" ELSE step[j]]
    /\ fl' = [f \in Flushers |-> IF TrailOf[f] = t THEN NoFlush ELSE fl[f]]
    /\ UNCHANGED <<src, outbox, ledger, claimed, mark, ev>>

\* Nothing is left to do.
Idle ==
    /\ \A j \in tset.jobs : step[j] \in Settled
    /\ \A f \in Flushers : fl[f].pc = "idle"
    /\ outbox = <<>>
    /\ UNCHANGED trailVars

JobStep(j) == \/ StartRecord(j) \/ Claim(j) \/ Emit(j) \/ Abandon(j) \/ Enqueue(j)
              \/ SubmitEvent(j) \/ MarkRecorded(j)

FlushStep(f) == \/ FlushStart(f) \/ FlushSkip(f) \/ FlushSubmit(f) \/ FlushFail(f)
                \/ FlushReceipt(f) \/ FlushAck(f)

TrailNext ==
    /\ UNCHANGED tset
    /\ \/ \E j \in Jobs : ReadHighWater(j) \/ JobStep(j)
       \/ \E f \in Flushers : FlushStep(f)
       \/ \E t \in Trails : CrashTrail(t)
       \/ Idle

TrailSpec == TrailInit /\ [][TrailNext]_trailVars

\* Flush f gets the event of call j accepted, or acknowledged.
Accepts(f, j) == FlushSubmit(f) /\ Current(f) \in ev[j] /\ fl'[f].pc = "receipt"
Acknowledges(f, j) == FlushAck(f) /\ Current(f) \in ev[j] /\ outbox' # outbox

\* The event loop runs what is ready, the host calls flush() again and again,
\* and neither the recorder nor the outbox fails an item every time.
TrailFairness ==
    /\ \A j \in Jobs : WF_trailVars((ReadHighWater(j) \/ JobStep(j)) /\ UNCHANGED tset)
    /\ \A f \in Flushers : WF_trailVars(FlushStep(f) /\ UNCHANGED tset)
    /\ \A f \in Flushers, j \in Jobs :
        /\ SF_trailVars(Accepts(f, j) /\ UNCHANGED tset)
        /\ SF_trailVars(Acknowledges(f, j) /\ UNCHANGED tset)

TrailFairSpec == TrailSpec /\ TrailFairness

-----------------------------------------------------------------------------
(* Properties.                                                             *)

\* Every event frozen so far: by a call, in the outbox, or committed.
Frozen == (UNION {ev[j] : j \in Jobs}) \cup InSeq(outbox) \cup InSeq(ledger)

WellFormed(e) ==
    /\ e.src \in Sources /\ e.id \in Ids /\ e.body \in Bodies
    /\ e.seq \in Nat \ {0} /\ e.mark \in Nat /\ Cardinality(e.prev) <= 1

\* Types of the state of the trail, its source state and its outbox.
TrailTypeOK ==
    /\ DOMAIN src = Sources
    /\ \A s \in Sources :
        /\ src[s].next \in Nat
        /\ \A p \in src[s].pending : p.seq \in 1..src[s].next /\ p.id \in Ids
        /\ \A c \in src[s].claims :
            /\ c.id \in Ids /\ c.seq \in 1..src[s].next
            /\ Cardinality(ClaimsOf(src[s], c.id)) = 1
    /\ \A e \in Frozen : WellFormed(e)
    /\ lock \in [Trails -> Seq(Jobs)]
    /\ step \in [Jobs -> Settled \cup {"idle", "read", "queued", "claimed", "abandon",
                                     "enqueue", "submit", "receipt"}]
    /\ \A f \in Flushers : fl[f].pc \in {"idle", "next", "fail", "receipt", "ack"}
    /\ trailCrashes \in 0..MaxTrailCrashes

OneTrail == \A t, u \in Trails : SourceOf[t] = SourceOf[u] => t = u

\* One trail serves each source, and its process and source state do not fail.
Alone ==
    /\ OneTrail
    /\ tset.faults \cap {"state", "crash"} = {}

\* Linkage is never wrong: an event that names a predecessor names the event of
\* its own source with the sequence just below its own, and no two frozen events
\* of a source share a sequence, whatever calls of whatever processes claim,
\* fail, abandon or die in between (claimEvent, abandonClaim, markEmitted).  It is
\* never missing where one trail serves the source and no abandon fails: rejected
\* input and failed builds break no predecessor link.
SourceChainSound ==
    /\ TrailTypeOK
    /\ \A e \in Frozen : \A p \in e.prev : p.src = e.src /\ p.seq + 1 = e.seq
    /\ \A e, f \in Frozen : e.src = f.src /\ e.seq = f.seq => e = f
    /\ Alone => \A e \in Frozen : e.seq > 1 => e.prev # {}

\* getState never reports a sequence as contiguously receipted before the
\* recorder committed an event with it; and where one trail serves the source and
\* no abandon fails, a committed high-water event declares only sequences under
\* which an event was frozen, although its mark is read before its own sequence is
\* claimed and claims are abandoned in between.  (Two trails of one source may
\* abandon two claims that a third call has counted.)
HighWaterHonest ==
    /\ \A s \in Sources : \A q \in 1..HighestReceipted(src[s]) :
           \E e \in InSeq(ledger) : e.src = s /\ e.seq = q
    /\ Alone => \A e \in InSeq(ledger) : \A q \in 1..e.mark :
           \E x \in Frozen : x.src = e.src /\ x.seq = q

\* An event is offered once, or what was frozen comes to the outbox before another
\* event is: neither the outbox nor the process fails between the two.
NoneOvertaken ==
    \/ \A j, k \in tset.jobs : SourceOfJob(j) = SourceOfJob(k) /\ Job[j].id = Job[k].id => j = k
    \/ tset.faults \cap {"outbox", "state", "crash"} = {}

\* The recorder commits the buffered events of one source in source order, even
\* when flushes overlap and items fail (blockedSources in flush, FIFO outbox), where
\* one trail serves the source and the outbox is acknowledged by source.  (An event
\* that failed on its way to the outbox and is offered again comes after later ones.)
SourceOrder ==
    Delivery = "buffered" /\ KeyedBySource /\ OneTrail /\ NoneOvertaken =>
        \A i, k \in 1..Len(ledger) :
            i < k /\ ledger[i].src = ledger[k].src => ledger[i].seq < ledger[k].seq

\* What record() answered as "pending" stays in the outbox until it is committed,
\* if the outbox is acknowledged by source and event ID, unless other content was
\* committed under its identity: the ID of an event whose claim has left the
\* redelivery window was offered again.
NothingLost == KeyedBySource =>
    \A j \in Jobs : step[j] = "pending" =>
        \A e \in ev[j] : e \in InSeq(outbox) \cup InSeq(ledger) \/ Conflicting(e)

\* Every record() call settles: no failure keeps the construction chain locked.
RecordSettles == \A j \in Jobs : step[j] = "queued" ~> step[j] \in Settled

\* A buffered event is eventually committed and leaves the outbox.
EventuallyDelivered ==
    \A j \in Jobs : step[j] = "pending" ~>
        \A e \in ev[j] : e \in InSeq(ledger) /\ e \notin InSeq(outbox)

\* What a source says of itself is one history: its events are linked without a
\* fork or a gap, and the recorder has them in the order they were frozen (record,
\* flush, the claims of the source state).
SourceHistorySound == SourceChainSound /\ SourceOrder

\* What the trail answers is so: a mark it declares and an event it calls pending
\* are both backed by what the recorder or the outbox holds (getState, record,
\* acknowledge).
AnswersHonest == HighWaterHonest /\ NothingLost

\* A recorded event is settled and, where it is buffered, delivered, although
\* builds, submissions and acknowledgements fail in between (record, flush).
TrailDelivers == RecordSettles /\ EventuallyDelivered
=============================================================================
