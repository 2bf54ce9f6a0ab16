-------------------------- MODULE AuditTrailProofs --------------------------
(***************************************************************************)
(* Machine-checked proofs about AuditTrail, for any set of producers,      *)
(* sources, calls and flushes, any redelivery window and any of its        *)
(* faults: a source's events are one linked history in source order, and   *)
(* what the trail answers is backed by the outbox and the ledger.  Then    *)
(* about EvidenceStore, for any plaintexts, keys, entities, readers and    *)
(* legal holds.                                                            *)
(***************************************************************************)
EXTENDS AuditTrail, EvidenceStore, FiniteSetTheorems, SequenceTheorems, WellFoundedInduction, TLAPS

-----------------------------------------------------------------------------
(* Sequences as maps and sets in insertion order.                          *)

\* A sequence, its elements and its positions.
LEMMA Ranged ==
    ASSUME NEW S, NEW q \in Seq(S)
    PROVE  /\ Len(q) \in Nat /\ DOMAIN q = 1..Len(q) /\ InSeq(q) \subseteq S
           /\ \A i \in DOMAIN q : q[i] \in S /\ q[i] \in InSeq(q)
           /\ \A x \in InSeq(q) : \E i \in DOMAIN q : q[i] = x
           /\ (q = <<>>) = (Len(q) = 0)
           /\ q \in Seq(InSeq(q))
<1>1. Len(q) \in Nat /\ DOMAIN q = 1..Len(q) /\ \A i \in 1..Len(q) : q[i] \in S  BY LenProperties, ElementOfSeq
<1>2. (q = <<>>) = (Len(q) = 0)  BY EmptySeq
<1>3. q \in Seq(InSeq(q))
  <2>1. PICK n \in Nat : n = Len(q)  BY <1>1
  <2>2. q \in [1..n -> InSeq(q)]
    <3>1. q \in [1..n -> S]  BY <2>1, LenProperties
    <3> QED  BY <2>1, <3>1 DEF InSeq
  <2> QED  BY <2>2, SeqDef
<1> QED  BY <1>1, <1>2, <1>3 DEF InSeq

\* What Append adds to a sequence.
LEMMA Added ==
    ASSUME NEW S, NEW q \in Seq(S), NEW x \in S, NEW g, g = Append(q, x)
    PROVE  /\ g \in Seq(S) /\ Len(g) = Len(q) + 1 /\ DOMAIN g = 1..(Len(q) + 1)
           /\ \A i \in DOMAIN q : i \in DOMAIN g /\ g[i] = q[i]
           /\ g[Len(q) + 1] = x /\ Len(q) + 1 \in DOMAIN g
           /\ \A i \in DOMAIN g : i \in DOMAIN q \/ i = Len(q) + 1
           /\ InSeq(g) = InSeq(q) \cup {x}
<1>1. /\ g \in Seq(S) /\ Len(g) = Len(q) + 1 /\ \A i \in 1..Len(q) : g[i] = q[i]
      /\ g[Len(q) + 1] = x
  BY AppendProperties
<1>2. PICK n \in Nat : n = Len(q) /\ DOMAIN q = 1..n  BY Ranged
<1>3. DOMAIN g = 1..(n + 1)  BY <1>1, <1>2, Ranged
<1>4. InSeq(g) = InSeq(q) \cup {x}
  <2>1. ASSUME NEW y \in InSeq(g)  PROVE y \in InSeq(q) \cup {x}
    <3>1. PICK i \in 1..(n + 1) : g[i] = y  BY <1>1, <1>2 DEF InSeq
    <3> QED  BY <1>1, <1>2, <3>1 DEF InSeq
  <2>2. ASSUME NEW y \in InSeq(q)  PROVE y \in InSeq(g)
    <3>1. PICK i \in 1..n : q[i] = y  BY <1>2 DEF InSeq
    <3> QED  BY <1>1, <1>2, <3>1 DEF InSeq
  <2>3. x \in InSeq(g)  BY <1>1, <1>2 DEF InSeq
  <2> QED  BY <2>1, <2>2, <2>3
<1> QED  BY <1>1, <1>2, <1>3, <1>4

\* The elements after Append.
LEMMA AddedRange ==
    ASSUME NEW S, NEW q \in Seq(S), NEW x \in S
    PROVE  Append(q, x) \in Seq(S) /\ InSeq(Append(q, x)) = InSeq(q) \cup {x}
<1>1. PICK n \in Nat : n = Len(q) /\ DOMAIN q = 1..n  BY Ranged
<1>2. PICK g : g = Append(q, x)  OBVIOUS
<1>3. /\ g \in Seq(S) /\ Len(g) = n + 1 /\ \A i \in 1..n : g[i] = q[i]
      /\ g[n + 1] = x
  BY <1>1, <1>2, AppendProperties
<1>4. 1..(n + 1) = 1..n \cup {n + 1}  BY <1>1
<1>5. InSeq(g) = {g[i] : i \in 1..(n + 1)} /\ InSeq(q) = {q[i] : i \in 1..n}
  BY <1>1, <1>3 DEF InSeq
<1>6. {g[i] : i \in 1..(n + 1)} = {q[i] : i \in 1..n} \cup {x}
  BY ONLY <1>3, <1>4
<1> QED  BY <1>2, <1>3, <1>5, <1>6

\* What keeps its place when one value is deleted.
LEMMA DeletedKeeps ==
    ASSUME NEW S, NEW q \in Seq(S), NEW x, NEW g, g = Deleted(q, x)
    PROVE  /\ g \in Seq(S) /\ InSeq(g) \subseteq InSeq(q) /\ InSeq(q) \subseteq InSeq(g) \cup {x}
           /\ \A i \in DOMAIN g : \E k \in DOMAIN q :
                /\ k \in {i, i + 1} /\ g[i] = q[k]
                /\ \A m \in DOMAIN q : m < k => q[m] = x \/ \E l \in DOMAIN g : l < i /\ g[l] = q[m]
           /\ \A i, m \in DOMAIN g : i < m => \E k, l \in DOMAIN q : k < l /\ g[i] = q[k] /\ g[m] = q[l]
<1>1. PICK n \in Nat : n = Len(q) /\ DOMAIN q = 1..n  BY Ranged
<1>2. CASE x \notin InSeq(q)
  <2>1. g = q  BY <1>2 DEF Deleted
  <2> QED  BY <1>1, <2>1
<1>3. CASE x \in InSeq(q)
  <2>1. PICK k \in 1..n : q[k] = x /\ k = CHOOSE i \in 1..Len(q) : q[i] = x
    BY <1>1, <1>3 DEF InSeq
  <2>2. g = [i \in 1..(n - 1) |-> q[IF i < k THEN i ELSE i + 1]]
    BY <1>1, <1>3, <2>1 DEF Deleted
  <2>3. n - 1 \in Nat /\ DOMAIN g = 1..(n - 1)  BY <1>1, <2>1, <2>2
  <2>4. \A i \in 1..(n - 1) : /\ g[i] = q[IF i < k THEN i ELSE i + 1]
                              /\ (IF i < k THEN i ELSE i + 1) \in 1..n
    BY <2>1, <2>2
  <2>5. \A i \in 1..n : i # k => \E m \in 1..(n - 1) : i = IF m < k THEN m ELSE m + 1
    <3> SUFFICES ASSUME NEW i \in 1..n, i # k  PROVE \E m \in 1..(n - 1) : i = IF m < k THEN m ELSE m + 1
      OBVIOUS
    <3>1. CASE i < k
      <4>1. i \in 1..(n - 1)  BY <3>1, <2>1
      <4>2. i = IF i < k THEN i ELSE i + 1  BY <3>1
      <4> QED  BY <4>1, <4>2
    <3>2. CASE i > k
      <4>1. PICK m \in 1..(n - 1) : m + 1 = i /\ ~ (m < k)
        <5>1. i - 1 \in 1..(n - 1) /\ (i - 1) + 1 = i /\ ~ (i - 1 < k)  BY <3>2, <2>1
        <5> QED  BY ONLY <5>1
      <4>2. i = IF m < k THEN m ELSE m + 1  BY ONLY <4>1
      <4> QED  BY ONLY <4>2
    <3>3. i < k \/ i > k  BY ONLY i \in 1..n, k \in 1..n, n \in Nat, i # k
    <3> QED  BY ONLY <3>1, <3>2, <3>3
  <2>6. g \in Seq(S)
    <3>1. \A i \in 1..n : q[i] \in S  BY <1>1, Ranged
    <3>2. g \in [1..(n - 1) -> S]  BY <2>2, <2>4, <3>1
    <3> QED  BY <2>3, <3>2, SeqDef
  <2>7. InSeq(g) = {g[i] : i \in 1..(n - 1)} /\ InSeq(q) = {q[i] : i \in 1..n}
    <3>1. Len(g) = n - 1
      <4>1. PICK m \in Nat : m = Len(g) /\ DOMAIN g = 1..m  BY <2>6, Ranged
      <4>2. 1..m = 1..(n - 1)  BY <2>3, <4>1
      <4>3. m = n - 1  BY <2>3, <4>1, <4>2
      <4> QED  BY <4>1, <4>3
    <3> QED  BY <1>1, <3>1 DEF InSeq
  <2>8. InSeq(g) \subseteq InSeq(q)  BY <2>4, <2>7
  <2>9. InSeq(q) \subseteq InSeq(g) \cup {x}
    <3> SUFFICES ASSUME NEW i \in 1..n, q[i] # x  PROVE q[i] \in InSeq(g)
      BY <2>7
    <3>1. PICK m \in 1..(n - 1) : i = IF m < k THEN m ELSE m + 1  BY <2>1, <2>5
    <3> QED  BY <2>4, <2>7, <3>1
  <2>10. ASSUME NEW i \in 1..(n - 1)
         PROVE  \E l \in DOMAIN q :
                /\ l \in {i, i + 1} /\ g[i] = q[l]
                /\ \A m \in DOMAIN q : m < l => q[m] = x \/ \E j \in DOMAIN g : j < i /\ g[j] = q[m]
    <3>1. PICK l \in 1..n : l = (IF i < k THEN i ELSE i + 1) /\ g[i] = q[l]  BY <2>4
    <3>2. ASSUME NEW m \in 1..n, m < l, m # k  PROVE \E j \in DOMAIN g : j < i /\ g[j] = q[m]
      <4>1. PICK j \in 1..(n - 1) : m = IF j < k THEN j ELSE j + 1  BY <2>5, <3>2
      <4>2. j < i  BY <2>1, <3>1, <3>2, <4>1
      <4> QED  BY <2>3, <2>4, <4>1, <4>2
    <3> QED  BY <1>1, <2>1, <3>1, <3>2
  <2>11. ASSUME NEW i \in 1..(n - 1), NEW m \in 1..(n - 1), i < m
         PROVE  \E j, l \in DOMAIN q : j < l /\ g[i] = q[j] /\ g[m] = q[l]
    <3>1. PICK j \in 1..n, l \in 1..n : /\ j = (IF i < k THEN i ELSE i + 1) /\ g[i] = q[j]
                                       /\ l = (IF m < k THEN m ELSE m + 1) /\ g[m] = q[l]
      BY <2>4
    <3>2. j < l  BY <2>1, <2>11, <3>1
    <3> QED  BY <1>1, <3>1, <3>2
  <2>12. \A i \in DOMAIN g : \E l \in DOMAIN q :
            /\ l \in {i, i + 1} /\ g[i] = q[l]
            /\ \A m \in DOMAIN q : m < l => q[m] = x \/ \E j \in DOMAIN g : j < i /\ g[j] = q[m]
    BY ONLY <2>3, <2>10, Zenon
  <2>13. \A i, m \in DOMAIN g : i < m => \E j, l \in DOMAIN q : j < l /\ g[i] = q[j] /\ g[m] = q[l]
    <3> SUFFICES ASSUME NEW i \in DOMAIN g, NEW m \in DOMAIN g, i < m
                 PROVE  \E j, l \in DOMAIN q : j < l /\ g[i] = q[j] /\ g[m] = q[l]
      OBVIOUS
    <3>1. i \in 1..(n - 1) /\ m \in 1..(n - 1)  BY <2>3
    <3> QED  BY ONLY <2>11, <3>1, i < m
  <2> QED  BY ONLY <2>6, <2>8, <2>9, <2>12, <2>13, Zenon
<1> QED  BY <1>2, <1>3

\* A value with one place leaves with it.
LEMMA DeletedGone ==
    ASSUME NEW S, NEW q \in Seq(S), NEW x, NEW g, g = Deleted(q, x),
           \A i, k \in DOMAIN q : q[i] = q[k] => i = k
    PROVE  x \notin InSeq(g) /\ \A i, k \in DOMAIN g : g[i] = g[k] => i = k
<1>1. PICK n \in Nat : n = Len(q) /\ DOMAIN q = 1..n  BY Ranged
<1>2. CASE x \notin InSeq(q)
  <2>1. g = q  BY <1>2 DEF Deleted
  <2> QED  BY <1>2, <2>1
<1>3. CASE x \in InSeq(q)
  <2>1. PICK k \in 1..n : q[k] = x /\ k = CHOOSE i \in 1..Len(q) : q[i] = x
    BY <1>1, <1>3 DEF InSeq
  <2>2. g = [i \in 1..(n - 1) |-> q[IF i < k THEN i ELSE i + 1]]
    BY <1>1, <1>3, <2>1 DEF Deleted
  <2>3. DOMAIN g = 1..(n - 1)  BY <2>2
  <2>4. \A i \in 1..(n - 1) : g[i] = q[IF i < k THEN i ELSE i + 1]  BY <2>2
  <2>5. \A i \in 1..(n - 1) : g[i] # x
    <3> SUFFICES ASSUME NEW i \in 1..(n - 1), g[i] = x  PROVE FALSE
      OBVIOUS
    <3>1. PICK l \in 1..n : l = (IF i < k THEN i ELSE i + 1) /\ g[i] = q[l]  BY <2>4
    <3>2. l = k  BY <1>1, <2>1, <3>1
    <3> QED  BY <3>1, <3>2
  <2>6. x \notin InSeq(g)
    <3>1. g \in Seq(S)  BY DeletedKeeps
    <3> QED  BY <2>3, <2>5, <3>1, Ranged
  <2>7. ASSUME NEW i \in 1..(n - 1), NEW m \in 1..(n - 1), g[i] = g[m]  PROVE i = m
    <3>1. PICK j \in 1..n, l \in 1..n : /\ j = (IF i < k THEN i ELSE i + 1) /\ g[i] = q[j]
                                       /\ l = (IF m < k THEN m ELSE m + 1) /\ g[m] = q[l]
      BY <2>4
    <3>2. j = l  BY <1>1, <2>7, <3>1
    <3> QED  BY <2>1, <3>1, <3>2
  <2> QED  BY <2>3, <2>6, <2>7
<1> QED  BY <1>2, <1>3

\* What Tail leaves of a sequence.
LEMMA Tailed ==
    ASSUME NEW S, NEW q \in Seq(S), q # <<>>
    PROVE  /\ Tail(q) \in Seq(S) /\ Len(Tail(q)) = Len(q) - 1 /\ Head(q) = q[1] /\ 1 \in DOMAIN q
           /\ \A i \in DOMAIN Tail(q) : i + 1 \in DOMAIN q /\ Tail(q)[i] = q[i + 1]
           /\ \A i \in DOMAIN q : i = 1 \/ (i - 1 \in DOMAIN Tail(q) /\ Tail(q)[i - 1] = q[i])
           /\ Head(q) \in InSeq(q) /\ InSeq(Tail(q)) \subseteq InSeq(q)
<1>1. PICK n \in Nat : n = Len(q) /\ DOMAIN q = 1..n /\ n # 0  BY Ranged
<1>2. /\ Tail(q) \in Seq(S) /\ Head(q) = q[1] /\ Len(Tail(q)) = n - 1
      /\ \A i \in 1..(n - 1) : Tail(q)[i] = q[i + 1]
  BY <1>1, HeadTailProperties
<1>3. DOMAIN Tail(q) = 1..(n - 1)  BY <1>2, Ranged
<1>4. Head(q) \in InSeq(q)  BY <1>1, <1>2 DEF InSeq
<1>5. \A i \in 1..(n - 1) : i + 1 \in 1..n /\ Tail(q)[i] = q[i + 1]  BY <1>1, <1>2
<1>6. InSeq(Tail(q)) \subseteq InSeq(q)
  BY <1>1, <1>2, <1>5 DEF InSeq
<1>7. \A i \in 1..n : i = 1 \/ (i - 1 \in 1..(n - 1) /\ Tail(q)[i - 1] = q[i])
  <2> SUFFICES ASSUME NEW i \in 1..n, i # 1  PROVE i - 1 \in 1..(n - 1) /\ Tail(q)[i - 1] = q[i]
    OBVIOUS
  <2>1. i - 1 \in 1..(n - 1) /\ (i - 1) + 1 = i  BY <1>1
  <2> QED  BY <1>5, <2>1
<1> QED  BY <1>1, <1>2, <1>3, <1>4, <1>5, <1>6, <1>7

-----------------------------------------------------------------------------
(* The producer: what a source state has booked.                           *)

StateFields == {"next", "pending", "claims", "retained", "latest"}
ClaimFields == {"id", "seq", "prev", "digest"}

\* The calls in a construction chain, and those that have frozen an event.
InChain == {"queued", "claimed", "abandon", "enqueue"}
Building == {"claimed", "abandon"}
Freezing == {"enqueue", "submit", "receipt", "pending", "recorded"}
BufferedSteps == {"enqueue", "pending"}
DirectSteps == {"submit", "receipt", "recorded"}

Emitted == UNION {ev[j] : j \in Jobs}

OneValue(set) == \A u, w \in set : u = w

ClaimSound(s, c, st, E) ==
    /\ DOMAIN c = ClaimFields /\ c.id \in Ids /\ c.seq \in 1..st.next
    /\ OneValue(c.prev) /\ \A p \in c.prev : p.src = s /\ p.seq \in Nat /\ p.seq + 1 = c.seq
    /\ \A e \in c.digest : e \in E /\ e.src = s /\ e.id = c.id /\ e.seq = c.seq

ClaimsSound(s, st, E) ==
    /\ \A c \in st.claims : ClaimSound(s, c, st, E)
    /\ \A c, d \in st.claims : c.id = d.id \/ c.seq = d.seq => c = d

\* A claim waits for its receipt or is in the redelivery window, not both.
WindowSound(st, L) ==
    /\ st.retained \in Seq(Ids)
    /\ \A i, k \in DOMAIN st.retained : st.retained[i] = st.retained[k] => i = k
    /\ \A id \in InSeq(st.retained) : \E c \in st.claims :
        /\ c.id = id /\ c.digest # {} /\ c.digest \subseteq L
        /\ \A p \in st.pending : p.seq # c.seq
    /\ \A p \in st.pending : p.id \in Ids /\ \E c \in st.claims : c.id = p.id /\ c.seq = p.seq
    /\ \A c \in st.claims : c.id \in InSeq(st.retained) \/ \E p \in st.pending : p.seq = c.seq

\* An event keeps its sequence for itself, and its claim until it is recorded.
EventsBooked(s, st, E, L) ==
    \A e \in E : e.src = s =>
        /\ e.seq \in 1..st.next
        /\ \A c \in st.claims : c.seq = e.seq => c.digest = {e}
        /\ e \in L \/ \E c \in st.claims : c.seq = e.seq

Receipted(s, st, L) ==
    \A q \in 1..st.next : (\E p \in st.pending : p.seq = q) \/ \E e \in L : e.src = s /\ e.seq = q

Booked(s, st, E, L) ==
    /\ DOMAIN st = StateFields /\ st.next \in Nat
    /\ ClaimsSound(s, st, E) /\ WindowSound(st, L)
    /\ OneValue(st.latest) /\ \A p \in st.latest : p.src = s /\ p.seq = st.next
    /\ EventsBooked(s, st, E, L) /\ Receipted(s, st, L)

Books == DOMAIN src = Sources /\ \A s \in Sources : Booked(s, src[s], Emitted, InSeq(ledger))

-----------------------------------------------------------------------------
(* The producer: calls, their chains, and what is on its way.              *)

JobSound(j) ==
    /\ step[j] \in InChain \cup Freezing \cup {"idle", "read", "failed", "crashed"}
    /\ step[j] # "idle" => j \in tset.jobs
    /\ DOMAIN claimed[j] = {"seq", "prev"} /\ claimed[j].seq \in Nat /\ mark[j] \in Nat
    /\ OneValue(claimed[j].prev)
    /\ \A p \in claimed[j].prev : p.src = SourceOfJob(j) /\ p.seq + 1 = claimed[j].seq
    /\ \A e \in ev[j] : e = Event(j)
    /\ ev[j] # {} => step[j] \in Freezing \cup {"failed", "crashed"}
    /\ step[j] \in Freezing => ev[j] # {}
    /\ step[j] = "receipt" => ev[j] \subseteq InSeq(ledger)
    /\ step[j] \in BufferedSteps => Delivery = "buffered"
    /\ step[j] \in DirectSteps => Delivery # "buffered"

CallsSound ==
    /\ step \in [Jobs -> InChain \cup Freezing \cup {"idle", "read", "failed", "crashed"}]
    /\ DOMAIN claimed = Jobs /\ DOMAIN mark = Jobs /\ DOMAIN ev = Jobs
    /\ \A j \in Jobs : JobSound(j)

ChainSound(t) ==
    /\ lock[t] \in Seq(Jobs)
    /\ \A i \in DOMAIN lock[t] :
        /\ Job[lock[t][i]].trail = t /\ step[lock[t][i]] \in InChain
        /\ step[lock[t][i]] # "queued" => i = 1
    /\ \A i, k \in DOMAIN lock[t] : lock[t][i] = lock[t][k] => i = k

Chains ==
    /\ DOMAIN lock = Trails /\ \A t \in Trails : ChainSound(t)
    /\ \A j \in Jobs : step[j] \in InChain =>
        \E i \in DOMAIN lock[Job[j].trail] : lock[Job[j].trail][i] = j

\* One identity is in the outbox and in the ledger once.
Items ==
    /\ outbox \in Seq(Emitted) /\ ledger \in Seq(Emitted)
    /\ \A i, k \in DOMAIN outbox : SameItem(outbox[i], outbox[k]) => i = k
    /\ \A i, k \in DOMAIN ledger : SameItem(ledger[i], ledger[k]) => i = k

FlushSound(f) ==
    /\ DOMAIN fl[f] = {"pc", "rest", "blocked"}
    /\ fl[f].pc \in {"idle", "next", "fail", "receipt", "ack"}
    /\ fl[f].rest \in Seq(Emitted)
    /\ fl[f].pc # "idle" => fl[f].rest # <<>> /\ Delivery = "buffered"
    /\ fl[f].pc = "idle" => fl[f].rest = <<>>
    /\ fl[f].pc \in {"receipt", "ack"} => Current(f) \in InSeq(ledger)

Flushes == DOMAIN fl = Flushers /\ \A f \in Flushers : FlushSound(f)

TrailBase ==
    /\ tset \in TrailSettings /\ trailCrashes \in 0..MaxTrailCrashes
    /\ Books /\ CallsSound /\ Chains /\ Items /\ Flushes

-----------------------------------------------------------------------------
(* The producer: links, marks and order.                                   *)

Unemitted(st) == {c \in st.claims : c.digest = {}}

FrozenAt(s, q) == \E e \in Emitted : e.src = s /\ e.seq = q

\* Where a source has one trail that does not fail, a claim without an event is that of
\* the call under way.
SourceLinked(s) ==
    LET st == src[s] IN
    /\ \A c \in Unemitted(st) : c.seq = st.next /\ \E j \in Jobs :
        step[j] \in Building /\ SourceOfJob(j) = s /\ Job[j].id = c.id /\ claimed[j].seq = c.seq
    /\ st.next # 0 /\ Unemitted(st) = {} => st.latest # {}
    /\ \A c \in st.claims : c.seq > 1 => c.prev # {}
    /\ \A q \in 1..st.next : FrozenAt(s, q) \/ \E c \in Unemitted(st) : c.seq = q

JobLinked(j) ==
    /\ step[j] \in Building \/ ev[j] # {} => (claimed[j].seq > 1 => claimed[j].prev # {})
    /\ \A q \in 1..mark[j] : q # mark[j] => FrozenAt(SourceOfJob(j), q)

MarkSound(e) == \A q \in 1..e.mark : FrozenAt(e.src, q)

Linked == Alone =>
    /\ \A s \in Sources : SourceLinked(s)
    /\ \A j \in Jobs : JobLinked(j)
    /\ \A e \in Emitted : MarkSound(e)

\* What is still to be committed, or never will be.
Kept(e) == e \in InSeq(outbox) \cup InSeq(ledger) \/ Conflicting(e)

KeptItems == KeyedBySource =>
    /\ \A j \in Jobs : step[j] = "pending" => \A e \in ev[j] : Kept(e)
    /\ \A f \in Flushers : \A i \in DOMAIN fl[f].rest : Kept(fl[f].rest[i])

OfferedOnce == \A j, k \in tset.jobs : SourceOfJob(j) = SourceOfJob(k) /\ Job[j].id = Job[k].id => j = k

InTurn == Delivery = "buffered" /\ KeyedBySource /\ OneTrail /\ NoneOvertaken

Low(e, f) == e.src = f.src /\ e.seq < f.seq

\* An event that will not be committed any more, or was.
Dead(e) ==
    \/ Conflicting(e)
    \/ /\ OfferedOnce
       /\ e \notin InSeq(outbox) \cup InSeq(ledger) /\ \A f \in Flushers : e \notin InSeq(fl[f].rest)
       /\ \A j \in Jobs : e \in ev[j] => step[j] \in {"failed", "crashed"}
Over(e) == e \in InSeq(ledger) \/ Dead(e)

\* A call that builds has the newest claim, if its claim is without an event.
Newest == \A j \in Jobs : step[j] \in Building =>
    \A c \in Unemitted(src[SourceOfJob(j)]) : c.id = Job[j].id => c.seq = src[SourceOfJob(j)].next

Offered == OfferedOnce => \A s \in Sources : \A c \in src[s].claims : \E j \in tset.jobs :
    SourceOfJob(j) = s /\ Job[j].id = c.id /\ step[j] \notin {"idle", "read", "queued"}

FailedKept == ~ OfferedOnce => \A j \in Jobs : step[j] \in {"failed", "crashed"} => \A e \in ev[j] : Kept(e)

\* Whatever is ahead of e in its source order is behind it on its way, or e is over.
InLedgerOrder(e) == \A g \in InSeq(ledger) : Low(e, g) => Over(e)
InOutboxOrder(e) == \A k \in DOMAIN outbox : Low(e, outbox[k]) =>
    Over(e) \/ \E i \in DOMAIN outbox : i < k /\ outbox[i] = e
InRestOrder(e, f) == \A k \in DOMAIN fl[f].rest : Low(e, fl[f].rest[k]) =>
    Over(e) \/ e.src \in fl[f].blocked \/ \E i \in DOMAIN fl[f].rest : i < k /\ fl[f].rest[i] = e

AfterLower(e) == InLedgerOrder(e) /\ InOutboxOrder(e) /\ \A f \in Flushers : InRestOrder(e, f)

LedgerOrdered ==
    \A i, k \in DOMAIN ledger : i < k /\ ledger[i].src = ledger[k].src => ledger[i].seq < ledger[k].seq

Ordered == InTurn => Newest /\ Offered /\ FailedKept /\ LedgerOrdered /\ \A e \in Emitted : AfterLower(e)

\* Two events of a source have two sequences.
NoFork == \A e, f \in Emitted : e.src = f.src /\ e.seq = f.seq => e = f

TrailInv == TrailBase /\ NoFork /\ Linked /\ KeptItems /\ Ordered

-----------------------------------------------------------------------------
(* What claimEvent, abandonClaim, markEmitted and markReceipted keep booked. *)

\* The record that claimEvent, abandonClaim and markReceipted leave.
LEMMA ClaimedState ==
    ASSUME NEW st, DOMAIN st = StateFields, NEW id
    PROVE  /\ ClaimsOf(st, id) # {} =>
                /\ id \notin InSeq(st.retained) => ClaimEvent(st, id) = st
                /\ DOMAIN ClaimEvent(st, id) = StateFields
                /\ ClaimEvent(st, id).next = st.next /\ ClaimEvent(st, id).pending = st.pending
                /\ ClaimEvent(st, id).claims = st.claims /\ ClaimEvent(st, id).latest = st.latest
                /\ id \in InSeq(st.retained) =>
                     ClaimEvent(st, id).retained = Append(Deleted(st.retained, id), id)
           /\ ClaimsOf(st, id) = {} =>
                /\ DOMAIN ClaimEvent(st, id) = StateFields
                /\ ClaimEvent(st, id).next = st.next + 1
                /\ ClaimEvent(st, id).pending = st.pending \cup {[seq |-> st.next + 1, id |-> id]}
                /\ ClaimEvent(st, id).claims =
                     st.claims \cup {[id |-> id, seq |-> st.next + 1, prev |-> st.latest, digest |-> {}]}
                /\ ClaimEvent(st, id).latest = {} /\ ClaimEvent(st, id).retained = st.retained
BY DEF StateFields, ClaimEvent

\* claimEvent keeps the books, and the claim it returns is linked to its predecessor.
LEMMA ClaimBooked ==
    ASSUME NEW s, NEW st, NEW E, NEW L, Booked(s, st, E, L), NEW id \in Ids,
           NEW ns, ns = ClaimEvent(st, id)
    PROVE  /\ Booked(s, ns, E, L)
           /\ \A c \in ClaimsOf(ns, id) :
                /\ c.seq \in 1..ns.next /\ OneValue(c.prev)
                /\ \A p \in c.prev : p.src = s /\ p.seq \in Nat /\ p.seq + 1 = c.seq
<1> USE DEF Booked
<1>1. DOMAIN st = StateFields /\ st.next \in Nat  OBVIOUS
<1>2. CASE ClaimsOf(st, id) # {} /\ id \notin InSeq(st.retained)
  <2>1. ns = st  BY ONLY <1>1, <1>2, ns = ClaimEvent(st, id), ClaimedState
  <2> QED  BY <2>1 DEF ClaimsSound, ClaimSound, ClaimsOf
<1>3. CASE ClaimsOf(st, id) # {} /\ id \in InSeq(st.retained)
  <2>1. /\ DOMAIN ns = StateFields /\ ns.next = st.next /\ ns.pending = st.pending
        /\ ns.claims = st.claims /\ ns.latest = st.latest
        /\ ns.retained = Append(Deleted(st.retained, id), id)
    BY ONLY <1>1, <1>3, ns = ClaimEvent(st, id), ClaimedState
  <2>2. PICK g : g = Deleted(st.retained, id)  OBVIOUS
  <2>3. /\ g \in Seq(Ids) /\ InSeq(g) \subseteq InSeq(st.retained)
        /\ InSeq(st.retained) \subseteq InSeq(g) \cup {id}
        /\ id \notin InSeq(g) /\ \A i, k \in DOMAIN g : g[i] = g[k] => i = k
    <3>1. st.retained \in Seq(Ids) /\ \A i, k \in DOMAIN st.retained : st.retained[i] = st.retained[k] => i = k
      BY DEF WindowSound
    <3>2. PICK h \in Seq(Ids) : h = st.retained /\ \A i, k \in DOMAIN h : h[i] = h[k] => i = k
      BY ONLY <3>1
    <3>3. g = Deleted(h, id)  BY <2>2, <3>2
    <3>4. g \in Seq(Ids) /\ InSeq(g) \subseteq InSeq(h) /\ InSeq(h) \subseteq InSeq(g) \cup {id}
      BY ONLY <3>2, <3>3, DeletedKeeps
    <3>5. id \notin InSeq(g) /\ \A i, k \in DOMAIN g : g[i] = g[k] => i = k
      BY ONLY <3>2, <3>3, DeletedGone
    <3> QED  BY ONLY <3>2, <3>4, <3>5
  <2>4. PICK r : r = ns.retained  OBVIOUS
  <2>5. r = Append(g, id)  BY <2>1, <2>2, <2>4
  <2>6. r \in Seq(Ids) /\ InSeq(r) = InSeq(st.retained)
    <3>1. r \in Seq(Ids) /\ InSeq(r) = InSeq(g) \cup {id}
      <4>1. g \in Seq(Ids)  BY <2>3
      <4>2. Append(g, id) \in Seq(Ids) /\ InSeq(Append(g, id)) = InSeq(g) \cup {id}
        BY ONLY <4>1, id \in Ids, AddedRange
      <4> QED  BY ONLY <4>2, <2>5, Zenon
    <3>2. InSeq(g) \cup {id} = InSeq(st.retained)  BY ONLY <2>3, <1>3
    <3> QED  BY ONLY <3>1, <3>2
  <2>7. \A i, k \in DOMAIN r : r[i] = r[k] => i = k
    <3>1. /\ \A i \in DOMAIN g : r[i] = g[i] /\ g[i] \in InSeq(g)
          /\ r[Len(g) + 1] = id /\ \A i \in DOMAIN r : i \in DOMAIN g \/ i = Len(g) + 1
      BY ONLY <2>3, <2>5, id \in Ids, Added, Ranged
    <3> QED  BY ONLY <3>1, <2>3
  <2>8. WindowSound(ns, L)  BY <2>1, <2>4, <2>6, <2>7 DEF WindowSound
  <2> QED  BY <2>1, <2>8 DEF ClaimsSound, ClaimSound, ClaimsOf, EventsBooked, Receipted
<1>4. CASE ClaimsOf(st, id) = {}
  <2> DEFINE c0 == [id |-> id, seq |-> st.next + 1, prev |-> st.latest, digest |-> {}]
             p0 == [seq |-> st.next + 1, id |-> id]
  <2>1. /\ DOMAIN ns = StateFields /\ ns.next = st.next + 1 /\ ns.pending = st.pending \cup {p0}
        /\ ns.claims = st.claims \cup {c0} /\ ns.latest = {} /\ ns.retained = st.retained
    BY ONLY <1>1, <1>4, ns = ClaimEvent(st, id), ClaimedState
  <2>2. \A c \in st.claims : c.id # id /\ c.seq \in 1..st.next /\ c.seq # st.next + 1
    BY <1>1, <1>4 DEF ClaimsOf, ClaimsSound, ClaimSound
  <2>3. DOMAIN c0 = ClaimFields /\ c0.id = id /\ c0.seq = st.next + 1 /\ c0.prev = st.latest /\ c0.digest = {}
    BY DEF ClaimFields
  <2>4. p0.seq = st.next + 1 /\ p0.id = id  OBVIOUS
  <2>5. st.next + 1 \in 1..ns.next /\ 1..ns.next = 1..st.next \cup {st.next + 1}  BY <1>1, <2>1
  <2> HIDE DEF c0, p0
  <2>6. ClaimsSound(s, ns, E)
    <3>1. \A c \in st.claims : ClaimSound(s, c, ns, E)  BY <2>5 DEF ClaimsSound, ClaimSound
    <3>2. ClaimSound(s, c0, ns, E)
      <4>1. \A p \in st.latest : p.src = s /\ p.seq = st.next  OBVIOUS
      <4> QED  BY <2>3, <2>5, <4>1 DEF ClaimSound
    <3>3. \A c, d \in st.claims : c.id = d.id \/ c.seq = d.seq => c = d  BY DEF ClaimsSound
    <3> QED  BY <2>1, <2>2, <2>3, <3>1, <3>2, <3>3 DEF ClaimsSound
  <2>7. WindowSound(ns, L)
    <3>1. ASSUME NEW i \in InSeq(ns.retained)
          PROVE  \E c \in ns.claims : /\ c.id = i /\ c.digest # {} /\ c.digest \subseteq L
                                      /\ \A p \in ns.pending : p.seq # c.seq
      <4>1. PICK c \in st.claims : c.id = i /\ c.digest # {} /\ c.digest \subseteq L /\ \A p \in st.pending : p.seq # c.seq
        BY <2>1 DEF WindowSound
      <4> QED  BY <2>1, <2>2, <2>4, <4>1
    <3>2. \A p \in ns.pending : p.id \in Ids /\ \E c \in ns.claims : c.id = p.id /\ c.seq = p.seq
      BY <2>1, <2>3, <2>4 DEF WindowSound
    <3>3. \A c \in ns.claims : c.id \in InSeq(ns.retained) \/ \E p \in ns.pending : p.seq = c.seq
      BY <2>1, <2>3, <2>4 DEF WindowSound
    <3>4. ns.retained \in Seq(Ids) /\ \A i, k \in DOMAIN ns.retained : ns.retained[i] = ns.retained[k] => i = k
      BY <2>1 DEF WindowSound
    <3> QED  BY <3>1, <3>2, <3>3, <3>4 DEF WindowSound
  <2>8. EventsBooked(s, ns, E, L)
    <3> SUFFICES ASSUME NEW e \in E, e.src = s
                 PROVE  /\ e.seq \in 1..ns.next /\ \A c \in ns.claims : c.seq = e.seq => c.digest = {e}
                        /\ e \in L \/ \E c \in ns.claims : c.seq = e.seq
      BY DEF EventsBooked
    <3>1. /\ e.seq \in 1..st.next /\ \A c \in st.claims : c.seq = e.seq => c.digest = {e}
          /\ e \in L \/ \E c \in st.claims : c.seq = e.seq
      BY DEF EventsBooked
    <3>2. e.seq # st.next + 1  BY <1>1, <3>1
    <3> QED  BY <2>1, <2>3, <2>5, <3>1, <3>2
  <2>9. Receipted(s, ns, L)
    BY <2>1, <2>4, <2>5 DEF Receipted
  <2>10. ns.next \in Nat  BY <1>1, <2>1
  <2>11. Booked(s, ns, E, L)
    <3>1. ns.latest = {} /\ OneValue(ns.latest)  BY <2>1 DEF OneValue
    <3> QED  BY ONLY <2>1, <2>6, <2>7, <2>8, <2>9, <2>10, <3>1 DEF Booked
  <2>12. \A c \in ns.claims : ClaimSound(s, c, ns, E)  BY <2>6 DEF ClaimsSound
  <2> QED  BY ONLY <2>11, <2>12 DEF ClaimsOf, ClaimSound
<1> QED  BY <1>2, <1>3, <1>4

\* abandonClaim undoes the newest claim and nothing else.
LEMMA AbandonBooked ==
    ASSUME NEW s, NEW st, NEW E, NEW L, Booked(s, st, E, L), NEW id, NEW q,
           NEW ns, ns = AbandonClaim(st, id, q)
    PROVE  /\ Booked(s, ns, E, L)
           /\ ns = st \/ \E c \in st.claims :
                /\ c.id = id /\ c.seq = q /\ c.digest = {} /\ q = st.next
                /\ ns.claims = st.claims \ {c} /\ ns.next = st.next - 1 /\ ns.latest = c.prev
           /\ ns = st => \A c \in st.claims : ~ (c.id = id /\ c.seq = q /\ c.digest = {} /\ q = st.next)
<1> DEFINE mine == {c \in ClaimsOf(st, id) : c.seq = q /\ c.digest = {} /\ q = st.next}
<1>1. DOMAIN st = StateFields /\ st.next \in Nat  BY DEF Booked
<1>2. CASE mine = {}
  <2>1. ns = st  BY <1>2 DEF AbandonClaim
  <2>2. \A c \in st.claims : ~ (c.id = id /\ c.seq = q /\ c.digest = {} /\ q = st.next)
    BY <1>2 DEF ClaimsOf
  <2> QED  BY <2>1, <2>2
<1>3. CASE mine # {}
  <2>1. PICK c0 \in mine : TRUE  BY <1>3
  <2>2. c0 \in st.claims /\ c0.id = id /\ c0.seq = q /\ c0.digest = {} /\ q = st.next
    BY <2>1 DEF ClaimsOf
  <2>3. \A c, d \in st.claims : c.id = d.id \/ c.seq = d.seq => c = d  BY DEF Booked, ClaimsSound
  <2>4. mine = {c0}  BY <2>1, <2>2, <2>3 DEF ClaimsOf
  <2>5. ClaimSound(s, c0, st, E)  BY <2>2 DEF Booked, ClaimsSound
  <2>6. q \in 1..st.next  BY <2>2, <2>5 DEF ClaimSound
  <2>7. ns = [st EXCEPT !.next = @ - 1, !.claims = @ \ mine, !.pending = {p \in @ : p.seq # q},
                        !.latest = UNION {c.prev : c \in mine}]
    BY <1>3 DEF AbandonClaim
  <2>8. UNION {c.prev : c \in mine} = c0.prev  BY <2>4
  <2> HIDE DEF mine
  <2>9. /\ DOMAIN ns = StateFields /\ ns.next = st.next - 1 /\ ns.claims = st.claims \ {c0}
        /\ ns.pending = {p \in st.pending : p.seq # q} /\ ns.latest = c0.prev /\ ns.retained = st.retained
    BY ONLY <1>1, <2>4, <2>7, <2>8 DEF StateFields
  <2>10. ns.next \in Nat /\ ns.next + 1 = q /\ 1..st.next = 1..ns.next \cup {q} /\ q \notin 1..ns.next
    BY <1>1, <2>2, <2>6, <2>9
  <2>11. \A c \in ns.claims : c \in st.claims /\ c # c0 /\ c.seq # q /\ c.seq \in 1..ns.next
    <3> SUFFICES ASSUME NEW c \in ns.claims
                 PROVE  c \in st.claims /\ c # c0 /\ c.seq # q /\ c.seq \in 1..ns.next
      OBVIOUS
    <3>1. c \in st.claims /\ c # c0  BY <2>9
    <3>2. c.seq # q  BY <2>2, <2>3, <3>1
    <3>3. c.seq \in 1..st.next  BY <3>1 DEF Booked, ClaimsSound, ClaimSound
    <3> QED  BY <2>10, <3>1, <3>2, <3>3
  <2>12. ClaimsSound(s, ns, E)
    <3>1. \A c \in ns.claims : ClaimSound(s, c, ns, E)
      BY <2>11 DEF Booked, ClaimsSound, ClaimSound
    <3> QED  BY <2>3, <2>11, <3>1 DEF ClaimsSound
  <2>13. WindowSound(ns, L)
    <3>1. ASSUME NEW i \in InSeq(ns.retained)
          PROVE  \E c \in ns.claims : /\ c.id = i /\ c.digest # {} /\ c.digest \subseteq L
                                      /\ \A p \in ns.pending : p.seq # c.seq
      <4>1. PICK c \in st.claims : c.id = i /\ c.digest # {} /\ c.digest \subseteq L /\ \A p \in st.pending : p.seq # c.seq
        BY <2>9 DEF Booked, WindowSound
      <4>2. c # c0  BY <2>2, <4>1
      <4> QED  BY <2>9, <4>1, <4>2
    <3>2. ASSUME NEW p \in ns.pending
          PROVE  p.id \in Ids /\ \E c \in ns.claims : c.id = p.id /\ c.seq = p.seq
      <4>1. p \in st.pending /\ p.seq # q  BY <2>9
      <4>2. p.id \in Ids /\ \E c \in st.claims : c.id = p.id /\ c.seq = p.seq
        BY <4>1 DEF Booked, WindowSound
      <4> QED  BY <2>2, <2>9, <4>1, <4>2
    <3>3. ASSUME NEW c \in ns.claims
          PROVE  c.id \in InSeq(ns.retained) \/ \E p \in ns.pending : p.seq = c.seq
      <4>1. c \in st.claims /\ c.seq # q  BY <2>11
      <4>2. c.id \in InSeq(st.retained) \/ \E p \in st.pending : p.seq = c.seq
        BY <4>1 DEF Booked, WindowSound
      <4> QED  BY <2>9, <4>1, <4>2
    <3>4. ns.retained \in Seq(Ids) /\ \A i, k \in DOMAIN ns.retained : ns.retained[i] = ns.retained[k] => i = k
      BY <2>9 DEF Booked, WindowSound
    <3> QED  BY <3>1, <3>2, <3>3, <3>4 DEF WindowSound
  <2>14. EventsBooked(s, ns, E, L)
    <3> SUFFICES ASSUME NEW e \in E, e.src = s
                 PROVE  /\ e.seq \in 1..ns.next /\ \A c \in ns.claims : c.seq = e.seq => c.digest = {e}
                        /\ e \in L \/ \E c \in ns.claims : c.seq = e.seq
      BY DEF EventsBooked
    <3>1. /\ e.seq \in 1..st.next /\ \A c \in st.claims : c.seq = e.seq => c.digest = {e}
          /\ e \in L \/ \E c \in st.claims : c.seq = e.seq
      BY DEF Booked, EventsBooked
    <3>2. e.seq # q
      <4>1. c0.seq = e.seq => c0.digest = {e}  BY <2>2, <3>1
      <4> QED  BY <2>2, <4>1
    <3> QED  BY <2>2, <2>9, <2>10, <3>1, <3>2
  <2>15. Receipted(s, ns, L)
    <3> SUFFICES ASSUME NEW r \in 1..ns.next
                 PROVE  (\E p \in ns.pending : p.seq = r) \/ \E e \in L : e.src = s /\ e.seq = r
      BY DEF Receipted
    <3>1. r \in 1..st.next /\ r # q  BY <2>10
    <3>2. (\E p \in st.pending : p.seq = r) \/ \E e \in L : e.src = s /\ e.seq = r
      BY <3>1 DEF Booked, Receipted
    <3> QED  BY <2>9, <3>1, <3>2
  <2>16. OneValue(ns.latest) /\ \A p \in ns.latest : p.src = s /\ p.seq = ns.next
    <3>1. OneValue(c0.prev) /\ \A p \in c0.prev : p.src = s /\ p.seq \in Nat /\ p.seq + 1 = q
      BY <2>2, <2>5 DEF ClaimSound
    <3> QED  BY <2>9, <2>10, <3>1
  <2>17. Booked(s, ns, E, L)  BY ONLY <2>9, <2>10, <2>12, <2>13, <2>14, <2>15, <2>16 DEF Booked
  <2>18. ns # st
    <3>1. ns.next # st.next  BY <1>1, <2>9
    <3> QED  BY <3>1
  <2> QED  BY <2>2, <2>9, <2>17, <2>18
<1> QED  BY <1>2, <1>3

\* markEmitted books one event on one claim.
LEMMA EmitBooked ==
    ASSUME NEW s, NEW st, NEW E, NEW L, Booked(s, st, E, L), NEW e, e.src = s, Emittable(st, e),
           NEW ns, ns = MarkEmitted(st, e)
    PROVE  /\ Booked(s, ns, E \cup {e}, L)
           /\ ns.next = st.next /\ ns.pending = st.pending
           /\ e.seq \in 1..st.next
           /\ ns.latest = (IF e.seq = st.next THEN {e} ELSE st.latest)
           /\ \A f \in E : f.src = s /\ f.seq = e.seq => f = e
           /\ \A c \in st.claims : c.digest = {} /\ c.seq # e.seq => c \in ns.claims
           /\ \A d \in ns.claims :
                /\ d.digest = {} => d \in st.claims /\ d.seq # e.seq
                /\ \E c \in st.claims : c.id = d.id /\ c.seq = d.seq /\ c.prev = d.prev
<1>1. DOMAIN st = StateFields /\ st.next \in Nat  BY DEF Booked
<1>2. \A c, d \in st.claims : c.id = d.id \/ c.seq = d.seq => c = d  BY DEF Booked, ClaimsSound
<1>3. PICK c0 \in st.claims : c0.id = e.id /\ c0.seq = e.seq /\ c0.digest \subseteq {e}
  BY DEF Emittable, ClaimsOf
<1>4. \A c \in st.claims : ClaimSound(s, c, st, E)  BY DEF Booked, ClaimsSound
<1>5. PICK d0 : d0 = [c0 EXCEPT !.digest = {e}]  OBVIOUS
<1>6. /\ DOMAIN d0 = ClaimFields /\ d0.id = c0.id /\ d0.seq = c0.seq /\ d0.prev = c0.prev
      /\ d0.digest = {e}
  <2>1. DOMAIN c0 = ClaimFields  BY <1>3, <1>4 DEF ClaimSound
  <2> QED  BY <2>1, <1>5 DEF ClaimFields
<1>7. /\ DOMAIN ns = StateFields /\ ns.next = st.next /\ ns.pending = st.pending
      /\ ns.retained = st.retained
      /\ ns.latest = (IF e.seq = st.next THEN {e} ELSE st.latest)
      /\ ns.claims = {IF c.id = e.id THEN [c EXCEPT !.digest = {e}] ELSE c : c \in st.claims}
  BY <1>1 DEF MarkEmitted, StateFields
<1>8. ns.claims = (st.claims \ {c0}) \cup {d0}
  <2>1. ASSUME NEW c \in st.claims
        PROVE  (IF c.id = e.id THEN [c EXCEPT !.digest = {e}] ELSE c) = IF c = c0 THEN d0 ELSE c
    BY <1>2, <1>3, <1>5
  <2>2. ASSUME NEW d \in ns.claims  PROVE d \in (st.claims \ {c0}) \cup {d0}
    <3>1. PICK c \in st.claims : d = IF c.id = e.id THEN [c EXCEPT !.digest = {e}] ELSE c
      BY <1>7
    <3>2. d = IF c = c0 THEN d0 ELSE c  BY ONLY <2>1, <3>1
    <3> QED  BY ONLY <3>2, c \in st.claims
  <2>3. ASSUME NEW d \in (st.claims \ {c0}) \cup {d0}  PROVE d \in ns.claims
    <3>1. PICK c \in st.claims : d = IF c = c0 THEN d0 ELSE c  BY <1>3
    <3>2. d = IF c.id = e.id THEN [c EXCEPT !.digest = {e}] ELSE c  BY ONLY <2>1, <3>1
    <3> QED  BY <1>7, <3>2
  <2> QED  BY ONLY <2>2, <2>3
<1>9. c0.seq \in 1..st.next  BY <1>3, <1>4 DEF ClaimSound
<1>10. \A f \in E : f.src = s /\ f.seq = e.seq => f = e
  <2> SUFFICES ASSUME NEW f \in E, f.src = s, f.seq = e.seq  PROVE f = e
    OBVIOUS
  <2>1. c0.digest = {f}  BY <1>3 DEF Booked, EventsBooked
  <2> QED  BY <1>3, <2>1
<1>11. ClaimsSound(s, ns, E \cup {e})
  <2>1. \A c \in st.claims : ClaimSound(s, c, ns, E \cup {e})  BY <1>4, <1>7 DEF ClaimSound
  <2>2. ClaimSound(s, d0, ns, E \cup {e})
    <3>1. ClaimSound(s, c0, st, E)  BY <1>3, <1>4
    <3> QED  BY <1>3, <1>6, <1>7, <3>1 DEF ClaimSound
  <2>3. \A c \in ns.claims : ClaimSound(s, c, ns, E \cup {e})  BY ONLY <1>8, <2>1, <2>2
  <2>4. \A c, d \in ns.claims : c.id = d.id \/ c.seq = d.seq => c = d  BY <1>2, <1>3, <1>6, <1>8
  <2> QED  BY ONLY <2>3, <2>4 DEF ClaimsSound
<1>12. WindowSound(ns, L)
  <2>1. ASSUME NEW i \in InSeq(ns.retained)
        PROVE  \E c \in ns.claims : /\ c.id = i /\ c.digest # {} /\ c.digest \subseteq L
                                    /\ \A p \in ns.pending : p.seq # c.seq
    <3>1. PICK c \in st.claims : c.id = i /\ c.digest # {} /\ c.digest \subseteq L /\ \A p \in st.pending : p.seq # c.seq
      BY <1>7 DEF Booked, WindowSound
    <3>2. CASE c = c0
      <4>1. d0.digest \subseteq L  BY <1>3, <1>6, <3>1, <3>2
      <4> QED  BY <1>6, <1>7, <1>8, <3>1, <3>2, <4>1
    <3>3. CASE c # c0  BY <1>7, <1>8, <3>1, <3>3
    <3> QED  BY <3>2, <3>3
  <2>2. \A p \in ns.pending : p.id \in Ids /\ \E c \in ns.claims : c.id = p.id /\ c.seq = p.seq
    BY <1>6, <1>7, <1>8 DEF Booked, WindowSound
  <2>3. \A c \in ns.claims : c.id \in InSeq(ns.retained) \/ \E p \in ns.pending : p.seq = c.seq
    BY <1>3, <1>6, <1>7, <1>8 DEF Booked, WindowSound
  <2>4. ns.retained \in Seq(Ids) /\ \A i, k \in DOMAIN ns.retained : ns.retained[i] = ns.retained[k] => i = k
    BY <1>7 DEF Booked, WindowSound
  <2> QED  BY <2>1, <2>2, <2>3, <2>4 DEF WindowSound
<1>13. EventsBooked(s, ns, E \cup {e}, L)
  <2>1. ASSUME NEW f \in E, f.src = s
        PROVE  /\ f.seq \in 1..ns.next /\ \A c \in ns.claims : c.seq = f.seq => c.digest = {f}
               /\ f \in L \/ \E c \in ns.claims : c.seq = f.seq
    <3>1. /\ f.seq \in 1..st.next /\ \A c \in st.claims : c.seq = f.seq => c.digest = {f}
          /\ f \in L \/ \E c \in st.claims : c.seq = f.seq
      BY <2>1 DEF Booked, EventsBooked
    <3>2. d0.seq = f.seq => f = e  BY <1>3, <1>6, <1>10, <2>1
    <3> QED  BY <1>6, <1>7, <1>8, <3>1, <3>2
  <2>2. /\ e.seq \in 1..ns.next /\ \A c \in ns.claims : c.seq = e.seq => c.digest = {e}
        /\ \E c \in ns.claims : c.seq = e.seq
    BY <1>2, <1>3, <1>6, <1>7, <1>8, <1>9
  <2> QED  BY <2>1, <2>2 DEF EventsBooked
<1>14. OneValue(ns.latest) /\ \A p \in ns.latest : p.src = s /\ p.seq = ns.next
  BY <1>7 DEF Booked, OneValue
<1>15. Receipted(s, ns, L)  BY <1>7 DEF Booked, Receipted
<1>16. Booked(s, ns, E \cup {e}, L)
  <2>1. ns.next \in Nat  BY <1>1, <1>7
  <2> QED  BY ONLY <1>7, <1>11, <1>12, <1>13, <1>14, <1>15, <2>1 DEF Booked
<1>17. \A c \in st.claims : c.digest = {} /\ c.seq # e.seq => c \in ns.claims  BY <1>3, <1>8
<1>18. \A d \in ns.claims : /\ d.digest = {} => d \in st.claims /\ d.seq # e.seq
                            /\ \E c \in st.claims : c.id = d.id /\ c.seq = d.seq /\ c.prev = d.prev
  BY <1>2, <1>3, <1>6, <1>8
<1>19. e.seq \in 1..st.next  BY <1>3, <1>9
<1> QED  BY ONLY <1>7, <1>10, <1>16, <1>17, <1>18, <1>19

\* markReceipted only drops claims whose event is recorded.
LEMMA ReceiptBooked ==
    ASSUME NEW s, NEW st, NEW E, NEW L, Booked(s, st, E, L), L \subseteq E, NEW e \in L, e.src = s,
           NEW ns, ns = MarkReceipted(st, e.seq), Window \in Nat
    PROVE  /\ Booked(s, ns, E, L)
           /\ ns.next = st.next /\ ns.latest = st.latest /\ ns.claims \subseteq st.claims
           /\ \A c \in st.claims : c.digest = {} => c \in ns.claims
<1>1. DOMAIN st = StateFields /\ st.next \in Nat  BY DEF Booked
<1>2. \A c, d \in st.claims : c.id = d.id \/ c.seq = d.seq => c = d  BY DEF Booked, ClaimsSound
<1> DEFINE q == e.seq
           done == {p \in st.pending : p.seq = q}
           kept == IF done = {} THEN st.retained ELSE Append(st.retained, (CHOOSE p \in done : TRUE).id)
           over == IF Len(kept) > Window THEN Len(kept) - Window ELSE 0
<1>3. /\ DOMAIN ns = StateFields /\ ns.next = st.next /\ ns.latest = st.latest
      /\ ns.pending = st.pending \ done
      /\ ns.retained = SubSeq(kept, over + 1, Len(kept))
      /\ ns.claims = {c \in st.claims : \A i \in 1..over : c.id # kept[i]}
  BY <1>1 DEF MarkReceipted, StateFields
<1>4. st.retained \in Seq(Ids) /\ \A i, k \in DOMAIN st.retained : st.retained[i] = st.retained[k] => i = k
  BY DEF Booked, WindowSound
\* What is kept has been recorded and waits for nothing.
<1>5. /\ kept \in Seq(Ids) /\ \A i, k \in DOMAIN kept : kept[i] = kept[k] => i = k
      /\ \A i \in InSeq(kept) : \E c \in st.claims :
           c.id = i /\ c.digest # {} /\ c.digest \subseteq L /\ \A p \in ns.pending : p.seq # c.seq
      /\ InSeq(st.retained) \subseteq InSeq(kept)
      /\ \A c \in st.claims, p \in done : c.seq = p.seq => c.id \in InSeq(kept)
  <2>1. \A i \in InSeq(st.retained) : \E c \in st.claims :
           c.id = i /\ c.digest # {} /\ c.digest \subseteq L /\ \A p \in st.pending : p.seq # c.seq
    BY DEF Booked, WindowSound
  <2>2. CASE done = {}
    <3>1. kept = st.retained  BY <2>2
    <3> QED  BY <1>3, <1>4, <2>1, <2>2, <3>1
  <2>3. CASE done # {}
    <3>1. PICK p0 : p0 \in done /\ p0 = CHOOSE p \in done : TRUE  BY <2>3
    <3>2. PICK r \in Seq(Ids) : r = st.retained  BY <1>4
    <3>3. PICK k : k = kept  OBVIOUS
    <3>4. k = Append(r, p0.id)  BY <2>3, <3>1, <3>2, <3>3
    <3>5. p0 \in st.pending /\ p0.seq = q  BY <3>1
    <3>6. PICK c0 \in st.claims : p0.id \in Ids /\ c0.id = p0.id /\ c0.seq = p0.seq
      BY <3>5 DEF Booked, WindowSound
    <3>7. c0.digest = {e}
      BY <3>5, <3>6 DEF Booked, EventsBooked
    <3>8. k \in Seq(Ids) /\ InSeq(k) = InSeq(r) \cup {p0.id}
      <4>1. p0.id \in Ids  BY <3>6
      <4>2. Append(r, p0.id) \in Seq(Ids) /\ InSeq(Append(r, p0.id)) = InSeq(r) \cup {p0.id}
        BY ONLY <3>2, <4>1, AddedRange
      <4> QED  BY ONLY <4>2, <3>4, Zenon
    <3>9. p0.id \notin InSeq(r)
      <4> SUFFICES ASSUME p0.id \in InSeq(r)  PROVE FALSE
        OBVIOUS
      <4>1. PICK c \in st.claims : c.id = p0.id /\ \A p \in st.pending : p.seq # c.seq  BY <2>1, <3>2
      <4> QED  BY <1>2, <3>5, <3>6, <4>1
    <3>10. \A i, m \in DOMAIN k : k[i] = k[m] => i = m
      <4>1. /\ \A i \in DOMAIN r : k[i] = r[i] /\ r[i] \in InSeq(r)
            /\ k[Len(r) + 1] = p0.id /\ \A i \in DOMAIN k : i \in DOMAIN r \/ i = Len(r) + 1
        <5>1. p0.id \in Ids  BY <3>6
        <5>2. \A i \in DOMAIN r : r[i] \in InSeq(r)  BY ONLY <3>2, Ranged
        <5>3. /\ \A i \in DOMAIN r : k[i] = r[i] /\ k[Len(r) + 1] = p0.id
              /\ k[Len(r) + 1] = p0.id
              /\ \A i \in DOMAIN k : i \in DOMAIN r \/ i = Len(r) + 1
          BY ONLY <3>2, <3>4, <5>1, Added
        <5> QED  BY ONLY <5>2, <5>3
      <4> QED  BY ONLY <4>1, <1>4, <3>2, <3>9
    <3>11. \A p \in ns.pending : p.seq # c0.seq  BY <1>3, <3>5, <3>6
    <3>12. \A i \in InSeq(k) : \E c \in st.claims :
           c.id = i /\ c.digest # {} /\ c.digest \subseteq L /\ \A p \in ns.pending : p.seq # c.seq
      <4>1. c0.digest # {} /\ c0.digest \subseteq L  BY <3>7
      <4> QED  BY <1>3, <2>1, <3>2, <3>6, <3>8, <3>11, <4>1
    <3>13. \A c \in st.claims, p \in done : c.seq = p.seq => c.id \in InSeq(k)
      BY <1>2, <3>5, <3>6, <3>8
    <3> HIDE DEF kept, done
    <3> QED  BY <3>2, <3>3, <3>8, <3>10, <3>12, <3>13
  <2> QED  BY <2>2, <2>3
<1>6. PICK k \in Seq(Ids) : k = kept  BY <1>5
<1>7. PICK n \in Nat : n = Len(k) /\ DOMAIN k = 1..n  BY Ranged
<1>8. PICK o \in Nat : o = over /\ o <= n
  <2>1. over = IF n > Window THEN n - Window ELSE 0
    <3> HIDE DEF kept
    <3> QED  BY <1>6, <1>7
  <2>2. PICK o \in Nat : o = (IF n > Window THEN n - Window ELSE 0) /\ o <= n
    <3>1. CASE n > Window
      <4>1. n - Window \in Nat /\ n - Window <= n  BY ONLY <3>1, n \in Nat, Window \in Nat
      <4> QED  BY <3>1, <4>1
    <3>2. CASE ~ (n > Window)
      <4>1. 0 \in Nat /\ 0 <= n  BY ONLY n \in Nat
      <4> QED  BY <3>2, <4>1
    <3> QED  BY <3>1, <3>2
  <2> HIDE DEF over
  <2> QED  BY ONLY <2>1, <2>2
<1>9. \A p \in ns.pending : p \in st.pending /\ p.seq # q  BY <1>3
<1>10. \A p \in st.pending : p \in ns.pending \/ p \in done  BY <1>3
<1>11. ns.claims = {c \in st.claims : \A i \in 1..o : c.id # k[i]}  BY <1>3, <1>6, <1>8
<1>12. ns.retained = SubSeq(k, o + 1, n)  BY <1>3, <1>6, <1>7, <1>8
<1> HIDE DEF kept, over
<1>13. PICK r : r = ns.retained  OBVIOUS
<1>14. /\ r \in Seq(Ids) /\ DOMAIN r = 1..(n - o)
       /\ \A i \in 1..(n - o) : r[i] = k[i + o] /\ i + o \in 1..n
       /\ \A i \in 1..n : i <= o \/ (i - o \in 1..(n - o) /\ r[i - o] = k[i])
  <2>1. r = SubSeq(k, o + 1, n)  BY <1>12, <1>13
  <2>2. SubSeq(k, o + 1, n) = [i \in 1..(1 + n - (o + 1)) |-> k[i + (o + 1) - 1]]
    BY <1>7, <1>8
  <2>3. n - o \in Nat /\ 1..(1 + n - (o + 1)) = 1..(n - o)  BY <1>7, <1>8
  <2>4. r = [i \in 1..(n - o) |-> k[i + (o + 1) - 1]]  BY <2>1, <2>2, <2>3
  <2>5. \A i \in 1..(n - o) : i + (o + 1) - 1 = i + o /\ i + o \in 1..n  BY <1>7, <1>8
  <2>6. r = [i \in 1..(n - o) |-> k[i + o]]  BY <2>4, <2>5
  <2>7. \A i \in 1..n : k[i] \in Ids  BY <1>7, Ranged
  <2>8. r \in [1..(n - o) -> Ids]  BY <2>5, <2>6, <2>7
  <2>9. r \in Seq(Ids)  BY <2>3, <2>8, SeqDef
  <2>10. ASSUME NEW i \in 1..n, ~ (i <= o)  PROVE i - o \in 1..(n - o) /\ r[i - o] = k[i]
    <3>1. i - o \in 1..(n - o) /\ (i - o) + o = i  BY <1>8, <2>10
    <3> QED  BY <2>6, <3>1
  <2> QED  BY <2>5, <2>6, <2>9, <2>10
<1>15. InSeq(r) = {r[i] : i \in 1..(n - o)} /\ InSeq(k) = {k[i] : i \in 1..n}
  <2>1. Len(r) \in Nat /\ DOMAIN r = 1..Len(r)  BY ONLY <1>14, Ranged
  <2>2. 1..Len(r) = 1..(n - o)  BY <1>14, <2>1
  <2> QED  BY <1>7, <2>2 DEF InSeq
<1>16. \A i, m \in 1..n : k[i] = k[m] => i = m  BY <1>5, <1>6, <1>7
<1>17. \A c \in ns.claims : c \in st.claims /\ \A i \in 1..o : c.id # k[i]  BY <1>11
<1>18. \A c \in st.claims : c \in ns.claims \/ c.id \in InSeq(k)
  <2> SUFFICES ASSUME NEW c \in st.claims, c \notin ns.claims  PROVE c.id \in InSeq(k)
    OBVIOUS
  <2>1. PICK i \in 1..o : c.id = k[i]  BY <1>11
  <2>2. i \in 1..n  BY <1>8
  <2> QED  BY <1>15, <2>1, <2>2
<1>19. \A i \in InSeq(k) : \E c \in st.claims :
          c.id = i /\ c.digest # {} /\ c.digest \subseteq L /\ \A p \in ns.pending : p.seq # c.seq
  BY <1>5, <1>6
<1>20. \A c \in st.claims : c.id \in InSeq(k) =>
          c.digest # {} /\ c.digest \subseteq L /\ \A p \in ns.pending : p.seq # c.seq
  BY <1>2, <1>19
<1>21. ClaimsSound(s, ns, E)
  <2>1. \A c \in ns.claims : ClaimSound(s, c, ns, E)  BY <1>3, <1>17 DEF Booked, ClaimsSound, ClaimSound
  <2> QED  BY <1>2, <1>17, <2>1 DEF ClaimsSound
<1>22. WindowSound(ns, L)
  <2>1. ASSUME NEW i \in InSeq(r)
        PROVE  \E c \in ns.claims : /\ c.id = i /\ c.digest # {} /\ c.digest \subseteq L
                                    /\ \A p \in ns.pending : p.seq # c.seq
    <3>1. PICK m \in 1..(n - o) : i = r[m]  BY <1>15
    <3>2. m + o \in 1..n /\ i = k[m + o]  BY <1>14, <3>1
    <3>3. i \in InSeq(k)  BY <1>15, <3>2
    <3>4. PICK c \in st.claims : c.id = i /\ c.digest # {} /\ c.digest \subseteq L /\ \A p \in ns.pending : p.seq # c.seq
      BY <1>19, <3>3
    <3>5. ASSUME NEW j \in 1..o, c.id = k[j]  PROVE FALSE
      <4>1. j \in 1..n /\ j # m + o  BY <1>8
      <4> QED  BY <1>16, <3>2, <3>4, <3>5, <4>1
    <3>6. c \in ns.claims  BY <1>11, <3>5
    <3> QED  BY <3>4, <3>6
  <2>2. ASSUME NEW p \in ns.pending
        PROVE  p.id \in Ids /\ \E c \in ns.claims : c.id = p.id /\ c.seq = p.seq
    <3>1. PICK c \in st.claims : p.id \in Ids /\ c.id = p.id /\ c.seq = p.seq
      BY <1>9 DEF Booked, WindowSound
    <3>2. c \in ns.claims  BY <1>18, <1>20, <3>1
    <3> QED  BY <3>1, <3>2
  <2>3. ASSUME NEW c \in ns.claims
        PROVE  c.id \in InSeq(r) \/ \E p \in ns.pending : p.seq = c.seq
    <3>1. c \in st.claims  BY <1>17
    <3>2. c.id \in InSeq(st.retained) \/ \E p \in st.pending : p.seq = c.seq
      BY <3>1 DEF Booked, WindowSound
    <3>3. c.id \in InSeq(k) \/ \E p \in ns.pending : p.seq = c.seq
      <4>1. ASSUME NEW p \in st.pending, p.seq = c.seq, p \notin ns.pending  PROVE c.id \in InSeq(k)
        <5>1. p \in done  BY <1>10, <4>1
        <5> HIDE DEF done
        <5> QED  BY <1>5, <1>6, <3>1, <4>1, <5>1
      <4>2. InSeq(st.retained) \subseteq InSeq(k)  BY <1>5, <1>6
      <4> QED  BY <3>2, <4>1, <4>2
    <3>4. ASSUME c.id \in InSeq(k)  PROVE c.id \in InSeq(r)
      <4>1. PICK i \in 1..n : c.id = k[i]  BY <1>15, <3>4
      <4>2. ~ (i <= o)  BY <1>17, <4>1
      <4> QED  BY <1>14, <1>15, <4>1, <4>2
    <3> QED  BY <3>3, <3>4
  <2>4. ASSUME NEW i \in DOMAIN r, NEW m \in DOMAIN r, r[i] = r[m]  PROVE i = m
    <3>1. i \in 1..(n - o) /\ m \in 1..(n - o)  BY <1>14
    <3>2. i + o \in 1..n /\ m + o \in 1..n /\ k[i + o] = k[m + o]  BY <1>14, <2>4, <3>1
    <3>3. i + o = m + o  BY <1>16, <3>2
    <3> QED  BY <3>1, <3>3
  <2> QED  BY <1>13, <1>14, <2>1, <2>2, <2>3, <2>4 DEF WindowSound
<1>23. EventsBooked(s, ns, E, L)
  <2> SUFFICES ASSUME NEW f \in E, f.src = s
               PROVE  /\ f.seq \in 1..ns.next /\ \A c \in ns.claims : c.seq = f.seq => c.digest = {f}
                      /\ f \in L \/ \E c \in ns.claims : c.seq = f.seq
    BY DEF EventsBooked
  <2>1. /\ f.seq \in 1..st.next /\ \A c \in st.claims : c.seq = f.seq => c.digest = {f}
        /\ f \in L \/ \E c \in st.claims : c.seq = f.seq
    BY DEF Booked, EventsBooked
  <2>2. ASSUME f \notin L  PROVE \E c \in ns.claims : c.seq = f.seq
    <3>1. PICK c \in st.claims : c.seq = f.seq /\ c.digest = {f}  BY <2>1, <2>2
    <3>2. c.id \notin InSeq(k)  BY <1>20, <2>2, <3>1
    <3> QED  BY <1>18, <3>1, <3>2
  <2> QED  BY <1>3, <1>17, <2>1, <2>2
<1>24. Receipted(s, ns, L)
  <2> SUFFICES ASSUME NEW m \in 1..ns.next
               PROVE  (\E p \in ns.pending : p.seq = m) \/ \E f \in L : f.src = s /\ f.seq = m
    BY DEF Receipted
  <2>1. (\E p \in st.pending : p.seq = m) \/ \E f \in L : f.src = s /\ f.seq = m
    BY <1>3 DEF Booked, Receipted
  <2>2. \A p \in done : p.seq = e.seq  OBVIOUS
  <2> QED  BY <1>10, <2>1, <2>2
<1>25. Booked(s, ns, E, L)
  <2>1. OneValue(ns.latest) /\ (\A p \in ns.latest : p.src = s /\ p.seq = ns.next) /\ ns.next \in Nat
    BY <1>1, <1>3 DEF Booked
  <2> QED  BY ONLY <1>3, <1>21, <1>22, <1>23, <1>24, <2>1 DEF Booked
<1>26. \A c \in st.claims : c.digest = {} => c \in ns.claims  BY <1>18, <1>20
<1> QED  BY <1>3, <1>17, <1>25, <1>26

\* More commits, and events of other sources, leave a booking as it is.
LEMMA BookedBeside ==
    ASSUME NEW s, NEW st, NEW E, NEW L, Booked(s, st, E, L), NEW F, NEW M,
           E \subseteq F, L \subseteq M, \A e \in F : e \in E \/ e.src # s
    PROVE  Booked(s, st, F, M)
<1>1. ClaimsSound(s, st, F)  BY DEF Booked, ClaimsSound, ClaimSound
<1>2. WindowSound(st, M)  BY DEF Booked, WindowSound
<1>3. EventsBooked(s, st, F, M)  BY DEF Booked, EventsBooked
<1>4. Receipted(s, st, M)  BY DEF Booked, Receipted
<1> QED  BY <1>1, <1>2, <1>3, <1>4 DEF Booked

-----------------------------------------------------------------------------
(* The calls of a trail and its chain of source constructions.             *)

USE TrailAssumption

\* What a setting is made of.
LEMMA Settings ==
    ASSUME tset \in TrailSettings
    PROVE  /\ tset.jobs \subseteq Jobs /\ tset.flushers \subseteq Flushers
           /\ \A j \in Jobs : /\ SourceOfJob(j) \in Sources /\ Job[j].trail \in Trails /\ Job[j].id \in Ids
                              /\ Job[j].kind \in RecordKinds /\ Job[j].body \in Bodies
           /\ Window \in Nat /\ OutboxLimit \in Nat /\ OutboxLimit # 0
<1>1. tset \in TrailSettingType  OBVIOUS
<1>2. tset.jobs \subseteq Jobs /\ tset.flushers \subseteq Flushers /\ tset.sourceOf \in [Trails -> Sources]
  BY <1>1 DEF TrailSettingType
<1>3. \A j \in Jobs : Job[j].trail \in Trails /\ Job[j].id \in Ids /\ Job[j].kind \in RecordKinds /\ Job[j].body \in Bodies
  OBVIOUS
<1> QED  BY <1>2, <1>3 DEF SourceOfJob, SourceOf

\* Who builds is at the head of its chain, and alone there.
LEMMA AtHead ==
    ASSUME Chains, NEW j \in Jobs, Job[j].trail \in Trails,
           step[j] \in InChain, step[j] = "queued" => Head(lock[Job[j].trail]) = j
    PROVE  /\ lock[Job[j].trail] \in Seq(Jobs) /\ lock[Job[j].trail] # <<>>
           /\ lock[Job[j].trail][1] = j /\ 1 \in DOMAIN lock[Job[j].trail]
<1>1. PICK q : q = lock[Job[j].trail]  OBVIOUS
<1>2. q \in Seq(Jobs)  BY <1>1 DEF Chains, ChainSound
<1>3. PICK i \in DOMAIN q : q[i] = j  BY <1>1 DEF Chains
<1>4. q # <<>>  BY <1>2, <1>3, Ranged
<1>5. Head(q) = q[1] /\ 1 \in DOMAIN q  BY <1>2, <1>4, Tailed
<1>6. CASE step[j] = "queued"  BY <1>1, <1>2, <1>4, <1>5, <1>6
<1>7. CASE step[j] # "queued"
  <2>1. i = 1  BY <1>1, <1>3, <1>7 DEF Chains, ChainSound
  <2> QED  BY <1>1, <1>2, <1>3, <1>4, <1>5, <2>1
<1> QED  BY <1>6, <1>7

\* One call of a chain builds at a time.
LEMMA OneBuilder ==
    ASSUME Chains, NEW j \in Jobs, NEW k \in Jobs, Job[j].trail \in Trails, Job[j].trail = Job[k].trail,
           step[j] \in InChain \ {"queued"}, step[k] \in InChain \ {"queued"}
    PROVE  j = k
<1>1. lock[Job[j].trail][1] = j  BY AtHead
<1>2. lock[Job[k].trail][1] = k  BY AtHead
<1> QED  BY <1>1, <1>2

\* ReleaseLock: the head of the chain leaves it.
LEMMA ReleaseChains ==
    ASSUME Chains, NEW j \in Jobs, Job[j].trail \in Trails, NEW p, p \notin InChain, DOMAIN step = Jobs,
           step[j] \in InChain, step[j] = "queued" => Head(lock[Job[j].trail]) = j,
           ReleaseLock(j, p)
    PROVE  Chains'
<1>1. PICK t \in Trails : t = Job[j].trail  OBVIOUS
<1>2. PICK q : q = lock[t]  OBVIOUS
<1>3. q \in Seq(Jobs) /\ q # <<>> /\ q[1] = j /\ 1 \in DOMAIN q  BY <1>1, <1>2, AtHead
<1>4. PICK g : g = Tail(q)  OBVIOUS
<1>5. /\ g \in Seq(Jobs) /\ \A i \in DOMAIN g : i + 1 \in DOMAIN q /\ g[i] = q[i + 1]
      /\ \A i \in DOMAIN q : i = 1 \/ (i - 1 \in DOMAIN g /\ g[i - 1] = q[i])
  BY ONLY <1>3, <1>4, Tailed
<1>6. /\ DOMAIN lock' = Trails /\ lock'[t] = g /\ \A u \in Trails : u # t => lock'[u] = lock[u]
      /\ step'[j] = p /\ \A k \in Jobs : k # j => step'[k] = step[k]
  BY <1>1, <1>2, <1>4 DEF Chains, ReleaseLock
<1>7. /\ \A i \in DOMAIN q : Job[q[i]].trail = t /\ step[q[i]] \in InChain /\ (step[q[i]] # "queued" => i = 1)
      /\ \A i, k \in DOMAIN q : q[i] = q[k] => i = k
  BY <1>2 DEF Chains, ChainSound
<1>8. ChainSound(t)'
  <2>1. \A i \in DOMAIN g : i \in Nat /\ i # 0
    BY <1>5, Ranged
  <2>2. ASSUME NEW i \in DOMAIN g
        PROVE  Job[g[i]].trail = t /\ step'[g[i]] \in InChain /\ (step'[g[i]] # "queued" => i = 1)
    <3>1. i + 1 \in DOMAIN q /\ g[i] = q[i + 1] /\ i + 1 # 1  BY <1>5, <2>1
    <3>2. q[i + 1] # j /\ q[i + 1] \in Jobs  BY <1>3, <1>7, <3>1, Ranged
    <3> QED  BY <1>6, <1>7, <3>1, <3>2
  <2>3. ASSUME NEW i \in DOMAIN g, NEW k \in DOMAIN g, g[i] = g[k]  PROVE i = k
    <3>1. i + 1 = k + 1  BY <1>5, <1>7, <2>3
    <3> QED  BY <2>1, <3>1
  <2> QED  BY <1>5, <1>6, <2>2, <2>3 DEF ChainSound
<1>9. ASSUME NEW u \in Trails, u # t  PROVE ChainSound(u)'
  <2>1. ChainSound(u) /\ lock'[u] = lock[u]  BY <1>6, <1>9 DEF Chains
  <2>2. \A i \in DOMAIN lock[u] : lock[u][i] \in Jobs /\ lock[u][i] # j
    <3>1. lock[u] \in Seq(Jobs)  BY <2>1 DEF ChainSound
    <3>2. \A i \in DOMAIN lock[u] : lock[u][i] \in Jobs  BY ONLY <3>1, Ranged
    <3> QED  BY <1>1, <1>9, <2>1, <3>2 DEF ChainSound
  <2>3. \A i \in DOMAIN lock[u] : step'[lock[u][i]] = step[lock[u][i]]  BY <1>6, <2>2
  <2> QED  BY <2>1, <2>3 DEF ChainSound
<1>10. ASSUME NEW k \in Jobs, step'[k] \in InChain
       PROVE  \E i \in DOMAIN lock'[Job[k].trail] : lock'[Job[k].trail][i] = k
  <2>1. k # j /\ step[k] \in InChain  BY <1>6, <1>10
  <2>2. PICK i \in DOMAIN lock[Job[k].trail] : lock[Job[k].trail][i] = k  BY <2>1 DEF Chains
  <2>3. CASE Job[k].trail = t
    <3>1. i # 1 /\ i \in DOMAIN q /\ q[i] = k  BY <1>2, <1>3, <2>1, <2>2, <2>3
    <3>2. i - 1 \in DOMAIN g /\ g[i - 1] = k  BY <1>5, <3>1
    <3> QED  BY <1>6, <2>3, <3>2
  <2>4. CASE Job[k].trail # t
    <3>1. Job[k].trail \in Trails  OBVIOUS
    <3> QED  BY <1>6, <2>2, <2>4, <3>1
  <2> QED  BY <2>3, <2>4
<1> QED  BY <1>6, <1>8, <1>9, <1>10 DEF Chains

\* A call goes on at the head of its chain, or outside of every chain.
LEMMA MoveChains ==
    ASSUME Chains, NEW j \in Jobs, NEW p, UNCHANGED lock, DOMAIN step = Jobs,
           step' = [step EXCEPT ![j] = p],
           \/ p \notin InChain /\ step[j] \notin InChain
           \/ /\ Job[j].trail \in Trails /\ step[j] \in InChain /\ p \in InChain
              /\ step[j] = "queued" => Head(lock[Job[j].trail]) = j
    PROVE  Chains'
<1>1. step'[j] = p /\ \A k \in Jobs : k # j => step'[k] = step[k]  OBVIOUS
<1>2. \A k \in Jobs : step[k] \in InChain <=> step'[k] \in InChain  BY <1>1
<1>3. ASSUME NEW t \in Trails  PROVE ChainSound(t)'
  <2>1. ChainSound(t)  BY DEF Chains
  <2>2. lock[t] \in Seq(Jobs)  BY <2>1 DEF ChainSound
  <2>3. \A i \in DOMAIN lock[t] : lock[t][i] \in Jobs  BY ONLY <2>2, Ranged
  <2>4. ASSUME NEW i \in DOMAIN lock[t], step'[lock[t][i]] # "queued"  PROVE i = 1
    <3>1. step[lock[t][i]] \in InChain /\ Job[lock[t][i]].trail = t  BY <2>1 DEF ChainSound
    <3>2. CASE lock[t][i] # j  BY <1>1, <2>1, <2>3, <2>4, <3>2 DEF ChainSound
    <3>3. CASE lock[t][i] = j
      <4>1. lock[t][1] = j /\ 1 \in DOMAIN lock[t]  BY <3>1, <3>3, AtHead
      <4> QED  BY <2>1, <3>3, <4>1 DEF ChainSound
    <3> QED  BY <3>2, <3>3
  <2>5. \A i \in DOMAIN lock[t] : Job[lock[t][i]].trail = t /\ step'[lock[t][i]] \in InChain
    BY <1>2, <2>1, <2>3 DEF ChainSound
  <2> QED  BY <2>1, <2>4, <2>5 DEF ChainSound
<1>4. \A k \in Jobs : step'[k] \in InChain => \E i \in DOMAIN lock[Job[k].trail] : lock[Job[k].trail][i] = k
  BY <1>2 DEF Chains
<1> QED  BY <1>3, <1>4 DEF Chains

\* StartRecord: the call joins the chain of its trail.
LEMMA JoinChains ==
    ASSUME Chains, NEW j \in Jobs, Job[j].trail \in Trails, DOMAIN step = Jobs, step[j] \notin InChain,
           step' = [step EXCEPT ![j] = "queued"], lock' = [lock EXCEPT ![Job[j].trail] = Append(@, j)]
    PROVE  Chains'
<1>1. PICK t \in Trails : t = Job[j].trail  OBVIOUS
<1>2. PICK q : q = lock[t]  OBVIOUS
<1>3. q \in Seq(Jobs)  BY <1>1, <1>2 DEF Chains, ChainSound
<1>4. PICK g : g = Append(q, j)  OBVIOUS
<1>5. PICK n \in Nat : n = Len(q) /\ DOMAIN q = 1..n  BY <1>3, Ranged
<1>6. /\ g \in Seq(Jobs) /\ DOMAIN g = 1..(n + 1) /\ g[n + 1] = j /\ \A i \in 1..n : g[i] = q[i]
  BY ONLY <1>3, <1>4, <1>5, j \in Jobs, Added
<1>7. /\ DOMAIN lock' = Trails /\ lock'[t] = g /\ \A u \in Trails : u # t => lock'[u] = lock[u]
      /\ step'[j] = "queued" /\ \A k \in Jobs : k # j => step'[k] = step[k]
  BY <1>1, <1>2, <1>4 DEF Chains
<1>8. /\ \A i \in 1..n : Job[q[i]].trail = t /\ step[q[i]] \in InChain /\ (step[q[i]] # "queued" => i = 1)
      /\ \A i, k \in 1..n : q[i] = q[k] => i = k
  <2>1. ChainSound(t)  BY DEF Chains
  <2> QED  BY ONLY <1>2, <1>5, <2>1 DEF ChainSound
<1>9. \A i \in 1..n : q[i] \in Jobs /\ q[i] # j  BY <1>3, <1>5, <1>8, Ranged
<1>10. 1..(n + 1) = 1..n \cup {n + 1} /\ n + 1 \notin 1..n  BY <1>5
<1>11. ChainSound(t)'
  <2>1. ASSUME NEW i \in 1..(n + 1)
        PROVE  Job[g[i]].trail = t /\ step'[g[i]] \in InChain /\ (step'[g[i]] # "queued" => i = 1)
    <3>1. CASE i = n + 1  BY <1>1, <1>6, <1>7, <3>1 DEF InChain
    <3>2. CASE i \in 1..n  BY <1>6, <1>7, <1>8, <1>9, <3>2
    <3> QED  BY <1>10, <3>1, <3>2
  <2>2. \A i, k \in 1..(n + 1) : g[i] = g[k] => i = k  BY <1>6, <1>8, <1>9, <1>10
  <2>3. lock'[t] = g /\ g \in Seq(Jobs) /\ DOMAIN g = 1..(n + 1)  BY <1>6, <1>7
  <2> QED  BY ONLY <2>1, <2>2, <2>3 DEF ChainSound
<1>12. ASSUME NEW u \in Trails, u # t  PROVE ChainSound(u)'
  <2>1. ChainSound(u) /\ lock'[u] = lock[u]  BY <1>7, <1>12 DEF Chains
  <2>2. \A i \in DOMAIN lock[u] : lock[u][i] \in Jobs /\ lock[u][i] # j
    <3>1. lock[u] \in Seq(Jobs)  BY <2>1 DEF ChainSound
    <3>2. \A i \in DOMAIN lock[u] : lock[u][i] \in Jobs  BY ONLY <3>1, Ranged
    <3> QED  BY <1>1, <1>12, <2>1, <3>2 DEF ChainSound
  <2>3. \A i \in DOMAIN lock[u] : step'[lock[u][i]] = step[lock[u][i]]  BY <1>7, <2>2
  <2> QED  BY ONLY <2>1, <2>3 DEF ChainSound
<1>13. ASSUME NEW k \in Jobs, step'[k] \in InChain
       PROVE  \E i \in DOMAIN lock'[Job[k].trail] : lock'[Job[k].trail][i] = k
  <2>1. CASE k = j  BY <1>1, <1>6, <1>7, <1>10, <2>1
  <2>2. CASE k # j
    <3>1. PICK i \in DOMAIN lock[Job[k].trail] : lock[Job[k].trail][i] = k  BY <1>7, <1>13, <2>2 DEF Chains
    <3>2. CASE Job[k].trail = t  BY <1>2, <1>5, <1>6, <1>7, <1>10, <3>1, <3>2
    <3>3. CASE Job[k].trail # t
      <4>1. Job[k].trail \in Trails  OBVIOUS
      <4> QED  BY <1>7, <3>1, <3>3, <4>1
    <3> QED  BY <3>2, <3>3
  <2> QED  BY <2>1, <2>2
<1> QED  BY <1>7, <1>11, <1>12, <1>13 DEF Chains

\* A crash empties the chain with its calls.
LEMMA CrashChains ==
    ASSUME Chains, NEW t \in Trails, CrashTrail(t)
    PROVE  Chains'
<1>1. /\ DOMAIN lock' = Trails /\ lock'[t] = <<>> /\ \A u \in Trails : u # t => lock'[u] = lock[u]
      /\ step' = [j \in Jobs |-> IF Job[j].trail = t /\ step[j] \notin Settled \cup {"idle"}
                                 THEN "crashed" ELSE step[j]]
  BY DEF CrashTrail, Chains
<1>2. \A j \in Jobs : Job[j].trail # t => step'[j] = step[j]  BY <1>1
<1>3. \A j \in Jobs : step'[j] \in InChain => step[j] \in InChain /\ Job[j].trail # t
  BY <1>1 DEF InChain, Settled
<1>4. ChainSound(t)'  BY <1>1 DEF ChainSound
<1>5. ASSUME NEW u \in Trails, u # t  PROVE ChainSound(u)'
  <2>1. ChainSound(u) /\ lock'[u] = lock[u]  BY <1>1, <1>5 DEF Chains
  <2>2. \A i \in DOMAIN lock[u] : lock[u][i] \in Jobs /\ Job[lock[u][i]].trail # t
    <3>1. lock[u] \in Seq(Jobs)  BY <2>1 DEF ChainSound
    <3>2. \A i \in DOMAIN lock[u] : lock[u][i] \in Jobs  BY ONLY <3>1, Ranged
    <3> QED  BY <1>5, <2>1, <3>2 DEF ChainSound
  <2>3. \A i \in DOMAIN lock[u] : step'[lock[u][i]] = step[lock[u][i]]  BY <1>2, <2>2
  <2> QED  BY <2>1, <2>3 DEF ChainSound
<1>6. ASSUME NEW k \in Jobs, step'[k] \in InChain
      PROVE  \E i \in DOMAIN lock'[Job[k].trail] : lock'[Job[k].trail][i] = k
  <2>1. step[k] \in InChain /\ Job[k].trail # t /\ Job[k].trail \in Trails  BY <1>3, <1>6
  <2> QED  BY <1>1, <2>1 DEF Chains
<1> QED  BY <1>1, <1>4, <1>5, <1>6 DEF Chains

\* A call that freezes its event.
Freezes(j) ==
    /\ step[j] = "claimed" /\ Emittable(src[SourceOfJob(j)], Event(j))
    /\ src' = [src EXCEPT ![SourceOfJob(j)] = MarkEmitted(@, Event(j))]
    /\ ev' = [ev EXCEPT ![j] = {Event(j)}]
    /\ \/ Delivery = "buffered" /\ step' = [step EXCEPT ![j] = "enqueue"] /\ UNCHANGED lock
       \/ Delivery # "buffered" /\ ReleaseLock(j, "submit")
    /\ UNCHANGED <<outbox, ledger, claimed, mark, fl, trailCrashes>>

\* A call freezes its event, or gives its claim up.
LEMMA EmitSplit ==
    ASSUME NEW j, Emit(j)
    PROVE  \/ Freezes(j)
           \/ /\ step[j] = "claimed" /\ step' = [step EXCEPT ![j] = "abandon"]
              /\ UNCHANGED <<src, outbox, ledger, lock, claimed, mark, ev, fl, trailCrashes>>
BY DEF Emit, Freezes

\* A frozen event is that of its call.
LEMMA EmittedFacts ==
    ASSUME CallsSound, tset \in TrailSettings, NEW e \in Emitted
    PROVE  \E j \in Jobs :
             /\ ev[j] = {e} /\ e = Event(j) /\ j \in tset.jobs
             /\ e.src = SourceOfJob(j) /\ e.src \in Sources /\ e.id = Job[j].id /\ e.id \in Ids
             /\ e.seq = claimed[j].seq /\ e.seq \in Nat /\ e.prev = claimed[j].prev
             /\ e.mark = mark[j] /\ e.mark \in Nat /\ OneValue(e.prev)
             /\ \A p \in e.prev : p.src = e.src /\ p.seq + 1 = e.seq
<1>1. PICK j \in Jobs : e \in ev[j]  BY DEF Emitted
<1>2. JobSound(j)  BY DEF CallsSound
<1>3. e = Event(j) /\ ev[j] = {e}  BY <1>1, <1>2 DEF JobSound
<1>4. /\ e.src = SourceOfJob(j) /\ e.id = Job[j].id /\ e.seq = claimed[j].seq
      /\ e.prev = claimed[j].prev /\ e.mark = mark[j]
  BY <1>3 DEF Event
<1>5. SourceOfJob(j) \in Sources /\ Job[j].id \in Ids  BY Settings
<1>6. step[j] # "idle"  BY <1>1, <1>2 DEF JobSound, Freezing
<1> QED  BY <1>2, <1>3, <1>4, <1>5, <1>6 DEF JobSound

\* Freezing adds one event.
LEMMA FreezeFacts ==
    ASSUME TrailBase, NEW j \in Jobs, Freezes(j)
    PROVE  /\ ev[j] = {} /\ ev'[j] = {Event(j)} /\ \A k \in Jobs : k # j => ev'[k] = ev[k]
           /\ Emitted' = Emitted \cup {Event(j)}
           /\ Event(j).src = SourceOfJob(j) /\ SourceOfJob(j) \in Sources
<1>1. JobSound(j) /\ DOMAIN ev = Jobs  BY DEF TrailBase, CallsSound
<1>2. step[j] = "claimed"  BY DEF Freezes
<1>3. ev[j] = {}  BY <1>1, <1>2 DEF JobSound, Freezing
<1>4. ev'[j] = {Event(j)} /\ \A k \in Jobs : k # j => ev'[k] = ev[k]  BY <1>1 DEF Freezes
<1>5. Emitted' = Emitted \cup {Event(j)}
  <2>1. ASSUME NEW e \in Emitted'  PROVE e \in Emitted \cup {Event(j)}
    <3>1. PICK k \in Jobs : e \in ev'[k]  BY DEF Emitted
    <3> QED  BY <1>4, <3>1 DEF Emitted
  <2>2. ASSUME NEW e \in Emitted  PROVE e \in Emitted'
    <3>1. PICK k \in Jobs : e \in ev[k]  BY DEF Emitted
    <3>2. k # j  BY <1>3, <3>1
    <3> QED  BY <1>4, <3>1, <3>2 DEF Emitted
  <2>3. Event(j) \in Emitted'  BY <1>4 DEF Emitted
  <2> QED  BY <2>1, <2>2, <2>3
<1>6. Event(j).src = SourceOfJob(j)  BY DEF Event
<1> QED  BY <1>3, <1>4, <1>5, <1>6, Settings DEF TrailBase

\* What a submission does to the recorder.
LEMMA CommitStep ==
    ASSUME NEW E, ledger \in Seq(E), NEW e \in E, SubmitAccepted(e) \/ SubmitFailed(e)
    PROVE  /\ ledger' = ledger \/ (ledger' = Append(ledger, e) /\ ~Conflicting(e) /\ e \notin InSeq(ledger))
           /\ ledger' \in Seq(E) /\ InSeq(ledger) \subseteq InSeq(ledger')
           /\ InSeq(ledger') \subseteq InSeq(ledger) \cup {e}
           /\ SubmitAccepted(e) => ~Conflicting(e) /\ e \in InSeq(ledger')
<1>1. Committed(e) <=> e \in InSeq(ledger)  BY DEF Committed, InSeq
<1>2. /\ ledger' = ledger \/ (ledger' = Append(ledger, e) /\ ~Conflicting(e) /\ e \notin InSeq(ledger))
      /\ SubmitAccepted(e) => ~Conflicting(e) /\ (e \in InSeq(ledger) \/ ledger' = Append(ledger, e))
  BY <1>1 DEF SubmitAccepted, SubmitFailed, CommitEvent
<1>3. CASE ledger' = ledger
  <2>1. InSeq(ledger') = InSeq(ledger)  BY <1>3
  <2>2. ledger = Append(ledger, e) => e \in InSeq(ledger)
    <3>1. e \in InSeq(Append(ledger, e))  BY AddedRange
    <3> QED  BY <3>1
  <2> QED  BY <1>2, <1>3, <2>1, <2>2
<1>4. CASE ledger' = Append(ledger, e)
  <2>1. ledger' \in Seq(E) /\ InSeq(ledger') = InSeq(ledger) \cup {e}
    <3>1. Append(ledger, e) \in Seq(E) /\ InSeq(Append(ledger, e)) = InSeq(ledger) \cup {e}  BY AddedRange
    <3> QED  BY <1>4, <3>1
  <2> QED  BY <1>2, <1>4, <2>1
<1> QED  BY <1>2, <1>3, <1>4

\* A receipt changes one source state at most.
LEMMA ReceiptFacts ==
    ASSUME NEW e, Receipt(e)
    PROVE  UNCHANGED src \/ src' = [src EXCEPT ![e.src] = MarkReceipted(@, e.seq)]
BY DEF Receipt

\* Where a submission takes its event from.
LEMMA CurrentFacts ==
    ASSUME Flushes, NEW f \in Flushers, fl[f].pc # "idle"
    PROVE  /\ Current(f) \in Emitted /\ Delivery = "buffered"
           /\ fl[f].rest \in Seq(Emitted) /\ fl[f].rest # <<>>
           /\ Current(f) = fl[f].rest[1] /\ Current(f) \in InSeq(fl[f].rest)
<1>1. FlushSound(f)  BY DEF Flushes
<1>2. PICK q \in Seq(Emitted) : q = fl[f].rest /\ q # <<>>  BY <1>1 DEF FlushSound
<1>3. Head(q) \in InSeq(q) /\ Head(q) = q[1]  BY <1>2, Tailed
<1>4. InSeq(q) \subseteq Emitted  BY <1>2, Ranged
<1> QED  BY <1>1, <1>2, <1>3, <1>4 DEF Current, FlushSound

-----------------------------------------------------------------------------
(* Every step keeps the books, the calls, the chains and the items.        *)

\* The steps that a source state, the events or the ledger tell apart.
LEMMA TrailCases ==
    ASSUME TrailBase, TrailNext, NEW P,
           UNCHANGED <<src, ev, ledger>> => P,
           \A j \in Jobs : Claim(j) => P,
           \A j \in Jobs : Freezes(j) => P,
           \A j \in Jobs : Abandon(j) => P,
           \A e \in InSeq(ledger) : Receipt(e) /\ UNCHANGED <<ev, ledger>> => P,
           \A e \in Emitted : (SubmitAccepted(e) \/ SubmitFailed(e)) /\ UNCHANGED <<src, ev>> => P
    PROVE  P
<1>1. ASSUME NEW j \in Jobs, ReadHighWater(j) \/ StartRecord(j) \/ Enqueue(j)  PROVE P
  BY <1>1 DEF ReadHighWater, StartRecord, Enqueue
<1>2. ASSUME NEW j \in Jobs, Emit(j)  PROVE P
  <2>1. CASE Freezes(j)  BY <2>1
  <2>2. CASE UNCHANGED <<src, outbox, ledger, lock, claimed, mark, ev, fl, trailCrashes>>  BY <2>2
  <2> QED  BY <1>2, <2>1, <2>2, EmitSplit
<1>3. ASSUME NEW j \in Jobs, SubmitEvent(j)  PROVE P
  <2>1. PICK e \in ev[j] : SubmitAccepted(e) \/ SubmitFailed(e)  BY <1>3 DEF SubmitEvent
  <2>2. e \in Emitted  BY <2>1 DEF Emitted
  <2>3. UNCHANGED <<src, ev>>  BY <1>3 DEF SubmitEvent
  <2> QED  BY <2>1, <2>2, <2>3
<1>4. ASSUME NEW j \in Jobs, MarkRecorded(j)  PROVE P
  <2>1. PICK e \in ev[j] : Receipt(e)  BY <1>4 DEF MarkRecorded
  <2>2. step[j] = "receipt" /\ UNCHANGED <<ev, ledger>>  BY <1>4 DEF MarkRecorded
  <2>3. e \in InSeq(ledger)  BY <2>1, <2>2 DEF TrailBase, CallsSound, JobSound
  <2> QED  BY <2>1, <2>2, <2>3
<1>5. ASSUME NEW f \in Flushers, FlushStart(f) \/ FlushSkip(f) \/ FlushFail(f) \/ FlushAck(f)  PROVE P
  BY <1>5 DEF FlushStart, FlushSkip, FlushFail, FlushAck, jobVars
<1>6. ASSUME NEW f \in Flushers, FlushSubmit(f)  PROVE P
  <2>1. Current(f) \in Emitted
    <3>1. fl[f].pc = "next"  BY <1>6 DEF FlushSubmit
    <3> QED  BY <3>1, CurrentFacts DEF TrailBase
  <2>2. SubmitAccepted(Current(f)) \/ SubmitFailed(Current(f))  BY <1>6 DEF FlushSubmit
  <2>3. UNCHANGED <<src, ev>>  BY <1>6 DEF FlushSubmit, jobVars
  <2> QED  BY <2>1, <2>2, <2>3
<1>7. ASSUME NEW f \in Flushers, FlushReceipt(f)  PROVE P
  <2>1. fl[f].pc = "receipt" /\ Receipt(Current(f)) /\ UNCHANGED <<ev, ledger>>
    BY <1>7 DEF FlushReceipt, jobVars
  <2>2. Current(f) \in InSeq(ledger)  BY <2>1 DEF TrailBase, Flushes, FlushSound
  <2> QED  BY <2>1, <2>2
<1>8. ASSUME NEW t \in Trails, CrashTrail(t)  PROVE P
  BY <1>8 DEF CrashTrail
<1>9. ASSUME Idle  PROVE P
  BY <1>9 DEF Idle, trailVars, jobVars
<1> QED  BY <1>1, <1>2, <1>3, <1>4, <1>5, <1>6, <1>7, <1>8, <1>9 DEF TrailNext, JobStep, FlushStep

\* Every step keeps the books of every source.
LEMMA BooksStep ==
    ASSUME TrailBase, TrailNext
    PROVE  Books'
<1> DEFINE E == Emitted
           L == InSeq(ledger)
<1>1. DOMAIN src = Sources /\ \A s \in Sources : Booked(s, src[s], E, L)  BY DEF TrailBase, Books
<1>2. ledger \in Seq(E) /\ L \subseteq E
  <2>1. ledger \in Seq(E)  BY DEF TrailBase, Items
  <2> QED  BY <2>1, Ranged
<1>3. tset \in TrailSettings /\ CallsSound  BY DEF TrailBase
<1>4. ASSUME UNCHANGED <<src, ev, ledger>>  PROVE Books'
  <2>1. Emitted' = E /\ InSeq(ledger') = L  BY <1>4 DEF Emitted
  <2> QED  BY <1>1, <1>4, <2>1 DEF Books
\* One source changes, and no event is frozen or committed.
<1>5. ASSUME NEW s \in Sources, NEW ns, src' = [src EXCEPT ![s] = ns], Booked(s, ns, E, L),
             UNCHANGED <<ev, ledger>>
      PROVE  Books'
  <2>1. Emitted' = E /\ InSeq(ledger') = L  BY <1>5 DEF Emitted
  <2>2. DOMAIN src' = Sources /\ \A z \in Sources : src'[z] = IF z = s THEN ns ELSE src[z]  BY <1>1, <1>5
  <2>3. \A z \in Sources : Booked(z, src'[z], Emitted', InSeq(ledger'))
    BY ONLY <1>1, <1>5, <2>1, <2>2
  <2> QED  BY <2>2, <2>3 DEF Books
<1>6. ASSUME NEW j \in Jobs, Claim(j)  PROVE Books'
  <2>1. SourceOfJob(j) \in Sources /\ Job[j].id \in Ids  BY <1>3, Settings
  <2>2. CASE UNCHANGED src
    <3>1. UNCHANGED <<src, ev, ledger>>  BY <1>6, <2>2 DEF Claim
    <3> QED  BY <1>4, <3>1
  <2>3. CASE ~ UNCHANGED src
    <3>1. PICK ns : ns = ClaimEvent(src[SourceOfJob(j)], Job[j].id)  OBVIOUS
    <3>2. src' = [src EXCEPT ![SourceOfJob(j)] = ns] /\ UNCHANGED <<ev, ledger>>
      BY <1>6, <2>3, <3>1 DEF Claim
    <3>3. Booked(SourceOfJob(j), ns, E, L)
      <4> HIDE DEF E, L
      <4>1. Booked(SourceOfJob(j), src[SourceOfJob(j)], E, L)  BY <1>1, <2>1
      <4> QED  BY ONLY <2>1, <3>1, <4>1, ClaimBooked
    <3> QED  BY ONLY <1>5, <2>1, <3>2, <3>3
  <2> QED  BY <2>2, <2>3
<1>7. ASSUME NEW j \in Jobs, Abandon(j)  PROVE Books'
  <2>1. SourceOfJob(j) \in Sources  BY <1>3, Settings
  <2>2. CASE UNCHANGED src
    <3>1. UNCHANGED <<src, ev, ledger>>  BY <1>7, <2>2 DEF Abandon
    <3> QED  BY <1>4, <3>1
  <2>3. CASE ~ UNCHANGED src
    <3>1. PICK ns : ns = AbandonClaim(src[SourceOfJob(j)], Job[j].id, claimed[j].seq)  OBVIOUS
    <3>2. src' = [src EXCEPT ![SourceOfJob(j)] = ns] /\ UNCHANGED <<ev, ledger>>
      BY <1>7, <2>3, <3>1 DEF Abandon
    <3>3. Booked(SourceOfJob(j), ns, E, L)
      <4> HIDE DEF E, L
      <4>1. Booked(SourceOfJob(j), src[SourceOfJob(j)], E, L)  BY <1>1, <2>1
      <4> QED  BY ONLY <3>1, <4>1, AbandonBooked
    <3> QED  BY ONLY <1>5, <2>1, <3>2, <3>3
  <2> QED  BY <2>2, <2>3
<1>8. ASSUME NEW e \in InSeq(ledger), Receipt(e), UNCHANGED <<ev, ledger>>  PROVE Books'
  <2>1. CASE UNCHANGED src
    <3>1. UNCHANGED <<src, ev, ledger>>  BY <1>8, <2>1
    <3> QED  BY <1>4, <3>1
  <2>2. CASE ~ UNCHANGED src
    <3>1. PICK ns : ns = MarkReceipted(src[e.src], e.seq)  OBVIOUS
    <3>2. src' = [src EXCEPT ![e.src] = ns]  BY <1>8, <2>2, <3>1, ReceiptFacts
    <3>3. e \in E /\ e.src \in Sources
      <4>1. e \in E  BY <1>2, <1>8
      <4> QED  BY <1>3, <4>1, EmittedFacts
    <3>4. Window \in Nat  OBVIOUS
    <3>5. PICK s : s = e.src  OBVIOUS
    <3>6. Booked(s, ns, E, L)
      <4>1. e \in L  BY <1>8
      <4>2. Booked(s, src[s], E, L) /\ ns = MarkReceipted(src[s], e.seq) /\ e.src = s
        BY <1>1, <3>1, <3>3, <3>5
      <4> HIDE DEF E, L
      <4> QED  BY ONLY <1>2, <3>4, <4>1, <4>2, ReceiptBooked
    <3>7. s \in Sources /\ src' = [src EXCEPT ![s] = ns]  BY <3>2, <3>3, <3>5
    <3> QED  BY ONLY <1>5, <1>8, <3>6, <3>7
  <2> QED  BY <2>1, <2>2
<1>9. ASSUME NEW j \in Jobs, Freezes(j)  PROVE Books'
  <2>1. PICK e : e = Event(j)  OBVIOUS
  <2>2. PICK s : s = SourceOfJob(j)  OBVIOUS
  <2>3. Emitted' = E \cup {e} /\ e.src = s /\ s \in Sources  BY <1>9, <2>1, <2>2, FreezeFacts
  <2>4. InSeq(ledger') = L /\ src' = [src EXCEPT ![s] = MarkEmitted(src[s], e)] /\ Emittable(src[s], e)
    BY <1>9, <2>1, <2>2 DEF Freezes
  <2>5. PICK ns : ns = MarkEmitted(src[s], e)  OBVIOUS
  <2> HIDE DEF E, L
  <2>6. Booked(s, ns, E \cup {e}, L)
    <3>1. Booked(s, src[s], E, L)  BY <1>1, <2>3
    <3> QED  BY ONLY <2>3, <2>4, <2>5, <3>1, EmitBooked
  <2>7. ASSUME NEW z \in Sources, z # s  PROVE Booked(z, src[z], E \cup {e}, L)
    <3>1. Booked(z, src[z], E, L)  BY <1>1
    <3>2. \A f \in E \cup {e} : f \in E \/ f.src # z  BY <2>3, <2>7
    <3>3. E \subseteq E \cup {e} /\ L \subseteq L  OBVIOUS
    <3> QED  BY ONLY <3>1, <3>2, <3>3, BookedBeside
  <2>8. DOMAIN src' = Sources /\ \A z \in Sources : src'[z] = IF z = s THEN ns ELSE src[z]
    BY <1>1, <2>4, <2>5
  <2>9. \A z \in Sources : Booked(z, src'[z], Emitted', InSeq(ledger'))
    BY ONLY <2>3, <2>4, <2>6, <2>7, <2>8
  <2> QED  BY <2>8, <2>9 DEF Books
<1>10. ASSUME NEW e \in E, SubmitAccepted(e) \/ SubmitFailed(e), UNCHANGED <<src, ev>>  PROVE Books'
  <2>1. L \subseteq InSeq(ledger')  BY <1>2, <1>10, CommitStep
  <2>2. Emitted' = E  BY <1>10 DEF Emitted
  <2> HIDE DEF E, L
  <2>3. \A z \in Sources : Booked(z, src[z], E, InSeq(ledger'))
    <3> SUFFICES ASSUME NEW z \in Sources  PROVE Booked(z, src[z], E, InSeq(ledger'))
      OBVIOUS
    <3>1. Booked(z, src[z], E, L)  BY <1>1
    <3>2. PICK m : m = InSeq(ledger')  OBVIOUS
    <3>3. L \subseteq m /\ E \subseteq E /\ \A f \in E : f \in E \/ f.src # z  BY <2>1, <3>2
    <3>4. Booked(z, src[z], E, m)  BY ONLY <3>1, <3>3, BookedBeside
    <3> QED  BY <3>2, <3>4
  <2> QED  BY <1>1, <1>10, <2>2, <2>3 DEF Books
<1> HIDE DEF E, L
<1>11. E = Emitted  BY DEF E
<1> QED  BY <1>4, <1>6, <1>7, <1>8, <1>9, <1>10, <1>11, TrailCases

-----------------------------------------------------------------------------
(* The calls and their chains move.                                        *)

Points == InChain \cup Freezing \cup {"idle", "read", "failed", "crashed"}

\* One call moves.
LEMMA OneCall ==
    ASSUME CallsSound, UNCHANGED tset, NEW j \in Jobs, NEW p \in Points, step' = [step EXCEPT ![j] = p],
           DOMAIN claimed' = Jobs, DOMAIN mark' = Jobs, DOMAIN ev' = Jobs,
           \A k \in Jobs : k # j => claimed'[k] = claimed[k] /\ mark'[k] = mark[k] /\ ev'[k] = ev[k],
           InSeq(ledger) \subseteq InSeq(ledger'), JobSound(j)'
    PROVE  CallsSound'
<1>1. step \in [Jobs -> Points]  BY DEF CallsSound, Points
<1>2. step' \in [Jobs -> Points] /\ step'[j] = p /\ \A k \in Jobs : k # j => step'[k] = step[k]
  BY <1>1
<1>3. ASSUME NEW k \in Jobs, k # j  PROVE JobSound(k)'
  <2>1. JobSound(k)  BY DEF CallsSound
  <2>2. step'[k] = step[k] /\ claimed'[k] = claimed[k] /\ mark'[k] = mark[k] /\ ev'[k] = ev[k]
    BY <1>2, <1>3
  <2> QED  BY ONLY <2>1, <2>2, UNCHANGED tset, InSeq(ledger) \subseteq InSeq(ledger')
      DEF JobSound, SourceOfJob, SourceOf, Event, Delivery
<1> QED  BY <1>2, <1>3 DEF CallsSound, Points

\* A step that moves no call keeps the calls sound.
LEMMA CallsQuiet ==
    ASSUME CallsSound, UNCHANGED <<step, claimed, mark, ev, tset>>, InSeq(ledger) \subseteq InSeq(ledger')
    PROVE  CallsSound'
<1>1. ASSUME NEW k \in Jobs  PROVE JobSound(k)'
  <2>1. JobSound(k)  BY DEF CallsSound
  <2> QED  BY ONLY <2>1, UNCHANGED <<step, claimed, mark, ev, tset>>, InSeq(ledger) \subseteq InSeq(ledger')
      DEF JobSound, SourceOfJob, SourceOf, Event, Delivery
<1> QED  BY <1>1 DEF CallsSound

\* Every step keeps the calls sound.
LEMMA CallsStep ==
    ASSUME TrailBase, TrailNext
    PROVE  CallsSound'
<1>1. /\ CallsSound /\ tset \in TrailSettings /\ UNCHANGED tset /\ DOMAIN src = Sources
      /\ \A s \in Sources : Booked(s, src[s], Emitted, InSeq(ledger))
  BY DEF TrailBase, TrailNext, Books
<1>2. /\ DOMAIN step = Jobs /\ DOMAIN claimed = Jobs /\ DOMAIN mark = Jobs /\ DOMAIN ev = Jobs
      /\ \A k \in Jobs : JobSound(k)
  BY <1>1 DEF CallsSound
<1>3. ASSUME NEW j \in Jobs, ReadHighWater(j)  PROVE CallsSound'
  <2>1. /\ step' = [step EXCEPT ![j] = "read"] /\ mark' = [mark EXCEPT ![j] = src[SourceOfJob(j)].next]
        /\ step[j] = "idle" /\ j \in tset.jobs /\ UNCHANGED <<ledger, claimed, ev>>
    BY <1>3 DEF ReadHighWater
  <2>2. src[SourceOfJob(j)].next \in Nat  BY <1>1, Settings DEF Booked
  <2>3. ev[j] = {}  BY <1>2, <2>1 DEF JobSound, Freezing
  <2>4. JobSound(j)'
    BY <1>1, <1>2, <2>1, <2>2, <2>3
    DEF JobSound, SourceOfJob, SourceOf, Delivery, Freezing, InChain, BufferedSteps, DirectSteps
  <2>5. "read" \in Points /\ DOMAIN mark' = Jobs /\ \A k \in Jobs : k # j => mark'[k] = mark[k]
    BY <1>2, <2>1 DEF Points
  <2> QED  BY <1>1, <1>2, <2>1, <2>4, <2>5, OneCall
<1>4. ASSUME NEW j \in Jobs, StartRecord(j)  PROVE CallsSound'
  <2>1. /\ step' = [step EXCEPT ![j] = "queued"] /\ step[j] \in {"idle", "read"} /\ j \in tset.jobs
        /\ UNCHANGED <<ledger, claimed, mark, ev>>
    BY <1>4 DEF StartRecord
  <2>2. ev[j] = {}  BY <1>2, <2>1 DEF JobSound, Freezing
  <2>3. JobSound(j)'
    BY <1>1, <1>2, <2>1, <2>2
    DEF JobSound, SourceOfJob, SourceOf, Delivery, Freezing, InChain, BufferedSteps, DirectSteps
  <2>4. "queued" \in Points  BY DEF Points, InChain
  <2> QED  BY <1>1, <1>2, <2>1, <2>3, <2>4, OneCall
<1>5. ASSUME NEW j \in Jobs, Claim(j)  PROVE CallsSound'
  <2>1. step[j] = "queued" /\ UNCHANGED <<ledger, mark, ev>>  BY <1>5 DEF Claim
  <2>2. ev[j] = {} /\ j \in tset.jobs  BY <1>2, <2>1 DEF JobSound, Freezing
  <2>3. CASE step' = [step EXCEPT ![j] = "failed"] /\ UNCHANGED claimed
    <3>1. JobSound(j)'
      BY <1>1, <1>2, <2>1, <2>2, <2>3
      DEF JobSound, SourceOfJob, SourceOf, Delivery, Freezing, InChain, BufferedSteps, DirectSteps
    <3>2. "failed" \in Points  BY DEF Points
    <3> QED  BY <1>1, <1>2, <2>1, <2>3, <3>1, <3>2, OneCall
  <2>4. ASSUME NEW c \in ClaimsOf(ClaimEvent(src[SourceOfJob(j)], Job[j].id), Job[j].id),
               claimed' = [claimed EXCEPT ![j] = [seq |-> c.seq, prev |-> c.prev]],
               step' = [step EXCEPT ![j] = "claimed"]
        PROVE  CallsSound'
    <3>1. PICK s \in Sources : s = SourceOfJob(j)  BY <1>1, Settings
    <3>2. PICK ns : ns = ClaimEvent(src[s], Job[j].id)  OBVIOUS
    <3>3. /\ c.seq \in 1..ns.next /\ OneValue(c.prev)
          /\ \A p \in c.prev : p.src = s /\ p.seq \in Nat /\ p.seq + 1 = c.seq
      <4>1. Booked(s, src[s], Emitted, InSeq(ledger)) /\ Job[j].id \in Ids  BY <1>1, <3>1, Settings
      <4>2. c \in ClaimsOf(ns, Job[j].id)  BY <3>1, <3>2
      <4> QED  BY ONLY <3>2, <4>1, <4>2, ClaimBooked
    <3>4. c.seq \in Nat  BY <3>3
    <3>5. claimed'[j] = [seq |-> c.seq, prev |-> c.prev] /\ step'[j] = "claimed"  BY <1>2, <2>4
    <3>6. JobSound(j)'
      BY <1>1, <1>2, <2>1, <2>2, <3>1, <3>3, <3>4, <3>5
      DEF JobSound, SourceOfJob, SourceOf, Delivery, Freezing, InChain, BufferedSteps, DirectSteps
    <3>7. "claimed" \in Points /\ DOMAIN claimed' = Jobs /\ \A k \in Jobs : k # j => claimed'[k] = claimed[k]
      BY <1>2, <2>4 DEF Points, InChain
    <3> QED  BY <1>1, <1>2, <2>1, <2>4, <3>6, <3>7, OneCall
  <2> QED  BY <1>5, <2>3, <2>4 DEF Claim, ReleaseLock
\* A call that keeps its claim and its mark, and its event if it has one.
<1>6. ASSUME NEW j \in Jobs, NEW p \in Points, step' = [step EXCEPT ![j] = p],
             UNCHANGED <<claimed, mark, ev>>, InSeq(ledger) \subseteq InSeq(ledger'),
             step[j] # "idle", p # "idle",
             p \in Freezing => step[j] \in Freezing /\ p # "submit",
             p \notin Freezing \cup {"failed", "crashed"} => step[j] = "claimed",
             p = "receipt" => ev[j] \subseteq InSeq(ledger'),
             p \in BufferedSteps => Delivery = "buffered", p \in DirectSteps => Delivery # "buffered"
      PROVE  CallsSound'
  <2>1. JobSound(j) /\ step'[j] = p /\ j \in tset.jobs  BY <1>2, <1>6 DEF JobSound
  <2>2. p \notin Freezing \cup {"failed", "crashed"} => ev[j] = {}  BY <1>6, <2>1 DEF JobSound, Freezing
  <2>3. p \in Freezing => ev[j] # {}  BY <1>6, <2>1 DEF JobSound
  <2>4. step'[j] \in Points  BY <1>6, <2>1
  <2>5. JobSound(j)'
    BY <1>1, <1>6, <2>1, <2>2, <2>3, <2>4
    DEF JobSound, SourceOfJob, SourceOf, Delivery, Event, Points
  <2> QED  BY <1>1, <1>2, <1>6, <2>5, OneCall
<1>7. ASSUME NEW j \in Jobs, Freezes(j)  PROVE CallsSound'
  <2>1. /\ ev' = [ev EXCEPT ![j] = {Event(j)}] /\ UNCHANGED <<ledger, claimed, mark>> /\ step[j] = "claimed"
    BY <1>7 DEF Freezes
  <2>2. PICK p \in {"enqueue", "submit"} : /\ step' = [step EXCEPT ![j] = p]
                                           /\ (p = "enqueue") = (Delivery = "buffered")
    BY <1>7 DEF Freezes, ReleaseLock
  <2>3. Event(j)' = Event(j)  BY <1>1, <2>1 DEF Event, SourceOfJob, SourceOf
  <2>4. ev'[j] = {Event(j)} /\ \A k \in Jobs : k # j => ev'[k] = ev[k]  BY <1>2, <2>1
  <2>5. step'[j] = p /\ p \in Freezing /\ p # "receipt"  BY <1>2, <2>2 DEF Freezing
  <2>6. JobSound(j)'
    BY <1>1, <1>2, <2>1, <2>2, <2>3, <2>4, <2>5
    DEF JobSound, SourceOfJob, SourceOf, Delivery, BufferedSteps, DirectSteps
  <2>7. p \in Points /\ DOMAIN ev' = Jobs  BY <1>2, <2>1, <2>5 DEF Points
  <2> QED  BY <1>1, <1>2, <2>1, <2>2, <2>4, <2>6, <2>7, OneCall
<1>8. ASSUME NEW j \in Jobs, Emit(j)  PROVE CallsSound'
  <2>1. CASE Freezes(j)  BY <1>7, <2>1
  <2>2. CASE step[j] = "claimed" /\ step' = [step EXCEPT ![j] = "abandon"] /\ UNCHANGED <<ledger, claimed, mark, ev>>
    <3>1. "abandon" \in Points /\ "abandon" \notin Freezing \cup BufferedSteps \cup DirectSteps
      BY DEF Points, InChain, Freezing, BufferedSteps, DirectSteps
    <3> QED  BY <1>6, <2>2, <3>1
  <2> QED  BY <1>8, <2>1, <2>2, EmitSplit
<1>9. "failed" \in Points /\ "failed" \notin Freezing \cup BufferedSteps \cup DirectSteps
  BY DEF Points, Freezing, BufferedSteps, DirectSteps
<1>10. ASSUME NEW j \in Jobs, Abandon(j)  PROVE CallsSound'
  <2>1. step[j] = "abandon" /\ step' = [step EXCEPT ![j] = "failed"] /\ UNCHANGED <<ledger, claimed, mark, ev>>
    BY <1>10 DEF Abandon, ReleaseLock
  <2> QED  BY <1>6, <1>9, <2>1
<1>11. ASSUME NEW j \in Jobs, Enqueue(j)  PROVE CallsSound'
  <2>1. PICK p \in {"pending", "failed"} : /\ step' = [step EXCEPT ![j] = p] /\ step[j] = "enqueue"
                                           /\ UNCHANGED <<ledger, claimed, mark, ev>>
    BY <1>11 DEF Enqueue, ReleaseLock
  <2>2. Delivery = "buffered"  BY <1>2, <2>1 DEF JobSound, BufferedSteps
  <2>3. "pending" \in Points /\ "pending" \notin DirectSteps /\ "enqueue" \in Freezing /\ "pending" \in Freezing
    BY DEF Points, Freezing, DirectSteps
  <2> QED  BY <1>6, <1>9, <2>1, <2>2, <2>3
<1>12. ASSUME NEW j \in Jobs, SubmitEvent(j)  PROVE CallsSound'
  <2>1. PICK e \in ev[j] : \/ SubmitAccepted(e) /\ step' = [step EXCEPT ![j] = "receipt"]
                           \/ SubmitFailed(e) /\ step' = [step EXCEPT ![j] = "failed"]
    BY <1>12 DEF SubmitEvent
  <2>2. step[j] = "submit" /\ UNCHANGED <<claimed, mark, ev>>  BY <1>12 DEF SubmitEvent
  <2>3. e \in Emitted /\ ev[j] = {e} /\ ledger \in Seq(Emitted)
    BY <1>2, <2>1 DEF Emitted, JobSound, TrailBase, Items
  <2>4. InSeq(ledger) \subseteq InSeq(ledger') /\ (SubmitAccepted(e) => e \in InSeq(ledger'))
    BY ONLY <2>1, <2>3, CommitStep
  <2>5. Delivery # "buffered"  BY <1>2, <2>2 DEF JobSound, DirectSteps
  <2>6. "receipt" \in Points /\ "receipt" \notin BufferedSteps /\ "submit" \in Freezing /\ "receipt" \in Freezing
    BY DEF Points, Freezing, BufferedSteps
  <2>7. CASE SubmitAccepted(e) /\ step' = [step EXCEPT ![j] = "receipt"]
    <3>1. ev[j] \subseteq InSeq(ledger')  BY <2>3, <2>4, <2>7
    <3> QED  BY <1>6, <2>2, <2>4, <2>5, <2>6, <2>7, <3>1
  <2>8. CASE step' = [step EXCEPT ![j] = "failed"]  BY <1>6, <1>9, <2>2, <2>4, <2>8
  <2> QED  BY <2>1, <2>7, <2>8
<1>13. ASSUME NEW j \in Jobs, MarkRecorded(j)  PROVE CallsSound'
  <2>1. step[j] = "receipt" /\ step' = [step EXCEPT ![j] = "recorded"] /\ UNCHANGED <<ledger, claimed, mark, ev>>
    BY <1>13 DEF MarkRecorded
  <2>2. Delivery # "buffered"  BY <1>2, <2>1 DEF JobSound, DirectSteps
  <2>3. "recorded" \in Points /\ "recorded" \notin BufferedSteps /\ "receipt" \in Freezing /\ "recorded" \in Freezing
    BY DEF Points, Freezing, BufferedSteps
  <2> QED  BY <1>6, <2>1, <2>2, <2>3
<1>14. ASSUME NEW f \in Flushers, FlushStep(f)  PROVE CallsSound'
  <2>1. UNCHANGED <<step, claimed, mark, ev>>
    BY <1>14 DEF FlushStep, FlushStart, FlushSkip, FlushSubmit, FlushFail, FlushReceipt, FlushAck, jobVars
  <2>2. InSeq(ledger) \subseteq InSeq(ledger')
    <3>1. CASE UNCHANGED ledger  BY <3>1
    <3>2. CASE FlushSubmit(f)
      <4>1. fl[f].pc = "next" /\ (SubmitAccepted(Current(f)) \/ SubmitFailed(Current(f)))
        BY <3>2 DEF FlushSubmit
      <4>2. Current(f) \in Emitted /\ ledger \in Seq(Emitted)
        BY <4>1, CurrentFacts DEF TrailBase, Items
      <4> QED  BY ONLY <4>1, <4>2, CommitStep
    <3> QED  BY <1>14, <3>1, <3>2 DEF FlushStep, FlushStart, FlushSkip, FlushFail, FlushReceipt, FlushAck
  <2> QED  BY <1>1, <2>1, <2>2, CallsQuiet
<1>15. ASSUME NEW t \in Trails, CrashTrail(t)  PROVE CallsSound'
  <2>1. /\ step' = [j \in Jobs |-> IF Job[j].trail = t /\ step[j] \notin Settled \cup {"idle"}
                                   THEN "crashed" ELSE step[j]]
        /\ UNCHANGED <<ledger, claimed, mark, ev>>
    BY <1>15 DEF CrashTrail
  <2>2. ASSUME NEW k \in Jobs  PROVE JobSound(k)'
    <3>1. JobSound(k)  BY <1>2
    <3>2. CASE step'[k] = step[k]
      BY ONLY <1>1, <2>1, <3>1, <3>2 DEF JobSound, SourceOfJob, SourceOf, Event, Delivery
    <3>3. CASE step'[k] = "crashed" /\ step[k] # "idle"
      BY ONLY <1>1, <2>1, <3>1, <3>3
      DEF JobSound, SourceOfJob, SourceOf, Event, Delivery, Freezing, InChain, BufferedSteps, DirectSteps
    <3> QED  BY <2>1, <3>2, <3>3
  <2>3. step \in [Jobs -> Points]  BY <1>1 DEF CallsSound, Points
  <2>4. step' \in [Jobs -> Points]  BY <2>1, <2>3 DEF Points
  <2> QED  BY <1>2, <2>1, <2>2, <2>4 DEF CallsSound, Points
<1>16. ASSUME Idle  PROVE CallsSound'
  <2>1. UNCHANGED <<step, claimed, mark, ev, ledger>>  BY <1>16 DEF Idle, trailVars, jobVars
  <2> QED  BY <1>1, <2>1, CallsQuiet
<1> QED  BY <1>3, <1>4, <1>5, <1>8, <1>10, <1>11, <1>12, <1>13, <1>14, <1>15, <1>16 DEF TrailNext, JobStep

\* Every step keeps the chains of source constructions.
LEMMA ChainsStep ==
    ASSUME TrailBase, TrailNext
    PROVE  Chains'
<1>1. /\ Chains /\ DOMAIN step = Jobs /\ \A j \in Jobs : Job[j].trail \in Trails
      /\ \A j \in Jobs : JobSound(j)
  BY Settings DEF TrailBase, CallsSound
<1>2. ASSUME NEW j \in Jobs, ReadHighWater(j) \/ SubmitEvent(j) \/ MarkRecorded(j)  PROVE Chains'
  <2>1. PICK p \in {"read", "receipt", "failed", "recorded"} :
            step[j] \in {"idle", "submit", "receipt"} /\ step' = [step EXCEPT ![j] = p] /\ UNCHANGED lock
    BY <1>2 DEF ReadHighWater, SubmitEvent, MarkRecorded
  <2>2. p \notin InChain /\ step[j] \notin InChain  BY <2>1 DEF InChain
  <2> QED  BY ONLY <1>1, <2>1, <2>2, MoveChains
<1>3. ASSUME NEW j \in Jobs, StartRecord(j)  PROVE Chains'
  <2>1. step[j] \notin InChain  BY <1>3 DEF StartRecord, InChain
  <2>2. step' = [step EXCEPT ![j] = "queued"] /\ lock' = [lock EXCEPT ![Job[j].trail] = Append(@, j)]
    BY <1>3 DEF StartRecord
  <2> QED  BY ONLY <1>1, <2>1, <2>2, JoinChains
<1>4. ASSUME NEW j \in Jobs, Claim(j)  PROVE Chains'
  <2>1. step[j] = "queued" /\ Head(lock[Job[j].trail]) = j /\ "queued" \in InChain  BY <1>4 DEF Claim, InChain
  <2>2. CASE ReleaseLock(j, "failed")
    <3>1. "failed" \notin InChain  BY DEF InChain
    <3> QED  BY ONLY <1>1, <2>1, <2>2, <3>1, ReleaseChains
  <2>3. CASE step' = [step EXCEPT ![j] = "claimed"] /\ UNCHANGED lock
    <3>1. "claimed" \in InChain  BY DEF InChain
    <3> QED  BY ONLY <1>1, <2>1, <2>3, <3>1, MoveChains
  <2> QED  BY <1>4, <2>2, <2>3 DEF Claim
<1>5. ASSUME NEW j \in Jobs, Emit(j)  PROVE Chains'
  <2>1. step[j] = "claimed" /\ step[j] \in InChain /\ step[j] # "queued"  BY <1>5 DEF Emit, InChain
  <2>2. CASE ReleaseLock(j, "submit")
    <3>1. "submit" \notin InChain  BY DEF InChain
    <3> QED  BY ONLY <1>1, <2>1, <2>2, <3>1, ReleaseChains
  <2>3. ASSUME NEW p \in {"enqueue", "abandon"}, step' = [step EXCEPT ![j] = p], UNCHANGED lock
        PROVE  Chains'
    <3>1. p \in InChain  BY DEF InChain
    <3> QED  BY ONLY <1>1, <2>1, <2>3, <3>1, MoveChains
  <2> QED  BY <1>5, <2>2, <2>3 DEF Emit
<1>6. ASSUME NEW j \in Jobs, Abandon(j) \/ Enqueue(j)  PROVE Chains'
  <2>1. PICK p \in {"failed", "pending"} : ReleaseLock(j, p) /\ step[j] \in {"abandon", "enqueue"}
    BY <1>6 DEF Abandon, Enqueue
  <2>2. p \notin InChain /\ step[j] \in InChain /\ step[j] # "queued"  BY <2>1 DEF InChain
  <2> QED  BY ONLY <1>1, <2>1, <2>2, ReleaseChains
<1>7. ASSUME NEW t \in Trails, CrashTrail(t)  PROVE Chains'
  BY ONLY <1>1, <1>7, CrashChains
<1>8. ASSUME UNCHANGED <<lock, step>>  PROVE Chains'
  BY <1>1, <1>8 DEF Chains, ChainSound
<1>9. ASSUME NEW f \in Flushers, FlushStep(f)  PROVE Chains'
  <2>1. UNCHANGED <<lock, step>>
    BY <1>9 DEF FlushStep, FlushStart, FlushSkip, FlushSubmit, FlushFail, FlushReceipt, FlushAck, jobVars
  <2> QED  BY <1>8, <2>1
<1>10. ASSUME Idle  PROVE Chains'
  BY <1>8, <1>10 DEF Idle, trailVars, jobVars
<1> QED  BY <1>2, <1>3, <1>4, <1>5, <1>6, <1>7, <1>9, <1>10 DEF TrailNext, JobStep

-----------------------------------------------------------------------------
(* The outbox, the ledger and the flushes move.                            *)

\* A sequence over fewer elements is one over more.
LEMMA SeqWidens ==
    ASSUME NEW S, NEW T, S \subseteq T, NEW q \in Seq(S)
    PROVE  q \in Seq(T)
<1>1. PICK n \in Nat : n = Len(q) /\ DOMAIN q = 1..n  BY Ranged
<1>2. q \in [1..n -> S]  BY <1>1, LenProperties
<1>3. q \in [1..n -> T]  BY ONLY <1>2, S \subseteq T
<1> QED  BY <1>1, <1>3, SeqDef

\* What outbox.pending(limit) yields.
LEMMA Prefixed ==
    ASSUME NEW S, NEW q \in Seq(S), NEW m \in Nat, m <= Len(q), NEW g, g = SubSeq(q, 1, m)
    PROVE  /\ g \in Seq(S) /\ DOMAIN g = 1..m /\ InSeq(g) \subseteq InSeq(q)
           /\ \A i \in 1..m : i \in DOMAIN q /\ g[i] = q[i]
<1>1. PICK n \in Nat : n = Len(q) /\ DOMAIN q = 1..n  BY Ranged
<1>2. SubSeq(q, 1, m) = [i \in 1..(1 + m - 1) |-> q[i + 1 - 1]]  OBVIOUS
<1>3. 1..(1 + m - 1) = 1..m /\ \A i \in 1..m : i + 1 - 1 = i  OBVIOUS
<1>4. g = [i \in 1..m |-> q[i]]  BY <1>2, <1>3
<1>5. \A i \in 1..m : i \in 1..n  BY <1>1
<1>6. \A i \in 1..n : q[i] \in S  BY <1>1, Ranged
<1>7. g \in [1..m -> S]  BY <1>4, <1>5, <1>6
<1>8. g \in Seq(S)  BY <1>7, SeqDef
<1>9. DOMAIN g = 1..m /\ \A i \in 1..m : g[i] = q[i]  BY <1>4
<1>10. ASSUME NEW e \in InSeq(g)  PROVE e \in InSeq(q)
  <2>1. PICK i \in 1..m : g[i] = e
    <3>1. \E i \in DOMAIN g : g[i] = e  BY ONLY <1>8, e \in InSeq(g), Ranged
    <3> QED  BY <1>9, <3>1
  <2> QED  BY <1>1, <1>5, <1>9, <2>1 DEF InSeq
<1> QED  BY <1>1, <1>5, <1>8, <1>9, <1>10

\* No event is unfrozen, none is uncommitted.
LEMMA EmittedGrows ==
    ASSUME TrailBase, TrailNext
    PROVE  Emitted \subseteq Emitted' /\ InSeq(ledger) \subseteq InSeq(ledger')
<1> DEFINE P == Emitted \subseteq Emitted' /\ InSeq(ledger) \subseteq InSeq(ledger')
<1>1. ASSUME UNCHANGED <<ev, ledger>>  PROVE P  BY <1>1 DEF Emitted
<1>2. ASSUME NEW j \in Jobs, Freezes(j)  PROVE P
  <2>1. Emitted \subseteq Emitted' /\ UNCHANGED ledger  BY <1>2, FreezeFacts DEF Freezes
  <2> QED  BY <2>1
<1>3. ASSUME NEW e \in Emitted, SubmitAccepted(e) \/ SubmitFailed(e), UNCHANGED <<src, ev>>  PROVE P
  <2>1. ledger \in Seq(Emitted)  BY DEF TrailBase, Items
  <2>2. InSeq(ledger) \subseteq InSeq(ledger')  BY <1>3, <2>1, CommitStep
  <2> QED  BY <1>3, <2>2 DEF Emitted
<1>4. \A j \in Jobs : Claim(j) \/ Abandon(j) => UNCHANGED <<ev, ledger>>  BY DEF Claim, Abandon
<1> HIDE DEF P
<1>5. P  BY <1>1, <1>2, <1>3, <1>4, TrailCases
<1> QED  BY <1>5 DEF P

\* Only record() and an acknowledgement change the outbox.
LEMMA OutboxStep ==
    ASSUME TrailNext
    PROVE  \/ UNCHANGED outbox
           \/ \E j \in Jobs : Enqueue(j) /\ \E e \in ev[j] :
                /\ ~ \E i \in 1..Len(outbox) : SameItem(outbox[i], e) /\ outbox[i] # e
                /\ e \notin InSeq(outbox) /\ outbox' = Append(outbox, e)
                /\ ReleaseLock(j, "pending")
           \/ \E f \in Flushers : FlushAck(f) /\ \E x \in Acknowledged(Current(f)) :
                ~Ambiguous(Current(f)) /\ outbox' = Deleted(outbox, x)
<1>1. ASSUME NEW j \in Jobs, JobStep(j) \/ ReadHighWater(j), ~ Enqueue(j)  PROVE UNCHANGED outbox
  BY <1>1 DEF JobStep, ReadHighWater, StartRecord, Claim, Emit, Abandon, SubmitEvent, MarkRecorded
<1>2. ASSUME NEW f \in Flushers, FlushStep(f), ~ FlushAck(f)  PROVE UNCHANGED outbox
  BY <1>2 DEF FlushStep, FlushStart, FlushSkip, FlushSubmit, FlushFail, FlushReceipt
<1>3. ASSUME NEW t \in Trails, CrashTrail(t)  PROVE UNCHANGED outbox  BY <1>3 DEF CrashTrail
<1>4. ASSUME Idle  PROVE UNCHANGED outbox  BY <1>4 DEF Idle, trailVars
<1>5. ASSUME NEW j \in Jobs, Enqueue(j), ~ UNCHANGED outbox
      PROVE  \E e \in ev[j] :
                /\ ~ \E i \in 1..Len(outbox) : SameItem(outbox[i], e) /\ outbox[i] # e
                /\ e \notin InSeq(outbox) /\ outbox' = Append(outbox, e)
                /\ ReleaseLock(j, "pending")
  BY <1>5 DEF Enqueue, InOutbox
<1>6. ASSUME NEW f \in Flushers, FlushAck(f), ~ UNCHANGED outbox
      PROVE  \E x \in Acknowledged(Current(f)) : ~Ambiguous(Current(f)) /\ outbox' = Deleted(outbox, x)
  BY <1>6 DEF FlushAck
<1> QED  BY <1>1, <1>2, <1>3, <1>4, <1>5, <1>6 DEF TrailNext

\* Only a submission changes the ledger.
LEMMA LedgerChange ==
    ASSUME TrailBase, TrailNext
    PROVE  \/ UNCHANGED ledger
           \/ \E e \in Emitted :
                /\ ledger' = Append(ledger, e) /\ ~Conflicting(e) /\ e \notin InSeq(ledger)
                /\ \/ \E j \in Jobs : SubmitEvent(j) /\ e \in ev[j]
                   \/ \E f \in Flushers : FlushSubmit(f) /\ e = Current(f)
<1>0. ledger \in Seq(Emitted)  BY DEF TrailBase, Items
<1>1. ASSUME NEW j \in Jobs, JobStep(j) \/ ReadHighWater(j), ~ SubmitEvent(j)  PROVE UNCHANGED ledger
  BY <1>1 DEF JobStep, ReadHighWater, StartRecord, Claim, Emit, Abandon, Enqueue, MarkRecorded
<1>2. ASSUME NEW f \in Flushers, FlushStep(f), ~ FlushSubmit(f)  PROVE UNCHANGED ledger
  BY <1>2 DEF FlushStep, FlushStart, FlushSkip, FlushAck, FlushFail, FlushReceipt
<1>3. ASSUME NEW t \in Trails, CrashTrail(t)  PROVE UNCHANGED ledger  BY <1>3 DEF CrashTrail
<1>4. ASSUME Idle  PROVE UNCHANGED ledger  BY <1>4 DEF Idle, trailVars
<1>5. ASSUME NEW e \in Emitted, SubmitAccepted(e) \/ SubmitFailed(e), ~ UNCHANGED ledger
      PROVE  ledger' = Append(ledger, e) /\ ~Conflicting(e) /\ e \notin InSeq(ledger)
  BY <1>0, <1>5, CommitStep
<1>6. ASSUME NEW j \in Jobs, SubmitEvent(j), ~ UNCHANGED ledger
      PROVE  \E e \in Emitted : /\ ledger' = Append(ledger, e) /\ ~Conflicting(e) /\ e \notin InSeq(ledger)
                                /\ e \in ev[j]
  <2>1. PICK e \in ev[j] : SubmitAccepted(e) \/ SubmitFailed(e)  BY <1>6 DEF SubmitEvent
  <2>2. e \in Emitted  BY DEF Emitted
  <2> QED  BY <1>5, <1>6, <2>1, <2>2
<1>7. ASSUME NEW f \in Flushers, FlushSubmit(f), ~ UNCHANGED ledger
      PROVE  /\ Current(f) \in Emitted
             /\ ledger' = Append(ledger, Current(f)) /\ ~Conflicting(Current(f)) /\ Current(f) \notin InSeq(ledger)
  <2>1. Current(f) \in Emitted
    <3>1. fl[f].pc = "next"  BY <1>7 DEF FlushSubmit
    <3> QED  BY <3>1, CurrentFacts DEF TrailBase
  <2>2. SubmitAccepted(Current(f)) \/ SubmitFailed(Current(f))  BY <1>7 DEF FlushSubmit
  <2> QED  BY <1>5, <1>7, <2>1, <2>2
<1> QED  BY <1>1, <1>2, <1>3, <1>4, <1>6, <1>7 DEF TrailNext

\* Every step keeps one identity once in the outbox and once in the ledger.
LEMMA ItemsStep ==
    ASSUME TrailBase, TrailNext
    PROVE  Items'
<1>1. Emitted \subseteq Emitted'  BY EmittedGrows
<1>2. /\ outbox \in Seq(Emitted) /\ ledger \in Seq(Emitted)
      /\ \A i, k \in DOMAIN outbox : SameItem(outbox[i], outbox[k]) => i = k
      /\ \A i, k \in DOMAIN ledger : SameItem(ledger[i], ledger[k]) => i = k
  BY DEF TrailBase, Items
\* An item that nothing stands for is added once.
<1>3. ASSUME NEW q \in Seq(Emitted), \A i, k \in DOMAIN q : SameItem(q[i], q[k]) => i = k,
             NEW e \in Emitted, \A i \in DOMAIN q : ~ SameItem(q[i], e), NEW g, g = Append(q, e)
      PROVE  g \in Seq(Emitted') /\ \A i, k \in DOMAIN g : SameItem(g[i], g[k]) => i = k
  <2>1. PICK n \in Nat : n = Len(q) /\ DOMAIN q = 1..n  BY Ranged
  <2>2. g \in Seq(Emitted) /\ DOMAIN g = 1..(n + 1) /\ g[n + 1] = e /\ \A i \in 1..n : g[i] = q[i]
    BY ONLY <1>3, <2>1, Added
  <2>3. g \in Seq(Emitted')  BY ONLY <1>1, <2>2, SeqWidens
  <2>4. 1..(n + 1) = 1..n \cup {n + 1}  BY <2>1
  <2>5. \A i \in 1..n : ~ SameItem(g[i], e) /\ ~ SameItem(e, g[i])  BY <1>3, <2>1, <2>2 DEF SameItem
  <2>6. \A i, k \in DOMAIN g : SameItem(g[i], g[k]) => i = k
    BY ONLY <1>3, <2>1, <2>2, <2>4, <2>5
  <2> QED  BY <2>3, <2>6
<1>4. outbox' \in Seq(Emitted') /\ \A i, k \in DOMAIN outbox' : SameItem(outbox'[i], outbox'[k]) => i = k
  <2>1. CASE UNCHANGED outbox
    <3>1. outbox \in Seq(Emitted')  BY ONLY <1>1, <1>2, SeqWidens
    <3> QED  BY <1>2, <2>1, <3>1
  <2>2. ASSUME NEW j \in Jobs, NEW e \in ev[j], outbox' = Append(outbox, e), e \notin InSeq(outbox),
               ~ \E i \in 1..Len(outbox) : SameItem(outbox[i], e) /\ outbox[i] # e
        PROVE  outbox' \in Seq(Emitted') /\ \A i, k \in DOMAIN outbox' : SameItem(outbox'[i], outbox'[k]) => i = k
    <3>1. \A i \in DOMAIN outbox : ~ SameItem(outbox[i], e)
      <4>1. DOMAIN outbox = 1..Len(outbox) /\ \A i \in DOMAIN outbox : outbox[i] \in InSeq(outbox)
        BY <1>2, Ranged
      <4> QED  BY <2>2, <4>1
    <3>2. e \in Emitted  BY DEF Emitted
    <3> QED  BY ONLY <1>2, <1>3, <2>2, <3>1, <3>2
  <2>3. ASSUME NEW x, outbox' = Deleted(outbox, x)
        PROVE  outbox' \in Seq(Emitted') /\ \A i, k \in DOMAIN outbox' : SameItem(outbox'[i], outbox'[k]) => i = k
    <3>1. PICK g : g = Deleted(outbox, x)  OBVIOUS
    <3>2. /\ g \in Seq(Emitted)
          /\ \A i, m \in DOMAIN g : i < m => \E k, l \in DOMAIN outbox : k < l /\ g[i] = outbox[k] /\ g[m] = outbox[l]
      BY ONLY <1>2, <3>1, DeletedKeeps
    <3>3. g \in Seq(Emitted')  BY ONLY <1>1, <3>2, SeqWidens
    <3>4. ASSUME NEW i \in DOMAIN g, NEW m \in DOMAIN g, SameItem(g[i], g[m]), i < m  PROVE FALSE
      <4>1. PICK k \in DOMAIN outbox, l \in DOMAIN outbox : k < l /\ g[i] = outbox[k] /\ g[m] = outbox[l]
        BY <3>2, <3>4
      <4>2. k = l  BY ONLY <1>2, <3>4, <4>1
      <4>3. k \in Nat  BY <1>2, Ranged
      <4> QED  BY <4>1, <4>2, <4>3
    <3>5. \A i, m \in DOMAIN g : SameItem(g[i], g[m]) => i = m
      <4>1. DOMAIN g = 1..Len(g) /\ Len(g) \in Nat  BY <3>2, Ranged
      <4> SUFFICES ASSUME NEW i \in DOMAIN g, NEW m \in DOMAIN g, SameItem(g[i], g[m])  PROVE i = m
        OBVIOUS
      <4>2. SameItem(g[m], g[i])  BY DEF SameItem
      <4>3. ~ (i < m) /\ ~ (m < i)  BY <3>4, <4>2
      <4> QED  BY <4>1, <4>3
    <3> QED  BY <2>3, <3>1, <3>3, <3>5
  <2> QED  BY <2>1, <2>2, <2>3, OutboxStep
<1>5. ledger' \in Seq(Emitted') /\ \A i, k \in DOMAIN ledger' : SameItem(ledger'[i], ledger'[k]) => i = k
  <2>1. CASE UNCHANGED ledger
    <3>1. ledger \in Seq(Emitted')  BY ONLY <1>1, <1>2, SeqWidens
    <3> QED  BY <1>2, <2>1, <3>1
  <2>2. ASSUME NEW e \in Emitted, ledger' = Append(ledger, e), ~Conflicting(e), e \notin InSeq(ledger)
        PROVE  ledger' \in Seq(Emitted') /\ \A i, k \in DOMAIN ledger' : SameItem(ledger'[i], ledger'[k]) => i = k
    <3>1. \A i \in DOMAIN ledger : ~ SameItem(ledger[i], e)
      <4>1. DOMAIN ledger = 1..Len(ledger) /\ \A i \in DOMAIN ledger : ledger[i] \in InSeq(ledger)
        BY <1>2, Ranged
      <4> QED  BY <2>2, <4>1 DEF Conflicting
    <3> QED  BY ONLY <1>2, <1>3, <2>2, <3>1
  <2> QED  BY <2>1, <2>2, LedgerChange
<1> QED  BY <1>4, <1>5 DEF Items

\* A flush that goes on to its next item stays sound.
LEMMA AdvanceSound ==
    ASSUME NEW f \in Flushers, NEW g \in Flushers, TrailBase, Emitted \subseteq Emitted', InSeq(ledger) \subseteq InSeq(ledger'),
           UNCHANGED tset, FlushSound(f), fl[f].pc # "idle", NEW b, Advance(f, b)
    PROVE  FlushSound(f)'
<1>1. DOMAIN fl = Flushers  BY DEF TrailBase, Flushes
<1>2. PICK q \in Seq(Emitted) : q = fl[f].rest /\ q # <<>> /\ Delivery = "buffered"  BY DEF FlushSound
<1>3. CASE fl'[f] = NoFlush
  <2>1. <<>> \in Seq(Emitted')  OBVIOUS
  <2>2. NoFlush.pc = "idle" /\ NoFlush.rest = <<>> /\ DOMAIN NoFlush = {"pc", "rest", "blocked"}
    BY DEF NoFlush
  <2> QED  BY ONLY <1>3, <2>1, <2>2 DEF FlushSound
<1>4. CASE Len(q) # 1 /\ fl'[f] = [pc |-> "next", rest |-> Tail(q), blocked |-> b]
  <2>1. Tail(q) \in Seq(Emitted) /\ Len(Tail(q)) = Len(q) - 1  BY ONLY <1>2, Tailed
  <2>2. Tail(q) # <<>>
    <3>1. Len(q) \in Nat  BY ONLY <1>2, Ranged
    <3>2. Len(Tail(q)) # 0  BY ONLY <1>4, <2>1, <3>1
    <3> QED  BY ONLY <2>1, <3>2, Ranged
  <2>3. Tail(q) \in Seq(Emitted')  BY ONLY <2>1, SeqWidens, Emitted \subseteq Emitted'
  <2>4. Delivery' = "buffered"  BY <1>2 DEF Delivery
  <2>5. /\ DOMAIN fl'[f] = {"pc", "rest", "blocked"} /\ fl'[f].pc = "next" /\ fl'[f].rest = Tail(q)
    BY <1>4
  <2> QED  BY ONLY <2>2, <2>3, <2>4, <2>5 DEF FlushSound
<1>5. fl'[f] = IF Len(q) = 1 THEN NoFlush ELSE [pc |-> "next", rest |-> Tail(q), blocked |-> b]
  BY <1>1, <1>2 DEF Advance
<1> QED  BY <1>3, <1>4, <1>5

\* Every step keeps the flushes sound.
LEMMA FlushesStep ==
    ASSUME TrailBase, TrailNext
    PROVE  Flushes'
<1>1. Emitted \subseteq Emitted' /\ InSeq(ledger) \subseteq InSeq(ledger') /\ UNCHANGED tset
  BY EmittedGrows DEF TrailNext
<1>2. DOMAIN fl = Flushers /\ \A f \in Flushers : FlushSound(f)  BY DEF TrailBase, Flushes
<1>3. ASSUME NEW f \in Flushers, fl'[f] = fl[f]  PROVE FlushSound(f)'
  <2>1. FlushSound(f)  BY <1>2
  <2>2. fl[f].rest \in Seq(Emitted')
    <3>1. fl[f].rest \in Seq(Emitted)  BY <2>1 DEF FlushSound
    <3> QED  BY ONLY <1>1, <3>1, SeqWidens
  <2> QED  BY ONLY <1>1, <1>3, <2>1, <2>2 DEF FlushSound, Current, Delivery
<1>4. ASSUME UNCHANGED fl  PROVE Flushes'  BY <1>2, <1>3, <1>4 DEF Flushes
<1>5. ASSUME NEW f \in Flushers, NEW r, fl' = [fl EXCEPT ![f] = r], FlushSound(f)'  PROVE Flushes'
  <2>1. DOMAIN fl' = Flushers /\ \A g \in Flushers : g # f => fl'[g] = fl[g]  BY <1>2, <1>5
  <2>2. \A g \in Flushers : FlushSound(g)'  BY ONLY <1>3, <1>5, <2>1
  <2> QED  BY <2>1, <2>2 DEF Flushes
<1>6. ASSUME NEW f \in Flushers, NEW b, Advance(f, b), fl[f].pc # "idle"  PROVE Flushes'
  <2>1. FlushSound(f)'  BY ONLY <1>1, <1>2, <1>6, AdvanceSound, TrailBase
  <2>2. \E r : fl' = [fl EXCEPT ![f] = r]  BY <1>6 DEF Advance
  <2> QED  BY <1>5, <2>1, <2>2
<1>7. ASSUME NEW f \in Flushers, NEW p \in {"receipt", "fail", "ack"}, fl' = [fl EXCEPT ![f].pc = p],
             fl[f].pc # "idle", p \in {"receipt", "ack"} => Current(f) \in InSeq(ledger')
      PROVE  Flushes'
  <2>1. FlushSound(f)  BY <1>2
  <2>2. PICK r : r = [fl[f] EXCEPT !.pc = p]  OBVIOUS
  <2>3. fl' = [fl EXCEPT ![f] = r] /\ fl'[f] = r  BY <1>2, <1>7, <2>2
  <2>4. DOMAIN r = {"pc", "rest", "blocked"} /\ r.pc = p /\ r.rest = fl[f].rest /\ r.blocked = fl[f].blocked
    BY <2>1, <2>2 DEF FlushSound
  <2>5. r.rest \in Seq(Emitted') /\ r.rest # <<>> /\ Delivery = "buffered"
    <3>1. fl[f].rest \in Seq(Emitted) /\ fl[f].rest # <<>> /\ Delivery = "buffered"
      BY <1>7, <2>1 DEF FlushSound
    <3>2. fl[f].rest \in Seq(Emitted')  BY ONLY <1>1, <3>1, SeqWidens
    <3> QED  BY <2>4, <3>1, <3>2
  <2>6. Current(f)' = Current(f) /\ Delivery' = Delivery  BY <1>1, <2>3, <2>4 DEF Current, Delivery
  <2>7. FlushSound(f)'
    BY ONLY <1>7, <2>3, <2>4, <2>5, <2>6 DEF FlushSound
  <2> QED  BY <1>5, <2>3, <2>7
<1>8. ASSUME NEW f \in Flushers, FlushStart(f)  PROVE Flushes'
  <2>1. PICK q \in Seq(Emitted) : q = outbox /\ q # <<>>
    BY <1>8 DEF FlushStart, TrailBase, Items
  <2>2. PICK n \in Nat : n = Len(q) /\ n # 0  BY <2>1, Ranged
  <2>3. PICK m \in Nat : m = (IF OutboxLimit < n THEN OutboxLimit ELSE n) /\ m <= n /\ m # 0
    <3>1. OutboxLimit \in Nat /\ OutboxLimit # 0 /\ n \in Nat /\ n # 0  BY <2>2
    <3>2. CASE OutboxLimit < n
      <4>1. OutboxLimit <= n  BY ONLY <3>1, <3>2
      <4> QED  BY <3>1, <3>2, <4>1
    <3>3. CASE ~ (OutboxLimit < n)
      <4>1. n <= n  BY ONLY <3>1
      <4> QED  BY <3>1, <3>3, <4>1
    <3> QED  BY <3>2, <3>3
  <2>4. PICK g : g = SubSeq(q, 1, m)  OBVIOUS
  <2>5. g \in Seq(Emitted) /\ DOMAIN g = 1..m  BY ONLY <2>1, <2>2, <2>3, <2>4, Prefixed
  <2>6. g # <<>>
    <3>1. 1 \in DOMAIN g  BY <2>3, <2>5
    <3> QED  BY <3>1
  <2>7. g \in Seq(Emitted')  BY ONLY <1>1, <2>5, SeqWidens
  <2>8. PICK r : r = [pc |-> "next", blocked |-> {}, rest |-> g]  OBVIOUS
  <2>9. fl' = [fl EXCEPT ![f] = r] /\ Delivery = "buffered"
    BY <1>8, <2>1, <2>2, <2>3, <2>4, <2>8 DEF FlushStart
  <2>10. fl'[f] = r /\ DOMAIN r = {"pc", "rest", "blocked"} /\ r.pc = "next" /\ r.rest = g
    BY <1>2, <2>8, <2>9
  <2>11. Delivery' = "buffered"  BY <1>1, <2>9 DEF Delivery
  <2>12. FlushSound(f)'  BY ONLY <2>6, <2>7, <2>10, <2>11 DEF FlushSound
  <2> QED  BY <1>5, <2>9, <2>12
<1>9. ASSUME NEW f \in Flushers, FlushSkip(f) \/ FlushAck(f)  PROVE Flushes'
  <2>1. Advance(f, fl[f].blocked) /\ fl[f].pc # "idle"  BY <1>9 DEF FlushSkip, FlushAck
  <2> QED  BY <1>6, <2>1
<1>10. ASSUME NEW f \in Flushers, FlushFail(f)  PROVE Flushes'
  <2>1. fl[f].pc # "idle"  BY <1>10 DEF FlushFail
  <2>2. CASE Advance(f, fl[f].blocked \cup {Current(f).src})  BY <1>6, <2>1, <2>2
  <2>3. CASE fl' = [fl EXCEPT ![f] = NoFlush]
    <3>1. fl'[f] = NoFlush  BY <1>2, <2>3
    <3>2. NoFlush.pc = "idle" /\ NoFlush.rest = <<>> /\ DOMAIN NoFlush = {"pc", "rest", "blocked"}
      BY DEF NoFlush
    <3>3. <<>> \in Seq(Emitted')  OBVIOUS
    <3>4. FlushSound(f)'  BY ONLY <3>1, <3>2, <3>3 DEF FlushSound
    <3> QED  BY <1>5, <2>3, <3>4
  <2> QED  BY <1>10, <2>2, <2>3 DEF FlushFail
<1>11. ASSUME NEW f \in Flushers, FlushSubmit(f)  PROVE Flushes'
  <2>1. fl[f].pc # "idle"  BY <1>11 DEF FlushSubmit
  <2>2. Current(f) \in Emitted /\ ledger \in Seq(Emitted)  BY <2>1, CurrentFacts DEF TrailBase, Items
  <2>3. CASE SubmitAccepted(Current(f)) /\ fl' = [fl EXCEPT ![f].pc = "receipt"]
    <3>1. Current(f) \in InSeq(ledger')  BY <2>2, <2>3, CommitStep
    <3> QED  BY <1>7, <2>1, <2>3, <3>1
  <2>4. CASE fl' = [fl EXCEPT ![f].pc = "fail"]  BY <1>7, <2>1, <2>4
  <2> QED  BY <1>11, <2>3, <2>4 DEF FlushSubmit
<1>12. ASSUME NEW f \in Flushers, FlushReceipt(f)  PROVE Flushes'
  <2>1. fl[f].pc = "receipt" /\ fl' = [fl EXCEPT ![f].pc = "ack"]  BY <1>12 DEF FlushReceipt
  <2>2. Current(f) \in InSeq(ledger')  BY <1>1, <1>2, <2>1 DEF FlushSound
  <2> QED  BY <1>7, <2>1, <2>2
<1>13. ASSUME NEW t \in Trails, CrashTrail(t)  PROVE Flushes'
  <2>1. fl' = [f \in Flushers |-> IF TrailOf[f] = t THEN NoFlush ELSE fl[f]]  BY <1>13 DEF CrashTrail
  <2>2. ASSUME NEW f \in Flushers  PROVE FlushSound(f)'
    <3>1. CASE fl'[f] = fl[f]  BY <1>3, <3>1
    <3>2. CASE fl'[f] = NoFlush
      <4>1. NoFlush.pc = "idle" /\ NoFlush.rest = <<>> /\ DOMAIN NoFlush = {"pc", "rest", "blocked"}
        BY DEF NoFlush
      <4>2. <<>> \in Seq(Emitted')  OBVIOUS
      <4> QED  BY ONLY <3>2, <4>1, <4>2 DEF FlushSound
    <3> QED  BY <2>1, <3>1, <3>2
  <2> QED  BY <2>1, <2>2 DEF Flushes
<1>14. ASSUME NEW j \in Jobs, ReadHighWater(j) \/ JobStep(j)  PROVE Flushes'
  <2>1. UNCHANGED fl
    BY <1>14 DEF JobStep, ReadHighWater, StartRecord, Claim, Emit, Abandon, Enqueue, SubmitEvent, MarkRecorded
  <2> QED  BY <1>4, <2>1
<1>15. ASSUME Idle  PROVE Flushes'  BY <1>4, <1>15 DEF Idle, trailVars
<1> QED  BY <1>8, <1>9, <1>10, <1>11, <1>12, <1>13, <1>14, <1>15 DEF TrailNext, FlushStep

\* The producer starts with sound books.
LEMMA TrailBaseInit == TrailInit => TrailBase
<1> SUFFICES ASSUME TrailInit  PROVE TrailBase
  OBVIOUS
<1>1. Emitted = {} /\ InSeq(ledger) = {} /\ ledger = <<>> /\ outbox = <<>>
  BY DEF TrailInit, Emitted, InSeq
<1>2. Books
  <2>1. NewSource.next = 0 /\ NewSource.pending = {} /\ NewSource.claims = {} /\ NewSource.retained = <<>>
        /\ NewSource.latest = {} /\ DOMAIN NewSource = StateFields
    BY DEF NewSource, StateFields
  <2>2. ASSUME NEW s \in Sources  PROVE Booked(s, NewSource, {}, {})
    <3>1. WindowSound(NewSource, {})  BY <2>1 DEF WindowSound, InSeq
    <3>2. ClaimsSound(s, NewSource, {}) /\ EventsBooked(s, NewSource, {}, {}) /\ OneValue({})
      BY <2>1 DEF ClaimsSound, EventsBooked, OneValue
    <3>3. Receipted(s, NewSource, {})  BY <2>1 DEF Receipted
    <3> QED  BY <2>1, <3>1, <3>2, <3>3 DEF Booked
  <2> QED  BY <1>1, <2>2 DEF Books, TrailInit
<1>3. CallsSound
  <2>1. NoClaim.seq = 0 /\ NoClaim.prev = {} /\ DOMAIN NoClaim = {"seq", "prev"}  BY DEF NoClaim
  <2>2. ASSUME NEW j \in Jobs  PROVE JobSound(j)
    <3>1. step[j] = "idle" /\ claimed[j] = NoClaim /\ mark[j] = 0 /\ ev[j] = {}  BY DEF TrailInit
    <3> QED  BY <2>1, <3>1 DEF JobSound, OneValue, Freezing, BufferedSteps, DirectSteps
  <2> QED  BY <2>2 DEF CallsSound, TrailInit
<1>4. Chains  BY DEF Chains, ChainSound, TrailInit, InChain
<1>5. Items  BY <1>1 DEF Items
<1>6. Flushes
  <2>1. NoFlush.pc = "idle" /\ NoFlush.rest = <<>> /\ DOMAIN NoFlush = {"pc", "rest", "blocked"}
    BY DEF NoFlush
  <2>2. DOMAIN fl = Flushers /\ \A f \in Flushers : fl[f] = NoFlush  BY DEF TrailInit
  <2>3. <<>> \in Seq(Emitted)  OBVIOUS
  <2>4. \A f \in Flushers : FlushSound(f)  BY ONLY <2>1, <2>2, <2>3 DEF FlushSound
  <2> QED  BY ONLY <2>2, <2>4 DEF Flushes
<1>7. tset \in TrailSettings /\ trailCrashes \in 0..MaxTrailCrashes  BY DEF TrailInit
<1> QED  BY <1>2, <1>3, <1>4, <1>5, <1>6, <1>7 DEF TrailBase

\* The base of the invariant is inductive by itself.
LEMMA TrailBaseStep == TrailBase /\ [TrailNext]_trailVars => TrailBase'
<1> SUFFICES ASSUME TrailBase, [TrailNext]_trailVars  PROVE TrailBase'
  OBVIOUS
<1>1. CASE TrailNext
  <2>1. tset' \in TrailSettings  BY <1>1 DEF TrailNext, TrailBase
  <2>2. trailCrashes' \in 0..MaxTrailCrashes
    <3>1. CASE UNCHANGED trailCrashes  BY <3>1 DEF TrailBase
    <3>2. ASSUME NEW t \in Trails, CrashTrail(t)  PROVE trailCrashes' \in 0..MaxTrailCrashes
      <4>1. trailCrashes \in 0..MaxTrailCrashes /\ trailCrashes < MaxTrailCrashes /\ trailCrashes' = trailCrashes + 1
        BY <3>2 DEF CrashTrail, TrailBase
      <4> QED  BY <4>1
    <3>3. ASSUME NEW j \in Jobs, ReadHighWater(j) \/ JobStep(j)  PROVE UNCHANGED trailCrashes
      BY <3>3 DEF JobStep, ReadHighWater, StartRecord, Claim, Emit, Abandon, Enqueue, SubmitEvent, MarkRecorded
    <3>4. ASSUME NEW f \in Flushers, FlushStep(f)  PROVE UNCHANGED trailCrashes
      BY <3>4 DEF FlushStep, FlushStart, FlushSkip, FlushSubmit, FlushFail, FlushReceipt, FlushAck
    <3> QED  BY <1>1, <3>1, <3>2, <3>3, <3>4 DEF TrailNext, Idle, trailVars
  <2> QED  BY <1>1, <2>1, <2>2, BooksStep, CallsStep, ChainsStep, ItemsStep, FlushesStep DEF TrailBase
<1>2. CASE UNCHANGED trailVars
  <2>1. UNCHANGED <<src, outbox, ledger, lock, step, claimed, mark, ev, fl, trailCrashes, tset>>
    BY <1>2 DEF trailVars, jobVars
  <2>2. Emitted' = Emitted  BY <2>1 DEF Emitted
  <2>3. Books'  BY <2>1, <2>2 DEF TrailBase, Books
  <2>4. CallsSound'  BY <2>1, CallsQuiet DEF TrailBase
  <2>5. Chains' /\ Items'  BY <2>1, <2>2 DEF TrailBase, Chains, ChainSound, Items
  <2>6. Flushes'  BY <2>1, <2>2 DEF TrailBase, Flushes, FlushSound, Current, Delivery
  <2> QED  BY <2>1, <2>3, <2>4, <2>5, <2>6 DEF TrailBase
<1> QED  BY <1>1, <1>2

-----------------------------------------------------------------------------
(* What the outbox and the flush loops hold is kept until it is over.      *)

\* How the items at hand of a flush loop change.
RestMoves(f) ==
    \/ fl'[f].rest = fl[f].rest /\ fl'[f].blocked = fl[f].blocked
    \/ fl'[f].rest = <<>>
    \/ /\ UNCHANGED outbox /\ fl'[f].rest \in Seq(Emitted)
       /\ \A i \in DOMAIN fl'[f].rest : i \in DOMAIN outbox /\ fl'[f].rest[i] = outbox[i]
    \/ /\ fl[f].pc # "idle" /\ fl'[f].rest = Tail(fl[f].rest)
       /\ fl[f].blocked \subseteq fl'[f].blocked
       /\ Current(f).src \in fl'[f].blocked \/ Current(f) \in InSeq(ledger)

\* What a step does to the items a flush has left.
LEMMA RestStep ==
    ASSUME TrailBase, TrailNext, NEW f \in Flushers
    PROVE  RestMoves(f)
<1>1. DOMAIN fl = Flushers /\ FlushSound(f)  BY DEF TrailBase, Flushes
<1>2. ASSUME fl'[f] = fl[f]  PROVE RestMoves(f)  BY <1>2 DEF RestMoves
<1>3. ASSUME NEW b, Advance(f, b), fl[f].pc # "idle", fl[f].blocked \subseteq b,
             Current(f).src \in b \/ Current(f) \in InSeq(ledger)
      PROVE  RestMoves(f)
  <2>1. fl'[f] = NoFlush \/ fl'[f] = [pc |-> "next", rest |-> Tail(fl[f].rest), blocked |-> b]
    BY <1>1, <1>3 DEF Advance
  <2>2. NoFlush.rest = <<>>  BY DEF NoFlush
  <2>3. CASE fl'[f] = NoFlush  BY <2>2, <2>3 DEF RestMoves
  <2>4. CASE fl'[f] = [pc |-> "next", rest |-> Tail(fl[f].rest), blocked |-> b]
    <3>1. fl'[f].rest = Tail(fl[f].rest) /\ fl'[f].blocked = b  BY <2>4
    <3> QED  BY ONLY <1>3, <3>1 DEF RestMoves
  <2> QED  BY <2>1, <2>3, <2>4
<1>4. ASSUME NEW p, fl' = [fl EXCEPT ![f].pc = p]  PROVE RestMoves(f)
  <2>1. fl'[f] = [fl[f] EXCEPT !.pc = p]  BY <1>1, <1>4
  <2>2. fl'[f].rest = fl[f].rest /\ fl'[f].blocked = fl[f].blocked
    BY <1>1, <2>1 DEF FlushSound
  <2> QED  BY <2>2 DEF RestMoves
<1>5. ASSUME NEW g \in Flushers, FlushStep(g), g # f  PROVE RestMoves(f)
  <2>1. fl'[f] = fl[f]
    BY <1>1, <1>5 DEF FlushStep, FlushStart, FlushSkip, FlushSubmit, FlushFail, FlushReceipt, FlushAck, Advance
  <2> QED  BY <1>2, <2>1
<1>6. CASE FlushStart(f)
  <2>1. PICK q \in Seq(Emitted) : q = outbox /\ q # <<>>
    BY <1>6 DEF FlushStart, TrailBase, Items
  <2>2. PICK n \in Nat : n = Len(q) /\ DOMAIN q = 1..n  BY <2>1, Ranged
  <2>3. PICK m \in Nat : m = (IF OutboxLimit < n THEN OutboxLimit ELSE n) /\ m <= n
    <3>1. OutboxLimit \in Nat /\ n \in Nat  BY <2>2
    <3>2. CASE OutboxLimit < n
      <4>1. OutboxLimit <= n  BY ONLY <3>1, <3>2
      <4> QED  BY <3>1, <3>2, <4>1
    <3>3. CASE ~ (OutboxLimit < n)
      <4>1. n <= n  BY ONLY <3>1
      <4> QED  BY <3>1, <3>3, <4>1
    <3> QED  BY <3>2, <3>3
  <2>4. PICK g : g = SubSeq(q, 1, m)  OBVIOUS
  <2>5. g \in Seq(Emitted) /\ DOMAIN g = 1..m /\ \A i \in 1..m : i \in DOMAIN q /\ g[i] = q[i]
    BY ONLY <2>1, <2>2, <2>3, <2>4, Prefixed
  <2>6. fl'[f].rest = g /\ UNCHANGED outbox
    BY <1>1, <1>6, <2>1, <2>2, <2>3, <2>4 DEF FlushStart
  <2> QED  BY <2>1, <2>5, <2>6 DEF RestMoves
<1>7. CASE FlushSkip(f)
  <2>1. Advance(f, fl[f].blocked) /\ fl[f].pc # "idle" /\ Current(f).src \in fl[f].blocked
    BY <1>7 DEF FlushSkip, Skipped
  <2> QED  BY <1>3, <2>1
<1>8. CASE FlushAck(f)
  <2>1. Advance(f, fl[f].blocked) /\ fl[f].pc = "ack"  BY <1>8 DEF FlushAck
  <2>2. Current(f) \in InSeq(ledger)  BY <1>1, <2>1 DEF FlushSound
  <2> QED  BY <1>3, <2>1, <2>2
<1>9. CASE FlushFail(f)
  <2>1. fl[f].pc # "idle"  BY <1>9 DEF FlushFail
  <2>2. CASE Advance(f, fl[f].blocked \cup {Current(f).src})  BY <1>3, <2>1, <2>2
  <2>3. CASE fl' = [fl EXCEPT ![f] = NoFlush]
    <3>1. fl'[f].rest = <<>>  BY <1>1, <2>3 DEF NoFlush
    <3> QED  BY <3>1 DEF RestMoves
  <2> QED  BY <1>9, <2>2, <2>3 DEF FlushFail
<1>10. CASE FlushSubmit(f) \/ FlushReceipt(f)  BY <1>4, <1>10 DEF FlushSubmit, FlushReceipt
<1>11. ASSUME NEW t \in Trails, CrashTrail(t)  PROVE RestMoves(f)
  <2>1. fl'[f] = NoFlush \/ fl'[f] = fl[f]  BY <1>11 DEF CrashTrail
  <2> QED  BY <1>2, <2>1 DEF RestMoves, NoFlush
<1>12. ASSUME UNCHANGED fl  PROVE RestMoves(f)  BY <1>2, <1>12
<1>13. ASSUME NEW j \in Jobs, ReadHighWater(j) \/ JobStep(j)  PROVE UNCHANGED fl
  BY <1>13 DEF JobStep, ReadHighWater, StartRecord, Claim, Emit, Abandon, Enqueue, SubmitEvent, MarkRecorded
<1>14. Idle => UNCHANGED fl  BY DEF Idle, trailVars
<1> QED  BY <1>5, <1>6, <1>7, <1>8, <1>9, <1>10, <1>11, <1>12, <1>13, <1>14 DEF TrailNext, FlushStep

\* An identity that was committed as other content stays so.
LEMMA ConflictStays ==
    ASSUME TrailBase, TrailNext, NEW e, Conflicting(e)
    PROVE  Conflicting(e)'
<1>1. ledger \in Seq(Emitted) /\ ledger' \in Seq(Emitted')  BY ItemsStep DEF TrailBase, Items
<1>2. DOMAIN ledger = 1..Len(ledger) /\ DOMAIN ledger' = 1..Len(ledger')
      /\ \A i \in DOMAIN ledger : ledger[i] \in InSeq(ledger)
  <2>1. DOMAIN ledger' = 1..Len(ledger')  BY ONLY <1>1, Ranged
  <2> QED  BY ONLY <1>1, <2>1, Ranged
<1>3. PICK i \in DOMAIN ledger : SameItem(ledger[i], e) /\ ledger[i] # e  BY <1>2 DEF Conflicting
<1>4. ledger[i] \in InSeq(ledger')  BY <1>2, EmittedGrows
<1>5. PICK k \in DOMAIN ledger' : ledger'[k] = ledger[i]  BY ONLY <1>1, <1>4, Ranged
<1>6. SameItem(ledger'[k], e) /\ ledger'[k] # e  BY <1>3, <1>5
<1> QED  BY <1>2, <1>6 DEF Conflicting, SameItem

\* An item leaves the outbox when the recorder has something under its identity.
LEMMA OutboxLeaves ==
    ASSUME TrailBase, TrailNext, KeyedBySource, NEW f \in Flushers, FlushAck(f),
           NEW x \in Acknowledged(Current(f))
    PROVE  x \in InSeq(ledger) \/ Conflicting(x)
<1>1. SameItem(x, Current(f))  BY DEF Acknowledged
<1>2. fl[f].pc = "ack"  BY DEF FlushAck
<1>3. Current(f) \in InSeq(ledger)  BY <1>2 DEF TrailBase, Flushes, FlushSound
<1>4. PICK i \in 1..Len(ledger) : ledger[i] = Current(f)  BY <1>3 DEF InSeq
<1>5. SameItem(ledger[i], x)  BY <1>1, <1>4 DEF SameItem
<1> QED  BY <1>3, <1>4, <1>5 DEF Conflicting

\* What waits or is committed stays so.
LEMMA KeptStays ==
    ASSUME TrailBase, TrailNext, KeyedBySource, NEW e, Kept(e)
    PROVE  Kept(e)'
<1>1. CASE e \in InSeq(ledger)  BY <1>1, EmittedGrows DEF Kept
<1>2. CASE Conflicting(e)  BY <1>2, ConflictStays DEF Kept
<1>3. CASE e \in InSeq(outbox)
  <2>0. outbox \in Seq(Emitted)  BY DEF TrailBase, Items
  <2>1. CASE UNCHANGED outbox  BY <1>3, <2>1 DEF Kept
  <2>2. ASSUME NEW j \in Jobs, NEW x \in ev[j], outbox' = Append(outbox, x)  PROVE Kept(e)'
    <3>1. x \in Emitted  BY DEF Emitted
    <3>2. InSeq(Append(outbox, x)) = InSeq(outbox) \cup {x}  BY ONLY <2>0, <3>1, AddedRange
    <3>3. e \in InSeq(outbox')  BY <1>3, <2>2, <3>2
    <3> QED  BY <3>3 DEF Kept
  <2>3. ASSUME NEW f \in Flushers, FlushAck(f), NEW x \in Acknowledged(Current(f)), outbox' = Deleted(outbox, x)
        PROVE  Kept(e)'
    <3>1. PICK g : g = Deleted(outbox, x)  OBVIOUS
    <3>2. InSeq(outbox) \subseteq InSeq(g) \cup {x}  BY ONLY <2>0, <3>1, DeletedKeeps
    <3>3. CASE e = x
      <4>1. e \in InSeq(ledger) \/ Conflicting(e)  BY <2>3, <3>3, OutboxLeaves
      <4> QED  BY <1>1, <1>2, <4>1
    <3>4. CASE e # x
      <4>1. e \in InSeq(outbox')  BY <1>3, <2>3, <3>1, <3>2, <3>4
      <4> QED  BY <4>1 DEF Kept
    <3> QED  BY <3>3, <3>4
  <2> QED  BY <2>1, <2>2, <2>3, OutboxStep
<1> QED  BY <1>1, <1>2, <1>3 DEF Kept

\* A call answers "pending" when its event is in the outbox.
LEMMA PendingStep ==
    ASSUME TrailBase, TrailNext, NEW j \in Jobs, step'[j] = "pending"
    PROVE  \/ step[j] = "pending" /\ ev'[j] = ev[j]
           \/ Enqueue(j) /\ ev'[j] = ev[j] /\ \A e \in ev[j] : e \in InSeq(outbox')
<1>1. DOMAIN step = Jobs /\ \A k \in Jobs : JobSound(k)  BY DEF TrailBase, CallsSound
<1>2. ASSUME NEW k \in Jobs, ReadHighWater(k) \/ JobStep(k), ~ Enqueue(k)
      PROVE  step[j] = "pending" /\ ev'[j] = ev[j]
  <2>1. step'[k] # "pending"
    BY <1>1, <1>2 DEF JobStep, ReadHighWater, StartRecord, Claim, Emit, Abandon, SubmitEvent, MarkRecorded, ReleaseLock
  <2>2. step'[j] = step[j]
    BY <1>1, <1>2, <2>1
    DEF JobStep, ReadHighWater, StartRecord, Claim, Emit, Abandon, SubmitEvent, MarkRecorded, ReleaseLock
  <2>3. ev'[j] = ev[j]
    <3>1. CASE Freezes(k)
      <4>1. k # j  BY <2>1
      <4> QED  BY <3>1, <4>1, FreezeFacts
    <3>2. CASE UNCHANGED ev  BY <3>2
    <3> QED  BY <1>2, <3>1, <3>2, EmitSplit
        DEF JobStep, ReadHighWater, StartRecord, Claim, Abandon, SubmitEvent, MarkRecorded
  <2> QED  BY <2>2, <2>3
<1>3. ASSUME NEW k \in Jobs, Enqueue(k), k # j  PROVE step[j] = "pending" /\ ev'[j] = ev[j]
  BY <1>1, <1>3 DEF Enqueue, ReleaseLock
<1>4. ASSUME Enqueue(j)  PROVE ev'[j] = ev[j] /\ \A e \in ev[j] : e \in InSeq(outbox')
  <2>1. PICK e \in ev[j] : \/ outbox' = IF InOutbox(e) THEN outbox ELSE Append(outbox, e)
                           \/ ReleaseLock(j, "failed")
    BY <1>4 DEF Enqueue
  <2>2. ~ ReleaseLock(j, "failed")  BY <1>1 DEF ReleaseLock
  <2>3. ev[j] = {e} /\ UNCHANGED ev  BY <1>1, <1>4, <2>1 DEF JobSound, Enqueue
  <2>4. outbox \in Seq(Emitted) /\ e \in Emitted  BY <2>1 DEF TrailBase, Items, Emitted
  <2>5. e \in InSeq(Append(outbox, e))
    <3>1. InSeq(Append(outbox, e)) = InSeq(outbox) \cup {e}  BY ONLY <2>4, AddedRange
    <3> QED  BY <3>1
  <2> QED  BY <2>1, <2>2, <2>3, <2>5 DEF InOutbox
<1>5. ASSUME NEW f \in Flushers, FlushStep(f)  PROVE UNCHANGED <<step, ev>>
  BY <1>5 DEF FlushStep, FlushStart, FlushSkip, FlushSubmit, FlushFail, FlushReceipt, FlushAck, jobVars
<1>6. ASSUME NEW t \in Trails, CrashTrail(t)  PROVE step[j] = "pending" /\ ev'[j] = ev[j]
  BY <1>6 DEF CrashTrail
<1>7. Idle => UNCHANGED <<step, ev>>  BY DEF Idle, trailVars, jobVars
<1> QED  BY <1>2, <1>3, <1>4, <1>5, <1>6, <1>7 DEF TrailNext, JobStep

\* Nothing that is pending or in a flush is lost.
LEMMA KeptItemsStep ==
    ASSUME TrailBase, TrailNext, KeptItems
    PROVE  KeptItems'
<1>1. UNCHANGED tset  BY DEF TrailNext
<1> SUFFICES ASSUME KeyedBySource
             PROVE  /\ \A j \in Jobs : step'[j] = "pending" => \A e \in ev'[j] : Kept(e)'
                    /\ \A f \in Flushers : \A i \in DOMAIN fl'[f].rest : Kept(fl[f].rest[i])'
  BY <1>1 DEF KeptItems, KeyedBySource
<1>2. ASSUME NEW j \in Jobs, step'[j] = "pending", NEW e \in ev'[j]  PROVE Kept(e)'
  <2>1. CASE step[j] = "pending" /\ ev'[j] = ev[j]
    <3>1. Kept(e)  BY <1>2, <2>1 DEF KeptItems
    <3> QED  BY <3>1, KeptStays
  <2>2. CASE e \in InSeq(outbox')  BY <2>2 DEF Kept
  <2> QED  BY <1>2, <2>1, <2>2, PendingStep
<1>3. ASSUME NEW f \in Flushers, NEW i \in DOMAIN fl'[f].rest
      PROVE  Kept(fl[f].rest[i])'
  <2>0. FlushSound(f)  BY DEF TrailBase, Flushes
  <2>1. PICK e : e = fl'[f].rest[i]  OBVIOUS
  <2>2. Kept(e)
    <3>1. CASE fl'[f].rest = fl[f].rest  BY <1>3, <2>1, <3>1 DEF KeptItems
    <3>2. CASE fl'[f].rest = <<>>  BY <1>3, <3>2
    <3>3. CASE \A m \in DOMAIN fl'[f].rest : m \in DOMAIN outbox /\ fl'[f].rest[m] = outbox[m]
      <4>1. e = outbox[i] /\ i \in DOMAIN outbox /\ outbox \in Seq(Emitted)
        BY <1>3, <2>1, <3>3 DEF TrailBase, Items
      <4>2. e \in InSeq(outbox)  BY <4>1, Ranged
      <4> QED  BY <4>2 DEF Kept
    <3>4. CASE fl[f].pc # "idle" /\ fl'[f].rest = Tail(fl[f].rest)
      <4>1. fl[f].rest \in Seq(Emitted) /\ fl[f].rest # <<>>  BY <2>0, <3>4 DEF FlushSound
      <4>2. i + 1 \in DOMAIN fl[f].rest /\ e = fl[f].rest[i + 1]
        <5>1. \A m \in DOMAIN Tail(fl[f].rest) : m + 1 \in DOMAIN fl[f].rest /\ Tail(fl[f].rest)[m] = fl[f].rest[m + 1]
          BY ONLY <4>1, Tailed
        <5> QED  BY <1>3, <2>1, <3>4, <5>1
      <4> QED  BY <4>2 DEF KeptItems
    <3> QED  BY <3>1, <3>2, <3>3, <3>4, RestStep DEF RestMoves
  <2> QED  BY <2>1, <2>2, KeptStays
<1> QED  BY <1>2, <1>3

-----------------------------------------------------------------------------
(* One trail per source: its calls build one at a time.                    *)

\* Calls of one source are calls of one trail.
LEMMA SameTrail ==
    ASSUME OneTrail, NEW j \in Jobs, NEW k \in Jobs, SourceOfJob(j) = SourceOfJob(k)
    PROVE  Job[j].trail = Job[k].trail /\ Job[j].trail \in Trails
<1>1. Job[j].trail \in Trails /\ Job[k].trail \in Trails  OBVIOUS
<1> QED  BY <1>1 DEF OneTrail, SourceOfJob

\* Nothing is under construction where a call claims.
LEMMA ClaimsAlone ==
    ASSUME TrailBase, OneTrail, NEW j \in Jobs, Claim(j), NEW k \in Jobs, SourceOfJob(k) = SourceOfJob(j)
    PROVE  step[k] \notin InChain \ {"queued"}
<1> SUFFICES ASSUME step[k] \in InChain \ {"queued"}  PROVE FALSE
  OBVIOUS
<1>1. Chains  BY DEF TrailBase
<1>2. Job[j].trail = Job[k].trail /\ Job[j].trail \in Trails  BY SameTrail
<1>3. step[j] = "queued" /\ Head(lock[Job[j].trail]) = j /\ step[j] \in InChain  BY DEF Claim, InChain
<1>4. lock[Job[j].trail][1] = j  BY ONLY <1>1, <1>2, <1>3, j \in Jobs, AtHead
<1>5. lock[Job[k].trail][1] = k
  <2>1. Job[k].trail \in Trails /\ step[k] \in InChain /\ step[k] # "queued"  BY <1>2
  <2> QED  BY ONLY <1>1, <2>1, k \in Jobs, AtHead
<1> QED  BY <1>2, <1>3, <1>4, <1>5

\* Two calls of one source do not build side by side.
LEMMA BuildsAlone ==
    ASSUME TrailBase, OneTrail, NEW j \in Jobs, NEW k \in Jobs, SourceOfJob(k) = SourceOfJob(j),
           step[j] \in InChain \ {"queued"}, step[k] \in InChain \ {"queued"}
    PROVE  j = k
<1>1. Chains  BY DEF TrailBase
<1>2. Job[j].trail = Job[k].trail /\ Job[j].trail \in Trails  BY SameTrail
<1> QED  BY <1>1, <1>2, OneBuilder

\* What a step does to a call.
LEMMA CallMoves ==
    ASSUME TrailBase, TrailNext, NEW k \in Jobs
    PROVE  /\ \/ /\ Claim(k) /\ step'[k] = "claimed"
                 /\ src' = [src EXCEPT ![SourceOfJob(k)] = ClaimEvent(src[SourceOfJob(k)], Job[k].id)]
                 /\ \E c \in ClaimsOf(ClaimEvent(src[SourceOfJob(k)], Job[k].id), Job[k].id) :
                        claimed'[k] = [seq |-> c.seq, prev |-> c.prev]
              \/ /\ claimed'[k] = claimed[k]
                 /\ step'[k] \in Building => step[k] \in Building
                 /\ ev'[k] # {} => step[k] \in Building \/ ev[k] # {}
           /\ mark'[k] = mark[k] \/ mark'[k] = src[SourceOfJob(k)].next
           /\ step[k] \in Building => step'[k] \in Building \/ Freezes(k) \/ Abandon(k) \/ \E t \in Trails : CrashTrail(t)
<1>1. DOMAIN step = Jobs /\ DOMAIN claimed = Jobs /\ DOMAIN mark = Jobs /\ DOMAIN ev = Jobs
  BY DEF TrailBase, CallsSound
<1> DEFINE Free == /\ claimed'[k] = claimed[k]
                   /\ step'[k] \in Building => step[k] \in Building
                   /\ ev'[k] # {} => step[k] \in Building \/ ev[k] # {}
           Claims == /\ Claim(k) /\ step'[k] = "claimed"
                     /\ src' = [src EXCEPT ![SourceOfJob(k)] = ClaimEvent(src[SourceOfJob(k)], Job[k].id)]
                     /\ \E c \in ClaimsOf(ClaimEvent(src[SourceOfJob(k)], Job[k].id), Job[k].id) :
                            claimed'[k] = [seq |-> c.seq, prev |-> c.prev]
           Marks == mark'[k] = mark[k] \/ mark'[k] = src[SourceOfJob(k)].next
           Leaves == step[k] \in Building => step'[k] \in Building \/ Freezes(k) \/ Abandon(k) \/ \E t \in Trails : CrashTrail(t)
<1>2. ASSUME NEW j \in Jobs, ReadHighWater(j)  PROVE Free /\ Marks /\ Leaves
  BY <1>1, <1>2 DEF ReadHighWater, Building
<1>3. ASSUME NEW j \in Jobs, StartRecord(j) \/ Enqueue(j) \/ SubmitEvent(j) \/ MarkRecorded(j)  PROVE Free /\ Marks /\ Leaves
  BY <1>1, <1>3 DEF StartRecord, Enqueue, SubmitEvent, MarkRecorded, ReleaseLock, Building
<1>4. ASSUME NEW j \in Jobs, Abandon(j)  PROVE Free /\ Marks /\ Leaves
  BY <1>1, <1>4 DEF Abandon, ReleaseLock, Building
<1>5. ASSUME NEW j \in Jobs, Emit(j)  PROVE Free /\ Marks /\ Leaves
  <2>1. CASE Freezes(j)
    <3>1. /\ step[j] \in Building /\ UNCHANGED <<claimed, mark>>
          /\ \E p \in {"enqueue", "submit"} : step' = [step EXCEPT ![j] = p]
          /\ ev' = [ev EXCEPT ![j] = {Event(j)}]
      BY <2>1 DEF Freezes, ReleaseLock, Building
    <3> QED  BY <1>1, <2>1, <3>1 DEF Building
  <2>2. CASE step[j] = "claimed" /\ step' = [step EXCEPT ![j] = "abandon"] /\ UNCHANGED <<claimed, mark, ev>>
    BY <1>1, <2>2 DEF Building
  <2> QED  BY <1>5, <2>1, <2>2, EmitSplit
<1>6. ASSUME NEW j \in Jobs, Claim(j)  PROVE (Free \/ Claims) /\ Marks /\ Leaves
  <2>1. step[j] = "queued" /\ UNCHANGED <<mark, ev>>  BY <1>6 DEF Claim
  <2>2. CASE step' = [step EXCEPT ![j] = "failed"] /\ UNCHANGED claimed
    BY <1>1, <2>1, <2>2 DEF Building
  <2>3. ASSUME NEW c \in ClaimsOf(ClaimEvent(src[SourceOfJob(j)], Job[j].id), Job[j].id),
               claimed' = [claimed EXCEPT ![j] = [seq |-> c.seq, prev |-> c.prev]],
               step' = [step EXCEPT ![j] = "claimed"],
               src' = [src EXCEPT ![SourceOfJob(j)] = ClaimEvent(src[SourceOfJob(j)], Job[j].id)]
        PROVE  (Free \/ Claims) /\ Marks /\ Leaves
    <3>1. CASE j # k  BY <1>1, <2>1, <2>3, <3>1
    <3>2. CASE j = k
      <4>1. claimed'[k] = [seq |-> c.seq, prev |-> c.prev] /\ step'[k] = "claimed"  BY <1>1, <2>3, <3>2
      <4>2. Claims  BY <1>6, <2>3, <3>2, <4>1
      <4>3. Leaves /\ Marks  BY <1>1, <2>1, <3>2, <4>1 DEF Building
      <4> QED  BY <4>2, <4>3
    <3> QED  BY <3>1, <3>2
  <2> QED  BY <1>6, <2>2, <2>3 DEF Claim, ReleaseLock
<1>7. ASSUME NEW f \in Flushers, FlushStep(f)  PROVE UNCHANGED <<step, claimed, mark, ev>>
  BY <1>7 DEF FlushStep, FlushStart, FlushSkip, FlushSubmit, FlushFail, FlushReceipt, FlushAck, jobVars
<1>8. ASSUME NEW t \in Trails, CrashTrail(t)  PROVE Free /\ Marks /\ Leaves
  <2>1. step'[k] = step[k] \/ step'[k] = "crashed"  BY <1>8 DEF CrashTrail
  <2>2. UNCHANGED <<claimed, mark, ev>>  BY <1>8 DEF CrashTrail
  <2> QED  BY <1>8, <2>1, <2>2 DEF Building
<1>9. Idle => UNCHANGED <<step, claimed, mark, ev>>  BY DEF Idle, trailVars, jobVars
<1>10. UNCHANGED <<step, claimed, mark, ev>> => Free /\ Marks /\ Leaves  OBVIOUS
<1>11. (Free \/ Claims) /\ Marks /\ Leaves
  <2> HIDE DEF Free, Claims, Marks, Leaves
  <2> QED  BY <1>2, <1>3, <1>4, <1>5, <1>6, <1>7, <1>8, <1>9, <1>10 DEF TrailNext, JobStep
<1> QED  BY <1>11

\* What a step does to a source state.
LEMMA SourceMoves ==
    ASSUME TrailBase, TrailNext, NEW s \in Sources
    PROVE  \/ src'[s] = src[s]
           \/ \E e \in InSeq(ledger) :
                e.src = s /\ src'[s] = MarkReceipted(src[s], e.seq) /\ UNCHANGED <<step, claimed>> /\ UNCHANGED <<ev, ledger>>
           \/ \E e \in InSeq(ledger), j \in Jobs :
                /\ e.src = s /\ src'[s] = MarkReceipted(src[s], e.seq) /\ UNCHANGED <<claimed, ev, ledger>>
                /\ MarkRecorded(j)
           \/ \E j \in Jobs : SourceOfJob(j) = s /\ (Claim(j) \/ Freezes(j) \/ Abandon(j))
<1>1. DOMAIN src = Sources  BY DEF TrailBase, Books
<1>2. ASSUME NEW j \in Jobs, Claim(j) \/ Freezes(j) \/ Abandon(j), SourceOfJob(j) # s  PROVE src'[s] = src[s]
  BY <1>1, <1>2 DEF Claim, Freezes, Abandon
<1>3. ASSUME NEW e, Receipt(e)  PROVE src'[s] = src[s] \/ (e.src = s /\ src'[s] = MarkReceipted(src[s], e.seq))
  <2>1. CASE UNCHANGED src  BY <2>1
  <2>2. CASE src' = [src EXCEPT ![e.src] = MarkReceipted(@, e.seq)]  BY <1>1, <2>2
  <2> QED  BY <1>3, <2>1, <2>2, ReceiptFacts
<1>4. ASSUME NEW j \in Jobs, MarkRecorded(j)
      PROVE  \/ src'[s] = src[s]
             \/ \E e \in InSeq(ledger) :
                  e.src = s /\ src'[s] = MarkReceipted(src[s], e.seq) /\ UNCHANGED <<claimed, ev, ledger>>
  <2>1. PICK e \in ev[j] : Receipt(e)  BY <1>4 DEF MarkRecorded
  <2>2. step[j] = "receipt" /\ UNCHANGED <<claimed, ev, ledger>>  BY <1>4 DEF MarkRecorded
  <2>3. e \in InSeq(ledger)  BY <2>1, <2>2 DEF TrailBase, CallsSound, JobSound
  <2> QED  BY <1>3, <2>1, <2>2, <2>3
<1>5. ASSUME NEW f \in Flushers, FlushReceipt(f)
      PROVE  \/ src'[s] = src[s]
             \/ \E e \in InSeq(ledger) :
                  e.src = s /\ src'[s] = MarkReceipted(src[s], e.seq) /\ UNCHANGED <<step, claimed, ev, ledger>>
  <2>1. fl[f].pc = "receipt" /\ Receipt(Current(f)) /\ UNCHANGED <<step, claimed, ev, ledger>>
    BY <1>5 DEF FlushReceipt, jobVars
  <2>2. Current(f) \in InSeq(ledger)  BY <2>1 DEF TrailBase, Flushes, FlushSound
  <2> QED  BY <1>3, <2>1, <2>2
<1>6. ASSUME NEW j \in Jobs, ReadHighWater(j) \/ StartRecord(j) \/ Enqueue(j) \/ SubmitEvent(j)  PROVE src'[s] = src[s]
  BY <1>6 DEF ReadHighWater, StartRecord, Enqueue, SubmitEvent
<1>7. ASSUME NEW j \in Jobs, Emit(j)  PROVE Freezes(j) \/ src'[s] = src[s]
  BY <1>7, EmitSplit
<1>8. ASSUME NEW f \in Flushers, FlushStart(f) \/ FlushSkip(f) \/ FlushSubmit(f) \/ FlushFail(f) \/ FlushAck(f)
      PROVE  src'[s] = src[s]
  BY <1>8 DEF FlushStart, FlushSkip, FlushSubmit, FlushFail, FlushAck
<1>9. ASSUME (\E t \in Trails : CrashTrail(t)) \/ Idle  PROVE src'[s] = src[s]
  BY <1>9 DEF CrashTrail, Idle, trailVars
<1>10. CASE \E j \in Jobs : ReadHighWater(j) \/ JobStep(j)
  BY <1>2, <1>4, <1>6, <1>7, <1>10 DEF JobStep
<1>11. CASE \E f \in Flushers : FlushStep(f)
  BY <1>5, <1>8, <1>11 DEF FlushStep
<1> QED  BY <1>9, <1>10, <1>11 DEF TrailNext

-----------------------------------------------------------------------------
(* The links and the marks of one source.                                  *)

\* A step freezes one event or none.
LEMMA EmittedStep ==
    ASSUME TrailBase, TrailNext
    PROVE  Emitted' = Emitted \/ \E j \in Jobs : Freezes(j) /\ Emitted' = Emitted \cup {Event(j)}
<1> DEFINE P == Emitted' = Emitted \/ \E j \in Jobs : Freezes(j) /\ Emitted' = Emitted \cup {Event(j)}
<1>1. UNCHANGED ev => P  BY DEF Emitted
<1>2. ASSUME NEW j \in Jobs, Claim(j) \/ Abandon(j)  PROVE UNCHANGED ev  BY <1>2 DEF Claim, Abandon
<1>3. ASSUME NEW j \in Jobs, Freezes(j)  PROVE P  BY <1>3, FreezeFacts
<1>4. P
  <2> HIDE DEF P
  <2> QED  BY <1>1, <1>2, <1>3, TrailCases
<1> QED  BY <1>4

\* A sequence that has its event keeps it.
LEMMA FrozenStays ==
    ASSUME TrailBase, TrailNext, NEW s, NEW q, FrozenAt(s, q)
    PROVE  FrozenAt(s, q)'
BY EmittedGrows DEF FrozenAt

\* A call keeps its source.
LEMMA SameSources ==
    ASSUME TrailNext, NEW j \in Jobs
    PROVE  SourceOfJob(j)' = SourceOfJob(j)
BY DEF TrailNext, SourceOfJob, SourceOf

\* A call that builds goes on building until it freezes or abandons.
LEMMA BuilderStays ==
    ASSUME TrailBase, TrailNext, Alone, NEW k \in Jobs, step[k] \in Building, ~Freezes(k), ~Abandon(k)
    PROVE  step'[k] \in Building /\ claimed'[k] = claimed[k]
<1>1. ~ \E t \in Trails : CrashTrail(t)  BY DEF Alone, CrashTrail, TrailFaults
<1>2. ~Claim(k)  BY DEF Claim, Building
<1> QED  BY <1>1, <1>2, CallMoves

\* The books of one source.
LEMMA SourceBooked ==
    ASSUME TrailBase, NEW s \in Sources
    PROVE  Booked(s, src[s], Emitted, InSeq(ledger)) /\ InSeq(ledger) \subseteq Emitted
<1>1. ledger \in Seq(Emitted)  BY DEF TrailBase, Items
<1>2. InSeq(ledger) \subseteq Emitted  BY ONLY <1>1, Ranged
<1> QED  BY <1>2 DEF TrailBase, Books

\* A source none of whose calls claims, freezes or abandons.
LEMMA SourceQuiet ==
    ASSUME TrailBase, TrailNext, Alone, NEW s \in Sources, SourceLinked(s),
           \A j \in Jobs : SourceOfJob(j) = s => ~Claim(j) /\ ~Freezes(j) /\ ~Abandon(j)
    PROVE  SourceLinked(s)'
<1>1. src'[s] = src[s] \/ \E e \in InSeq(ledger) : e.src = s /\ src'[s] = MarkReceipted(src[s], e.seq)
  BY SourceMoves
<1>2. /\ src'[s].next = src[s].next /\ src'[s].latest = src[s].latest /\ src'[s].claims \subseteq src[s].claims
      /\ Unemitted(src'[s]) = Unemitted(src[s])
  <2>1. CASE src'[s] = src[s]  BY <2>1
  <2>2. ASSUME NEW e \in InSeq(ledger), e.src = s, src'[s] = MarkReceipted(src[s], e.seq)
        PROVE  /\ src'[s].next = src[s].next /\ src'[s].latest = src[s].latest /\ src'[s].claims \subseteq src[s].claims
               /\ \A c \in src[s].claims : c.digest = {} => c \in src'[s].claims
    <3>1. Booked(s, src[s], Emitted, InSeq(ledger)) /\ InSeq(ledger) \subseteq Emitted  BY SourceBooked
    <3>2. Window \in Nat  BY TrailAssumption
    <3> QED  BY ONLY <2>2, <3>1, <3>2, ReceiptBooked
  <2>3. CASE \E e \in InSeq(ledger) : e.src = s /\ src'[s] = MarkReceipted(src[s], e.seq)
    <3>1. /\ src'[s].next = src[s].next /\ src'[s].latest = src[s].latest /\ src'[s].claims \subseteq src[s].claims
          /\ \A c \in src[s].claims : c.digest = {} => c \in src'[s].claims
      BY <2>2, <2>3
    <3> QED  BY ONLY <3>1 DEF Unemitted
  <2> QED  BY <1>1, <2>1, <2>3
<1>3. ASSUME NEW c \in Unemitted(src'[s])
      PROVE  c.seq = src'[s].next /\ \E j \in Jobs :
               step'[j] \in Building /\ SourceOfJob(j)' = s /\ Job[j].id = c.id /\ claimed'[j].seq = c.seq
  <2>1. PICK j \in Jobs : step[j] \in Building /\ SourceOfJob(j) = s /\ Job[j].id = c.id /\ claimed[j].seq = c.seq
    BY <1>2 DEF SourceLinked
  <2>2. step'[j] \in Building /\ claimed'[j] = claimed[j]  BY <2>1, BuilderStays
  <2>3. SourceOfJob(j)' = s  BY <2>1, SameSources
  <2>4. c.seq = src'[s].next  BY <1>2 DEF SourceLinked
  <2> QED  BY ONLY <2>1, <2>2, <2>3, <2>4, j \in Jobs
<1>4. src'[s].next # 0 /\ Unemitted(src'[s]) = {} => src'[s].latest # {}  BY <1>2 DEF SourceLinked
<1>5. \A c \in src'[s].claims : c.seq > 1 => c.prev # {}  BY <1>2 DEF SourceLinked
<1>6. \A q \in 1..src'[s].next : FrozenAt(s, q)' \/ \E c \in Unemitted(src'[s]) : c.seq = q
  BY <1>2, FrozenStays DEF SourceLinked
<1> QED  BY ONLY <1>3, <1>4, <1>5, <1>6 DEF SourceLinked

\* Nothing is under construction where a call claims, so its claim is linked.
LEMMA SourceClaimed ==
    ASSUME TrailBase, TrailNext, Alone, NEW j \in Jobs, Claim(j), NEW s, s = SourceOfJob(j), s \in Sources,
           SourceLinked(s)
    PROVE  /\ SourceLinked(s)'
           /\ \A c \in ClaimsOf(ClaimEvent(src[s], Job[j].id), Job[j].id) : c.seq > 1 => c.prev # {}
<1> DEFINE st == src[s]
           id == Job[j].id
           ns == ClaimEvent(st, id)
           new == [id |-> id, seq |-> st.next + 1, prev |-> st.latest, digest |-> {}]
<1>1. Booked(s, st, Emitted, InSeq(ledger))  BY SourceBooked
<1>2. Unemitted(st) = {}
  <2>1. SUFFICES ASSUME NEW c \in Unemitted(st)  PROVE FALSE  OBVIOUS
  <2>2. PICK k \in Jobs : step[k] \in Building /\ SourceOfJob(k) = s  BY <2>1 DEF SourceLinked
  <2> QED  BY <2>2, ClaimsAlone DEF Alone, Building, InChain
<1>3. DOMAIN st = StateFields /\ st.next \in Nat  BY <1>1 DEF Booked
<1>4. \A c \in st.claims : c.seq > 1 => c.prev # {}  BY DEF SourceLinked
<1>5. \A q \in 1..st.next : FrozenAt(s, q)'
  BY <1>2, FrozenStays DEF SourceLinked
<1>6. st.next # 0 => st.latest # {}  BY <1>2 DEF SourceLinked
<1>7. CASE ClaimsOf(st, id) # {}
  <2>1. ns.claims = st.claims /\ ns.next = st.next /\ ns.latest = st.latest  BY <1>3, <1>7, ClaimedState
  <2>2. \A c \in ClaimsOf(ns, id) : c.seq > 1 => c.prev # {}  BY ONLY <1>4, <2>1 DEF ClaimsOf
  <2>3. src'[s] = st \/ src'[s] = ns  BY DEF Claim, TrailBase, Books
  <2>4. src'[s].claims = st.claims /\ src'[s].next = st.next /\ src'[s].latest = st.latest  BY ONLY <2>1, <2>3
  <2>5. Unemitted(src'[s]) = {}  BY <1>2, <2>4 DEF Unemitted
  <2>6. SourceLinked(s)'  BY ONLY <1>4, <1>5, <1>6, <2>4, <2>5 DEF SourceLinked
  <2> QED  BY <2>2, <2>6
<1>8. CASE ClaimsOf(st, id) = {}
  <2>1. ns.claims = st.claims \cup {new} /\ ns.next = st.next + 1 /\ ns.latest = {}
    <3>1. ns.claims = st.claims \cup {new}  BY ONLY <1>3, <1>8, ClaimedState
    <3>2. ns.next = st.next + 1 /\ ns.latest = {}  BY ONLY <1>3, <1>8, ClaimedState
    <3> QED  BY ONLY <3>1, <3>2
  <2>2. ClaimsOf(ns, id) = {new}  BY <1>8, <2>1 DEF ClaimsOf
  <2>3. new.seq > 1 => new.prev # {}  BY <1>3, <1>6
  <2>4. \A c \in ClaimsOf(ns, id) : c.seq > 1 => c.prev # {}  BY ONLY <2>2, <2>3
  <2>5. CASE src'[s] = st
    <3>1. SourceLinked(s)'  BY ONLY <1>2, <1>4, <1>5, <1>6, <2>5 DEF SourceLinked
    <3> QED  BY <2>4, <3>1
  <2>6. ASSUME src'[s] = ns, step'[j] = "claimed",
               \E c \in ClaimsOf(ns, id) : claimed'[j] = [seq |-> c.seq, prev |-> c.prev]
        PROVE  SourceLinked(s)'
    <3>1. Unemitted(src'[s]) = {new}
      BY <1>2, <2>1, <2>6 DEF Unemitted
    <3>2. step'[j] \in Building /\ claimed'[j].seq = new.seq  BY <2>2, <2>6 DEF Building
    <3>3. SourceOfJob(j)' = s  BY SameSources
    <3>4. \E k \in Jobs : step'[k] \in Building /\ SourceOfJob(k)' = s /\ Job[k].id = new.id /\ claimed'[k].seq = new.seq
      BY <3>2, <3>3
    <3>5. new.seq = src'[s].next  BY <2>1, <2>6
    <3>6. \A c \in src'[s].claims : c.seq > 1 => c.prev # {}  BY <1>4, <2>1, <2>3, <2>6
    <3>7. \A q \in 1..src'[s].next : FrozenAt(s, q)' \/ new.seq = q
      <4>1. \A q \in 1..(st.next + 1) : q \in 1..st.next \/ new.seq = q  BY <1>3
      <4> QED  BY <1>5, <2>1, <2>6, <4>1
    <3> HIDE DEF new
    <3> QED  BY ONLY <3>1, <3>4, <3>5, <3>6, <3>7 DEF SourceLinked
  <2>7. src'[s] = st \/ (src'[s] = ns /\ step'[j] = "claimed" /\
               \E c \in ClaimsOf(ns, id) : claimed'[j] = [seq |-> c.seq, prev |-> c.prev])
    BY DEF Claim, TrailBase, Books, CallsSound
  <2> QED  BY <2>4, <2>5, <2>6, <2>7
<1> QED  BY <1>7, <1>8

\* The claim that freezes is the only one without an event.
LEMMA SourceFrozen ==
    ASSUME TrailBase, TrailNext, Alone, NEW j \in Jobs, Freezes(j), NEW s, s = SourceOfJob(j), s \in Sources,
           SourceLinked(s)
    PROVE  SourceLinked(s)'
<1> DEFINE st == src[s]
           e == Event(j)
           ns == src'[s]
<1>1. Booked(s, st, Emitted, InSeq(ledger)) /\ DOMAIN src = Sources  BY SourceBooked DEF TrailBase, Books
<1>2. Emittable(st, e) /\ ns = MarkEmitted(st, e) /\ step[j] = "claimed"  BY <1>1 DEF Freezes
<1>3. e.src = s /\ e.seq = claimed[j].seq /\ e \in Emitted'  BY FreezeFacts DEF Event
<1>4. \A c \in Unemitted(st) : c.seq = st.next /\ c.seq = e.seq
  <2>1. SUFFICES ASSUME NEW c \in Unemitted(st)  PROVE c.seq = st.next /\ c.seq = e.seq  OBVIOUS
  <2>2. c.seq = st.next  BY DEF SourceLinked
  <2>3. PICK k \in Jobs : step[k] \in Building /\ SourceOfJob(k) = s /\ claimed[k].seq = c.seq
    BY DEF SourceLinked
  <2>4. k = j
    <3>1. step[k] \in InChain \ {"queued"} /\ step[j] \in InChain \ {"queued"}
      BY <1>2, <2>3 DEF Building, InChain
    <3> QED  BY <2>3, <3>1, BuildsAlone DEF Alone
  <2> QED  BY <1>3, <2>2, <2>3, <2>4
<1>5. /\ ns.next = st.next /\ e.seq \in 1..st.next
      /\ ns.latest = (IF e.seq = st.next THEN {e} ELSE st.latest)
      /\ \A d \in ns.claims :
           /\ d.digest = {} => d \in st.claims /\ d.seq # e.seq
           /\ \E c \in st.claims : c.id = d.id /\ c.seq = d.seq /\ c.prev = d.prev
  <2>1. e.src = s /\ Emittable(st, e) /\ ns = MarkEmitted(st, e)  BY <1>2, <1>3
  <2>2. PICK E, L : Booked(s, st, E, L)  BY <1>1
  <2>3. PICK a, x, n : a = st /\ x = e /\ n = ns  OBVIOUS
  <2>4. x.src = s /\ Emittable(a, x) /\ n = MarkEmitted(a, x) /\ Booked(s, a, E, L)  BY <2>1, <2>2, <2>3
  <2>5. n.next = a.next /\ x.seq \in 1..a.next /\ n.latest = (IF x.seq = a.next THEN {x} ELSE a.latest)
    <3>1. DOMAIN a = StateFields  BY <2>4 DEF Booked
    <3>2. x.seq \in 1..a.next  BY ONLY <2>4, EmitBooked
    <3>3. n.next = a.next  BY ONLY <2>4, <3>1 DEF MarkEmitted, StateFields
    <3>4. n.latest = (IF x.seq = a.next THEN {x} ELSE a.latest)  BY ONLY <2>4, <3>1 DEF MarkEmitted, StateFields
    <3> QED  BY ONLY <3>2, <3>3, <3>4
  <2>6. ASSUME NEW d \in n.claims
        PROVE  /\ d.digest = {} => d \in a.claims /\ d.seq # x.seq
               /\ \E c \in a.claims : c.id = d.id /\ c.seq = d.seq /\ c.prev = d.prev
    BY ONLY <2>4, <2>6, EmitBooked
  <2> QED  BY <2>3, <2>5, <2>6
<1>6. Unemitted(ns) = {}  BY <1>4, <1>5 DEF Unemitted
<1>7. ns.next # 0 /\ Unemitted(ns) = {} => ns.latest # {}
  <2>1. CASE e.seq = st.next  BY <1>5, <2>1
  <2>2. CASE e.seq # st.next
    <3>1. Unemitted(st) = {}  BY <1>4, <2>2
    <3> QED  BY <1>5, <2>2, <3>1 DEF SourceLinked
  <2> QED  BY <2>1, <2>2
<1>8. \A c \in ns.claims : c.seq > 1 => c.prev # {}
  <2>1. \A c \in st.claims : c.seq > 1 => c.prev # {}  BY DEF SourceLinked
  <2> QED  BY ONLY <1>5, <2>1
<1>9. \A q \in 1..ns.next : FrozenAt(s, q)'
  <2>1. SUFFICES ASSUME NEW q \in 1..ns.next  PROVE FrozenAt(s, q)'  OBVIOUS
  <2>2. CASE q = e.seq  BY <1>3, <2>2 DEF FrozenAt
  <2>3. CASE q # e.seq
    <3>1. FrozenAt(s, q)  BY <1>4, <1>5, <2>3 DEF SourceLinked
    <3> QED  BY <3>1, FrozenStays
  <2> QED  BY <2>2, <2>3
<1> QED  BY ONLY <1>6, <1>7, <1>8, <1>9 DEF SourceLinked

\* An abandoned claim leaves the source as it was before the claim.
LEMMA SourceAbandoned ==
    ASSUME TrailBase, TrailNext, Alone, NEW j \in Jobs, Abandon(j), NEW s, s = SourceOfJob(j), s \in Sources,
           SourceLinked(s)
    PROVE  SourceLinked(s)'
<1> DEFINE st == src[s]
           q0 == claimed[j].seq
           ns == src'[s]
<1>1. Booked(s, st, Emitted, InSeq(ledger)) /\ DOMAIN src = Sources  BY SourceBooked DEF TrailBase, Books
<1>2. ns = AbandonClaim(st, Job[j].id, q0) /\ step[j] = "abandon"
  BY <1>1 DEF Abandon, Alone, TrailFaults
<1>3. \A c \in Unemitted(st) : c.seq = st.next /\ c.seq = q0 /\ c.id = Job[j].id
  <2>1. SUFFICES ASSUME NEW c \in Unemitted(st)  PROVE c.seq = st.next /\ c.seq = q0 /\ c.id = Job[j].id  OBVIOUS
  <2>2. c.seq = st.next  BY DEF SourceLinked
  <2>3. PICK k \in Jobs : step[k] \in Building /\ SourceOfJob(k) = s /\ Job[k].id = c.id /\ claimed[k].seq = c.seq
    BY DEF SourceLinked
  <2>4. k = j
    <3>1. step[k] \in InChain \ {"queued"} /\ step[j] \in InChain \ {"queued"}
      BY <1>2, <2>3 DEF Building, InChain
    <3> QED  BY <2>3, <3>1, BuildsAlone DEF Alone
  <2> QED  BY <2>2, <2>3, <2>4
<1>4. /\ ns = st \/ \E c \in st.claims :
           /\ c.id = Job[j].id /\ c.seq = q0 /\ c.digest = {} /\ q0 = st.next
           /\ ns.claims = st.claims \ {c} /\ ns.next = st.next - 1 /\ ns.latest = c.prev
      /\ ns = st => \A c \in st.claims : ~ (c.id = Job[j].id /\ c.seq = q0 /\ c.digest = {} /\ q0 = st.next)
  <2> DEFINE id == Job[j].id
  <2> HIDE DEF st, q0, ns, id
  <2>1. ns = AbandonClaim(st, id, q0)  BY <1>2 DEF id
  <2>2. /\ ns = st \/ \E c \in st.claims :
           /\ c.id = id /\ c.seq = q0 /\ c.digest = {} /\ q0 = st.next
           /\ ns.claims = st.claims \ {c} /\ ns.next = st.next - 1 /\ ns.latest = c.prev
        /\ ns = st => \A c \in st.claims : ~ (c.id = id /\ c.seq = q0 /\ c.digest = {} /\ q0 = st.next)
    BY ONLY <1>1, <2>1, AbandonBooked
  <2> QED  BY <2>2 DEF id
<1>5. \A q \in 1..st.next : FrozenAt(s, q)' \/ \E c \in Unemitted(st) : c.seq = q
  BY FrozenStays DEF SourceLinked
<1>6. \A c \in st.claims : c.seq > 1 => c.prev # {}  BY DEF SourceLinked
<1>7. CASE ns = st
  <2>1. Unemitted(st) = {}  BY <1>3, <1>4, <1>7 DEF Unemitted
  <2>2. st.next # 0 => st.latest # {}  BY <2>1 DEF SourceLinked
  <2> QED  BY ONLY <1>5, <1>6, <1>7, <2>1, <2>2 DEF SourceLinked
<1>8. ASSUME NEW c \in st.claims, c.seq = q0, c.digest = {}, q0 = st.next,
             ns.claims = st.claims \ {c}, ns.next = st.next - 1, ns.latest = c.prev
      PROVE  SourceLinked(s)'
  <2>1. st.next \in Nat /\ \A d \in st.claims : d.seq = c.seq => d = c
    BY <1>1 DEF Booked, ClaimsSound
  <2>2. Unemitted(ns) = {}  BY <1>3, <1>8, <2>1 DEF Unemitted
  <2>3. c.prev = {} => ~(c.seq > 1)  BY <1>6
  <2>4. ns.next # 0 => ns.latest # {}
    <3>1. c.seq \in 1..st.next  BY <1>1 DEF Booked, ClaimsSound, ClaimSound
    <3> QED  BY ONLY <1>8, <2>1, <2>3, <3>1
  <2>5. \A d \in ns.claims : d.seq > 1 => d.prev # {}  BY <1>6, <1>8
  <2>6. \A q \in 1..ns.next : FrozenAt(s, q)'
    <3>1. \A q \in 1..ns.next : q \in 1..st.next /\ q # st.next  BY <1>8, <2>1
    <3> QED  BY <1>3, <1>5, <3>1
  <2> QED  BY ONLY <2>2, <2>4, <2>5, <2>6 DEF SourceLinked
<1> QED  BY <1>4, <1>7, <1>8

\* Every step keeps a source linked.
LEMMA SourceLinkedStep ==
    ASSUME TrailBase, TrailNext, Alone, NEW s \in Sources, SourceLinked(s)
    PROVE  SourceLinked(s)'
<1>1. CASE \E j \in Jobs : SourceOfJob(j) = s /\ (Claim(j) \/ Freezes(j) \/ Abandon(j))
  BY <1>1, SourceClaimed, SourceFrozen, SourceAbandoned
<1>2. CASE ~ \E j \in Jobs : SourceOfJob(j) = s /\ (Claim(j) \/ Freezes(j) \/ Abandon(j))
  BY <1>2, SourceQuiet
<1> QED  BY <1>1, <1>2

\* Every step keeps a call's claim linked and its mark backed.
LEMMA JobLinkedStep ==
    ASSUME TrailBase, TrailNext, Alone, NEW k \in Jobs, JobLinked(k), SourceLinked(SourceOfJob(k))
    PROVE  JobLinked(k)'
<1>0. PICK s : s = SourceOfJob(k)  OBVIOUS
<1>1. s \in Sources /\ SourceOfJob(k)' = s /\ SourceLinked(s)  BY <1>0, Settings, SameSources DEF TrailBase
<1>2. ASSUME step'[k] \in Building \/ ev'[k] # {}, claimed'[k].seq > 1  PROVE claimed'[k].prev # {}
  <2>1. CASE Claim(k) /\ \E c \in ClaimsOf(ClaimEvent(src[s], Job[k].id), Job[k].id) :
                                claimed'[k] = [seq |-> c.seq, prev |-> c.prev]
    <3>1. PICK c \in ClaimsOf(ClaimEvent(src[s], Job[k].id), Job[k].id) : claimed'[k] = [seq |-> c.seq, prev |-> c.prev]
      BY <2>1
    <3>2. c.seq > 1 => c.prev # {}  BY <1>0, <1>1, <2>1, SourceClaimed
    <3> QED  BY ONLY <1>2, <3>1, <3>2
  <2>2. CASE claimed'[k] = claimed[k] /\ (step'[k] \in Building => step[k] \in Building)
             /\ (ev'[k] # {} => step[k] \in Building \/ ev[k] # {})
    BY <1>2, <2>2 DEF JobLinked
  <2> QED  BY <1>0, <2>1, <2>2, CallMoves
<1>3. ASSUME NEW q \in 1..mark'[k], q # mark'[k]  PROVE FrozenAt(s, q)'
  <2>1. CASE mark'[k] = mark[k]
    <3>1. FrozenAt(s, q)  BY <1>0, <1>3, <2>1 DEF JobLinked
    <3> QED  BY <3>1, FrozenStays
  <2>2. CASE mark'[k] = src[s].next
    <3>1. FrozenAt(s, q)  BY <1>1, <1>3, <2>2 DEF SourceLinked
    <3> QED  BY <3>1, FrozenStays
  <2> QED  BY <1>0, <2>1, <2>2, CallMoves
<1> QED  BY <1>1, <1>2, <1>3 DEF JobLinked

\* What a new event declares is frozen, its own sequence included.
LEMMA MarkSoundStep ==
    ASSUME TrailBase, TrailNext, Alone, \A s \in Sources : SourceLinked(s), \A j \in Jobs : JobLinked(j),
           \A e \in Emitted : MarkSound(e), NEW e \in Emitted'
    PROVE  MarkSound(e)'
<1>1. CASE e \in Emitted  BY <1>1, FrozenStays DEF MarkSound
<1>2. ASSUME NEW j \in Jobs, Freezes(j), e = Event(j), e \notin Emitted  PROVE MarkSound(e)'
  <2>0. PICK s, st, m : s = SourceOfJob(j) /\ st = src[s] /\ m = mark[j]  OBVIOUS
  <2>1. s \in Sources /\ SourceLinked(s) /\ JobLinked(j)  BY <2>0, Settings DEF TrailBase
  <2>2. Booked(s, st, Emitted, InSeq(ledger))  BY <2>0, <2>1, SourceBooked
  <2>3. e.src = s /\ e.mark = m /\ e \in Emitted'  BY <1>2, <2>0 DEF Event
  <2>4. m \in Nat  BY <2>0 DEF TrailBase, CallsSound, JobSound
  <2>5. PICK c \in st.claims : c.seq = e.seq /\ c.digest \subseteq {e}  BY <1>2, <2>0 DEF Freezes, Emittable, ClaimsOf
  <2>6. c.digest = {}
    <3>1. \A x \in c.digest : x \in Emitted  BY <2>2 DEF Booked, ClaimsSound, ClaimSound
    <3> QED  BY <1>2, <2>5, <3>1
  <2>7. c.seq = st.next /\ st.next \in 1..st.next /\ st.next \in Nat
    <3>1. c.seq = st.next  BY <2>0, <2>1, <2>6 DEF SourceLinked, Unemitted
    <3> QED  BY <2>2, <3>1 DEF Booked, ClaimsSound, ClaimSound
  <2>8. FrozenAt(s, st.next)'  BY <2>3, <2>5, <2>7 DEF FrozenAt
  <2>9. ASSUME NEW q \in 1..m  PROVE FrozenAt(s, q)'
    <3>1. CASE q # m
      <4>1. FrozenAt(s, q)  BY <2>0, <2>1, <2>9, <3>1 DEF JobLinked
      <4> QED  BY <4>1, FrozenStays
    <3>2. CASE q = m
      <4>1. m <= st.next
        <5>1. CASE m = 1  BY <2>7, <5>1
        <5>2. CASE m # 1
          <6>1. m - 1 \in 1..m /\ m - 1 # m  BY <2>4, <2>9, <3>2, <5>2
          <6>2. FrozenAt(s, m - 1)  BY <2>0, <2>1, <6>1 DEF JobLinked
          <6>3. PICK x \in Emitted : x.src = s /\ x.seq = m - 1  BY <6>2 DEF FrozenAt
          <6>4. m - 1 \in 1..st.next /\ \A d \in st.claims : d.seq = m - 1 => d.digest = {x}
            BY <2>2, <6>3 DEF Booked, EventsBooked
          <6>5. m - 1 # st.next  BY <2>6, <2>7, <6>4
          <6> QED  BY ONLY <2>4, <2>7, <6>4, <6>5
        <5> QED  BY <5>1, <5>2
      <4>2. m \in 1..st.next  BY ONLY <2>4, <2>7, <2>9, <3>2, <4>1
      <4>3. FrozenAt(s, m) \/ m = st.next
        <5>1. FrozenAt(s, m) \/ \E d \in Unemitted(st) : d.seq = m  BY <2>0, <2>1, <4>2 DEF SourceLinked
        <5>2. \A d \in Unemitted(st) : d.seq = st.next  BY <2>0, <2>1 DEF SourceLinked
        <5> QED  BY ONLY <5>1, <5>2
      <4> QED  BY <2>8, <3>2, <4>3, FrozenStays
    <3> QED  BY <3>1, <3>2
  <2> QED  BY <2>3, <2>9 DEF MarkSound
<1> QED  BY <1>1, <1>2, EmittedStep

\* Every step keeps the links and the marks.
LEMMA LinkedStep ==
    ASSUME TrailBase, TrailNext, Linked
    PROVE  Linked'
<1>1. Alone' = Alone  BY DEF TrailNext, Alone, OneTrail, SourceOf
<1>2. SUFFICES ASSUME Alone
               PROVE  /\ \A s \in Sources : SourceLinked(s)'
                      /\ \A j \in Jobs : JobLinked(j)'
                      /\ \A e \in Emitted' : MarkSound(e)'
  BY <1>1 DEF Linked
<1>3. /\ \A s \in Sources : SourceLinked(s)
      /\ \A j \in Jobs : JobLinked(j)
      /\ \A e \in Emitted : MarkSound(e)
  BY <1>2 DEF Linked
<1>4. \A s \in Sources : SourceLinked(s)'  BY <1>2, <1>3, SourceLinkedStep
<1>5. \A j \in Jobs : JobLinked(j)'
  <2>1. \A j \in Jobs : SourceOfJob(j) \in Sources  BY Settings DEF TrailBase
  <2> QED  BY <1>2, <1>3, <2>1, JobLinkedStep
<1>6. \A e \in Emitted' : MarkSound(e)'  BY <1>2, <1>3, MarkSoundStep
<1> QED  BY <1>4, <1>5, <1>6

-----------------------------------------------------------------------------
(* The path of a call, and what is over.                                   *)

\* How a step moves a call.
CallPath(k) ==
    \/ step'[k] = step[k]
    \/ step[k] = "idle" /\ step'[k] \in {"read", "queued"}
    \/ step[k] = "read" /\ step'[k] = "queued"
    \/ Claim(k) /\ step'[k] \in {"claimed", "failed"}
    \/ step[k] = "claimed" /\ step'[k] = "abandon"
    \/ Freezes(k) /\ step'[k] \in {"enqueue", "submit"}
    \/ Abandon(k) /\ step'[k] = "failed"
    \/ Enqueue(k) /\ step'[k] \in {"pending", "failed"}
    \/ SubmitEvent(k) /\ step'[k] \in {"receipt", "failed"}
    \/ step[k] = "receipt" /\ step'[k] = "recorded"
    \/ "crash" \in TrailFaults /\ step[k] \notin Settled \cup {"idle"} /\ step'[k] = "crashed"

\* Every step moves a call along its path.
LEMMA CallPaths ==
    ASSUME TrailBase, TrailNext, NEW k \in Jobs
    PROVE  CallPath(k)
<1>1. DOMAIN step = Jobs  BY DEF TrailBase, CallsSound
<1>2. ASSUME NEW j \in Jobs, ReadHighWater(j) \/ JobStep(j), j # k  PROVE step'[k] = step[k]
  <2>1. \E p : step' = [step EXCEPT ![j] = p]
    BY <1>2 DEF ReadHighWater, JobStep, StartRecord, Claim, Emit, Abandon, Enqueue, SubmitEvent, MarkRecorded, ReleaseLock
  <2> QED  BY <1>1, <1>2, <2>1
<1>3. ASSUME ReadHighWater(k)  PROVE CallPath(k)
  BY <1>1, <1>3 DEF ReadHighWater, CallPath
<1>4. ASSUME StartRecord(k)  PROVE CallPath(k)
  BY <1>1, <1>4 DEF StartRecord, CallPath
<1>5. ASSUME Claim(k)  PROVE CallPath(k)
  <2>1. step'[k] \in {"claimed", "failed"}  BY <1>1, <1>5 DEF Claim, ReleaseLock
  <2> QED  BY <1>5, <2>1 DEF CallPath
<1>6. ASSUME Emit(k)  PROVE CallPath(k)
  <2>1. CASE Freezes(k)
    <3>1. step'[k] \in {"enqueue", "submit"}  BY <1>1, <2>1 DEF Freezes, ReleaseLock
    <3> QED  BY <2>1, <3>1 DEF CallPath
  <2>2. CASE step[k] = "claimed" /\ step' = [step EXCEPT ![k] = "abandon"]
    BY <1>1, <2>2 DEF CallPath
  <2> QED  BY <1>6, <2>1, <2>2, EmitSplit
<1>7. ASSUME Abandon(k)  PROVE CallPath(k)
  <2>1. step'[k] = "failed"  BY <1>1, <1>7 DEF Abandon, ReleaseLock
  <2> QED  BY <1>7, <2>1 DEF CallPath
<1>8. ASSUME Enqueue(k)  PROVE CallPath(k)
  <2>1. step'[k] \in {"pending", "failed"}  BY <1>1, <1>8 DEF Enqueue, ReleaseLock
  <2> QED  BY <1>8, <2>1 DEF CallPath
<1>9. ASSUME SubmitEvent(k)  PROVE CallPath(k)
  <2>1. step'[k] \in {"receipt", "failed"}  BY <1>1, <1>9 DEF SubmitEvent
  <2> QED  BY <1>9, <2>1 DEF CallPath
<1>10. ASSUME MarkRecorded(k)  PROVE CallPath(k)
  BY <1>1, <1>10 DEF MarkRecorded, CallPath
<1>11. ASSUME NEW f \in Flushers, FlushStep(f)  PROVE UNCHANGED step
  BY <1>11 DEF FlushStep, FlushStart, FlushSkip, FlushSubmit, FlushFail, FlushReceipt, FlushAck, jobVars
<1>12. ASSUME NEW t \in Trails, CrashTrail(t)  PROVE CallPath(k)
  BY <1>12 DEF CrashTrail, CallPath
<1>13. Idle => UNCHANGED step  BY DEF Idle, trailVars, jobVars
<1>14. CASE \E j \in Jobs : ReadHighWater(j) \/ JobStep(j)
  <2>1. PICK j \in Jobs : ReadHighWater(j) \/ JobStep(j)  BY <1>14
  <2>2. CASE j # k  BY <1>2, <2>1, <2>2 DEF CallPath
  <2>3. CASE j = k
    BY <1>3, <1>4, <1>5, <1>6, <1>7, <1>8, <1>9, <1>10, <2>1, <2>3 DEF JobStep
  <2> QED  BY <2>2, <2>3
<1>15. UNCHANGED step => CallPath(k)  BY DEF CallPath
<1> QED  BY <1>11, <1>12, <1>13, <1>14, <1>15 DEF TrailNext

\* An event changes only where its call freezes it.
LEMMA EventStays ==
    ASSUME TrailBase, TrailNext, NEW k \in Jobs
    PROVE  ev'[k] = ev[k] \/ Freezes(k)
<1> DEFINE P == ev'[k] = ev[k] \/ Freezes(k)
<1>1. UNCHANGED ev => P  OBVIOUS
<1>2. ASSUME NEW j \in Jobs, Claim(j) \/ Abandon(j)  PROVE UNCHANGED ev  BY <1>2 DEF Claim, Abandon
<1>3. ASSUME NEW j \in Jobs, Freezes(j)  PROVE P  BY <1>3, FreezeFacts
<1>4. P
  <2> HIDE DEF P
  <2> QED  BY <1>1, <1>2, <1>3, TrailCases
<1> QED  BY <1>4

\* The setting stays, and out of order only what is offered again can be.
LEMMA SameSetting ==
    ASSUME TrailNext
    PROVE  /\ InTurn' = InTurn /\ OfferedOnce' = OfferedOnce /\ UNCHANGED tset
           /\ InTurn /\ ~OfferedOnce => Alone /\ tset.faults \cap {"outbox", "state", "crash"} = {}
<1>1. UNCHANGED tset  BY DEF TrailNext
<1>2. InTurn' = InTurn  BY <1>1 DEF InTurn, NoneOvertaken, OneTrail, Delivery, KeyedBySource, SourceOfJob, SourceOf
<1>3. OfferedOnce' = OfferedOnce  BY <1>1 DEF OfferedOnce, SourceOfJob, SourceOf
<1>4. InTurn /\ ~OfferedOnce => Alone /\ tset.faults \cap {"outbox", "state", "crash"} = {}
  BY DEF InTurn, NoneOvertaken, OfferedOnce, Alone
<1> QED  BY <1>1, <1>2, <1>3, <1>4

\* The call of an event, and the only one where events are offered once.
LEMMA EventOwner ==
    ASSUME TrailBase, NEW e \in Emitted
    PROVE  /\ \E j \in Jobs : ev[j] = {e}
           /\ \A j \in Jobs : e \in ev[j] =>
                /\ j \in tset.jobs /\ e.src = SourceOfJob(j) /\ e.id = Job[j].id /\ ev[j] = {e}
                /\ step[j] \in Freezing \cup {"failed", "crashed"}
           /\ OfferedOnce => \A j, k \in Jobs : e \in ev[j] /\ e \in ev[k] => j = k
<1>1. CallsSound  BY DEF TrailBase
<1>2. \E j \in Jobs : e \in ev[j]  BY DEF Emitted
<1>3. ASSUME NEW j \in Jobs, e \in ev[j]
      PROVE  /\ j \in tset.jobs /\ e.src = SourceOfJob(j) /\ e.id = Job[j].id /\ ev[j] = {e}
             /\ step[j] \in Freezing \cup {"failed", "crashed"}
  <2>1. JobSound(j)  BY <1>1 DEF CallsSound
  <2>2. step[j] \in Freezing \cup {"failed", "crashed"}  BY <1>3, <2>1 DEF JobSound
  <2>3. j \in tset.jobs  BY <2>1, <2>2 DEF JobSound, Freezing
  <2>4. e = Event(j) /\ ev[j] = {e}  BY <1>3, <2>1 DEF JobSound
  <2> QED  BY <2>2, <2>3, <2>4 DEF Event
<1>4. OfferedOnce => \A j, k \in Jobs : e \in ev[j] /\ e \in ev[k] => j = k
  BY <1>3 DEF OfferedOnce
<1> QED  BY <1>2, <1>3, <1>4

\* An event that is nowhere on its way stays nowhere.
LEMMA DeadStays ==
    ASSUME TrailBase, TrailNext, NEW e \in Emitted, OfferedOnce,
           e \notin InSeq(outbox) \cup InSeq(ledger), \A f \in Flushers : e \notin InSeq(fl[f].rest),
           \A j \in Jobs : e \in ev[j] => step[j] \in {"failed", "crashed"}, e \notin InSeq(ledger')
    PROVE  /\ e \notin InSeq(outbox') /\ \A f \in Flushers : e \notin InSeq(fl'[f].rest)
           /\ \A j \in Jobs : e \in ev'[j] => step'[j] \in {"failed", "crashed"}
<1>0. outbox \in Seq(Emitted) /\ CallsSound /\ Flushes  BY DEF TrailBase, Items
<1>1. e \notin InSeq(outbox')
  <2>1. CASE UNCHANGED outbox  BY <2>1
  <2>2. ASSUME NEW j \in Jobs, Enqueue(j), NEW x \in ev[j], outbox' = Append(outbox, x)  PROVE e \notin InSeq(outbox')
    <3>1. step[j] = "enqueue"  BY <2>2 DEF Enqueue
    <3>2. x # e  BY <2>2, <3>1
    <3>3. x \in Emitted  BY <2>2 DEF Emitted
    <3>4. InSeq(outbox') = InSeq(outbox) \cup {x}  BY ONLY <1>0, <2>2, <3>3, AddedRange
    <3> QED  BY <3>2, <3>4
  <2>3. ASSUME NEW x, outbox' = Deleted(outbox, x)  PROVE e \notin InSeq(outbox')
    <3>1. InSeq(outbox') \subseteq InSeq(outbox)  BY ONLY <1>0, <2>3, DeletedKeeps
    <3> QED  BY <3>1
  <2> QED  BY <2>1, <2>2, <2>3, OutboxStep
<1>2. ASSUME NEW f \in Flushers  PROVE e \notin InSeq(fl'[f].rest)
  <2>0. RestMoves(f) /\ fl[f].rest \in Seq(Emitted)  BY <1>0, RestStep DEF Flushes, FlushSound
  <2>1. CASE fl'[f].rest = fl[f].rest  BY <2>1
  <2>2. CASE fl'[f].rest = <<>>  BY <2>2 DEF InSeq
  <2>3. CASE fl'[f].rest \in Seq(Emitted) /\ \A i \in DOMAIN fl'[f].rest : i \in DOMAIN outbox /\ fl'[f].rest[i] = outbox[i]
    <3>1. \A x \in InSeq(fl'[f].rest) : \E i \in DOMAIN fl'[f].rest : fl'[f].rest[i] = x  BY ONLY <2>3, Ranged
    <3>2. \A i \in DOMAIN outbox : outbox[i] \in InSeq(outbox)  BY ONLY <1>0, Ranged
    <3> QED  BY <2>3, <3>1, <3>2
  <2>4. CASE fl[f].pc # "idle" /\ fl'[f].rest = Tail(fl[f].rest)
    <3>1. fl[f].rest # <<>>  BY <1>0, <2>4 DEF Flushes, FlushSound
    <3>2. InSeq(Tail(fl[f].rest)) \subseteq InSeq(fl[f].rest)  BY ONLY <2>0, <3>1, Tailed
    <3> QED  BY <2>4, <3>2
  <2> QED  BY <2>0, <2>1, <2>2, <2>3, <2>4 DEF RestMoves
<1>3. ASSUME NEW j \in Jobs, e \in ev'[j]  PROVE step'[j] \in {"failed", "crashed"}
  <2>1. CASE e \in ev[j]
    <3>1. step[j] \in {"failed", "crashed"}  BY <2>1
    <3>2. CallPath(j)  BY CallPaths
    <3> QED  BY <3>1, <3>2 DEF CallPath, Claim, Freezes, Abandon, Enqueue, SubmitEvent, Settled
  <2>2. CASE e \notin ev[j]
    <3>1. Freezes(j) /\ ev[j] = {} /\ ev'[j] = {Event(j)}  BY <1>3, <2>2, EventStays, FreezeFacts
    <3>2. PICK k \in Jobs : e \in ev[k]  BY EventOwner
    <3>3. k \in tset.jobs /\ e.src = SourceOfJob(k) /\ e.id = Job[k].id  BY <3>2, EventOwner
    <3>4. e = Event(j) /\ e.src = SourceOfJob(j) /\ e.id = Job[j].id  BY <1>3, <3>1 DEF Event
    <3>5. j \in tset.jobs
      <4>1. JobSound(j) /\ step[j] = "claimed"  BY <1>0, <3>1 DEF CallsSound, Freezes
      <4> QED  BY <4>1 DEF JobSound
    <3>6. j = k  BY <3>3, <3>4, <3>5 DEF OfferedOnce
    <3> QED  BY <2>2, <3>2, <3>6
  <2> QED  BY <2>1, <2>2
<1> QED  BY <1>1, <1>2, <1>3

\* What is over stays over.
LEMMA OverStays ==
    ASSUME TrailBase, TrailNext, NEW e \in Emitted, Over(e)
    PROVE  Over(e)'
<1>1. CASE e \in InSeq(ledger)  BY <1>1, EmittedGrows DEF Over
<1>2. CASE Conflicting(e)  BY <1>2, ConflictStays DEF Over, Dead
<1>3. CASE /\ OfferedOnce /\ e \notin InSeq(outbox) \cup InSeq(ledger) /\ \A f \in Flushers : e \notin InSeq(fl[f].rest)
           /\ \A j \in Jobs : e \in ev[j] => step[j] \in {"failed", "crashed"}
  <2>1. CASE e \in InSeq(ledger')  BY <2>1 DEF Over
  <2>2. CASE e \notin InSeq(ledger')
    <3>1. /\ e \notin InSeq(outbox') /\ \A f \in Flushers : e \notin InSeq(fl'[f].rest)
          /\ \A j \in Jobs : e \in ev'[j] => step'[j] \in {"failed", "crashed"}
      BY <1>3, <2>2, DeadStays
    <3>2. OfferedOnce'  BY <1>3, SameSetting
    <3> QED  BY <2>2, <3>1, <3>2 DEF Over, Dead
  <2> QED  BY <2>1, <2>2
<1> QED  BY <1>1, <1>2, <1>3 DEF Over, Dead

\* An event on its way to the outbox: every other one is in the outbox or over.
LEMMA Placed ==
    ASSUME TrailBase, KeptItems, InTurn, FailedKept, NEW e \in Emitted, ~Over(e), e \notin InSeq(outbox)
    PROVE  \E j \in Jobs : step[j] = "enqueue" /\ e \in ev[j]
<1>1. ~Kept(e)  BY DEF Kept, Over, Dead
<1>2. SUFFICES ASSUME \A j \in Jobs : e \in ev[j] => step[j] # "enqueue"  PROVE FALSE  OBVIOUS
<1>3. KeyedBySource /\ Delivery = "buffered"  BY DEF InTurn
<1>4. \A j \in Jobs : e \in ev[j] => step[j] \in {"failed", "crashed"}
  <2>1. SUFFICES ASSUME NEW j \in Jobs, e \in ev[j]  PROVE step[j] \in {"failed", "crashed"}  OBVIOUS
  <2>2. step[j] \in Freezing \cup {"failed", "crashed"}  BY <2>1, EventOwner
  <2>3. JobSound(j)  BY DEF TrailBase, CallsSound
  <2>4. step[j] \notin DirectSteps  BY <1>3, <2>3 DEF JobSound
  <2>5. step[j] # "pending"  BY <1>1, <1>3, <2>1 DEF KeptItems
  <2> QED  BY <1>2, <2>1, <2>2, <2>4, <2>5 DEF Freezing, DirectSteps
<1>5. \A f \in Flushers : e \notin InSeq(fl[f].rest)
  <2>1. SUFFICES ASSUME NEW f \in Flushers, e \in InSeq(fl[f].rest)  PROVE FALSE  OBVIOUS
  <2>2. fl[f].rest \in Seq(Emitted)  BY DEF TrailBase, Flushes, FlushSound
  <2>3. \E i \in DOMAIN fl[f].rest : fl[f].rest[i] = e  BY ONLY <2>1, <2>2, Ranged
  <2> QED  BY <1>1, <1>3, <2>3 DEF KeptItems
<1>6. OfferedOnce
  <2>1. PICK j \in Jobs : e \in ev[j]  BY EventOwner
  <2> QED  BY <1>1, <1>4, <2>1 DEF FailedKept
<1> QED  BY <1>4, <1>5, <1>6 DEF Over, Dead

-----------------------------------------------------------------------------
(* The order of one source.                                                *)

\* The sequence of a frozen event was claimed.
LEMMA EventFacts ==
    ASSUME TrailBase, NEW e \in Emitted
    PROVE  e.src \in Sources /\ e.seq \in Nat /\ e.seq \in 1..src[e.src].next
<1>1. e.src \in Sources /\ e.seq \in Nat  BY EmittedFacts DEF TrailBase
<1>2. Booked(e.src, src[e.src], Emitted, InSeq(ledger))  BY <1>1, SourceBooked
<1> QED  BY <1>1, <1>2 DEF Booked, EventsBooked

\* A new event forks no history.
LEMMA NoForkStep ==
    ASSUME TrailBase, TrailNext, NoFork
    PROVE  NoFork'
<1>1. CASE Emitted' = Emitted  BY <1>1 DEF NoFork
<1>2. ASSUME NEW j \in Jobs, Freezes(j), Emitted' = Emitted \cup {Event(j)}  PROVE NoFork'
  <2>1. PICK e, s, st : e = Event(j) /\ s = SourceOfJob(j) /\ st = src[s]  OBVIOUS
  <2>2. e.src = s /\ s \in Sources  BY <1>2, <2>1, FreezeFacts
  <2>3. PICK E, L : E = Emitted /\ Booked(s, st, E, L)  BY <2>1, <2>2, SourceBooked
  <2>4. Emittable(st, e)  BY <1>2, <2>1 DEF Freezes
  <2>5. \A f \in E : f.src = s /\ f.seq = e.seq => f = e
    <3>1. PICK c \in st.claims : c.seq = e.seq /\ c.digest \subseteq {e}  BY <2>4 DEF Emittable, ClaimsOf
    <3>2. \A f \in E : f.src = s /\ f.seq = e.seq => c.digest = {f}
      BY <2>3, <3>1 DEF Booked, EventsBooked
    <3> QED  BY <3>1, <3>2
  <2> QED  BY <1>2, <2>1, <2>2, <2>3, <2>5 DEF NoFork
<1> QED  BY <1>1, <1>2, EmittedStep

\* An event that was not frozen before takes the newest sequence.
LEMMA NewEventLast ==
    ASSUME TrailBase, Newest, NEW j \in Jobs, Freezes(j), Event(j) \notin Emitted, NEW g \in Emitted
    PROVE  ~ Low(Event(j), g)
<1>1. PICK e, s, st : e = Event(j) /\ s = SourceOfJob(j) /\ st = src[s]  OBVIOUS
<1>2. e.src = s /\ e.id = Job[j].id /\ s \in Sources /\ step[j] \in Building
  BY <1>1, FreezeFacts DEF Event, Freezes, Building
<1>3. Booked(s, st, Emitted, InSeq(ledger))  BY <1>1, <1>2, SourceBooked
<1>4. PICK c \in st.claims : c.id = e.id /\ c.seq = e.seq /\ c.digest \subseteq {e}
  BY <1>1 DEF Freezes, Emittable, ClaimsOf
<1>5. c.digest = {}
  <2>1. \A x \in c.digest : x \in Emitted  BY <1>3 DEF Booked, ClaimsSound, ClaimSound
  <2> QED  BY <1>1, <1>4, <2>1
<1>6. e.seq = st.next  BY <1>1, <1>2, <1>4, <1>5 DEF Newest, Unemitted
<1>7. g.src = s => g.seq \in 1..st.next  BY <1>1, EventFacts
<1>8. st.next \in Nat  BY <1>3 DEF Booked
<1>9. g.src = s => ~(e.seq < g.seq)  BY ONLY <1>6, <1>7, <1>8
<1> QED  BY <1>1, <1>2, <1>9 DEF Low

\* A buffered trail submits nothing itself.
LEMMA NoDirect ==
    ASSUME TrailBase, InTurn, NEW j \in Jobs
    PROVE  ~SubmitEvent(j) /\ ~MarkRecorded(j)
<1>1. JobSound(j) /\ Delivery = "buffered"  BY DEF TrailBase, CallsSound, InTurn
<1>2. step[j] # "submit" /\ step[j] # "receipt"  BY <1>1 DEF JobSound, DirectSteps
<1> QED  BY <1>2 DEF SubmitEvent, MarkRecorded

\* What is committed was not overtaken.
LEMMA LedgerOrderStep ==
    ASSUME TrailBase, TrailNext, InTurn, NEW e \in Emitted, AfterLower(e)
    PROVE  InLedgerOrder(e)'
<1> SUFFICES ASSUME NEW g \in InSeq(ledger'), Low(e, g)  PROVE Over(e)'
  BY DEF InLedgerOrder
<1>1. CASE g \in InSeq(ledger)
  <2>1. Over(e)  BY <1>1 DEF AfterLower, InLedgerOrder
  <2> QED  BY <2>1, OverStays
<1>2. CASE g \notin InSeq(ledger)
  <2>1. PICK x \in Emitted : ledger' = Append(ledger, x)
            /\ (\/ \E j \in Jobs : SubmitEvent(j) /\ x \in ev[j]
                \/ \E f \in Flushers : FlushSubmit(f) /\ x = Current(f))
    BY <1>2, LedgerChange
  <2>2. PICK f \in Flushers : FlushSubmit(f) /\ x = Current(f)  BY <2>1, NoDirect
  <2>3. g = x
    <3>1. ledger \in Seq(Emitted)  BY DEF TrailBase, Items
    <3>2. InSeq(ledger') = InSeq(ledger) \cup {x}  BY ONLY <2>1, <3>1, AddedRange
    <3> QED  BY <1>2, <3>2
  <2>4. fl[f].pc # "idle" /\ x.src \notin fl[f].blocked  BY <2>2 DEF FlushSubmit, Skipped
  <2>5. /\ fl[f].rest \in Seq(Emitted) /\ fl[f].rest # <<>> /\ x = fl[f].rest[1]
    BY <2>2, <2>4, CurrentFacts DEF TrailBase
  <2>6. 1 \in DOMAIN fl[f].rest /\ ~ \E i \in DOMAIN fl[f].rest : i < 1
    <3>1. DOMAIN fl[f].rest = 1..Len(fl[f].rest) /\ Len(fl[f].rest) \in Nat /\ Len(fl[f].rest) # 0
      BY ONLY <2>5, Ranged
    <3> QED  BY ONLY <3>1
  <2>7. Low(e, fl[f].rest[1]) /\ e.src = x.src  BY <2>3, <2>5 DEF Low
  <2>8. Over(e)  BY <2>4, <2>6, <2>7 DEF AfterLower, InRestOrder
  <2> QED  BY <2>8, OverStays
<1> QED  BY <1>1, <1>2

\* The outbox is in source order, but for what is over.
LEMMA OutboxOrderStep ==
    ASSUME TrailBase, TrailNext, InTurn, KeptItems, FailedKept, NEW e \in Emitted, AfterLower(e)
    PROVE  InOutboxOrder(e)'
<1> SUFFICES ASSUME NEW k \in DOMAIN outbox', Low(e, outbox'[k]), ~Over(e)'
             PROVE  \E i \in DOMAIN outbox' : i < k /\ outbox'[i] = e
  BY DEF InOutboxOrder
<1>0. outbox \in Seq(Emitted)  BY DEF TrailBase, Items
<1>1. ~Over(e)  BY OverStays
<1>2. \A m \in DOMAIN outbox : Low(e, outbox[m]) => \E i \in DOMAIN outbox : i < m /\ outbox[i] = e
  BY <1>1 DEF AfterLower, InOutboxOrder
<1>3. CASE UNCHANGED outbox  BY <1>2, <1>3
<1>4. ASSUME NEW j \in Jobs, Enqueue(j), NEW x \in ev[j], outbox' = Append(outbox, x)
      PROVE  \E i \in DOMAIN outbox' : i < k /\ outbox'[i] = e
  <2>1. x \in Emitted  BY <1>4 DEF Emitted
  <2>2. /\ Len(outbox) \in Nat /\ DOMAIN outbox = 1..Len(outbox)
        /\ \A i \in DOMAIN outbox : i \in DOMAIN outbox' /\ outbox'[i] = outbox[i]
        /\ outbox'[Len(outbox) + 1] = x
        /\ \A i \in DOMAIN outbox' : i \in DOMAIN outbox \/ i = Len(outbox) + 1
        /\ \A y \in InSeq(outbox) : \E i \in DOMAIN outbox : outbox[i] = y
    BY ONLY <1>0, <1>4, <2>1, Added, Ranged
  <2>3. CASE k \in DOMAIN outbox  BY <1>2, <2>2, <2>3
  <2>4. CASE k = Len(outbox) + 1
    <3>1. Low(e, x)  BY <2>2, <2>4
    <3>2. e \in InSeq(outbox)
      <4>1. SUFFICES ASSUME e \notin InSeq(outbox)  PROVE FALSE  OBVIOUS
      <4>2. PICK n \in Jobs : step[n] = "enqueue" /\ e \in ev[n]  BY <1>1, <4>1, Placed
      <4>3. SourceOfJob(n) = e.src /\ ev[n] = {e}  BY <4>2, EventOwner
      <4>4. SourceOfJob(j) = x.src /\ ev[j] = {x}  BY <1>4, <2>1, EventOwner
      <4>5. x.src = e.src /\ x # e
        <5>1. e.seq \in Nat  BY EventFacts
        <5> QED  BY <3>1, <5>1 DEF Low
      <4>6. n = j
        <5>1. step[n] \in InChain \ {"queued"} /\ step[j] \in InChain \ {"queued"}
          BY <1>4, <4>2 DEF Enqueue, InChain
        <5> QED  BY <4>3, <4>4, <4>5, <5>1, BuildsAlone DEF InTurn
      <4> QED  BY <4>3, <4>4, <4>5, <4>6
    <3>3. PICK i \in DOMAIN outbox : outbox[i] = e  BY <2>2, <3>2
    <3>4. i < k  BY <2>2, <2>4
    <3> QED  BY <2>2, <3>3, <3>4
  <2> QED  BY <2>2, <2>3, <2>4
<1>5. ASSUME NEW f \in Flushers, FlushAck(f), NEW x \in Acknowledged(Current(f)), outbox' = Deleted(outbox, x)
      PROVE  \E i \in DOMAIN outbox' : i < k /\ outbox'[i] = e
  <2>1. \A i \in DOMAIN outbox' : \E m \in DOMAIN outbox :
           /\ outbox'[i] = outbox[m]
           /\ \A n \in DOMAIN outbox : n < m => outbox[n] = x \/ \E l \in DOMAIN outbox' : l < i /\ outbox'[l] = outbox[n]
    BY ONLY <1>0, <1>5, DeletedKeeps
  <2>2. PICK m \in DOMAIN outbox :
           /\ outbox'[k] = outbox[m]
           /\ \A n \in DOMAIN outbox : n < m => outbox[n] = x \/ \E l \in DOMAIN outbox' : l < k /\ outbox'[l] = outbox[n]
    BY <2>1
  <2>3. PICK n \in DOMAIN outbox : n < m /\ outbox[n] = e  BY <1>2, <2>2
  <2>4. e # x
    <3>1. KeyedBySource  BY DEF InTurn
    <3>2. x \in InSeq(ledger) \/ Conflicting(x)  BY <1>5, <3>1, OutboxLeaves
    <3> QED  BY <1>1, <3>2 DEF Over, Dead
  <2> QED  BY <2>2, <2>3, <2>4
<1> QED  BY <1>3, <1>4, <1>5, OutboxStep

\* What a flush has left is in source order, but for what it holds back.
LEMMA RestOrderStep ==
    ASSUME TrailBase, TrailNext, NEW e \in Emitted, AfterLower(e), NEW f \in Flushers
    PROVE  InRestOrder(e, f)'
<1> SUFFICES ASSUME NEW k \in DOMAIN fl'[f].rest, Low(e, fl'[f].rest[k]), ~Over(e)', e.src \notin fl'[f].blocked
             PROVE  \E i \in DOMAIN fl'[f].rest : i < k /\ fl'[f].rest[i] = e
  BY DEF InRestOrder
<1>0. /\ outbox \in Seq(Emitted) /\ RestMoves(f) /\ fl[f].rest \in Seq(Emitted)
      /\ fl[f].pc # "idle" => fl[f].rest # <<>>
  BY RestStep DEF TrailBase, Items, Flushes, FlushSound
<1>1. ~Over(e)  BY OverStays
<1>2. \A m \in DOMAIN outbox : Low(e, outbox[m]) => \E i \in DOMAIN outbox : i < m /\ outbox[i] = e
  BY <1>1 DEF AfterLower, InOutboxOrder
<1>3. \A m \in DOMAIN fl[f].rest : Low(e, fl[f].rest[m]) =>
         e.src \in fl[f].blocked \/ \E i \in DOMAIN fl[f].rest : i < m /\ fl[f].rest[i] = e
  BY <1>1 DEF AfterLower, InRestOrder
<1>4. CASE fl'[f].rest = fl[f].rest /\ fl'[f].blocked = fl[f].blocked
  BY <1>3, <1>4
<1>5. CASE fl'[f].rest = <<>>  BY <1>5
<1>6. CASE /\ fl'[f].rest \in Seq(Emitted)
           /\ \A i \in DOMAIN fl'[f].rest : i \in DOMAIN outbox /\ fl'[f].rest[i] = outbox[i]
  <2>1. PICK i \in DOMAIN outbox : i < k /\ outbox[i] = e  BY <1>2, <1>6
  <2>2. DOMAIN outbox = 1..Len(outbox) /\ Len(outbox) \in Nat  BY ONLY <1>0, Ranged
  <2>3. DOMAIN fl'[f].rest = 1..Len(fl'[f].rest) /\ Len(fl'[f].rest) \in Nat  BY ONLY <1>6, Ranged
  <2>4. i \in DOMAIN fl'[f].rest  BY ONLY <2>1, <2>2, <2>3
  <2> QED  BY <1>6, <2>1, <2>4
<1>7. CASE /\ fl[f].pc # "idle" /\ fl'[f].rest = Tail(fl[f].rest)
           /\ fl[f].blocked \subseteq fl'[f].blocked
           /\ Current(f).src \in fl'[f].blocked \/ Current(f) \in InSeq(ledger)
  <2> DEFINE q == fl[f].rest
  <2>1. /\ Head(q) = q[1]
        /\ \A i \in DOMAIN Tail(q) : i + 1 \in DOMAIN q /\ Tail(q)[i] = q[i + 1]
        /\ \A i \in DOMAIN q : i = 1 \/ (i - 1 \in DOMAIN Tail(q) /\ Tail(q)[i - 1] = q[i])
        /\ DOMAIN q = 1..Len(q)
    <3>1. q \in Seq(Emitted) /\ q # <<>>  BY <1>0, <1>7
    <3> HIDE DEF q
    <3> QED  BY ONLY <3>1, Tailed, Ranged
  <2>2. k + 1 \in DOMAIN q /\ Low(e, q[k + 1])  BY <1>7, <2>1
  <2>3. PICK i \in DOMAIN q : i < k + 1 /\ q[i] = e  BY <1>3, <1>7, <2>2
  <2>4. i # 1
    <3>1. e # Current(f)  BY <1>1, <1>7 DEF Over
    <3> QED  BY <2>1, <2>3, <3>1 DEF Current
  <2>5. i - 1 \in DOMAIN Tail(q) /\ Tail(q)[i - 1] = e  BY <2>1, <2>3, <2>4
  <2>6. i - 1 < k
    <3>1. k \in Nat /\ i \in Nat
      <4>1. k + 1 \in 1..Len(q) /\ i \in 1..Len(q)  BY <2>1, <2>2, <2>3
      <4>2. Tail(q) \in Seq(Emitted)  BY ONLY <1>0, <1>7, Tailed
      <4>3. DOMAIN Tail(q) = 1..Len(Tail(q))  BY ONLY <4>2, Ranged
      <4>4. k \in 1..Len(Tail(q))  BY <1>7, <4>3
      <4> QED  BY <4>1, <4>4
    <3> QED  BY ONLY <2>3, <3>1
  <2> QED  BY <1>7, <2>5, <2>6
<1> QED  BY <1>0, <1>4, <1>5, <1>6, <1>7 DEF RestMoves

-----------------------------------------------------------------------------
(* Claims, failures and the ledger stay in order.                          *)

\* A call builds on the newest claim.
LEMMA NewestStep ==
    ASSUME TrailBase, TrailNext, InTurn, Linked, Newest, Offered
    PROVE  Newest'
<1> SUFFICES ASSUME NEW j \in Jobs, step'[j] \in Building, NEW s, s = SourceOfJob(j),
                    NEW c \in Unemitted(src'[s]), c.id = Job[j].id
             PROVE  c.seq = src'[s].next
  BY SameSources DEF Newest
<1>0. s \in Sources /\ OneTrail /\ DOMAIN src = Sources  BY Settings DEF TrailBase, InTurn, Books
<1>1. Booked(s, src[s], Emitted, InSeq(ledger))  BY <1>0, SourceBooked
<1>2. CASE step[j] \in Building /\ src'[s] = src[s]  BY <1>2 DEF Newest
<1>3. ASSUME step[j] \in Building, NEW e \in InSeq(ledger), e.src = s, src'[s] = MarkReceipted(src[s], e.seq)
      PROVE  c.seq = src'[s].next
  <2>1. InSeq(ledger) \subseteq Emitted /\ Window \in Nat  BY <1>0, SourceBooked, TrailAssumption
  <2>2. src'[s].next = src[s].next /\ src'[s].claims \subseteq src[s].claims
    BY ONLY <1>1, <1>3, <2>1, ReceiptBooked
  <2>3. c \in Unemitted(src[s])  BY ONLY <2>2, c \in Unemitted(src'[s]) DEF Unemitted
  <2> QED  BY <1>3, <2>2, <2>3 DEF Newest
<1>4. ASSUME step[j] \in Building, NEW k \in Jobs, SourceOfJob(k) = s, Claim(k) \/ Freezes(k) \/ Abandon(k)
      PROVE  FALSE
  <2>1. step[j] \in InChain \ {"queued"}  BY <1>4 DEF Building, InChain
  <2>2. CASE Claim(k)  BY <1>0, <1>4, <2>1, <2>2, ClaimsAlone
  <2>3. CASE Freezes(k) \/ Abandon(k)
    <3>1. step[k] \in InChain \ {"queued"}  BY <2>3 DEF Freezes, Abandon, InChain
    <3>2. k = j  BY <1>0, <1>4, <2>1, <3>1, BuildsAlone
    <3>3. step'[k] \notin Building
      <4>1. DOMAIN step = Jobs  BY DEF TrailBase, CallsSound
      <4> QED  BY <2>3, <4>1 DEF Freezes, Abandon, ReleaseLock, Building
    <3> QED  BY <3>2, <3>3
  <2> QED  BY <1>4, <2>2, <2>3
<1>5. CASE step[j] \in Building
  BY <1>0, <1>2, <1>3, <1>4, <1>5, SourceMoves
<1>6. CASE Claim(j) /\ src' = [src EXCEPT ![s] = ClaimEvent(src[s], Job[j].id)]
  <2>1. PICK st, id, ns : st = src[s] /\ id = Job[j].id /\ ns = ClaimEvent(st, id)  OBVIOUS
  <2>2. src'[s] = ns  BY <1>0, <1>6, <2>1
  <2>3. DOMAIN st = StateFields /\ st.next \in Nat  BY <1>1, <2>1 DEF Booked
  <2>4. CASE ClaimsOf(st, id) = {}
    <3>1. ns.next = st.next + 1  BY ONLY <2>1, <2>3, <2>4, ClaimedState
    <3>2. ns.claims = st.claims \cup {[id |-> id, seq |-> st.next + 1, prev |-> st.latest, digest |-> {}]}
      BY ONLY <2>1, <2>3, <2>4, ClaimedState
    <3>3. c \in ns.claims /\ c.id = id  BY <2>1, <2>2 DEF Unemitted
    <3>4. c \notin st.claims  BY <2>4, <3>3 DEF ClaimsOf
    <3>5. c.seq = st.next + 1  BY ONLY <3>2, <3>3, <3>4
    <3> QED  BY <2>2, <3>1, <3>5
  <2>5. CASE ClaimsOf(st, id) # {}
    <3>1. ns.next = st.next /\ ns.claims = st.claims  BY ONLY <2>1, <2>3, <2>5, ClaimedState
    <3>2. c \in Unemitted(st) /\ c.id = id  BY <2>1, <2>2, <3>1 DEF Unemitted
    <3>3. ~OfferedOnce
      <4>1. SUFFICES ASSUME OfferedOnce  PROVE FALSE  OBVIOUS
      <4>2. PICK k \in tset.jobs : SourceOfJob(k) = s /\ Job[k].id = c.id /\ step[k] \notin {"idle", "read", "queued"}
        BY <1>0, <2>1, <3>2, <4>1 DEF Offered, Unemitted
      <4>3. step[j] = "queued"  BY <1>6 DEF Claim
      <4>4. j \in tset.jobs
        <5>1. JobSound(j)  BY DEF TrailBase, CallsSound
        <5> QED  BY <4>3, <5>1 DEF JobSound
      <4>5. k = j  BY <4>1, <4>2, <4>4 DEF OfferedOnce
      <4> QED  BY <4>2, <4>3, <4>5
    <3>4. Alone  BY <3>3, SameSetting
    <3>5. SourceLinked(s)  BY <1>0, <3>4 DEF Linked
    <3>6. c.seq = st.next  BY <2>1, <3>2, <3>5 DEF SourceLinked
    <3> QED  BY <2>2, <3>1, <3>6
  <2> QED  BY <2>4, <2>5
<1> QED  BY <1>5, <1>6, CallMoves

\* A claim of a call that has claimed.
LEMMA ClaimOwned ==
    ASSUME TrailBase, TrailNext, NEW s \in Sources, NEW c \in src'[s].claims
    PROVE  \/ \E d \in src[s].claims : d.id = c.id
           \/ \E j \in Jobs : Claim(j) /\ step'[j] = "claimed" /\ SourceOfJob(j) = s /\ Job[j].id = c.id
<1>0. DOMAIN src = Sources /\ DOMAIN step = Jobs  BY DEF TrailBase, Books, CallsSound
<1>1. Booked(s, src[s], Emitted, InSeq(ledger)) /\ InSeq(ledger) \subseteq Emitted  BY SourceBooked
<1>2. CASE src'[s] = src[s]  BY <1>2
<1>3. ASSUME NEW e \in InSeq(ledger), e.src = s, src'[s] = MarkReceipted(src[s], e.seq)
      PROVE  \E d \in src[s].claims : d.id = c.id
  <2>1. Window \in Nat  BY TrailAssumption
  <2>2. src'[s].claims \subseteq src[s].claims
    BY ONLY <1>1, <1>3, <2>1, ReceiptBooked
  <2> QED  BY <2>2
<1>4. ASSUME NEW j \in Jobs, SourceOfJob(j) = s, Claim(j), src'[s] # src[s]
      PROVE  (\E d \in src[s].claims : d.id = c.id) \/ (step'[j] = "claimed" /\ Job[j].id = c.id)
  <2>1. PICK st, id, ns : st = src[s] /\ id = Job[j].id /\ ns = ClaimEvent(st, id)  OBVIOUS
  <2>2. src'[s] = ns /\ step'[j] = "claimed"  BY <1>0, <1>4, <2>1 DEF Claim
  <2>3. DOMAIN st = StateFields  BY <1>1, <2>1 DEF Booked
  <2>4. CASE ClaimsOf(st, id) = {}
    <3>1. ns.claims = st.claims \cup {[id |-> id, seq |-> st.next + 1, prev |-> st.latest, digest |-> {}]}
      BY ONLY <2>1, <2>3, <2>4, ClaimedState
    <3>2. c \in st.claims \/ c.id = id  BY <2>2, <3>1
    <3> QED  BY <2>1, <2>2, <3>2
  <2>5. CASE ClaimsOf(st, id) # {}
    <3>1. ns.claims = st.claims  BY ONLY <2>1, <2>3, <2>5, ClaimedState
    <3> QED  BY <2>1, <2>2, <3>1
  <2> QED  BY <2>4, <2>5
<1>5. ASSUME NEW j \in Jobs, SourceOfJob(j) = s, Freezes(j)
      PROVE  \E d \in src[s].claims : d.id = c.id
  <2>1. PICK e, st, ns, E, L : e = Event(j) /\ st = src[s] /\ ns = src'[s] /\ Booked(s, st, E, L)  BY <1>1
  <2>2. e.src = s /\ Emittable(st, e) /\ ns = MarkEmitted(st, e) /\ Booked(s, st, E, L)
    BY <1>0, <1>5, <2>1, FreezeFacts DEF Freezes
  <2>3. ASSUME NEW d \in ns.claims
        PROVE  /\ d.digest = {} => d \in st.claims /\ d.seq # e.seq
               /\ \E b \in st.claims : b.id = d.id /\ b.seq = d.seq /\ b.prev = d.prev
    BY ONLY <2>2, <2>3, EmitBooked
  <2>4. \E d \in st.claims : d.id = c.id  BY <2>1, <2>3
  <2> QED  BY <2>1, <2>4
<1>6. ASSUME NEW j \in Jobs, SourceOfJob(j) = s, Abandon(j), src'[s] # src[s]
      PROVE  \E d \in src[s].claims : d.id = c.id
  <2>1. PICK id, q, st, ns, E, L : id = Job[j].id /\ q = claimed[j].seq /\ st = src[s] /\ ns = src'[s] /\ Booked(s, st, E, L)
    BY <1>1
  <2>2. ns = AbandonClaim(st, id, q)  BY <1>0, <1>6, <2>1 DEF Abandon
  <2>3. ns = st \/ \E d \in st.claims : ns.claims = st.claims \ {d}  BY ONLY <2>1, <2>2, AbandonBooked
  <2> QED  BY <2>1, <2>3
<1> QED  BY <1>2, <1>3, <1>4, <1>5, <1>6, SourceMoves

\* A claim is that of a call that was made.
LEMMA OfferedStep ==
    ASSUME TrailBase, TrailNext, Offered
    PROVE  Offered'
<1>0. UNCHANGED tset /\ OfferedOnce' = OfferedOnce  BY SameSetting
<1> SUFFICES ASSUME OfferedOnce, NEW s \in Sources, NEW c \in src'[s].claims
             PROVE  \E j \in tset.jobs : /\ SourceOfJob(j)' = s /\ Job[j].id = c.id
                                         /\ step'[j] \notin {"idle", "read", "queued"}
  BY <1>0 DEF Offered
<1>1. tset.jobs \subseteq Jobs  BY Settings DEF TrailBase
<1>2. ASSUME NEW d \in src[s].claims, d.id = c.id
      PROVE  \E j \in tset.jobs : /\ SourceOfJob(j)' = s /\ Job[j].id = c.id
                                  /\ step'[j] \notin {"idle", "read", "queued"}
  <2>1. PICK j \in tset.jobs : SourceOfJob(j) = s /\ Job[j].id = d.id /\ step[j] \notin {"idle", "read", "queued"}
    BY DEF Offered
  <2>2. step'[j] \notin {"idle", "read", "queued"}
    <3>1. CallPath(j)  BY <1>1, CallPaths
    <3> QED  BY <2>1, <3>1 DEF CallPath
  <2>3. SourceOfJob(j)' = s  BY <1>1, <2>1, SameSources
  <2> QED  BY <1>2, <2>1, <2>2, <2>3
<1>3. ASSUME NEW j \in Jobs, Claim(j), step'[j] = "claimed", SourceOfJob(j) = s, Job[j].id = c.id
      PROVE  \E k \in tset.jobs : /\ SourceOfJob(k)' = s /\ Job[k].id = c.id
                                  /\ step'[k] \notin {"idle", "read", "queued"}
  <2>1. j \in tset.jobs
    <3>1. JobSound(j) /\ step[j] = "queued"  BY <1>3 DEF TrailBase, CallsSound, Claim
    <3> QED  BY <3>1 DEF JobSound
  <2>2. SourceOfJob(j)' = s  BY <1>3, SameSources
  <2>3. step'[j] \notin {"idle", "read", "queued"}  BY <1>3
  <2> QED  BY <1>3, <2>1, <2>2, <2>3
<1> QED  BY <1>2, <1>3, ClaimOwned

\* Two events of one identity do not both keep their claim.
LEMMA ClashRecorded ==
    ASSUME TrailBase, NEW e \in Emitted, NEW x \in Emitted, SameItem(x, e), x # e
    PROVE  e \in InSeq(ledger) \/ x \in InSeq(ledger)
<1> SUFFICES ASSUME e \notin InSeq(ledger), x \notin InSeq(ledger)  PROVE FALSE  OBVIOUS
<1>1. e.src \in Sources /\ x.src = e.src /\ x.id = e.id  BY EventFacts DEF SameItem
<1>2. PICK st, L : st = src[e.src] /\ L = InSeq(ledger) /\ Booked(e.src, st, Emitted, L)  BY <1>1, SourceBooked
<1>3. EventsBooked(e.src, st, Emitted, L) /\ ClaimsSound(e.src, st, Emitted)  BY <1>2 DEF Booked
<1>4. PICK c \in st.claims : c.digest = {e}  BY <1>2, <1>3 DEF EventsBooked
<1>5. PICK d \in st.claims : d.digest = {x}  BY <1>1, <1>2, <1>3 DEF EventsBooked
<1>6. c.id = e.id /\ d.id = x.id  BY <1>3, <1>4, <1>5 DEF ClaimsSound, ClaimSound
<1>7. c = d  BY <1>1, <1>3, <1>6 DEF ClaimsSound
<1> QED  BY <1>4, <1>5, <1>7

\* An event whose call failed is on its way where the outbox does not fail.
LEMMA FailedKeptStep ==
    ASSUME TrailBase, TrailNext, InTurn, FailedKept
    PROVE  FailedKept'
<1>0. OfferedOnce' = OfferedOnce  BY SameSetting
<1> SUFFICES ASSUME ~OfferedOnce, NEW j \in Jobs, step'[j] \in {"failed", "crashed"}, NEW e \in ev'[j]
             PROVE  Kept(e)'
  BY <1>0 DEF FailedKept
<1>1. JobSound(j) /\ KeyedBySource /\ {"outbox", "crash"} \cap TrailFaults = {}
  BY SameSetting DEF TrailBase, CallsSound, InTurn, TrailFaults
<1>2. ~Freezes(j)
  <2>1. DOMAIN step = Jobs  BY DEF TrailBase, CallsSound
  <2> QED  BY <2>1 DEF Freezes, ReleaseLock
<1>3. e \in ev[j]  BY <1>2, EventStays
<1>4. step[j] \in Freezing \cup {"failed", "crashed"}  BY <1>1, <1>3 DEF JobSound
<1>5. CASE step'[j] = step[j]
  <2>1. Kept(e)  BY <1>3, <1>5 DEF FailedKept
  <2> QED  BY <1>1, <2>1, KeptStays
<1>6. CASE Enqueue(j) /\ step'[j] = "failed"
  <2>1. \E i \in 1..Len(outbox) : SameItem(outbox[i], e) /\ outbox[i] # e
    <3>1. DOMAIN step = Jobs  BY DEF TrailBase, CallsSound
    <3>2. ev[j] = {e}
      <4>1. e \in Emitted  BY <1>3 DEF Emitted
      <4> QED  BY <1>3, <4>1, EventOwner
    <3> QED  BY <1>1, <1>6, <3>1, <3>2 DEF Enqueue, ReleaseLock
  <2>2. PICK x \in InSeq(outbox) : SameItem(x, e) /\ x # e  BY <2>1 DEF InSeq
  <2>3. e \in Emitted /\ x \in Emitted
    <3>1. outbox \in Seq(Emitted)  BY DEF TrailBase, Items
    <3>2. InSeq(outbox) \subseteq Emitted  BY ONLY <3>1, Ranged
    <3> QED  BY <1>3, <3>2 DEF Emitted
  <2>4. Kept(e)
    <3>1. x \in InSeq(ledger) => Conflicting(e)  BY <2>2 DEF InSeq, Conflicting
    <3> QED  BY <2>2, <2>3, <3>1, ClashRecorded DEF Kept
  <2> QED  BY <1>1, <2>4, KeptStays
<1> QED
  BY <1>1, <1>4, <1>5, <1>6, NoDirect, CallPaths DEF CallPath, Freezing, Claim, Abandon

\* The ledger has a source's events in source order.
LEMMA LedgerOrderedStep ==
    ASSUME TrailBase, TrailNext, InTurn, NoFork, LedgerOrdered, \A e \in Emitted : AfterLower(e)
    PROVE  LedgerOrdered'
<1>0. ledger \in Seq(Emitted)  BY DEF TrailBase, Items
<1>1. CASE UNCHANGED ledger  BY <1>1 DEF LedgerOrdered
<1>2. ASSUME NEW x \in Emitted, ledger' = Append(ledger, x), ~Conflicting(x), x \notin InSeq(ledger),
             NEW f \in Flushers, FlushSubmit(f), x = Current(f)
      PROVE  LedgerOrdered'
  <2>1. /\ \A i \in DOMAIN ledger : i \in DOMAIN ledger' /\ ledger'[i] = ledger[i]
        /\ ledger'[Len(ledger) + 1] = x
        /\ \A i \in DOMAIN ledger' : i \in DOMAIN ledger \/ i = Len(ledger) + 1
        /\ DOMAIN ledger = 1..Len(ledger) /\ Len(ledger) \in Nat
        /\ \A i \in DOMAIN ledger : ledger[i] \in Emitted /\ ledger[i] \in InSeq(ledger)
    BY ONLY <1>0, <1>2, Added, Ranged
  <2>2. ASSUME NEW i \in DOMAIN ledger, ledger[i].src = x.src  PROVE ledger[i].seq < x.seq
    <3>1. PICK g \in Emitted : g = ledger[i] /\ g \in InSeq(ledger)  BY <2>1
    <3>2. g.src = x.src /\ g.seq # x.seq  BY <1>2, <2>2, <3>1 DEF NoFork
    <3>3. g.seq \in Nat /\ x.seq \in Nat  BY EventFacts
    <3>4. ~Over(x)
      <4>1. fl[f].pc # "idle"  BY <1>2 DEF FlushSubmit
      <4>2. x \in InSeq(fl[f].rest)  BY <1>2, <4>1, CurrentFacts DEF TrailBase
      <4> QED  BY <1>2, <4>2 DEF Over, Dead
    <3>5. ~Low(x, g)  BY <3>1, <3>4 DEF AfterLower, InLedgerOrder
    <3>6. ~(x.seq < g.seq)  BY <3>2, <3>5 DEF Low
    <3>7. g.seq < x.seq  BY ONLY <3>2, <3>3, <3>6
    <3> QED  BY <3>1, <3>7
  <2>3. SUFFICES ASSUME NEW i \in DOMAIN ledger', NEW k \in DOMAIN ledger', i < k, ledger'[i].src = ledger'[k].src
                 PROVE  ledger'[i].seq < ledger'[k].seq
    BY DEF LedgerOrdered
  <2>4. CASE i \in DOMAIN ledger /\ k \in DOMAIN ledger  BY <2>1, <2>3, <2>4 DEF LedgerOrdered
  <2>5. CASE i \in DOMAIN ledger /\ k = Len(ledger) + 1  BY <2>1, <2>2, <2>3, <2>5
  <2>6. i \in DOMAIN ledger
    <3>1. i \in DOMAIN ledger \/ i = Len(ledger) + 1  BY <2>1
    <3>2. k \in 1..Len(ledger) \/ k = Len(ledger) + 1  BY <2>1
    <3>3. ~(Len(ledger) + 1 < k)  BY ONLY <2>1, <3>2
    <3> QED  BY <2>3, <3>1, <3>3
  <2> QED  BY <2>1, <2>4, <2>5, <2>6
<1> QED
  <2>1. ASSUME NEW x \in Emitted, ledger' = Append(ledger, x), ~Conflicting(x), x \notin InSeq(ledger),
               (\E j \in Jobs : SubmitEvent(j) /\ x \in ev[j]) \/ \E f \in Flushers : FlushSubmit(f) /\ x = Current(f)
        PROVE  LedgerOrdered'
    BY <1>2, <2>1, NoDirect
  <2> HIDE DEF LedgerOrdered
  <2> QED  BY <1>1, <2>1, LedgerChange

\* Whatever is lower in source order goes first.
LEMMA AfterLowerStep ==
    ASSUME TrailBase, TrailNext, InTurn, KeptItems, FailedKept, Newest, \A e \in Emitted : AfterLower(e),
           NEW e \in Emitted'
    PROVE  AfterLower(e)'
<1>1. CASE e \in Emitted
  <2>1. InLedgerOrder(e)'  BY <1>1, LedgerOrderStep
  <2>2. InOutboxOrder(e)'  BY <1>1, OutboxOrderStep
  <2>3. \A f \in Flushers : InRestOrder(e, f)'  BY <1>1, RestOrderStep
  <2> QED  BY <2>1, <2>2, <2>3 DEF AfterLower
<1>2. ASSUME NEW j \in Jobs, Freezes(j), e = Event(j), e \notin Emitted  PROVE AfterLower(e)'
  <2>1. \A g \in Emitted : ~Low(e, g)  BY <1>2, NewEventLast
  <2>2. UNCHANGED <<outbox, ledger, fl>>  BY <1>2 DEF Freezes
  <2>3. outbox \in Seq(Emitted) /\ ledger \in Seq(Emitted)  BY DEF TrailBase, Items
  <2>4. /\ \A g \in InSeq(ledger) : g \in Emitted
        /\ \A k \in DOMAIN outbox : outbox[k] \in Emitted
    BY ONLY <2>3, Ranged
  <2>5. ASSUME NEW f \in Flushers, NEW k \in DOMAIN fl[f].rest  PROVE fl[f].rest[k] \in Emitted
    <3>1. fl[f].rest \in Seq(Emitted)  BY DEF TrailBase, Flushes, FlushSound
    <3> QED  BY ONLY <2>5, <3>1, Ranged
  <2>6. InLedgerOrder(e)'  BY <2>1, <2>2, <2>4 DEF InLedgerOrder
  <2>7. InOutboxOrder(e)'  BY <2>1, <2>2, <2>4 DEF InOutboxOrder
  <2>8. ASSUME NEW f \in Flushers  PROVE InRestOrder(e, f)'
    BY <2>1, <2>2, <2>5 DEF InRestOrder
  <2> QED  BY <2>6, <2>7, <2>8 DEF AfterLower
<1> QED  BY <1>1, <1>2, EmittedStep

\* Every step keeps the order.
LEMMA OrderedStep ==
    ASSUME TrailBase, TrailNext, NoFork, Linked, KeptItems, Ordered
    PROVE  Ordered'
<1>1. InTurn' = InTurn  BY SameSetting
<1>2. SUFFICES ASSUME InTurn
               PROVE  Newest' /\ Offered' /\ FailedKept' /\ LedgerOrdered' /\ \A e \in Emitted' : AfterLower(e)'
  BY <1>1 DEF Ordered
<1>3. Newest /\ Offered /\ FailedKept /\ LedgerOrdered /\ \A e \in Emitted : AfterLower(e)  BY <1>2 DEF Ordered
<1>4. Newest'  BY <1>2, <1>3, NewestStep
<1>5. Offered'  BY <1>3, OfferedStep
<1>6. FailedKept'  BY <1>2, <1>3, FailedKeptStep
<1>7. LedgerOrdered'  BY <1>2, <1>3, LedgerOrderedStep
<1>8. \A e \in Emitted' : AfterLower(e)'  BY <1>2, <1>3, AfterLowerStep
<1> QED  BY <1>4, <1>5, <1>6, <1>7, <1>8

-----------------------------------------------------------------------------
(* The inductive invariant, and what it says.                              *)

LockTyped == lock \in [Trails -> Seq(Jobs)]

TrailSound == TrailInv /\ LockTyped

\* A chain stays a sequence of calls.
LEMMA LockTypedStep ==
    ASSUME LockTyped, Chains', [TrailNext]_trailVars
    PROVE  LockTyped'
<1>1. UNCHANGED lock \/ \E t \in Trails : \E q : lock' = [lock EXCEPT ![t] = q]
  <2>1. ASSUME NEW j \in Jobs, ReadHighWater(j) \/ JobStep(j)
        PROVE  UNCHANGED lock \/ \E q : lock' = [lock EXCEPT ![Job[j].trail] = q]
    BY <2>1 DEF ReadHighWater, JobStep, StartRecord, Claim, Emit, Abandon, Enqueue, SubmitEvent, MarkRecorded, ReleaseLock
  <2>2. \A j \in Jobs : Job[j].trail \in Trails  BY TrailAssumption
  <2>3. ASSUME NEW f \in Flushers, FlushStep(f)  PROVE UNCHANGED lock
    BY <2>3 DEF FlushStep, FlushStart, FlushSkip, FlushSubmit, FlushFail, FlushReceipt, FlushAck
  <2>4. ASSUME NEW t \in Trails, CrashTrail(t)  PROVE \E q : lock' = [lock EXCEPT ![t] = q]
    BY <2>4 DEF CrashTrail
  <2>5. Idle \/ UNCHANGED trailVars => UNCHANGED lock  BY DEF Idle, trailVars
  <2> QED  BY <2>1, <2>2, <2>3, <2>4, <2>5 DEF TrailNext
<1>2. \A t \in Trails : lock'[t] \in Seq(Jobs)  BY DEF Chains, ChainSound
<1> QED  BY <1>1, <1>2 DEF LockTyped

\* The invariant holds where the producer starts.
LEMMA TrailSoundInit == TrailInit => TrailSound
<1> SUFFICES ASSUME TrailInit  PROVE TrailSound
  OBVIOUS
<1>1. TrailBase  BY TrailBaseInit
<1>2. /\ \A j \in Jobs : step[j] = "idle" /\ ev[j] = {} /\ mark[j] = 0
      /\ \A f \in Flushers : fl[f].rest = <<>>
      /\ \A s \in Sources : src[s].claims = {} /\ src[s].next = 0
      /\ ledger = <<>> /\ outbox = <<>>
  BY DEF TrailInit, NewSource, NoFlush
<1>3. Emitted = {}  BY <1>2 DEF Emitted
<1>4. NoFork  BY <1>3 DEF NoFork
<1>5. Linked
  <2>1. ASSUME NEW s \in Sources  PROVE SourceLinked(s)
    BY <1>2 DEF SourceLinked, Unemitted
  <2>2. ASSUME NEW j \in Jobs  PROVE JobLinked(j)
    BY <1>2 DEF JobLinked, Building
  <2> QED  BY <1>3, <2>1, <2>2 DEF Linked
<1>6. KeptItems
  <2>1. \A f \in Flushers : DOMAIN fl[f].rest = {}  BY <1>2
  <2> QED  BY <1>2, <2>1 DEF KeptItems
<1>7. Ordered
  <2>1. Newest  BY <1>2 DEF Newest, Building
  <2>2. Offered  BY <1>2 DEF Offered
  <2>3. FailedKept  BY <1>2 DEF FailedKept
  <2>4. LedgerOrdered
    <3>1. DOMAIN ledger = {}  BY <1>2
    <3> QED  BY <3>1 DEF LedgerOrdered
  <2> QED  BY <1>3, <2>1, <2>2, <2>3, <2>4 DEF Ordered
<1>8. LockTyped  BY DEF TrailInit, LockTyped
<1> QED  BY <1>1, <1>4, <1>5, <1>6, <1>7, <1>8 DEF TrailSound, TrailInv

\* Every step keeps the invariant.
LEMMA TrailSoundStep == TrailSound /\ [TrailNext]_trailVars => TrailSound'
<1> SUFFICES ASSUME TrailSound, [TrailNext]_trailVars  PROVE TrailSound'
  OBVIOUS
<1>1. TrailBase /\ NoFork /\ Linked /\ KeptItems /\ Ordered /\ LockTyped  BY DEF TrailSound, TrailInv
<1>2. TrailBase'  BY <1>1, TrailBaseStep
<1>3. LockTyped'  BY <1>1, <1>2, LockTypedStep DEF TrailBase
<1>4. CASE TrailNext
  <2>1. NoFork'  BY <1>1, <1>4, NoForkStep
  <2>2. Linked'  BY <1>1, <1>4, LinkedStep
  <2>3. KeptItems'  BY <1>1, <1>4, KeptItemsStep
  <2>4. Ordered'  BY <1>1, <1>4, OrderedStep
  <2> QED  BY <1>2, <1>3, <2>1, <2>2, <2>3, <2>4 DEF TrailSound, TrailInv
<1>5. CASE UNCHANGED trailVars
  <2>1. UNCHANGED <<src, outbox, ledger, step, claimed, mark, ev, fl, tset>>  BY <1>5 DEF trailVars, jobVars
  <2>2. Emitted' = Emitted  BY <2>1 DEF Emitted
  <2>3. NoFork'  BY <1>1, <2>2 DEF NoFork
  <2>4. \A j \in Jobs : SourceOfJob(j)' = SourceOfJob(j)  BY <2>1 DEF SourceOfJob, SourceOf
  <2>5. Linked'
    BY <1>1, <2>1, <2>2, <2>4 DEF Linked, Alone, OneTrail, SourceOf, SourceLinked, JobLinked, MarkSound, FrozenAt
  <2>6. \A e : Kept(e)' = Kept(e)  BY <2>1 DEF Kept, Conflicting
  <2>7. KeptItems'  BY <1>1, <2>1, <2>6 DEF KeptItems, KeyedBySource
  <2>8. InTurn' = InTurn /\ OfferedOnce' = OfferedOnce
    BY <2>1, <2>4 DEF InTurn, OfferedOnce, NoneOvertaken, OneTrail, SourceOfJob, SourceOf, Delivery, KeyedBySource
  <2>9. \A e : Over(e)' = Over(e)  BY <2>1, <2>8 DEF Over, Dead, Conflicting
  <2>10. \A e : AfterLower(e) => AfterLower(e)'
    BY <2>1, <2>9 DEF AfterLower, InLedgerOrder, InOutboxOrder, InRestOrder
  <2>11. LedgerOrdered => LedgerOrdered'  BY <2>1 DEF LedgerOrdered
  <2>12. FailedKept => FailedKept'  BY <2>1, <2>6, <2>8 DEF FailedKept
  <2>13. (Newest => Newest') /\ (Offered => Offered')  BY <2>1, <2>4, <2>8 DEF Newest, Offered, SourceOfJob, SourceOf
  <2>14. Ordered'  BY <1>1, <2>2, <2>8, <2>10, <2>11, <2>12, <2>13 DEF Ordered
  <2> QED  BY <1>2, <1>3, <2>3, <2>5, <2>7, <2>14 DEF TrailSound, TrailInv
<1> QED  BY <1>4, <1>5

\* What the trail holds, is sending and has recorded was frozen by a call.
LEMMA FrozenEmitted ==
    ASSUME TrailBase
    PROVE  Frozen = Emitted /\ InSeq(ledger) \subseteq Emitted
<1>1. outbox \in Seq(Emitted) /\ ledger \in Seq(Emitted)  BY DEF TrailBase, Items
<1>2. InSeq(outbox) \subseteq Emitted /\ InSeq(ledger) \subseteq Emitted  BY ONLY <1>1, Ranged
<1> QED  BY <1>2 DEF Frozen, Emitted

\* The invariant gives the types.
LEMMA TrailTypes == TrailSound => TrailTypeOK
<1> SUFFICES ASSUME TrailSound  PROVE TrailTypeOK
  OBVIOUS
<1>1. TrailBase /\ LockTyped  BY DEF TrailSound, TrailInv
<1>2. CallsSound /\ Flushes /\ DOMAIN src = Sources /\ trailCrashes \in 0..MaxTrailCrashes
  BY <1>1 DEF TrailBase, Books
<1>3. ASSUME NEW s \in Sources
      PROVE  /\ src[s].next \in Nat
             /\ \A p \in src[s].pending : p.seq \in 1..src[s].next /\ p.id \in Ids
             /\ \A c \in src[s].claims : c.id \in Ids /\ c.seq \in 1..src[s].next /\ Cardinality(ClaimsOf(src[s], c.id)) = 1
  <2>1. Booked(s, src[s], Emitted, InSeq(ledger))  BY <1>1, SourceBooked
  <2>2. /\ src[s].next \in Nat
        /\ \A c \in src[s].claims : c.id \in Ids /\ c.seq \in 1..src[s].next
        /\ \A c, d \in src[s].claims : c.id = d.id => c = d
        /\ \A p \in src[s].pending : p.id \in Ids /\ \E c \in src[s].claims : c.seq = p.seq
    BY <2>1 DEF Booked, ClaimsSound, ClaimSound, WindowSound
  <2>3. ASSUME NEW c \in src[s].claims  PROVE Cardinality(ClaimsOf(src[s], c.id)) = 1
    <3>1. ClaimsOf(src[s], c.id) = {c}  BY <2>2 DEF ClaimsOf
    <3> QED  BY <3>1, FS_Singleton
  <2>4. \A p \in src[s].pending : p.seq \in 1..src[s].next  BY <2>2
  <2> QED  BY <2>2, <2>3, <2>4
<1>4. ASSUME NEW e \in Frozen  PROVE WellFormed(e)
  <2>1. e \in Emitted  BY <1>1, FrozenEmitted
  <2>2. e.src \in Sources /\ e.seq \in Nat \ {0}
    <3>1. e.src \in Sources /\ e.seq \in Nat /\ e.seq \in 1..src[e.src].next  BY <1>1, <2>1, EventFacts
    <3> QED  BY ONLY <3>1
  <2>3. PICK j \in Jobs : ev[j] = {e} /\ e = Event(j) /\ e.id \in Ids /\ e.mark \in Nat /\ OneValue(e.prev)
    BY <1>1, <1>2, <2>1, EmittedFacts DEF TrailBase
  <2>4. e.body = Job[j].body /\ Job[j].body \in Bodies  BY <1>1, <2>3, Settings DEF Event, TrailBase
  <2>5. Cardinality(e.prev) <= 1
    <3>1. CASE e.prev = {}
      <4>1. Cardinality(e.prev) = 0  BY <3>1, FS_EmptySet
      <4> QED  BY ONLY <4>1
    <3>2. ASSUME NEW p \in e.prev  PROVE Cardinality(e.prev) <= 1
      <4>1. e.prev = {p}  BY <2>3, <3>2 DEF OneValue
      <4>2. Cardinality(e.prev) = 1  BY <4>1, FS_Singleton
      <4> QED  BY ONLY <4>2
    <3> QED  BY <3>1, <3>2
  <2> QED  BY <2>2, <2>3, <2>4, <2>5 DEF WellFormed
<1>5. step \in [Jobs -> Settled \cup {"idle", "read", "queued", "claimed", "abandon",
                                     "enqueue", "submit", "receipt"}]
  BY <1>2 DEF CallsSound, Settled, InChain, Freezing
<1>6. \A f \in Flushers : fl[f].pc \in {"idle", "next", "fail", "receipt", "ack"}
  BY <1>2 DEF Flushes, FlushSound
<1> QED  BY <1>1, <1>2, <1>3, <1>4, <1>5, <1>6 DEF TrailTypeOK, LockTyped

\* The invariant gives the links.
LEMMA ChainsAreSound == TrailSound => SourceChainSound
<1> SUFFICES ASSUME TrailSound  PROVE SourceChainSound
  OBVIOUS
<1>1. TrailBase /\ NoFork /\ Linked  BY DEF TrailSound, TrailInv
<1>2. Frozen = Emitted  BY <1>1, FrozenEmitted
<1>3. ASSUME NEW e \in Emitted
      PROVE  \E j \in Jobs : /\ ev[j] = {e} /\ e = Event(j) /\ e.seq = claimed[j].seq /\ e.prev = claimed[j].prev
                             /\ \A p \in e.prev : p.src = e.src /\ p.seq + 1 = e.seq
  BY <1>1, EmittedFacts DEF TrailBase
<1>4. \A e \in Emitted : \A p \in e.prev : p.src = e.src /\ p.seq + 1 = e.seq  BY <1>3
<1>5. ASSUME Alone, NEW e \in Emitted, e.seq > 1  PROVE e.prev # {}
  <2>1. PICK j \in Jobs : ev[j] = {e} /\ e.seq = claimed[j].seq /\ e.prev = claimed[j].prev  BY <1>3
  <2>2. JobLinked(j)  BY <1>1, <1>5 DEF Linked
  <2> QED  BY <1>5, <2>1, <2>2 DEF JobLinked
<1> QED  BY <1>1, <1>2, <1>4, <1>5, TrailTypes DEF SourceChainSound, NoFork

\* The invariant gives the order.
LEMMA OrderIsSound == TrailSound => SourceOrder
<1> SUFFICES ASSUME TrailSound, InTurn  PROVE LedgerOrdered
  <2>1. ledger \in Seq(Emitted) \/ ~TrailSound  BY DEF TrailSound, TrailInv, TrailBase, Items
  <2>2. ledger \in Seq(Emitted) => DOMAIN ledger = 1..Len(ledger)  BY Ranged
  <2> QED  BY <2>1, <2>2 DEF SourceOrder, InTurn, LedgerOrdered
<1> QED  BY DEF TrailSound, TrailInv, Ordered

\* What is reported as receipted in a row is below everything that waits for its receipt.
LEMMA HighestBelow ==
    ASSUME NEW st, st.next \in Nat, \A p \in st.pending : p.seq \in 1..st.next, NEW q \in 1..HighestReceipted(st)
    PROVE  q \in 1..st.next /\ \A p \in st.pending : p.seq # q
<1>1. CASE st.pending = {}  BY <1>1 DEF HighestReceipted
<1>2. CASE st.pending # {}
  <2> DEFINE S == {p.seq : p \in st.pending}
             m == CHOOSE n \in S : \A p \in st.pending : n <= p.seq
  <2>1. S \subseteq Nat /\ S # {}  BY <1>2
  <2>2. \E n \in S : \A p \in st.pending : n <= p.seq
    <3>1. PICK n \in S : \A k \in S : ~(<<k, n>> \in OpToRel(<, Nat))  BY <2>1, NatLessThanWellFounded, WFMin
    <3>2. \A k \in S : ~(k < n)  BY <2>1, <3>1 DEF OpToRel
    <3>3. \A p \in st.pending : p.seq \in S /\ p.seq \in Nat  OBVIOUS
    <3>4. n \in Nat  BY <2>1
    <3> HIDE DEF S
    <3>5. ASSUME NEW p \in st.pending  PROVE n <= p.seq
      <4>1. ~(p.seq < n) /\ p.seq \in Nat  BY <3>2, <3>3
      <4> QED  BY ONLY <3>4, <4>1
    <3> QED  BY <3>5
  <2>3. m \in S /\ \A p \in st.pending : m <= p.seq
    <3> HIDE DEF S
    <3> QED  BY ONLY <2>2
  <2>4. HighestReceipted(st) = m - 1
    BY ONLY <1>2 DEF HighestReceipted
  <2>5. m \in 1..st.next  BY <2>3
  <2>6. q \in 1..st.next /\ q < m
    <3> HIDE DEF m
    <3> QED  BY ONLY <2>4, <2>5, q \in 1..HighestReceipted(st), st.next \in Nat
  <2>7. ASSUME NEW p \in st.pending, p.seq = q  PROVE FALSE
    <3>1. m <= p.seq /\ p.seq \in 1..st.next  BY <2>3
    <3> HIDE DEF m
    <3> QED  BY ONLY <2>5, <2>6, <2>7, <3>1, st.next \in Nat
  <2> QED  BY <2>6, <2>7
<1> QED  BY <1>1, <1>2

\* The invariant gives the marks.
LEMMA MarksAreHonest == TrailSound => HighWaterHonest
<1> SUFFICES ASSUME TrailSound  PROVE HighWaterHonest
  OBVIOUS
<1>1. TrailBase /\ Linked  BY DEF TrailSound, TrailInv
<1>2. ASSUME NEW s \in Sources, NEW q \in 1..HighestReceipted(src[s])
      PROVE  \E e \in InSeq(ledger) : e.src = s /\ e.seq = q
  <2>1. Booked(s, src[s], Emitted, InSeq(ledger))  BY <1>1, SourceBooked
  <2>2. src[s].next \in Nat /\ \A p \in src[s].pending : p.seq \in 1..src[s].next
    BY <2>1 DEF Booked, ClaimsSound, ClaimSound, WindowSound
  <2>3. q \in 1..src[s].next /\ \A p \in src[s].pending : p.seq # q  BY <2>2, HighestBelow
  <2> QED  BY <2>1, <2>3 DEF Booked, Receipted
<1>3. ASSUME Alone, NEW e \in InSeq(ledger), NEW q \in 1..e.mark
      PROVE  \E x \in Frozen : x.src = e.src /\ x.seq = q
  <2>1. e \in Emitted /\ Frozen = Emitted  BY <1>1, FrozenEmitted
  <2>2. MarkSound(e)  BY <1>1, <1>3, <2>1 DEF Linked
  <2> QED  BY <2>1, <2>2 DEF MarkSound, FrozenAt
<1> QED  BY <1>2, <1>3 DEF HighWaterHonest

\* Theorem: whatever calls of whatever processes claim, fail, abandon or die in
\* between, the events a source froze are one linked history, without a fork and,
\* where one trail serves the source, without a gap, and the recorder has them in
\* the order they were frozen (claimEvent, abandonClaim, markEmitted, record,
\* flush).
THEOREM SourceHistoryHolds == TrailSpec => []SourceHistorySound
<1>1. TrailSound => SourceHistorySound
  BY ChainsAreSound, OrderIsSound DEF SourceHistorySound
<1> QED  BY <1>1, TrailSoundInit, TrailSoundStep, PTL DEF TrailSpec

\* Theorem: a sequence reported as receipted and a mark a committed event declares
\* are backed by the ledger and by what was frozen, and an event record() called
\* pending stays in the outbox until it is committed (getState, markReceipted,
\* flush, markDelivered).
THEOREM AnswersStayHonest == TrailSpec => []AnswersHonest
<1>1. TrailSound => AnswersHonest
  <2>1. TrailSound => NothingLost
    BY DEF TrailSound, TrailInv, KeptItems, Kept, NothingLost
  <2> QED  BY <2>1, MarksAreHonest DEF AnswersHonest
<1> QED  BY <1>1, TrailSoundInit, TrailSoundStep, PTL DEF TrailSpec

HIDE TrailAssumption
USE SealedAssumption

-----------------------------------------------------------------------------
(* The evidence store: the inductive invariant.                            *)

CipherType == [plain: Plaintexts, key: SealingKeys, aad: EntityData, nonce: ObjectIds]
RefType == [objectId: ObjectIds, ciphertextDigest: CipherType, size: {1, 2},
            nonce: ObjectIds, aadDigest: EntityData]
InputType == [ref: RefType, ciphertext: CipherType]
ObjectType == [ref: RefType, bytes: SUBSET CipherType, holds: SUBSET HoldIds]
AccessType == [stage: {"idle", "authorizing", "reporting", "done"}, ref: RefType \cup {NoRef},
               reported: {"nothing", "denied", "missing", "found", "disposed"},
               bytes: SUBSET CipherType]

StoreType ==
    /\ sealed \subseteq InputType /\ IsFiniteSet(sealed)
    /\ states \in [ObjectIds -> SUBSET ObjectType]
    /\ granted \subseteq ObjectIds \X HoldIds
    /\ access \in [EvidenceReaders -> AccessType]

\* What encrypt returned commits to its ciphertext and to the entity it was sealed for.
SealedBound ==
    \A x \in sealed : x.ref.ciphertextDigest = x.ciphertext /\ x.ref.aadDigest = x.ciphertext.aad

\* A hold that was granted is on an object that still has its bytes.
HoldsKept ==
    \A g \in granted : \E s \in states[g[1]] : g[2] \in s.holds /\ s.bytes # {}

\* A read asks with a digest that was sealed, has bytes only once it is done, and an
\* object it reports as disposed is.
ReadsBound ==
    \A r \in EvidenceReaders :
        /\ access[r].stage # "idle" =>
             /\ access[r].ref \in RefType
             /\ \E x \in sealed : x.ref.ciphertextDigest = access[r].ref.ciphertextDigest
        /\ access[r].stage # "done" => access[r].bytes = {}
        /\ access[r].stage = "reporting" =>
             /\ access[r].reported # "nothing"
             /\ access[r].reported = "disposed" => Disposed(access[r].ref.objectId)

EvidenceInv == StoreType /\ SealedBound /\ HoldsKept /\ ReadsBound

-----------------------------------------------------------------------------
(* Every action keeps it.                                                  *)

\* The inputs presented are well formed, and each carries the digest of one sealed.
LEMMA PresentableFacts ==
    ASSUME StoreType
    PROVE  \A x \in Presentable :
             /\ x \in InputType
             /\ \E y \in sealed : x.ref.ciphertextDigest = y.ref.ciphertextDigest
<1>1. \A x \in InputType, y \in InputType :
        /\ [x EXCEPT !.ciphertext = y.ciphertext] \in InputType
        /\ [x EXCEPT !.ciphertext = y.ciphertext].ref = x.ref
  BY DEF InputType
<1>2. \A x \in InputType, y \in InputType :
        /\ [x EXCEPT !.ref.objectId = y.ref.objectId] \in InputType
        /\ [x EXCEPT !.ref.objectId = y.ref.objectId].ref.ciphertextDigest = x.ref.ciphertextDigest
  BY DEF InputType, RefType
<1>3. \A x \in InputType :
        /\ [x EXCEPT !.ref.size = 2] \in InputType
        /\ [x EXCEPT !.ref.size = 2].ref.ciphertextDigest = x.ref.ciphertextDigest
  BY DEF InputType, RefType
<1> SUFFICES ASSUME NEW x \in Presentable
             PROVE  /\ x \in InputType
                    /\ \E y \in sealed : x.ref.ciphertextDigest = y.ref.ciphertextDigest
  OBVIOUS
<1>4. sealed \subseteq InputType
  BY DEF StoreType
<1>5. CASE x \in sealed
  BY <1>4, <1>5
<1>6. ASSUME NEW y \in sealed, NEW z \in sealed, x = [y EXCEPT !.ciphertext = z.ciphertext]
      PROVE  x \in InputType /\ x.ref = y.ref
  BY <1>1, <1>4, <1>6
<1>7. ASSUME NEW y \in sealed, NEW z \in sealed, x = [y EXCEPT !.ref.objectId = z.ref.objectId]
      PROVE  x \in InputType /\ x.ref.ciphertextDigest = y.ref.ciphertextDigest
  BY <1>2, <1>4, <1>7
<1>8. ASSUME NEW y \in sealed, x = [y EXCEPT !.ref.size = 2]
      PROVE  x \in InputType /\ x.ref.ciphertextDigest = y.ref.ciphertextDigest
  BY <1>3, <1>4, <1>8
<1> QED BY <1>5, <1>6, <1>7, <1>8 DEF Presentable

\* Sealing draws a new id and binds the ciphertext and its entity.
LEMMA SealKeeps ==
    ASSUME EvidenceInv, Seal
    PROVE  EvidenceInv'
<1>1. PICK plain \in Plaintexts, key \in SealingKeys, aad \in EntityData :
        \E input \in encrypt(plain, key, aad, Cardinality(sealed) + 1) : sealed' = sealed \cup {input}
  BY DEF Seal
<1> DEFINE id == Cardinality(sealed) + 1
<1>2. PICK input \in encrypt(plain, key, aad, id) : sealed' = sealed \cup {input}
  BY <1>1
<1>3. id \in ObjectIds
  <2>1. Cardinality(sealed) \in Nat
    BY FS_CardinalityType DEF EvidenceInv, StoreType
  <2> QED BY <2>1 DEF Seal, ObjectIds
<1> HIDE DEF id
<1>4. /\ input \in InputType
      /\ input.ref.ciphertextDigest = input.ciphertext
      /\ input.ref.aadDigest = input.ciphertext.aad
  <2> DEFINE bytes == [plain |-> plain, key |-> key, aad |-> aad, nonce |-> id]
  <2>1. input = [ciphertext |-> bytes,
                 ref |-> [objectId |-> id, ciphertextDigest |-> bytes, size |-> 1, nonce |-> id,
                          aadDigest |-> aad]]
    BY <1>2 DEF encrypt
  <2>2. bytes \in CipherType /\ bytes.aad = aad
    BY <1>3 DEF CipherType
  <2> HIDE DEF bytes
  <2> QED BY <2>1, <2>2, <1>3 DEF InputType, RefType
<1>5. IsFiniteSet(sealed')
  BY <1>2, FS_AddElement DEF EvidenceInv, StoreType
<1>6. UNCHANGED <<states, granted, access>>
  BY DEF Seal
<1> QED BY <1>2, <1>4, <1>5, <1>6
        DEF EvidenceInv, StoreType, SealedBound, HoldsKept, ReadsBound, Disposed, BytesOf

\* An object is stored where there was none, so no hold and no report speaks of it.
LEMMA PutKeeps ==
    ASSUME EvidenceInv, NEW input, putEvidence(input)
    PROVE  EvidenceInv'
<1> DEFINE id == input.ref.objectId
           object == [ref |-> input.ref, bytes |-> {input.ciphertext}, holds |-> {}]
<1>1. input \in InputType
  BY PresentableFacts DEF putEvidence, EvidenceInv
<1>2. id \in ObjectIds /\ object \in ObjectType
  BY <1>1 DEF InputType, RefType, ObjectType
<1>3. /\ states[id] = {} /\ states' = [states EXCEPT ![id] = {object}]
      /\ UNCHANGED <<sealed, granted, access>>
  BY DEF putEvidence, Storable
<1> HIDE DEF id, object
<1>4. StoreType'
  BY <1>2, <1>3 DEF EvidenceInv, StoreType
<1>5. \A i \in ObjectIds : i # id => states'[i] = states[i]
  BY <1>3 DEF EvidenceInv, StoreType
<1>6. HoldsKept'
  <2>1. \A g \in granted : g[1] \in ObjectIds /\ g[1] # id
    BY <1>3 DEF EvidenceInv, StoreType, HoldsKept
  <2> QED BY <2>1, <1>3, <1>5 DEF EvidenceInv, HoldsKept
<1>7. ReadsBound'
  BY <1>3, <1>5 DEF EvidenceInv, StoreType, ReadsBound, Disposed, BytesOf, RefType
<1> QED BY <1>3, <1>4, <1>6, <1>7 DEF EvidenceInv, SealedBound

\* Where an object was disposed it stays so when only its holds change.
LEMMA RetentionKeeps ==
    ASSUME EvidenceInv, NEW id \in ObjectIds, NEW kept \in SUBSET ObjectType,
           kept = {} => states[id] = {},
           \A n \in kept : \E s \in states[id] : s.bytes = {} => n.bytes = {},
           states' = [states EXCEPT ![id] = kept],
           UNCHANGED <<sealed, access>>
    PROVE  /\ \A i \in ObjectIds : Disposed(i) => Disposed(i)'
           /\ SealedBound' /\ ReadsBound'
           /\ states' \in [ObjectIds -> SUBSET ObjectType]
<1>1. states \in [ObjectIds -> SUBSET ObjectType]
  BY DEF EvidenceInv, StoreType
<1>2. \A i \in ObjectIds : states'[i] = IF i = id THEN kept ELSE states[i]
  BY <1>1
<1>3. \A i \in ObjectIds : Disposed(i) => Disposed(i)'
  <2> SUFFICES ASSUME NEW i \in ObjectIds, Disposed(i) PROVE Disposed(i)'
    OBVIOUS
  <2>1. states[i] # {} /\ \A s \in states[i] : s.bytes = {}
    BY DEF Disposed, BytesOf
  <2>2. states'[i] # {} /\ \A s \in states'[i] : s.bytes = {}
    BY <1>1, <1>2, <2>1
  <2> QED BY <2>2 DEF Disposed, BytesOf
<1>4. ReadsBound'
  BY <1>3 DEF EvidenceInv, ReadsBound, RefType
<1>5. states' \in [ObjectIds -> SUBSET ObjectType]
  BY <1>1
<1> QED BY <1>3, <1>4, <1>5 DEF EvidenceInv, SealedBound

\* A hold is granted while the bytes are there, and other holds are left alone.
LEMMA HoldKeeps ==
    ASSUME EvidenceInv, NEW id \in ObjectIds, NEW hold \in HoldIds, legalHold(id, hold)
    PROVE  EvidenceInv' /\ \A i \in ObjectIds : Disposed(i) => Disposed(i)'
<1> DEFINE F(s) == [s EXCEPT !.holds = @ \cup {hold}]
<1>1. \A s \in ObjectType : /\ F(s) \in ObjectType /\ F(s).bytes = s.bytes
                            /\ F(s).holds = s.holds \cup {hold}
  BY DEF ObjectType
<1>2. /\ states' = [states EXCEPT ![id] = {F(s) : s \in states[id]}]
      /\ UNCHANGED <<sealed, access>>
      /\ granted' = IF BytesOf(id) # {} THEN granted \cup {<<id, hold>>} ELSE granted
  BY DEF legalHold
<1> HIDE DEF F
<1>3. /\ \A i \in ObjectIds : Disposed(i) => Disposed(i)'
      /\ SealedBound' /\ ReadsBound'
      /\ states' \in [ObjectIds -> SUBSET ObjectType]
  <2> DEFINE kept == {F(s) : s \in states[id]}
  <2>1. /\ kept \in SUBSET ObjectType /\ (kept = {} => states[id] = {})
        /\ \A n \in kept : \E s \in states[id] : s.bytes = {} => n.bytes = {}
    BY <1>1 DEF EvidenceInv, StoreType
  <2>2. states' = [states EXCEPT ![id] = kept] /\ UNCHANGED <<sealed, access>>
    BY <1>2
  <2> HIDE DEF kept
  <2> QED BY <2>1, <2>2, RetentionKeeps
<1>4. StoreType'
  BY <1>2, <1>3 DEF EvidenceInv, StoreType
<1>5. HoldsKept'
  <2> SUFFICES ASSUME NEW g \in granted'
               PROVE  \E s \in states'[g[1]] : g[2] \in s.holds /\ s.bytes # {}
    BY DEF HoldsKept
  <2>1. states \in [ObjectIds -> SUBSET ObjectType]
    BY DEF EvidenceInv, StoreType
  <2>2. \A s \in states[id] : F(s) \in states'[id] /\ s \in ObjectType
    BY <1>2, <2>1
  <2>3. CASE g \in granted
    <3>1. g[1] \in ObjectIds
      BY <2>3 DEF EvidenceInv, StoreType
    <3>2. PICK s \in states[g[1]] : g[2] \in s.holds /\ s.bytes # {}
      BY <2>3 DEF EvidenceInv, HoldsKept
    <3>3. CASE g[1] = id
      BY <1>1, <2>2, <3>2, <3>3
    <3>4. CASE g[1] # id
      BY <1>2, <2>1, <3>1, <3>2, <3>4
    <3> QED BY <3>3, <3>4
  <2>4. CASE g = <<id, hold>> /\ BytesOf(id) # {}
    <3>1. PICK s \in states[id] : s.bytes # {}
      BY <2>4 DEF BytesOf
    <3>2. F(s) \in states'[id] /\ hold \in F(s).holds /\ F(s).bytes # {}
      BY <1>1, <2>2, <3>1
    <3> QED BY <2>4, <3>2
  <2> QED BY <1>2, <2>3, <2>4
<1> QED BY <1>3, <1>4, <1>5 DEF EvidenceInv

\* A release ends one hold of one object.
LEMMA ReleaseKeeps ==
    ASSUME EvidenceInv, NEW id \in ObjectIds, NEW hold \in HoldIds, releaseHold(id, hold)
    PROVE  EvidenceInv' /\ \A i \in ObjectIds : Disposed(i) => Disposed(i)'
<1> DEFINE F(s) == [s EXCEPT !.holds = Released(@, hold)]
<1>1. \A s \in ObjectType : /\ F(s) \in ObjectType /\ F(s).bytes = s.bytes
                            /\ F(s).holds = s.holds \ {hold}
  BY DEF ObjectType, Released
<1>2. /\ states' = [states EXCEPT ![id] = {F(s) : s \in states[id]}]
      /\ UNCHANGED <<sealed, access>>
      /\ granted' = granted \ {<<id, hold>>}
  BY DEF releaseHold
<1> HIDE DEF F
<1>3. /\ \A i \in ObjectIds : Disposed(i) => Disposed(i)'
      /\ SealedBound' /\ ReadsBound'
      /\ states' \in [ObjectIds -> SUBSET ObjectType]
  <2> DEFINE kept == {F(s) : s \in states[id]}
  <2>1. /\ kept \in SUBSET ObjectType /\ (kept = {} => states[id] = {})
        /\ \A n \in kept : \E s \in states[id] : s.bytes = {} => n.bytes = {}
    BY <1>1 DEF EvidenceInv, StoreType
  <2>2. states' = [states EXCEPT ![id] = kept] /\ UNCHANGED <<sealed, access>>
    BY <1>2
  <2> HIDE DEF kept
  <2> QED BY <2>1, <2>2, RetentionKeeps
<1>4. StoreType'
  BY <1>2, <1>3 DEF EvidenceInv, StoreType
<1>5. HoldsKept'
  <2> SUFFICES ASSUME NEW g \in granted'
               PROVE  \E s \in states'[g[1]] : g[2] \in s.holds /\ s.bytes # {}
    BY DEF HoldsKept
  <2>1. states \in [ObjectIds -> SUBSET ObjectType]
    BY DEF EvidenceInv, StoreType
  <2>2. g \in granted /\ g # <<id, hold>> /\ g \in ObjectIds \X HoldIds
    BY <1>2 DEF EvidenceInv, StoreType
  <2>3. PICK s \in states[g[1]] : g[2] \in s.holds /\ s.bytes # {}
    BY <2>2 DEF EvidenceInv, HoldsKept
  <2>4. CASE g[1] = id
    <3>1. g[2] # hold
      BY <2>2, <2>4
    <3>2. F(s) \in states'[id] /\ s \in ObjectType
      BY <1>2, <2>1, <2>3, <2>4
    <3> QED BY <1>1, <2>3, <2>4, <3>1, <3>2
  <2>5. CASE g[1] # id
    BY <1>2, <2>1, <2>2, <2>3, <2>5
  <2> QED BY <2>4, <2>5
<1> QED BY <1>3, <1>4, <1>5 DEF EvidenceInv

\* A disposal takes the bytes of an object without holds.
LEMMA DisposeKeeps ==
    ASSUME EvidenceInv, NEW id \in ObjectIds, dispose(id)
    PROVE  EvidenceInv' /\ \A i \in ObjectIds : Disposed(i) => Disposed(i)'
<1> DEFINE F(s) == [s EXCEPT !.bytes = {}]
<1>1. \A s \in ObjectType : F(s) \in ObjectType /\ F(s).bytes = {}
  BY DEF ObjectType
<1>2. /\ states' = [states EXCEPT ![id] = {F(s) : s \in states[id]}]
      /\ UNCHANGED <<sealed, granted, access>>
      /\ \A s \in states[id] : s.holds = {}
  BY DEF dispose
<1> HIDE DEF F
<1>3. /\ \A i \in ObjectIds : Disposed(i) => Disposed(i)'
      /\ SealedBound' /\ ReadsBound'
      /\ states' \in [ObjectIds -> SUBSET ObjectType]
  <2> DEFINE kept == {F(s) : s \in states[id]}
  <2>1. /\ kept \in SUBSET ObjectType /\ (kept = {} => states[id] = {})
        /\ \A n \in kept : \E s \in states[id] : s.bytes = {} => n.bytes = {}
    BY <1>1 DEF EvidenceInv, StoreType
  <2>2. states' = [states EXCEPT ![id] = kept] /\ UNCHANGED <<sealed, access>>
    BY <1>2
  <2> HIDE DEF kept
  <2> QED BY <2>1, <2>2, RetentionKeeps
<1>4. StoreType'
  BY <1>2, <1>3 DEF EvidenceInv, StoreType
<1>5. HoldsKept'
  <2>1. \A g \in granted : g[1] \in ObjectIds /\ g[1] # id
    BY <1>2 DEF EvidenceInv, StoreType, HoldsKept
  <2>2. \A i \in ObjectIds : i # id => states'[i] = states[i]
    BY <1>2 DEF EvidenceInv, StoreType
  <2> QED BY <1>2, <2>1, <2>2 DEF EvidenceInv, HoldsKept
<1> QED BY <1>3, <1>4, <1>5 DEF EvidenceInv

\* A read waits, is reported as the object is, and may then return it.
LEMMA ReadKeeps ==
    ASSUME EvidenceInv, NEW r \in EvidenceReaders,
           (\E ref \in Refs : Get(r, ref)) \/ Decide(r) \/ Return(r)
    PROVE  EvidenceInv'
<1>1. UNCHANGED <<sealed, states, granted>>
  BY DEF Get, Decide, Return
<1>a. access \in [EvidenceReaders -> AccessType]
  BY DEF EvidenceInv, StoreType
<1>2. PICK a \in AccessType : /\ access' = [access EXCEPT ![r] = a]
                              /\ a.stage # "idle" =>
                                   /\ a.ref \in RefType
                                   /\ \E x \in sealed : x.ref.ciphertextDigest = a.ref.ciphertextDigest
                              /\ a.stage # "done" => a.bytes = {}
                              /\ a.stage = "reporting" =>
                                   /\ a.reported # "nothing"
                                   /\ a.reported = "disposed" => Disposed(a.ref.objectId)
  <2>0. access[r] \in AccessType
    BY <1>a
  <2>1. ASSUME NEW ref \in Refs, Get(r, ref)
        PROVE  \E a \in AccessType : /\ access' = [access EXCEPT ![r] = a]
                                     /\ a.stage = "authorizing" /\ a.ref = ref /\ a.bytes = {}
    <3> DEFINE a == [access[r] EXCEPT !.stage = "authorizing", !.ref = ref]
    <3>1. ref \in RefType
      BY <2>1, PresentableFacts DEF Refs, InputType, EvidenceInv
    <3>2. a \in AccessType /\ a.stage = "authorizing" /\ a.ref = ref /\ a.bytes = access[r].bytes
      BY <2>0, <3>1 DEF AccessType
    <3>3. access[r].bytes = {}
      BY <2>1 DEF Get, EvidenceInv, ReadsBound
    <3>4. access' = [access EXCEPT ![r] = a]
      BY <1>a, <2>1 DEF Get
    <3> HIDE DEF a
    <3> QED BY <3>2, <3>3, <3>4
  <2>2. ASSUME NEW ref \in Refs PROVE ref \in RefType /\
                     \E x \in sealed : x.ref.ciphertextDigest = ref.ciphertextDigest
    BY <2>2, PresentableFacts DEF Refs, InputType, EvidenceInv
  <2>3. CASE Decide(r)
    <3>1. PICK report \in {"denied", "missing", "found", "disposed"} :
             /\ access' = [access EXCEPT ![r].stage = "reporting", ![r].reported = report]
             /\ report = "disposed" => Disposed(access[r].ref.objectId)
      BY <2>3 DEF Decide, has, Disposed
    <3> DEFINE a == [access[r] EXCEPT !.stage = "reporting", !.reported = report]
    <3>2. /\ a \in AccessType /\ a.stage = "reporting" /\ a.reported = report
          /\ a.ref = access[r].ref /\ a.bytes = access[r].bytes
      BY <2>0 DEF AccessType
    <3>3. access' = [access EXCEPT ![r] = a]
      BY <1>a, <3>1
    <3>4. /\ access[r].ref \in RefType /\ access[r].bytes = {}
          /\ \E x \in sealed : x.ref.ciphertextDigest = access[r].ref.ciphertextDigest
      BY <2>3 DEF Decide, EvidenceInv, ReadsBound
    <3>5. a.reported = "disposed" => Disposed(a.ref.objectId)
      BY <3>1, <3>2
    <3>6. \E x \in sealed : x.ref.ciphertextDigest = a.ref.ciphertextDigest
      BY <3>2, <3>4
    <3> HIDE DEF a
    <3> QED BY <3>2, <3>3, <3>4, <3>5, <3>6
  <2>4. CASE Return(r)
    <3>1. PICK bytes \in {Returned(r), {}} :
             access' = [access EXCEPT ![r].stage = "done", ![r].bytes = bytes]
      BY <2>4 DEF Return
    <3>2. access[r].stage = "reporting" /\ access[r].ref \in RefType
      BY <2>4 DEF Return, EvidenceInv, ReadsBound
    <3>3. bytes \in SUBSET CipherType
      <4>1. states[access[r].ref.objectId] \in SUBSET ObjectType
        BY <3>2 DEF EvidenceInv, StoreType, RefType
      <4> QED BY <4>1 DEF Returned, BytesOf, ObjectType
    <3> DEFINE a == [access[r] EXCEPT !.stage = "done", !.bytes = bytes]
    <3>4. a \in AccessType /\ a.stage = "done" /\ a.ref = access[r].ref
      BY <2>0, <3>3 DEF AccessType
    <3>5. access' = [access EXCEPT ![r] = a]
      BY <1>a, <3>1
    <3> HIDE DEF a
    <3> QED BY <3>2, <3>4, <3>5 DEF EvidenceInv, ReadsBound
  <2> QED BY <2>1, <2>2, <2>3, <2>4
<1>3. StoreType'
  BY <1>1, <1>2, <1>a DEF EvidenceInv, StoreType
<1>4. ReadsBound'
  BY <1>1, <1>2, <1>a DEF EvidenceInv, ReadsBound, Disposed, BytesOf
<1> QED BY <1>1, <1>3, <1>4 DEF EvidenceInv, SealedBound, HoldsKept

-----------------------------------------------------------------------------
(* The theorem.                                                            *)

\* In every state what a read returned opens only as it was sealed.
LEMMA ReadsOpenAsSealed ==
    ASSUME EvidenceInv
    PROVE  OpensAsSealed
<1> SUFFICES ASSUME NEW r \in EvidenceReaders, NEW bytes \in access[r].bytes,
                    NEW key \in SealingKeys, NEW aad \in EntityData,
                    decrypt([ref |-> access[r].ref, ciphertext |-> bytes], key, aad) # {}
             PROVE  \E input \in sealed :
                        /\ input.ref.ciphertextDigest = access[r].ref.ciphertextDigest
                        /\ input.ciphertext.key = key /\ input.ref.aadDigest = aad
                        /\ decrypt([ref |-> access[r].ref, ciphertext |-> bytes], key, aad)
                             = {input.ciphertext.plain}
  BY DEF OpensAsSealed
<1>1. /\ access[r].ref.ciphertextDigest = bytes /\ bytes.key = key /\ bytes.aad = aad
      /\ decrypt([ref |-> access[r].ref, ciphertext |-> bytes], key, aad) = {bytes.plain}
  BY DEF decrypt
<1>2. PICK x \in sealed : x.ref.ciphertextDigest = access[r].ref.ciphertextDigest
  <2>1. access[r].stage \in {"idle", "done"} \/ access[r].stage # "idle"
    OBVIOUS
  <2> QED BY DEF EvidenceInv, ReadsBound
<1>3. x.ciphertext = bytes /\ x.ref.aadDigest = aad
  BY <1>1, <1>2 DEF EvidenceInv, SealedBound
<1> QED BY <1>1, <1>2, <1>3

\* A read that ends with bytes was reported as found and what it names is not disposed.
LEMMA ReadReported ==
    ASSUME EvidenceInv, NEW r \in EvidenceReaders, NEW q \in EvidenceReaders, Return(q),
           access[r].stage = "reporting", access'[r].bytes # {}
    PROVE  access[r].reported = "found" /\ ~ Disposed(access[r].ref.objectId)
<1>a. access \in [EvidenceReaders -> AccessType]
  BY DEF EvidenceInv, StoreType
<1>1. PICK bytes \in {Returned(q), {}} :
         access' = [access EXCEPT ![q].stage = "done", ![q].bytes = bytes]
  BY DEF Return
<1>2. access[r].bytes = {}
  BY DEF EvidenceInv, ReadsBound
<1>3. q = r
  BY <1>a, <1>1, <1>2
<1>4. access'[r].bytes = bytes
  BY <1>a, <1>1, <1>3 DEF AccessType
<1>5. Returned(r) # {}
  BY <1>1, <1>3, <1>4
<1>6. access[r].reported \notin {"denied", "missing"} /\ BytesOf(access[r].ref.objectId) # {}
  BY <1>5 DEF Returned
<1>7. ~ Disposed(access[r].ref.objectId)
  BY <1>6 DEF Disposed
<1>8. access[r].reported \in {"nothing", "denied", "missing", "found", "disposed"}
  BY <1>a DEF AccessType
<1> QED BY <1>6, <1>7, <1>8 DEF EvidenceInv, ReadsBound

\* Every step keeps the invariant and what is disposed.
LEMMA EvidenceStep ==
    ASSUME EvidenceInv, [EvidenceNext]_evidenceVars
    PROVE  /\ EvidenceInv'
           /\ \A id \in ObjectIds : Disposed(id) => Disposed(id)'
           /\ \A r \in EvidenceReaders : access[r].stage = "reporting" /\ access'[r].bytes # {} =>
                access[r].reported = "found" /\ ~ Disposed(access[r].ref.objectId)
<1>b. \A r \in EvidenceReaders : access[r].stage = "reporting" => access[r].bytes = {}
  BY DEF EvidenceInv, ReadsBound
<1>d. UNCHANGED states => \A id \in ObjectIds : Disposed(id) => Disposed(id)'
  BY DEF Disposed, BytesOf
<1>1. CASE Seal
  BY <1>1, <1>b, <1>d, SealKeeps DEF Seal
<1>2. ASSUME NEW input \in Presentable, putEvidence(input)
      PROVE  EvidenceInv' /\ UNCHANGED access /\ \A id \in ObjectIds : Disposed(id) => Disposed(id)'
  <2>1. /\ states' = [states EXCEPT ![input.ref.objectId] =
                         {[ref |-> input.ref, bytes |-> {input.ciphertext}, holds |-> {}]}]
        /\ states[input.ref.objectId] = {}
    BY <1>2 DEF putEvidence, Storable
  <2>2. \A id \in ObjectIds : Disposed(id) => id # input.ref.objectId /\ states'[id] = states[id]
    BY <2>1 DEF Disposed, EvidenceInv, StoreType
  <2> QED BY <1>2, <2>2, PutKeeps DEF putEvidence, Disposed, BytesOf
<1>3. ASSUME NEW r \in EvidenceReaders, (\E ref \in Refs : Get(r, ref)) \/ Decide(r)
      PROVE  EvidenceInv' /\ UNCHANGED states /\ \A q \in EvidenceReaders : access'[q].bytes = access[q].bytes
  <2>1. EvidenceInv' /\ UNCHANGED states
    BY <1>3, ReadKeeps DEF Get, Decide
  <2> QED BY <1>3, <2>1 DEF Get, Decide, EvidenceInv, StoreType, AccessType
<1>4. ASSUME NEW r \in EvidenceReaders, Return(r)
      PROVE  EvidenceInv' /\ UNCHANGED states
  BY <1>4, ReadKeeps DEF Return
<1>5. ASSUME NEW id \in ObjectIds,
             dispose(id) \/ \E hold \in HoldIds : legalHold(id, hold) \/ releaseHold(id, hold)
      PROVE  EvidenceInv' /\ UNCHANGED access /\ \A i \in ObjectIds : Disposed(i) => Disposed(i)'
  BY <1>5, HoldKeeps, ReleaseKeeps, DisposeKeeps DEF dispose, legalHold, releaseHold
<1>6. CASE UNCHANGED evidenceVars
  BY <1>6, <1>b, <1>d
     DEF evidenceVars, EvidenceInv, StoreType, SealedBound, HoldsKept, ReadsBound, Disposed, BytesOf
<1> QED BY <1>1, <1>2, <1>3, <1>4, <1>5, <1>6, <1>b, <1>d, ReadReported DEF EvidenceNext

\* Under any interleaving of reads, puts, holds, releases and disposals: evidence under
\* a legal hold stays, what is disposed never comes back nor is returned afterwards, a
\* read returns bytes only if it was reported as finding them, and they open only as
\* they were sealed (MemoryAuditEvidenceProvider, WebCryptoEvidenceEncryptor).
THEOREM EvidenceIsGoverned == EvidenceSpec => EvidenceGoverned
<1> DEFINE Governed ==
        /\ OpensAsSealed
        /\ \A g \in granted : BytesOf(g[1]) # {}
        /\ \A id \in ObjectIds : Disposed(id) => Disposed(id)'
        /\ \A r \in EvidenceReaders : access[r].stage = "reporting" /\ access'[r].bytes # {} =>
             access[r].reported = "found" /\ ~ Disposed(access[r].ref.objectId)
<1>1. EvidenceInit => EvidenceInv
  <2> SUFFICES ASSUME EvidenceInit PROVE EvidenceInv
    OBVIOUS
  <2>1. StoreType
    BY FS_EmptySet DEF EvidenceInit, StoreType, AccessType, NoAccess
  <2> QED BY <2>1 DEF EvidenceInit, EvidenceInv, SealedBound, HoldsKept, ReadsBound, NoAccess
<1>2. EvidenceInv /\ [EvidenceNext]_evidenceVars => EvidenceInv'
  BY EvidenceStep
<1>3. EvidenceInv /\ [EvidenceNext]_evidenceVars => [Governed]_evidenceVars
  BY EvidenceStep, ReadsOpenAsSealed DEF EvidenceInv, HoldsKept, BytesOf
<1> HIDE DEF Governed
<1>4. EvidenceSpec => [][Governed]_evidenceVars
  BY <1>1, <1>2, <1>3, PTL DEF EvidenceSpec
<1> QED BY <1>4 DEF EvidenceGoverned, Governed
=============================================================================
