------------------------- MODULE AuditEvidenceProofs -------------------------
(***************************************************************************)
(* Machine-checked proofs about AuditEvidence, for any calls, builders,    *)
(* observers, anchors, deliveries, readers and workers: every copy of the  *)
(* ledger is a beginning of one signed history, and one builder's          *)
(* checkpoints chain over one history with none of their hooks lost.       *)
(***************************************************************************)
EXTENDS AuditEvidence, FiniteSetTheorems, SequenceTheorems, WellFoundedInduction, TLAPS

-----------------------------------------------------------------------------
(* Histories: the journal, and what a restore took back.                   *)

\* A sequence over its own elements.
Listed(s) == s \in Seq(ToSet(s))

\* A history the recorder signed: each entry names its position and, by digest,
\* the entry before it.
SignedHistory(h) ==
    /\ Listed(h)
    /\ \A i \in 1..Len(h) :
          /\ h[i].core.sequence = i - 1
          /\ h[i].core.previous = IF i = 1 THEN NoDigest ELSE h[i - 1].entryDigest
          /\ h[i] = SignEntry(TheLedger, h[i].core.sequence, h[i].core.previous,
                              h[i].core.event, h[i].core.at, Recorder)

\* The sequence s is the beginning of h.
Begins(s, h) ==
    Listed(s) /\ Len(s) <= Len(h) /\ \A i \in 1..Len(s) : s[i] = h[i]

\* A sequence, its length and its elements.
LEMMA ListFacts ==
    ASSUME NEW S, NEW s \in Seq(S)
    PROVE  /\ Len(s) \in Nat /\ DOMAIN s = 1..Len(s) /\ Listed(s)
           /\ ToSet(s) \subseteq S
           /\ (s = <<>>) = (Len(s) = 0)
           /\ \A i \in 1..Len(s) : s[i] \in S /\ s[i] \in ToSet(s)
           /\ \A x \in ToSet(s) : \E i \in 1..Len(s) : s[i] = x
<1>1. PICK n \in Nat : n = Len(s) /\ DOMAIN s = 1..n /\ s \in [1..n -> S]
  BY LenProperties
<1>2. (s = <<>>) = (Len(s) = 0)  BY EmptySeq
<1>3. \A i \in 1..n : s[i] \in S /\ s[i] \in ToSet(s)  BY <1>1 DEF ToSet
<1>4. s \in [1..n -> ToSet(s)]  BY <1>1, <1>3
<1>5. Listed(s)  BY <1>4, SeqDef DEF Listed
<1> QED  BY <1>1, <1>2, <1>3, <1>5 DEF ToSet

\* The same of a list.
LEMMA ListedFacts ==
    ASSUME NEW s, Listed(s)
    PROVE  /\ Len(s) \in Nat /\ DOMAIN s = 1..Len(s) /\ s \in Seq(ToSet(s))
           /\ (s = <<>>) = (Len(s) = 0)
           /\ \A i \in 1..Len(s) : s[i] \in ToSet(s)
           /\ \A x \in ToSet(s) : \E i \in 1..Len(s) : s[i] = x
<1>1. s \in Seq(ToSet(s))  BY DEF Listed
<1> HIDE DEF Listed
<1>2. \A S : s \in Seq(S) =>
          /\ Len(s) \in Nat /\ DOMAIN s = 1..Len(s)
          /\ (s = <<>>) = (Len(s) = 0)
          /\ \A i \in 1..Len(s) : s[i] \in ToSet(s)
          /\ \A x \in ToSet(s) : \E i \in 1..Len(s) : s[i] = x
  <2> TAKE S
  <2> HAVE s \in Seq(S)
  <2> QED  BY ListFacts
<1> QED  BY <1>1, <1>2

\* The empty list.
LEMMA NothingListed ==
    /\ Listed(<<>>) /\ Len(<<>>) = 0 /\ ToSet(<<>>) = {}
    /\ \A h : Listed(h) => Begins(<<>>, h)
    /\ SignedHistory(<<>>)
<1>1. <<>> \in Seq({}) /\ Len(<<>>) = 0  BY EmptySeq
<1>2. Listed(<<>>) /\ ToSet(<<>>) \subseteq {}
  <2>1. ASSUME NEW s \in Seq({})  PROVE Listed(s) /\ ToSet(s) \subseteq {}
    BY ListFacts
  <2> QED  BY <1>1, <2>1
<1>3. \A h : Listed(h) => Len(h) \in Nat  BY ListedFacts
<1>4. \A i \in Nat : i \notin 1..0  OBVIOUS
<1>5. SignedHistory(<<>>)  BY <1>1, <1>2, <1>4 DEF SignedHistory
<1>6. ASSUME NEW h, Listed(h)  PROVE Begins(<<>>, h)
  <2>1. Len(h) \in Nat  BY <1>3, <1>6
  <2> QED  BY <1>1, <1>2, <1>4, <2>1 DEF Begins
<1> QED  BY <1>1, <1>2, <1>5, <1>6

\* One more element.
LEMMA AppendListed ==
    ASSUME NEW s, Listed(s), NEW x
    PROVE  /\ Listed(Append(s, x)) /\ Len(Append(s, x)) = Len(s) + 1
           /\ \A i \in 1..Len(s) : Append(s, x)[i] = s[i]
           /\ Append(s, x)[Len(s) + 1] = x
           /\ Begins(s, Append(s, x))
           /\ ToSet(Append(s, x)) = ToSet(s) \cup {x}
<1> DEFINE T == ToSet(s) \cup {x}
           g == Append(s, x)
<1>1. s \in Seq(T)  BY ListedFacts, SeqMonotonic
<1>2. /\ g \in Seq(T) /\ Len(g) = Len(s) + 1 /\ \A i \in 1..Len(s) : g[i] = s[i]
      /\ g[Len(s) + 1] = x
  BY <1>1, AppendProperties
<1>3. PICK n \in Nat : n = Len(s)  BY ListedFacts
<1>4. Listed(g) /\ ToSet(g) \subseteq T /\ \A i \in 1..(n + 1) : g[i] \in ToSet(g)
  BY <1>2, <1>3, ListFacts
<1> HIDE DEF g
<1>5. T \subseteq ToSet(g)
  <2>1. x \in ToSet(g)  BY <1>2, <1>3, <1>4
  <2>2. ASSUME NEW y \in ToSet(s)  PROVE y \in ToSet(g)
    <3>1. PICK i \in 1..n : s[i] = y  BY <1>3, <2>2, ListedFacts
    <3> QED  BY <1>2, <1>3, <1>4, <3>1
  <2> QED  BY <2>1, <2>2
<1>6. Begins(s, g)  BY <1>2, <1>3 DEF Begins
<1> QED  BY <1>2, <1>4, <1>5, <1>6 DEF g

\* The first n elements.
LEMMA FirstListed ==
    ASSUME NEW h, Listed(h), NEW n \in Nat, n <= Len(h)
    PROVE  /\ Listed(SubSeq(h, 1, n)) /\ Len(SubSeq(h, 1, n)) = n
           /\ \A i \in 1..n : SubSeq(h, 1, n)[i] = h[i]
           /\ Begins(SubSeq(h, 1, n), h)
<1>1. PICK m \in Nat : m = Len(h) /\ \A i \in 1..m : h[i] \in ToSet(h)  BY ListedFacts
<1>2. \A i \in 1..n : h[i] \in ToSet(h)  BY <1>1
<1> DEFINE g == SubSeq(h, 1, n)
<1>3. g \in Seq(ToSet(h)) /\ Len(g) = (IF 1 <= n THEN n - 1 + 1 ELSE 0)
      /\ \A i \in 1..n - 1 + 1 : g[i] = h[1 + i - 1]
  BY <1>2, SubSeqProperties
<1> HIDE DEF g
<1>4. Len(g) = n /\ n - 1 + 1 = n  BY <1>3
<1>5. \A i \in 1..n : g[i] = h[i]
  <2> TAKE i \in 1..n
  <2>1. 1 + i - 1 = i  OBVIOUS
  <2> QED  BY <1>3, <1>4, <2>1
<1>6. Listed(g)  BY <1>3, ListFacts
<1> QED  BY <1>1, <1>4, <1>5, <1>6 DEF Begins, g

\* Two lists with the same elements are equal.
LEMMA ListsEqual ==
    ASSUME NEW s, NEW t, Listed(s), Listed(t), Len(s) = Len(t),
           \A i \in 1..Len(s) : s[i] = t[i]
    PROVE  s = t
<1>1. s \in Seq(ToSet(s) \cup ToSet(t)) /\ t \in Seq(ToSet(s) \cup ToSet(t))
  BY ListedFacts, SeqMonotonic
<1> QED  BY <1>1, SeqEqual

\* A beginning is the first elements of the history.
LEMMA BeginsIsPrefix ==
    ASSUME NEW s, NEW h, Listed(h), Begins(s, h)
    PROVE  /\ s = SubSeq(h, 1, Len(s)) /\ IsPrefix(s, h) /\ Listed(s)
           /\ \A n \in Nat : n <= Len(s) => SubSeq(s, 1, n) = SubSeq(h, 1, n)
<1>1. Listed(s) /\ Len(s) \in Nat /\ Len(h) \in Nat /\ Len(s) <= Len(h)
  BY ListedFacts DEF Begins
<1>2. ASSUME NEW n \in Nat, n <= Len(s)  PROVE SubSeq(s, 1, n) = SubSeq(h, 1, n)
  <2>1. /\ Listed(SubSeq(s, 1, n)) /\ Len(SubSeq(s, 1, n)) = n
        /\ \A i \in 1..n : SubSeq(s, 1, n)[i] = s[i]
    BY <1>1, <1>2, FirstListed
  <2>2. /\ Listed(SubSeq(h, 1, n)) /\ Len(SubSeq(h, 1, n)) = n
        /\ \A i \in 1..n : SubSeq(h, 1, n)[i] = h[i]
    BY <1>1, <1>2, FirstListed
  <2>3. \A i \in 1..n : s[i] = h[i]  BY <1>1, <1>2 DEF Begins
  <2> QED  BY <2>1, <2>2, <2>3, ListsEqual
<1>3. SubSeq(s, 1, Len(s)) = s  BY <1>1, ListedFacts, SubSeqFull
<1>4. s = SubSeq(h, 1, Len(s))  BY <1>1, <1>2, <1>3
<1> QED  BY <1>1, <1>2, <1>3, <1>4 DEF IsPrefix

\* Beginnings of beginnings.
LEMMA BeginsOn ==
    ASSUME NEW s, NEW g, NEW h, Listed(g), Listed(h), Begins(s, g), Begins(g, h)
    PROVE  Begins(s, h)
<1>1. Len(s) \in Nat /\ Len(g) \in Nat /\ Len(h) \in Nat  BY ListedFacts DEF Begins
<1> QED  BY <1>1 DEF Begins

\* What an entry's digest says.
LEMMA EntryDigest ==
    ASSUME NEW l, NEW n, NEW p, NEW e, NEW t, NEW r
    PROVE  LET x == SignEntry(l, n, p, e, t, r) IN
           /\ x.core.sequence = n /\ x.core.previous = p /\ x.core.event = e
           /\ x.core.at = t /\ x.entryDigest = <<"entry", x.core>>
           /\ x.entryDigest # NoDigest
<1>1. \A y : <<"entry", y>> # <<"none">>  OBVIOUS
<1> QED  BY <1>1 DEF SignEntry, digestAuditEntry, hashAuditValue, NoDigest

\* What an entry of a signed history says, and its digest.
LEMMA SignedFacts ==
    ASSUME NEW h, SignedHistory(h), NEW i \in 1..Len(h)
    PROVE  /\ i \in Nat /\ Len(h) \in Nat /\ i # 0
           /\ h[i].core.sequence = i - 1
           /\ h[i].core.previous = IF i = 1 THEN NoDigest ELSE h[i - 1].entryDigest
           /\ h[i].entryDigest = <<"entry", h[i].core>>
           /\ h[i].entryDigest # NoDigest
<1>1. Len(h) \in Nat  BY ListedFacts DEF SignedHistory
<1>2. h[i] = SignEntry(TheLedger, h[i].core.sequence, h[i].core.previous,
                       h[i].core.event, h[i].core.at, Recorder)
  BY DEF SignedHistory
<1>3. h[i].entryDigest = <<"entry", h[i].core>> /\ h[i].entryDigest # NoDigest
  BY <1>2, EntryDigest
<1> QED  BY <1>1, <1>3 DEF SignedHistory

\* Two entries of signed histories with one digest are one entry.
LEMMA DigestsTell ==
    ASSUME NEW h, NEW g, SignedHistory(h), SignedHistory(g),
           NEW i \in 1..Len(h), NEW j \in 1..Len(g),
           h[i].entryDigest = g[j].entryDigest
    PROVE  i = j /\ h[i] = g[j]
<1>1. /\ h[i].entryDigest = <<"entry", h[i].core>> /\ h[i].core.sequence = i - 1
      /\ i \in Nat /\ j \in Nat
      /\ g[j].entryDigest = <<"entry", g[j].core>> /\ g[j].core.sequence = j - 1
  BY SignedFacts
<1>2. h[i].core = g[j].core
  <2>1. \A x, y : <<"entry", x>> = <<"entry", y>> => x = y  OBVIOUS
  <2> QED  BY <1>1, <2>1
<1>3. i = j
  <2>1. i - 1 = j - 1  BY <1>1, <1>2
  <2> QED  BY <1>1, <2>1
<1>4. h[i] = SignEntry(TheLedger, h[i].core.sequence, h[i].core.previous,
                       h[i].core.event, h[i].core.at, Recorder)
  BY DEF SignedHistory
<1>5. g[j] = SignEntry(TheLedger, g[j].core.sequence, g[j].core.previous,
                       g[j].core.event, g[j].core.at, Recorder)
  BY DEF SignedHistory
<1> QED  BY <1>2, <1>3, <1>4, <1>5

\* Every set of numbers has a least one.
LEMMA LeastOf ==
    ASSUME NEW S \in SUBSET Nat, S # {}
    PROVE  \E n \in S : \A k \in S : n <= k
<1>1. PICK n \in S : \A k \in S : ~ (<<k, n>> \in OpToRel(<, Nat))
  BY NatLessThanWellFounded, WFMin
<1>2. \A k \in S : ~ (k < n)  BY <1>1 DEF OpToRel
<1> QED  BY <1>2

\* A digest stands for everything before it: two signed histories that hold it
\* agree up to it.
LEMMA DigestsCommit ==
    ASSUME NEW h, NEW g, SignedHistory(h), SignedHistory(g),
           NEW i \in 1..Len(h), NEW j \in 1..Len(g),
           h[i].entryDigest = g[j].entryDigest
    PROVE  i = j /\ \A k \in 1..i : h[k] = g[k]
<1>1. i = j /\ h[i] = g[j] /\ i \in Nat /\ Len(h) \in Nat /\ Len(g) \in Nat
  BY DigestsTell, SignedFacts
<1> DEFINE S == {d \in Nat : d < i /\ h[i - d] # g[i - d]}
<1>2. S = {}
  <2>1. SUFFICES ASSUME S # {}  PROVE FALSE  OBVIOUS
  <2>2. S \in SUBSET Nat  OBVIOUS
  <2>3. PICK d \in S : \A e \in S : d <= e  BY <2>1, <2>2, LeastOf
  <2>4. d \in Nat /\ d < i /\ h[i - d] # g[i - d]  BY <2>3
  <2>5. d # 0
    <3>1. i - 0 = i  BY <1>1
    <3> QED  BY <1>1, <2>4, <3>1
  <2>6. d - 1 \in Nat /\ d - 1 < i /\ d - 1 \notin S  BY <1>1, <2>3, <2>4, <2>5
  <2>7. PICK k \in Nat : k = i - d /\ k + 1 = i - (d - 1) /\ k >= 1 /\ k + 1 <= i
    BY <1>1, <2>4, <2>5
  <2>8. h[k + 1] = g[k + 1]  BY <2>6, <2>7
  <2>9. /\ k \in 1..Len(h) /\ k \in 1..Len(g) /\ k + 1 \in 1..Len(h)
        /\ k + 1 \in 1..Len(g) /\ k + 1 # 1 /\ (k + 1) - 1 = k
    BY <1>1, <2>7
  <2>10. h[k + 1].core.previous = h[k].entryDigest  BY <2>9, SignedFacts
  <2>11. g[k + 1].core.previous = g[k].entryDigest  BY <2>9, SignedFacts
  <2>12. h[k] = g[k]  BY <2>8, <2>9, <2>10, <2>11, DigestsTell
  <2> QED  BY <2>4, <2>7, <2>12
<1>3. ASSUME NEW k \in 1..i  PROVE h[k] = g[k]
  <2>1. i - k \in Nat /\ i - k < i /\ i - (i - k) = k  BY <1>1
  <2>2. i - k \notin S  BY <1>2
  <2> QED  BY <2>1, <2>2
<1> QED  BY <1>1, <1>3

-----------------------------------------------------------------------------
(* The ledger: what is signed is not taken out of both histories.          *)

Histories == {journal, lost}

HistoryInv ==
    /\ SignedHistory(journal) /\ SignedHistory(lost)
    /\ lost # <<>> => journal # <<>>

\* The sequence is the beginning of a signed history.
Copies(s) == \E h \in Histories : Begins(s, h)

\* The entry is one of a signed history.
Recorded(x) == \E h \in Histories : \E i \in 1..Len(h) : h[i] = x

\* What a step does to the histories: none of them is taken back, and before a
\* restore the journal is only added to.
HistoryMoves ==
    /\ setting' = setting
    /\ HistoryInv'
    /\ \A h \in Histories : \E g \in Histories' : Begins(h, g)
    /\ lost' = <<>> => lost = <<>> /\ Begins(journal, journal')
    /\ journal # <<>> => journal' # <<>>

HistoryStep == Record \/ Restore

DeliverySteps == \E d \in DOMAIN Deliveries : DeliveryStep(d)
ReaderSteps == \E r \in Readers : ReaderStep(r)
WorkerSteps == (\E w \in Workers : WorkerStep(w))
               \/ ReconcileHead \/ ReconcileOffset \/ ReconcileJudge
CallSteps == \E c \in Calls : CallStep(c)

\* A list begins itself.
LEMMA BeginsItself ==
    ASSUME NEW h, Listed(h)
    PROVE  Begins(h, h)
BY ListedFacts DEF Begins

\* What was copied or recorded stays so.
LEMMA CopiesStay ==
    ASSUME HistoryInv, HistoryMoves
    PROVE  /\ \A s : Copies(s) => Copies(s)'
           /\ \A x : Recorded(x) => Recorded(x)'
<1>1. /\ \A h \in Histories : Listed(h) /\ Len(h) \in Nat
      /\ \A g \in Histories' : Listed(g) /\ Len(g) \in Nat
  <2>1. \A h : SignedHistory(h) => Listed(h) /\ Len(h) \in Nat
    BY ListedFacts DEF SignedHistory
  <2> QED  BY <2>1 DEF HistoryInv, HistoryMoves, Histories
<1>2. ASSUME NEW s, Copies(s)  PROVE Copies(s)'
  <2>1. PICK h \in Histories : Begins(s, h)  BY <1>2 DEF Copies
  <2>2. PICK g \in Histories' : Begins(h, g)  BY DEF HistoryMoves
  <2>3. Begins(s, g)  BY <1>1, <2>1, <2>2, BeginsOn
  <2> QED  BY <2>3 DEF Copies
<1>3. ASSUME NEW x, Recorded(x)  PROVE Recorded(x)'
  <2>1. PICK h \in Histories : \E i \in 1..Len(h) : h[i] = x  BY <1>3 DEF Recorded
  <2>2. PICK i \in 1..Len(h) : h[i] = x  BY <2>1
  <2>3. PICK g \in Histories' : Begins(h, g)  BY DEF HistoryMoves
  <2>4. i \in 1..Len(g) /\ g[i] = x  BY <1>1, <2>2, <2>3 DEF Begins
  <2> QED  BY <2>4 DEF Recorded
<1> QED  BY <1>2, <1>3

\* A signed history with its next entry.
LEMMA SignNext ==
    ASSUME NEW h, SignedHistory(h), NEW e, NEW t, NEW g,
           g = Append(h, SignEntry(TheLedger, Len(h), HeadDigest(h), e, t, Recorder))
    PROVE  SignedHistory(g) /\ Begins(h, g) /\ g # <<>>
<1> DEFINE x == SignEntry(TheLedger, Len(h), HeadDigest(h), e, t, Recorder)
<1>1. Listed(h) /\ Len(h) \in Nat  BY ListedFacts DEF SignedHistory
<1>2. /\ x.core.sequence = Len(h) /\ x.core.previous = HeadDigest(h)
      /\ x.core.event = e /\ x.core.at = t
  BY EntryDigest
<1>3. x = SignEntry(TheLedger, x.core.sequence, x.core.previous,
                    x.core.event, x.core.at, Recorder)
  BY <1>2
<1> HIDE DEF x
<1>4. /\ Listed(g) /\ Len(g) = Len(h) + 1 /\ g[Len(h) + 1] = x
      /\ \A i \in 1..Len(h) : g[i] = h[i]
      /\ Begins(h, g)
  BY <1>1, AppendListed DEF x
<1>5. (g = <<>>) = (Len(g) = 0)  BY <1>4, ListedFacts
<1>6. PICK n \in Nat : n = Len(h)  BY <1>1
<1>7. (h = <<>>) = (n = 0)  BY <1>1, <1>6, ListedFacts
<1>8. ASSUME NEW i \in 1..(n + 1)
      PROVE  /\ g[i].core.sequence = i - 1
             /\ g[i].core.previous = IF i = 1 THEN NoDigest ELSE g[i - 1].entryDigest
             /\ g[i] = SignEntry(TheLedger, g[i].core.sequence, g[i].core.previous,
                                 g[i].core.event, g[i].core.at, Recorder)
  <2>1. CASE i = n + 1
    <3>1. g[i] = x /\ i - 1 = n  BY <1>4, <1>6, <2>1
    <3>2. HeadDigest(h) = IF i = 1 THEN NoDigest ELSE g[i - 1].entryDigest
      <4>1. CASE n = 0  BY <1>6, <1>7, <2>1, <4>1 DEF HeadDigest
      <4>2. CASE n # 0
        <5>1. g[n] = h[n] /\ i # 1  BY <1>4, <1>6, <2>1, <4>2
        <5> QED  BY <1>6, <1>7, <3>1, <4>2, <5>1 DEF HeadDigest
      <4> QED  BY <4>1, <4>2
    <3> QED  BY <1>2, <1>3, <1>6, <3>1, <3>2
  <2>2. CASE i # n + 1
    <3>1. i \in 1..n /\ g[i] = h[i]  BY <1>4, <1>6, <2>2
    <3>2. i # 1 => g[i - 1] = h[i - 1]
      <4>1. i # 1 => i - 1 \in 1..n  BY <3>1
      <4> QED  BY <1>4, <1>6, <4>1
    <3>3. /\ h[i].core.sequence = i - 1
          /\ h[i].core.previous = IF i = 1 THEN NoDigest ELSE h[i - 1].entryDigest
          /\ h[i] = SignEntry(TheLedger, h[i].core.sequence, h[i].core.previous,
                              h[i].core.event, h[i].core.at, Recorder)
      BY <1>6, <3>1 DEF SignedHistory
    <3> QED  BY <3>1, <3>2, <3>3
  <2> QED  BY <2>1, <2>2
<1>9. SignedHistory(g)  BY <1>4, <1>6, <1>8 DEF SignedHistory
<1> QED  BY <1>4, <1>5, <1>6, <1>9

\* The first entries of a signed history.
LEMMA SignedFirst ==
    ASSUME NEW h, SignedHistory(h), NEW n \in Nat, n <= Len(h)
    PROVE  SignedHistory(SubSeq(h, 1, n))
<1> DEFINE g == SubSeq(h, 1, n)
<1>1. Listed(h) /\ Len(h) \in Nat  BY ListedFacts DEF SignedHistory
<1>2. Listed(g) /\ Len(g) = n /\ \A i \in 1..n : g[i] = h[i]  BY <1>1, FirstListed
<1> HIDE DEF g
<1>3. ASSUME NEW i \in 1..n
      PROVE  /\ g[i].core.sequence = i - 1
             /\ g[i].core.previous = IF i = 1 THEN NoDigest ELSE g[i - 1].entryDigest
             /\ g[i] = SignEntry(TheLedger, g[i].core.sequence, g[i].core.previous,
                                 g[i].core.event, g[i].core.at, Recorder)
  <2>1. i \in 1..Len(h) /\ g[i] = h[i] /\ (i # 1 => i - 1 \in 1..n)  BY <1>1, <1>2
  <2>2. i # 1 => g[i - 1] = h[i - 1]  BY <1>2, <2>1
  <2>3. /\ h[i].core.sequence = i - 1
        /\ h[i].core.previous = IF i = 1 THEN NoDigest ELSE h[i - 1].entryDigest
        /\ h[i] = SignEntry(TheLedger, h[i].core.sequence, h[i].core.previous,
                            h[i].core.event, h[i].core.at, Recorder)
    BY <2>1 DEF SignedHistory
  <2> QED  BY <2>1, <2>2, <2>3
<1> QED  BY <1>2, <1>3 DEF SignedHistory, g

\* A step and what it may touch.
LEMMA StepKinds ==
    ASSUME Next
    PROVE  \/ HistoryStep
           \/ CallSteps
           \/ DeliverySteps \/ ReaderSteps \/ WorkerSteps
           \/ UNCHANGED <<setting, clock, journal, lost, callVars, publicVars,
                          mirrorVars, viewVars>>
BY DEF Next, HistoryStep, CallSteps, DeliverySteps, ReaderSteps, WorkerSteps, Export

\* Recording and restoring touch no copy and no call.
LEMMA HistoryFrame ==
    ASSUME HistoryStep
    PROVE  UNCHANGED <<callVars, mirrorVars, reader, projectionVars>>
BY DEF HistoryStep, Record, Restore, viewVars

\* A call touches neither the histories nor a copy.
LEMMA CallFrame ==
    ASSUME CallSteps
    PROVE  UNCHANGED <<setting, journal, lost, mirrorVars, reader, projectionVars>>
<1>1. PICK c \in Calls : CallStep(c)  BY DEF CallSteps
<1> USE DEF viewVars
<1>2. CASE StartCheckpoint(c)  BY <1>2 DEF StartCheckpoint
<1>3. CASE ReadHead(c)  BY <1>3 DEF ReadHead
<1>4. CASE ReadEntries(c)  BY <1>4 DEF ReadEntries
<1>5. CASE SignLatest(c)  BY <1>5 DEF SignLatest
<1>6. CASE PutCheckpoint(c)  BY <1>6 DEF PutCheckpoint
<1>7. CASE TakeHooks(c)  BY <1>7 DEF TakeHooks
<1>8. CASE HookCompletes(c)  BY <1>8 DEF HookCompletes
<1>9. CASE HookFails(c)  BY <1>9 DEF HookFails
<1>10. CASE \E o \in Observers : PublishObserver(c, o)  BY <1>10 DEF PublishObserver
<1>11. CASE ObserversDone(c)  BY <1>11 DEF ObserversDone
<1>12. CASE \E a \in setting.anchors : PublishAnchor(c, a)  BY <1>12 DEF PublishAnchor
<1>13. CASE FinishPublication(c)  BY <1>13 DEF FinishPublication
<1> QED  BY <1>1, <1>2, <1>3, <1>4, <1>5, <1>6, <1>7, <1>8, <1>9, <1>10, <1>11,
            <1>12, <1>13 DEF CallStep

\* A delivery touches the mirror only.
LEMMA DeliveryFrame ==
    ASSUME DeliverySteps
    PROVE  UNCHANGED <<setting, journal, lost, callVars, reader, projectionVars>>
<1>1. PICK d \in DOMAIN Deliveries : DeliveryStep(d)  BY DEF DeliverySteps
<1> USE DEF viewVars
<1>2. CASE IngestLookup(d)  BY <1>2 DEF IngestLookup
<1>3. CASE IngestHead(d)  BY <1>3 DEF IngestHead
<1>4. CASE IngestAppend(d)  BY <1>4 DEF IngestAppend
<1>5. CASE IngestRetry(d)  BY <1>5 DEF IngestRetry
<1> QED  BY <1>1, <1>2, <1>3, <1>4, <1>5 DEF DeliveryStep

\* A reader touches its pages only.
LEMMA ReaderFrame ==
    ASSUME ReaderSteps
    PROVE  UNCHANGED <<setting, journal, lost, callVars, mirrorVars, projectionVars>>
BY DEF ReaderSteps, ReaderStep, ListHead, ListPage

\* A worker touches the projection only.
LEMMA WorkerFrame ==
    ASSUME WorkerSteps
    PROVE  UNCHANGED <<setting, journal, lost, callVars, mirrorVars, reader>>
BY DEF WorkerSteps, WorkerStep, SyncStart, SyncOffset, SyncNext, SyncApply,
       ReconcileHead, ReconcileOffset, ReconcileJudge

\* What each step does to the histories.
LEMMA HistoryKept ==
    ASSUME HistoryInv, [Next]_vars
    PROVE  HistoryMoves
<1>1. CASE UNCHANGED <<setting, journal, lost>>
  <2>1. \A h \in Histories : Listed(h)
    BY DEF HistoryInv, Histories, SignedHistory
  <2>2. \A h \in Histories : h \in Histories' /\ Begins(h, h)
    BY <1>1, <2>1, BeginsItself DEF Histories
  <2>3. HistoryInv'  BY <1>1 DEF HistoryInv
  <2> QED  BY <1>1, <2>2, <2>3 DEF HistoryMoves, Histories
<1>2. CASE Record
  <2>1. /\ SignedHistory(journal') /\ Begins(journal, journal') /\ journal' # <<>>
    BY <1>2, SignNext DEF Record, HistoryInv
  <2>2. setting' = setting /\ lost' = lost  BY <1>2 DEF Record
  <2>3. Begins(lost, lost)  BY BeginsItself DEF HistoryInv, SignedHistory
  <2>4. HistoryInv'  BY <2>1, <2>2 DEF HistoryInv
  <2> QED  BY <2>1, <2>2, <2>3, <2>4 DEF HistoryMoves, Histories
<1>3. CASE Restore
  <2>1. lost = <<>> /\ lost' = journal /\ setting' = setting  BY <1>3 DEF Restore
  <2>2. Listed(journal) /\ Len(journal) \in Nat
    BY ListedFacts DEF HistoryInv, SignedHistory
  <2>3. PICK n \in 1..Len(journal) - 1 : journal' = SubSeq(journal, 1, n)
    BY <1>3 DEF Restore
  <2>4. n \in Nat /\ n <= Len(journal) /\ n # 0 /\ Len(journal) # 0  BY <2>2, <2>3
  <2>5. SignedHistory(journal') /\ Listed(journal') /\ Len(journal') = n
    BY <2>2, <2>3, <2>4, SignedFirst, FirstListed DEF HistoryInv
  <2>6. journal' # <<>> /\ journal # <<>>  BY <2>2, <2>4, <2>5, NothingListed
  <2>7. Begins(journal, lost') /\ Begins(lost, lost')
    BY <2>1, <2>2, BeginsItself, NothingListed
  <2>8. HistoryInv'  BY <2>1, <2>5, <2>6 DEF HistoryInv
  <2> QED  BY <2>1, <2>6, <2>7, <2>8 DEF HistoryMoves, Histories
<1>4. CASE UNCHANGED vars  BY <1>1, <1>4 DEF vars
<1>5. CASE Next
  <2>1. CASE CallSteps  BY <1>1, <2>1, CallFrame
  <2>2. CASE DeliverySteps  BY <1>1, <2>2, DeliveryFrame
  <2>3. CASE ReaderSteps  BY <1>1, <2>3, ReaderFrame
  <2>4. CASE WorkerSteps  BY <1>1, <2>4, WorkerFrame
  <2>5. CASE UNCHANGED <<setting, clock, journal, lost, callVars, publicVars,
                         mirrorVars, viewVars>>
    BY <1>1, <2>5
  <2> QED  BY <1>2, <1>3, <1>5, <2>1, <2>2, <2>3, <2>4, <2>5, StepKinds DEF HistoryStep
<1> QED  BY <1>4, <1>5

\* At first there is no history.
LEMMA HistoryStarts ==
    ASSUME Init
    PROVE  HistoryInv /\ \A h \in Histories : h = <<>>
<1>1. journal = <<>> /\ lost = <<>>  BY DEF Init
<1> QED  BY <1>1, NothingListed DEF HistoryInv, Histories

\* Where a behaviour starts from is fixed.
SettingInv == setting \in Settings

\* What a setting is made of.
LEMMA SettingSets ==
    ASSUME SettingInv
    PROVE  /\ setting.calls \subseteq Calls
           /\ setting.deliveries \subseteq DOMAIN Deliveries
           /\ setting.readers \subseteq Readers
<1>1. setting \in SettingType  BY EvidenceAssumption DEF SettingInv
<1> QED  BY <1>1 DEF SettingType

-----------------------------------------------------------------------------
(* Copies: the mirror, the pages read and the projection.                  *)

\* An entry that names a copy's head as its predecessor continues the copy.
LEMMA CopyGrows ==
    ASSUME HistoryInv, NEW s, Copies(s), NEW x, Recorded(x),
           x.core.previous = HeadDigest(s)
    PROVE  Copies(Append(s, x))
<1>1. PICK g \in Histories : Begins(s, g)  BY DEF Copies
<1>2. PICK h \in Histories : \E i \in 1..Len(h) : h[i] = x  BY DEF Recorded
<1>3. PICK i \in 1..Len(h) : h[i] = x  BY <1>2
<1>4. SignedHistory(g) /\ SignedHistory(h)  BY DEF HistoryInv, Histories
<1>5. /\ Listed(s) /\ Listed(g) /\ Listed(h)
      /\ Len(s) \in Nat /\ Len(g) \in Nat /\ Len(h) \in Nat
  BY <1>1, <1>4, ListedFacts DEF Begins, SignedHistory
<1>6. /\ x.core.previous = IF i = 1 THEN NoDigest ELSE h[i - 1].entryDigest
      /\ i \in Nat /\ i # 0
  BY <1>3, <1>4, SignedFacts
<1>7. /\ Listed(Append(s, x)) /\ Len(Append(s, x)) = Len(s) + 1
      /\ \A k \in 1..Len(s) : Append(s, x)[k] = s[k]
      /\ Append(s, x)[Len(s) + 1] = x
  BY <1>5, AppendListed
<1>8. Len(s) = i - 1 /\ \A k \in 1..i - 1 : s[k] = h[k]
  <2>1. CASE s = <<>>
    <3>1. HeadDigest(s) = NoDigest /\ Len(s) = 0  BY <2>1, NothingListed DEF HeadDigest
    <3>2. i = 1
      <4>1. SUFFICES ASSUME i # 1  PROVE FALSE  OBVIOUS
      <4>2. i - 1 \in 1..Len(h)  BY <1>3, <1>5, <1>6, <4>1
      <4>3. h[i - 1].entryDigest # NoDigest  BY <1>4, <4>2, SignedFacts
      <4> QED  BY <1>6, <3>1, <4>1, <4>3
    <3> QED  BY <3>1, <3>2
  <2>2. CASE s # <<>>
    <3>1. PICK m \in Nat : m = Len(s) /\ m # 0  BY <1>5, <2>2, ListedFacts
    <3>2. /\ m \in 1..Len(g) /\ s[m] = g[m] /\ HeadDigest(s) = g[m].entryDigest
      BY <1>1, <1>5, <2>2, <3>1 DEF Begins, HeadDigest
    <3>3. g[m].entryDigest # NoDigest  BY <1>4, <3>2, SignedFacts
    <3>4. i # 1 /\ i - 1 \in 1..Len(h)
      <4>1. x.core.previous # NoDigest  BY <3>2, <3>3
      <4>2. i # 1  BY <1>6, <4>1
      <4> QED  BY <1>3, <1>5, <1>6, <4>2
    <3>5. h[i - 1].entryDigest = g[m].entryDigest  BY <1>6, <3>2, <3>4
    <3>6. i - 1 = m /\ \A k \in 1..i - 1 : h[k] = g[k]
      BY <1>4, <3>2, <3>4, <3>5, DigestsCommit
    <3>7. \A k \in 1..m : s[k] = g[k]  BY <1>1, <3>1 DEF Begins
    <3> QED  BY <3>1, <3>6, <3>7
  <2> QED  BY <2>1, <2>2
<1>9. Begins(Append(s, x), h)
  <2>1. Len(Append(s, x)) = i /\ i <= Len(h)  BY <1>3, <1>5, <1>6, <1>7, <1>8
  <2>2. ASSUME NEW k \in 1..i  PROVE Append(s, x)[k] = h[k]
    <3>1. CASE k = i  BY <1>3, <1>6, <1>7, <1>8, <3>1
    <3>2. CASE k # i
      <4>1. k \in 1..i - 1  BY <1>6, <3>2
      <4> QED  BY <1>7, <1>8, <4>1
    <3> QED  BY <3>1, <3>2
  <2> QED  BY <1>7, <2>1, <2>2 DEF Begins
<1> QED  BY <1>9 DEF Copies

\* Each entry has a position.
LEMMA RecordedAt ==
    ASSUME HistoryInv, NEW x, Recorded(x)
    PROVE  x.core.sequence \in Nat
<1>1. PICK h \in Histories : \E i \in 1..Len(h) : h[i] = x  BY DEF Recorded
<1>2. PICK i \in 1..Len(h) : h[i] = x  BY <1>1
<1>3. SignedHistory(h)  BY DEF HistoryInv, Histories
<1>4. i \in Nat /\ i # 0 /\ x.core.sequence = i - 1  BY <1>2, <1>3, SignedFacts
<1> QED  BY <1>4

\* What a delivery found is so.
DeliveryFine(me) ==
    /\ DOMAIN me = {"at", "head", "entry"}
    /\ me.entry # <<>> => \E x : Recorded(x) /\ me.entry = <<x>>
    /\ me.at # "sent" => me.entry # <<>>
    /\ me.at = "append" =>
          /\ me.entry[1].core.sequence <= Len(mirror)
          /\ me.entry[1].core.previous = me.head
    /\ me.at = "stored" => Holding(me.entry[1])
    /\ me.at = "continuity" =>
          \/ Len(mirror) > me.entry[1].core.sequence
          \/ /\ Len(mirror) = me.entry[1].core.sequence
             /\ me.entry[1].core.previous # HeadDigest(mirror)

\* The mirror and its deliveries.
MirrorInv ==
    /\ Copies(mirror)
    /\ DOMAIN ingest = DOMAIN Deliveries
    /\ \A d \in DOMAIN Deliveries : DeliveryFine(ingest[d])

\* At first the mirror is empty.
LEMMA MirrorStarts ==
    ASSUME Init
    PROVE  MirrorInv
<1>1. \A h \in Histories : Listed(h)  BY HistoryStarts, NothingListed
<1>2. Copies(mirror)  BY <1>1, NothingListed DEF Init, Copies, Histories
<1> QED  BY <1>2 DEF Init, MirrorInv, DeliveryFine

\* What a delivery found stays so while the mirror does, and when it grows.
LEMMA FineStays ==
    ASSUME HistoryInv, HistoryMoves, mirror' = mirror, NEW me, DeliveryFine(me)
    PROVE  DeliveryFine(me)'
<1>1. \A x : Recorded(x) => Recorded(x)'  BY CopiesStay
<1>2. me.entry # <<>> => \E x : Recorded(x)' /\ me.entry = <<x>>
  BY <1>1 DEF DeliveryFine
<1>3. \A x : Holding(x)' = Holding(x)  BY DEF Holding
<1> QED  BY <1>2, <1>3 DEF DeliveryFine

\* A delivery stays fine when the mirror grows.
LEMMA FineGrows ==
    ASSUME HistoryInv, HistoryMoves, NEW x, mirror' = Append(mirror, x),
           Listed(mirror), NEW me, DeliveryFine(me)
    PROVE  DeliveryFine(me)'
<1>1. \A y : Recorded(y) => Recorded(y)'  BY CopiesStay
<1>2. me.entry # <<>> => \E y : Recorded(y)' /\ me.entry = <<y>>
  BY <1>1 DEF DeliveryFine
<1>3. /\ Len(mirror') = Len(mirror) + 1 /\ DOMAIN mirror = 1..Len(mirror)
      /\ Len(mirror) \in Nat /\ DOMAIN mirror' = 1..Len(mirror) + 1
      /\ \A i \in 1..Len(mirror) : mirror'[i] = mirror[i]
  BY AppendListed, ListedFacts
<1>4. \A y : Holding(y) => Holding(y)'  BY <1>3 DEF Holding
<1>5. me.entry # <<>> => me.entry[1].core.sequence \in Nat
  <2>1. ASSUME me.entry # <<>>  PROVE me.entry[1].core.sequence \in Nat
    <3>1. PICK y : Recorded(y) /\ me.entry = <<y>>  BY <2>1 DEF DeliveryFine
    <3>2. me.entry[1] = y  BY <3>1
    <3> QED  BY <3>1, <3>2, RecordedAt
  <2> QED  BY <2>1
<1>6. me.at \in {"append", "stored", "continuity"} => me.entry # <<>>
  BY DEF DeliveryFine
<1>7. me.at = "append" => /\ me.entry[1].core.sequence <= Len(mirror')
                          /\ me.entry[1].core.previous = me.head
  BY <1>3, <1>5, <1>6 DEF DeliveryFine
<1>8. me.at = "continuity" => Len(mirror') > me.entry[1].core.sequence
  BY <1>3, <1>5, <1>6 DEF DeliveryFine
<1>9. me.at = "stored" => Holding(me.entry[1])'  BY <1>4 DEF DeliveryFine
<1> QED  BY <1>2, <1>7, <1>8, <1>9 DEF DeliveryFine

\* A step that leaves the mirror and its deliveries alone.
LEMMA MirrorRests ==
    ASSUME HistoryInv, HistoryMoves, MirrorInv, UNCHANGED mirrorVars
    PROVE  MirrorInv'
<1>1. mirror' = mirror /\ ingest' = ingest  BY DEF mirrorVars
<1>2. Copies(mirror)'  BY <1>1, CopiesStay DEF MirrorInv
<1>3. \A me : DeliveryFine(me) => DeliveryFine(me)'  BY <1>1, FineStays
<1> QED  BY <1>1, <1>2, <1>3 DEF MirrorInv

\* A delivery that is looked up, judged or sent again.
LEMMA DeliveryKept ==
    ASSUME HistoryInv, HistoryMoves, MirrorInv, mirror' = mirror,
           NEW d \in DOMAIN Deliveries, NEW me, DeliveryFine(me),
           ingest' = [ingest EXCEPT ![d] = me]
    PROVE  MirrorInv'
<1>1. Copies(mirror)'  BY CopiesStay DEF MirrorInv
<1>2. \A it : DeliveryFine(it) => DeliveryFine(it)'  BY FineStays
<1>3. DOMAIN ingest' = DOMAIN Deliveries /\ ingest'[d] = me
      /\ \A e \in DOMAIN Deliveries \ {d} : ingest'[e] = ingest[e]
  BY DEF MirrorInv
<1>4. \A e \in DOMAIN Deliveries : DeliveryFine(ingest[e])  BY DEF MirrorInv
<1>5. ASSUME NEW e \in DOMAIN Deliveries  PROVE DeliveryFine(ingest[e])'
  <2>1. CASE e = d  BY <1>2, <1>3, <2>1
  <2>2. CASE e # d  BY <1>2, <1>3, <1>4, <2>2
  <2> QED  BY <2>1, <2>2
<1> QED  BY <1>1, <1>3, <1>5 DEF MirrorInv

\* A step of a delivery keeps what holds of the mirror.
LEMMA DeliveryMoves ==
    ASSUME HistoryInv, HistoryMoves, MirrorInv, DeliverySteps
    PROVE  MirrorInv'
<1>1. PICK d \in DOMAIN Deliveries : DeliveryStep(d)  BY DEF DeliverySteps
<1>2. UNCHANGED <<journal, lost>>  BY DeliveryFrame
<1> DEFINE me == ingest[d]
<1>3. /\ DOMAIN me = {"at", "head", "entry"} /\ DOMAIN ingest = DOMAIN Deliveries
      /\ me.entry # <<>> => \E x : Recorded(x) /\ me.entry = <<x>>
      /\ DeliveryFine(me)
  BY DEF MirrorInv, DeliveryFine
<1>4. CASE IngestLookup(d)
  <2> DEFINE x == IF me.entry # <<>> THEN me.entry[1] ELSE journal[Deliveries[d] + 1]
             verdict == verifyEntries(<<x>>, PolicyOf("plain"), {},
                            [now |-> Absent, skew |-> 0, authorization |-> {},
                             anchors |-> {}]).crypto.verdict
             at == IF verdict # "valid" THEN "refused"
                   ELSE IF Holding(x) THEN "stored" ELSE "looked"
             found == [me EXCEPT !.entry = <<x>>, !.at = at]
  <2>1. /\ me.entry # <<>> \/ Deliveries[d] < Len(journal)
        /\ mirror' = mirror
        /\ ingest' = [ingest EXCEPT ![d].entry = <<x>>, ![d].at = at]
    BY <1>4 DEF IngestLookup
  <2>2. Recorded(x)
    <3>1. CASE me.entry # <<>>  BY <1>3, <3>1
    <3>2. CASE me.entry = <<>>
      <4>1. Len(journal) \in Nat  BY ListedFacts DEF HistoryInv, SignedHistory
      <4>2. Deliveries[d] \in Nat  BY EvidenceAssumption
      <4>3. Deliveries[d] + 1 \in 1..Len(journal)  BY <2>1, <3>2, <4>1, <4>2
      <4> QED  BY <3>2, <4>3 DEF Recorded, Histories
    <3> QED  BY <3>1, <3>2
  <2>3. at = "refused" \/ at = "looked" \/ (at = "stored" /\ Holding(x))  OBVIOUS
  <2> HIDE DEF x, at
  <2>4. ingest' = [ingest EXCEPT ![d] = found]  BY <1>3, <2>1
  <2>5. found.at = at /\ found.entry = <<x>> /\ DOMAIN found = {"at", "head", "entry"}
    BY <1>3
  <2>6. <<x>> # <<>> /\ <<x>>[1] = x  OBVIOUS
  <2> HIDE DEF me, found
  <2>7. DeliveryFine(found)  BY <2>2, <2>3, <2>5, <2>6 DEF DeliveryFine
  <2> QED  BY <2>1, <2>4, <2>7, DeliveryKept
<1>5. CASE IngestHead(d)
  <2> DEFINE n == me.entry[1].core.sequence
             at == IF n > Len(mirror) THEN "early"
                   ELSE IF n = Len(mirror)
                           /\ me.entry[1].core.previous = HeadDigest(mirror)
                   THEN "append" ELSE "continuity"
             found == [me EXCEPT !.head = HeadDigest(mirror), !.at = at]
  <2>1. /\ me.at = "looked" /\ mirror' = mirror
        /\ ingest' = [ingest EXCEPT ![d].head = HeadDigest(mirror), ![d].at = at]
    BY <1>5 DEF IngestHead
  <2>2. PICK x : Recorded(x) /\ me.entry = <<x>>  BY <1>3, <2>1 DEF DeliveryFine
  <2>3. n \in Nat /\ Len(mirror) \in Nat
    <3>1. me.entry[1] = x  BY <2>2
    <3> QED  BY <2>2, <3>1, RecordedAt, ListedFacts DEF MirrorInv, Copies, Begins
  <2>4. \/ at = "early"
        \/ at = "append" /\ n <= Len(mirror)
           /\ me.entry[1].core.previous = HeadDigest(mirror)
        \/ /\ at = "continuity"
           /\ \/ Len(mirror) > n
              \/ Len(mirror) = n /\ me.entry[1].core.previous # HeadDigest(mirror)
    BY <2>3
  <2> HIDE DEF at
  <2>5. ingest' = [ingest EXCEPT ![d] = found]  BY <1>3, <2>1
  <2>6. /\ found.at = at /\ found.head = HeadDigest(mirror) /\ found.entry = me.entry
        /\ DOMAIN found = {"at", "head", "entry"}
    BY <1>3
  <2>7. me.entry # <<>>  BY <2>2
  <2> HIDE DEF me, found
  <2>8. DeliveryFine(found)  BY <2>2, <2>4, <2>6, <2>7 DEF DeliveryFine
  <2> QED  BY <2>1, <2>5, <2>8, DeliveryKept
<1>6. CASE IngestRetry(d)
  <2> DEFINE found == [me EXCEPT !.at = "sent"]
  <2>1. mirror' = mirror /\ ingest' = [ingest EXCEPT ![d].at = "sent"]
    BY <1>6 DEF IngestRetry, Ingest
  <2>2. ingest' = [ingest EXCEPT ![d] = found]  BY <1>3, <2>1
  <2>3. found.at = "sent" /\ found.entry = me.entry
        /\ DOMAIN found = {"at", "head", "entry"}
    BY <1>3
  <2> HIDE DEF me, found
  <2>4. DeliveryFine(found)  BY <1>3, <2>3 DEF DeliveryFine
  <2> QED  BY <2>1, <2>2, <2>4, DeliveryKept
<1>7. CASE IngestAppend(d)
  <2>1. me.at = "append"  BY <1>7 DEF IngestAppend
  <2>2. PICK x : Recorded(x) /\ me.entry = <<x>>  BY <1>3, <2>1 DEF DeliveryFine
  <2>3. /\ me.entry[1] = x /\ x.core.sequence <= Len(mirror)
        /\ x.core.previous = me.head /\ x.core.sequence \in Nat
    <3>1. me.entry[1] = x  BY <2>2
    <3> QED  BY <1>3, <2>1, <2>2, <3>1, RecordedAt DEF DeliveryFine
  <2>4. Listed(mirror) /\ Len(mirror) \in Nat
    BY ListedFacts DEF MirrorInv, Copies, Begins
  <2>5. CASE /\ Holding(x) \/ HeadDigest(mirror) # me.head
             /\ ingest' = [ingest EXCEPT ![d].at =
                              IF Holding(x) THEN "stored" ELSE "continuity"]
             /\ mirror' = mirror
    <3> DEFINE at == IF Holding(x) THEN "stored" ELSE "continuity"
               found == [me EXCEPT !.at = at]
    <3>1. ingest' = [ingest EXCEPT ![d] = found]  BY <1>3, <2>5
    <3>2. \/ at = "stored" /\ Holding(x)
          \/ /\ at = "continuity"
             /\ \/ Len(mirror) > x.core.sequence
                \/ Len(mirror) = x.core.sequence /\ x.core.previous # HeadDigest(mirror)
      BY <2>3, <2>4, <2>5
    <3> HIDE DEF at
    <3>3. found.at = at /\ found.entry = <<x>> /\ DOMAIN found = {"at", "head", "entry"}
      BY <1>3, <2>2
    <3>4. <<x>> # <<>> /\ <<x>>[1] = x  OBVIOUS
    <3> HIDE DEF me, found
    <3>5. DeliveryFine(found)  BY <2>2, <3>2, <3>3, <3>4 DEF DeliveryFine
    <3> QED  BY <2>5, <3>1, <3>5, DeliveryKept
  <2>6. CASE /\ HeadDigest(mirror) = me.head /\ mirror' = Append(mirror, x)
             /\ ingest' = [ingest EXCEPT ![d].at = "stored"]
    <3>1. Copies(Append(mirror, x))  BY <2>2, <2>3, <2>6, CopyGrows DEF MirrorInv
    <3>2. Copies(mirror)'  BY <1>2, <2>6, <3>1 DEF Copies, Histories
    <3>3. /\ DOMAIN mirror' = 1..Len(mirror) + 1 /\ mirror'[Len(mirror) + 1] = x
      BY <2>4, <2>6, AppendListed, ListedFacts
    <3>4. Holding(x)'  BY <2>4, <3>3 DEF Holding
    <3>5. Recorded(x)'  BY <2>2, CopiesStay
    <3>6. /\ DOMAIN ingest' = DOMAIN Deliveries
          /\ DOMAIN ingest'[d] = {"at", "head", "entry"}
          /\ ingest'[d].at = "stored" /\ ingest'[d].entry = <<x>>
          /\ \A e \in DOMAIN Deliveries \ {d} : ingest'[e] = ingest[e]
      BY <1>3, <2>2, <2>6
    <3>7. <<x>> # <<>> /\ <<x>>[1] = x  OBVIOUS
    <3>8. DeliveryFine(ingest[d])'  BY <3>4, <3>5, <3>6, <3>7 DEF DeliveryFine
    <3>9. \A it : DeliveryFine(it) => DeliveryFine(it)'  BY <2>4, <2>6, FineGrows
    <3>10. \A e \in DOMAIN Deliveries : DeliveryFine(ingest[e])  BY DEF MirrorInv
    <3>11. ASSUME NEW e \in DOMAIN Deliveries  PROVE DeliveryFine(ingest[e])'
      <4>1. CASE e = d  BY <3>8, <4>1
      <4>2. CASE e # d  BY <3>6, <3>9, <3>10, <4>2
      <4> QED  BY <4>1, <4>2
    <3> QED  BY <3>2, <3>6, <3>11 DEF MirrorInv
  <2> QED  BY <1>7, <2>2, <2>3, <2>5, <2>6 DEF IngestAppend, Ingest
<1> QED  BY <1>1, <1>4, <1>5, <1>6, <1>7 DEF DeliveryStep

\* Every step keeps what holds of the mirror.
LEMMA MirrorKept ==
    ASSUME HistoryInv, HistoryMoves, MirrorInv, [Next]_vars
    PROVE  MirrorInv'
<1>1. CASE UNCHANGED mirrorVars  BY <1>1, MirrorRests
<1>2. CASE DeliverySteps  BY <1>2, DeliveryMoves
<1>3. CASE UNCHANGED vars  BY <1>1, <1>3 DEF vars
<1>4. CASE Next
  <2>1. CASE HistoryStep  BY <1>1, <2>1, HistoryFrame
  <2>2. CASE CallSteps  BY <1>1, <2>2, CallFrame
  <2>3. CASE ReaderSteps  BY <1>1, <2>3, ReaderFrame
  <2>4. CASE WorkerSteps  BY <1>1, <2>4, WorkerFrame
  <2>5. CASE UNCHANGED <<setting, clock, journal, lost, callVars, publicVars,
                         mirrorVars, viewVars>>
    BY <1>1, <2>5
  <2> QED  BY <1>2, <1>4, <2>1, <2>2, <2>3, <2>4, <2>5, StepKinds
<1> QED  BY <1>3, <1>4

\* The mirror is a prefix of a signed history.
LEMMA MirrorHolds ==
    ASSUME HistoryInv, MirrorInv, setting.deliveries \subseteq DOMAIN Deliveries
    PROVE  MirrorFaithful
<1>1. PICK h \in Histories : Begins(mirror, h)  BY DEF MirrorInv, Copies
<1>2. Listed(h)  BY DEF HistoryInv, SignedHistory, Histories
<1>3. IsPrefix(mirror, h)  BY <1>1, <1>2, BeginsIsPrefix
<1>4. \E g \in {journal, lost} : IsPrefix(mirror, g)  BY <1>3 DEF Histories
<1> QED  BY <1>4 DEF MirrorFaithful, MirrorInv, DeliveryFine

\* Where a reader's cursor is while the journal is not restored.
ReaderFine(me) ==
    /\ DOMAIN me = {"at", "head", "cursor", "read"}
    /\ me.at \in {"idle", "page", "done"}
    /\ me.cursor \in Nat /\ me.head \in Nat
    /\ me.cursor <= Len(journal)
    /\ me.read = SubSeq(journal, 1, me.cursor)
    /\ me.at = "page" => me.cursor <= me.head /\ me.head <= Len(journal)
    /\ me.at = "done" => me.cursor = me.head

ReaderInv ==
    lost = <<>> =>
        /\ DOMAIN reader = Readers
        /\ \A r \in Readers : ReaderFine(reader[r])

\* At first nothing is read.
LEMMA ReaderStarts ==
    ASSUME Init
    PROVE  ReaderInv
<1>1. journal = <<>> /\ Len(journal) = 0  BY NothingListed DEF Init
<1>2. SubSeq(journal, 1, 0) = <<>>  BY SubSeqEmpty
<1>3. ASSUME NEW r \in Readers  PROVE ReaderFine(reader[r])
  <2>1. reader[r] = [at |-> "idle", head |-> 0, cursor |-> 0, read |-> <<>>]
    BY DEF Init
  <2> QED  BY <1>1, <1>2, <2>1 DEF ReaderFine
<1>4. DOMAIN reader = Readers  BY DEF Init
<1> QED  BY <1>3, <1>4 DEF ReaderInv

\* What was read stays read while the journal grows.
LEMMA ReaderRests ==
    ASSUME HistoryInv, HistoryMoves, ReaderInv, UNCHANGED reader
    PROVE  ReaderInv'
<1>1. SUFFICES ASSUME lost' = <<>>
               PROVE  /\ DOMAIN reader' = Readers
                      /\ \A r \in Readers : ReaderFine(reader[r])'
  BY DEF ReaderInv
<1>2. lost = <<>> /\ Begins(journal, journal')  BY <1>1 DEF HistoryMoves
<1>3. Listed(journal) /\ Listed(journal')
  BY DEF HistoryInv, HistoryMoves, SignedHistory
<1>4. Len(journal) \in Nat /\ Len(journal') \in Nat /\ Len(journal) <= Len(journal')
  BY <1>2, <1>3, ListedFacts DEF Begins
<1>5. \A n \in Nat : n <= Len(journal) => SubSeq(journal, 1, n) = SubSeq(journal', 1, n)
  BY <1>2, <1>3, BeginsIsPrefix
<1>6. ASSUME NEW r \in Readers  PROVE ReaderFine(reader[r])'
  <2>1. ReaderFine(reader[r]) /\ reader'[r] = reader[r]
    BY <1>2 DEF ReaderInv
  <2> QED  BY <1>4, <1>5, <2>1 DEF ReaderFine
<1> QED  BY <1>2, <1>6 DEF ReaderInv

\* One reader reads on.
LEMMA ReaderKept ==
    ASSUME ReaderInv, UNCHANGED <<journal, lost>>, NEW r \in Readers, NEW me,
           lost = <<>> => ReaderFine(me),
           reader' = [reader EXCEPT ![r] = me]
    PROVE  ReaderInv'
<1>1. SUFFICES ASSUME lost = <<>>
               PROVE  /\ DOMAIN reader' = Readers
                      /\ \A q \in Readers : ReaderFine(reader[q])'
  BY DEF ReaderInv
<1>2. \A it : ReaderFine(it)' = ReaderFine(it)
  BY DEF ReaderFine
<1>3. DOMAIN reader = Readers /\ \A q \in Readers : ReaderFine(reader[q])
  BY <1>1 DEF ReaderInv
<1>4. reader'[r] = me /\ \A q \in Readers \ {r} : reader'[q] = reader[q]  BY <1>3
<1>5. ASSUME NEW q \in Readers  PROVE ReaderFine(reader[q])'
  <2>1. ReaderFine(reader'[q])
    <3>1. CASE q = r  BY <1>1, <1>4, <3>1
    <3>2. CASE q # r  BY <1>3, <1>4, <3>2
    <3> QED  BY <3>1, <3>2
  <2> QED  BY <1>2, <2>1
<1> QED  BY <1>3, <1>5

\* A step of a reader keeps what holds of the readers.
LEMMA ReaderMoves ==
    ASSUME HistoryInv, HistoryMoves, ReaderInv, ReaderSteps
    PROVE  ReaderInv'
<1>1. PICK r \in Readers : ReaderStep(r)  BY DEF ReaderSteps
<1>2. UNCHANGED <<journal, lost>>  BY ReaderFrame
<1>3. Listed(journal) /\ Len(journal) \in Nat
  BY ListedFacts DEF HistoryInv, SignedHistory
<1> DEFINE old == reader[r]
<1>4. lost = <<>> => ReaderFine(old) /\ DOMAIN reader = Readers
  BY DEF ReaderInv
<1>5. CASE ListHead(r)
  <2> DEFINE me == [old EXCEPT !.at = "page", !.head = Len(journal)]
  <2>1. reader' = [reader EXCEPT ![r].at = "page", ![r].head = Len(journal)]
    BY <1>5 DEF ListHead
  <2>2. reader' = [reader EXCEPT ![r] = me]  BY <2>1
  <2>3. lost = <<>> => ReaderFine(me)  BY <1>3, <1>4 DEF ReaderFine
  <2> HIDE DEF me
  <2> QED  BY <1>2, <2>2, <2>3, ReaderKept
<1>6. CASE ListPage(r)
  <2> DEFINE ends == {Len(journal), old.head, old.cursor + PageLimit}
             upTo == CHOOSE n \in ends : \A m \in ends : n <= m
             page == SubSeq(journal, old.cursor + 1, upTo)
             next == IF page = <<>> \/ upTo = old.head THEN "done" ELSE "idle"
             me == [old EXCEPT !.at = next, !.cursor = old.cursor + Len(page),
                               !.read = @ \o page]
  <2>1. old.at = "page" /\ reader' = [reader EXCEPT ![r] = me]  BY <1>6 DEF ListPage
  <2>2. ASSUME lost = <<>>  PROVE ReaderFine(me)
    <3> DEFINE n == Len(journal)
               a == old.cursor
    <3>1. /\ n \in Nat /\ a \in Nat /\ old.head \in Nat /\ PageLimit \in Nat \ {0}
          /\ a <= old.head /\ old.head <= n
          /\ old.read = SubSeq(journal, 1, a)
          /\ DOMAIN old = {"at", "head", "cursor", "read"}
      BY <1>3, <1>4, <2>1, <2>2, EvidenceAssumption DEF ReaderFine
    <3>2. upTo \in ends /\ \A m \in ends : upTo <= m
      <4>1. \E k \in ends : \A m \in ends : k <= m
        <5>1. CASE old.head <= a + PageLimit
          <6>1. \A m \in ends : old.head <= m  BY <3>1, <5>1
          <6> QED  BY <6>1
        <5>2. CASE ~ (old.head <= a + PageLimit)
          <6>1. \A m \in ends : a + PageLimit <= m  BY <3>1, <5>2
          <6> QED  BY <6>1
        <5> QED  BY <5>1, <5>2
      <4> HIDE DEF ends
      <4> QED  BY <4>1
    <3> HIDE DEF upTo
    <3>3. /\ upTo \in Nat /\ a <= upTo /\ upTo <= n /\ upTo <= old.head
          /\ upTo = a => upTo = old.head
      <4>1. upTo \in {n, old.head, a + PageLimit}
            /\ upTo <= n /\ upTo <= old.head /\ upTo <= a + PageLimit
        BY <3>2
      <4> HIDE DEF old
      <4> QED  BY <3>1, <4>1
    <3>4. /\ page \in Seq(ToSet(journal))
          /\ Len(page) = IF a + 1 <= upTo THEN upTo - (a + 1) + 1 ELSE 0
      <4>1. \A i \in (a + 1)..upTo : journal[i] \in ToSet(journal)
        BY <1>3, <3>1, <3>3, ListedFacts
      <4> QED  BY <3>1, <3>3, <4>1, SubSeqProperties
    <3>5. Len(page) = upTo - a /\ a + Len(page) = upTo  BY <3>1, <3>3, <3>4
    <3>6. page = <<>> => upTo = a
      <4>1. page = <<>> => Len(page) = 0  BY <3>4, ListFacts
      <4> HIDE DEF page, old
      <4> QED  BY <3>1, <3>3, <3>5, <4>1
    <3>7. SubSeq(journal, 1, a) \o page = SubSeq(journal, 1, upTo)
      <4>1. journal \in Seq(ToSet(journal))  BY <1>3, ListedFacts
      <4>2. 1 \in 1..Len(journal) + 1 /\ a \in 1 - 1..Len(journal) /\ upTo \in a..Len(journal)
        BY <3>1, <3>3
      <4> QED  BY <4>1, <4>2, ConcatAdjacentSubSeq
    <3>8. next = "done" \/ next = "idle"  OBVIOUS
    <3>9. next = "done" => upTo = old.head  BY <3>3, <3>6
    <3> HIDE DEF page, next
    <3>10. /\ DOMAIN me = {"at", "head", "cursor", "read"} /\ me.at = next
           /\ me.cursor = upTo /\ me.head = old.head
           /\ me.read = SubSeq(journal, 1, upTo)
      BY <3>1, <3>5, <3>7
    <3> HIDE DEF me
    <3> QED  BY <3>1, <3>3, <3>8, <3>9, <3>10 DEF ReaderFine
  <2> HIDE DEF me
  <2> QED  BY <1>2, <2>1, <2>2, ReaderKept
<1> QED  BY <1>1, <1>5, <1>6 DEF ReaderStep

\* Every step keeps what holds of the readers.
LEMMA ReadersKept ==
    ASSUME HistoryInv, HistoryMoves, ReaderInv, [Next]_vars
    PROVE  ReaderInv'
<1>1. CASE UNCHANGED reader  BY <1>1, ReaderRests
<1>2. CASE ReaderSteps  BY <1>2, ReaderMoves
<1>3. CASE UNCHANGED vars  BY <1>1, <1>3 DEF vars, viewVars
<1>4. CASE Next
  <2>1. CASE HistoryStep  BY <1>1, <2>1, HistoryFrame
  <2>2. CASE CallSteps  BY <1>1, <2>2, CallFrame
  <2>3. CASE DeliverySteps  BY <1>1, <2>3, DeliveryFrame
  <2>4. CASE WorkerSteps  BY <1>1, <2>4, WorkerFrame
  <2>5. CASE UNCHANGED <<setting, clock, journal, lost, callVars, publicVars,
                         mirrorVars, viewVars>>
    BY <1>1, <2>5 DEF viewVars
  <2> QED  BY <1>2, <1>4, <2>1, <2>2, <2>3, <2>4, <2>5, StepKinds
<1> QED  BY <1>3, <1>4

\* What it says of the pages.
LEMMA ReadersHold ==
    ASSUME ReaderInv, setting.readers \subseteq Readers
    PROVE  PagingComplete
BY DEF ReaderInv, ReaderFine, PagingComplete

\* The digest at a position of the journal.
DigestAt(n) == IF n = 0 THEN NoDigest ELSE journal[n].entryDigest

\* What a worker is about to apply continues the offset it read.
WorkerFine(me) ==
    /\ DOMAIN me = {"at", "count", "head", "entry"}
    /\ me.count \in Nat
    /\ me.at = "apply" =>
          \E x : Recorded(x) /\ me.entry = <<x>> /\ x.core.previous = me.head

\* Both reads of a reconcile under way are of one journal.
ReconcileFine(r) ==
    /\ DOMAIN r = {"at", "headAt", "head", "offsetAt", "offset", "status"}
    /\ r.headAt \in Nat /\ r.headAt <= Len(journal) /\ r.head = DigestAt(r.headAt)
    /\ r.offsetAt \in Nat /\ r.offsetAt <= Len(journal)
    /\ r.offset = DigestAt(r.offsetAt)
    /\ r.status = "gap_detected" => r.offsetAt > r.headAt
    /\ r.at # "done" => r.status = "none"

ProjectionInv ==
    /\ Copies(records)
    /\ DOMAIN worker = Workers
    /\ \A w \in Workers : WorkerFine(worker[w])
    /\ lost = <<>> => ReconcileFine(reconciled)

\* At first nothing is projected.
LEMMA ProjectionStarts ==
    ASSUME Init
    PROVE  ProjectionInv
<1>1. Copies(records)
  <2>1. \A h \in Histories : Listed(h)  BY HistoryStarts, NothingListed
  <2> QED  BY <2>1, NothingListed DEF Init, Copies, Histories
<1>2. ASSUME NEW w \in Workers  PROVE WorkerFine(worker[w])
  <2>1. worker[w] = [at |-> "idle", count |-> 0, head |-> NoDigest, entry |-> <<>>]
    BY DEF Init
  <2> QED  BY <2>1 DEF WorkerFine
<1>3. ReconcileFine(reconciled)
  <2>1. Len(journal) = 0  BY NothingListed DEF Init
  <2>2. reconciled = [at |-> "idle", headAt |-> 0, head |-> NoDigest, offsetAt |-> 0,
                      offset |-> NoDigest, status |-> "none"]
    BY DEF Init, NotReconciled
  <2> QED  BY <2>1, <2>2 DEF ReconcileFine, DigestAt
<1>4. DOMAIN worker = Workers  BY DEF Init
<1> QED  BY <1>1, <1>2, <1>3, <1>4 DEF ProjectionInv

\* What workers hold and a reconcile read stays so while histories move.
LEMMA ViewsStay ==
    ASSUME HistoryInv, HistoryMoves
    PROVE  /\ \A me : WorkerFine(me) => WorkerFine(me)'
           /\ lost' = <<>> => /\ lost = <<>>
                              /\ \A r : ReconcileFine(r) => ReconcileFine(r)'
<1>1. ASSUME NEW me, WorkerFine(me)  PROVE WorkerFine(me)'
  <2>1. \A x : Recorded(x) => Recorded(x)'  BY CopiesStay
  <2> QED  BY <1>1, <2>1 DEF WorkerFine
<1>2. ASSUME lost' = <<>>, NEW r, ReconcileFine(r)  PROVE ReconcileFine(r)'
  <2>1. Begins(journal, journal')  BY <1>2 DEF HistoryMoves
  <2>2. Len(journal) \in Nat /\ Len(journal') \in Nat /\ Len(journal) <= Len(journal')
    BY <2>1, ListedFacts DEF HistoryInv, HistoryMoves, SignedHistory, Begins
  <2>3. \A n \in Nat : n <= Len(journal) => DigestAt(n)' = DigestAt(n)
    BY <2>1, <2>2 DEF Begins, DigestAt
  <2> QED  BY <1>2, <2>2, <2>3 DEF ReconcileFine
<1> QED  BY <1>1, <1>2 DEF HistoryMoves

\* A step of something else than the projection.
LEMMA ProjectionRests ==
    ASSUME HistoryInv, HistoryMoves, ProjectionInv, UNCHANGED projectionVars
    PROVE  ProjectionInv'
<1>1. records' = records /\ worker' = worker /\ reconciled' = reconciled
  BY DEF projectionVars
<1>2. Copies(records)'  BY <1>1, CopiesStay DEF ProjectionInv
<1>3. /\ \A me : WorkerFine(me) => WorkerFine(me)'
      /\ lost' = <<>> => /\ lost = <<>>
                         /\ \A r : ReconcileFine(r) => ReconcileFine(r)'
  BY ViewsStay
<1> QED  BY <1>1, <1>2, <1>3 DEF ProjectionInv

\* A worker that goes on.
LEMMA WorkerKept ==
    ASSUME HistoryInv, HistoryMoves, ProjectionInv,
           UNCHANGED <<journal, lost, reconciled>>,
           NEW w \in Workers, NEW me, WorkerFine(me),
           worker' = [worker EXCEPT ![w] = me],
           Copies(records')
    PROVE  ProjectionInv'
<1>1. /\ \A it : WorkerFine(it) => WorkerFine(it)'
      /\ lost' = <<>> => \A r : ReconcileFine(r) => ReconcileFine(r)'
  BY ViewsStay
<1>2. DOMAIN worker' = Workers /\ worker'[w] = me
      /\ \A v \in Workers \ {w} : worker'[v] = worker[v]
  BY DEF ProjectionInv
<1>3. \A v \in Workers : WorkerFine(worker[v])  BY DEF ProjectionInv
<1>4. ASSUME NEW v \in Workers  PROVE WorkerFine(worker[v])'
  <2>1. CASE v = w  BY <1>1, <1>2, <2>1
  <2>2. CASE v # w  BY <1>1, <1>2, <1>3, <2>2
  <2> QED  BY <2>1, <2>2
<1>5. Copies(records)'  BY DEF Copies, Histories
<1>6. lost' = <<>> => ReconcileFine(reconciled)'  BY <1>1 DEF ProjectionInv
<1> QED  BY <1>2, <1>4, <1>5, <1>6 DEF ProjectionInv

\* A reconcile that goes on.
LEMMA ReconcileKept ==
    ASSUME HistoryInv, HistoryMoves, ProjectionInv,
           UNCHANGED <<journal, lost, records, worker>>,
           lost = <<>> => ReconcileFine(reconciled')
    PROVE  ProjectionInv'
<1>1. \A it : WorkerFine(it) => WorkerFine(it)'  BY ViewsStay
<1>2. Copies(records)'  BY CopiesStay DEF ProjectionInv
<1>3. lost' = <<>> => ReconcileFine(reconciled)'
  BY DEF ReconcileFine, DigestAt
<1> QED  BY <1>1, <1>2, <1>3 DEF ProjectionInv

\* The offset of the projection, while the journal is not restored.
LEMMA OffsetStands ==
    ASSUME HistoryInv, lost = <<>>, Copies(records)
    PROVE  /\ Len(records) \in Nat /\ Len(records) <= Len(journal)
           /\ HeadDigest(records) = DigestAt(Len(records))
           /\ Len(journal) \in Nat /\ HeadDigest(journal) = DigestAt(Len(journal))
<1>1. Listed(journal) /\ Len(journal) \in Nat
      /\ HeadDigest(journal) = DigestAt(Len(journal))
  <2>1. Listed(journal)  BY DEF HistoryInv, SignedHistory
  <2>2. Len(journal) \in Nat /\ (journal = <<>>) = (Len(journal) = 0)
    BY <2>1, ListedFacts
  <2> QED  BY <2>1, <2>2 DEF HeadDigest, DigestAt
<1>2. Begins(records, journal)
  <2>1. PICK h \in Histories : Begins(records, h)  BY DEF Copies
  <2>2. CASE h = journal  BY <2>1, <2>2
  <2>3. CASE h = <<>>
    <3>1. Listed(records) /\ Len(records) <= 0  BY <2>1, <2>3, NothingListed DEF Begins
    <3>2. records = <<>>  BY <3>1, ListedFacts
    <3> QED  BY <1>1, <3>2, NothingListed
  <2> QED  BY <2>1, <2>2, <2>3 DEF Histories
<1>3. /\ Len(records) \in Nat /\ (records = <<>>) = (Len(records) = 0)
      /\ Len(records) <= Len(journal)
  BY <1>2, ListedFacts DEF Begins
<1>4. HeadDigest(records) = DigestAt(Len(records))
  BY <1>2, <1>3 DEF Begins, HeadDigest, DigestAt
<1> QED  BY <1>1, <1>3, <1>4

\* A step of a worker keeps what holds of the projection.
LEMMA WorkerMoves ==
    ASSUME HistoryInv, HistoryMoves, ProjectionInv, NEW w \in Workers, WorkerStep(w)
    PROVE  ProjectionInv'
<1> DEFINE old == worker[w]
<1>1. UNCHANGED <<journal, lost>>
  <2>1. WorkerSteps  BY DEF WorkerSteps
  <2> QED  BY <2>1, WorkerFrame
<1>2. /\ WorkerFine(old) /\ DOMAIN worker = Workers /\ Copies(records)
      /\ DOMAIN old = {"at", "count", "head", "entry"} /\ old.count \in Nat
  BY DEF ProjectionInv, WorkerFine
<1>3. Listed(records) /\ Len(records) \in Nat
  BY <1>2, ListedFacts DEF Copies, Begins
<1>4. CASE SyncStart(w)
  <2> DEFINE me == [old EXCEPT !.at = "offset"]
  <2>1. /\ records' \in {records, <<>>} /\ reconciled' = reconciled
        /\ worker' = [worker EXCEPT ![w].at = "offset"]
    BY <1>4 DEF SyncStart, Synchronizing
  <2>2. worker' = [worker EXCEPT ![w] = me]  BY <2>1
  <2>3. WorkerFine(me)  BY <1>2 DEF WorkerFine
  <2>4. Copies(records')
    <3>1. Listed(journal)  BY DEF HistoryInv, SignedHistory
    <3>2. Copies(<<>>)  BY <3>1, NothingListed DEF Copies, Histories
    <3> QED  BY <1>2, <2>1, <3>2
  <2> HIDE DEF me
  <2> QED  BY <1>1, <2>1, <2>2, <2>3, <2>4, WorkerKept
<1>5. CASE SyncOffset(w)
  <2> DEFINE me == [old EXCEPT !.at = "next", !.count = Len(records),
                               !.head = HeadDigest(records)]
  <2>1. /\ records' = records /\ reconciled' = reconciled
        /\ worker' = [worker EXCEPT ![w].at = "next", ![w].count = Len(records),
                                    ![w].head = HeadDigest(records)]
    BY <1>5 DEF SyncOffset
  <2>2. worker' = [worker EXCEPT ![w] = me]  BY <2>1
  <2>3. WorkerFine(me)  BY <1>2, <1>3 DEF WorkerFine
  <2>4. Copies(records')  BY <1>2, <2>1
  <2> HIDE DEF me
  <2> QED  BY <1>1, <2>1, <2>2, <2>3, <2>4, WorkerKept
<1>6. CASE SyncNext(w)
  <2>1. records' = records /\ reconciled' = reconciled /\ Copies(records')
    BY <1>2, <1>6 DEF SyncNext
  <2>2. CASE \E at \in {"done", "conflict"} : worker' = [worker EXCEPT ![w].at = at]
    <3>1. PICK at \in {"done", "conflict"} : worker' = [worker EXCEPT ![w].at = at]
      BY <2>2
    <3> DEFINE me == [old EXCEPT !.at = at]
    <3>2. worker' = [worker EXCEPT ![w] = me]  BY <3>1
    <3>3. WorkerFine(me)  BY <1>2, <3>1 DEF WorkerFine
    <3> HIDE DEF me
    <3> QED  BY <1>1, <2>1, <3>2, <3>3, WorkerKept
  <2>3. CASE /\ ~ (old.count >= Len(journal))
             /\ journal[old.count + 1].core.previous = old.head
             /\ worker' = [worker EXCEPT ![w].at = "apply",
                                         ![w].entry = <<journal[old.count + 1]>>]
    <3> DEFINE x == journal[old.count + 1]
               me == [old EXCEPT !.at = "apply", !.entry = <<x>>]
    <3>1. worker' = [worker EXCEPT ![w] = me]  BY <2>3
    <3>2. Recorded(x)
      <4>1. Len(journal) \in Nat  BY ListedFacts DEF HistoryInv, SignedHistory
      <4>2. old.count + 1 \in 1..Len(journal)  BY <1>2, <2>3, <4>1
      <4> QED  BY <4>2 DEF Recorded, Histories
    <3>3. WorkerFine(me)
      <4>1. x.core.previous = old.head  BY <2>3
      <4> HIDE DEF x
      <4>2. /\ DOMAIN me = {"at", "count", "head", "entry"} /\ me.count \in Nat
            /\ me.entry = <<x>> /\ me.head = old.head
        BY <1>2
      <4> HIDE DEF me
      <4> QED  BY <3>2, <4>1, <4>2 DEF WorkerFine
    <3> HIDE DEF me
    <3> QED  BY <1>1, <2>1, <3>1, <3>3, WorkerKept
  <2> QED  BY <1>6, <2>2, <2>3 DEF SyncNext, Synchronizing
<1>7. CASE SyncApply(w)
  <2>1. old.at = "apply" /\ reconciled' = reconciled  BY <1>7 DEF SyncApply
  <2>2. PICK x : Recorded(x) /\ old.entry = <<x>> /\ x.core.previous = old.head
    BY <1>2, <2>1 DEF WorkerFine
  <2>3. old.entry[1] = x /\ x.core.sequence \in Nat
    <3>1. old.entry[1] = x  BY <2>2
    <3> QED  BY <2>2, <3>1, RecordedAt
  <2> DEFINE result == compareAndApply(x, old.count, old.head)
             me == IF result = "conflict" THEN [old EXCEPT !.at = "conflict"]
                   ELSE [at |-> "next", count |-> x.core.sequence + 1,
                         head |-> x.entryDigest, entry |-> <<>>]
  <2>4. /\ worker' = [worker EXCEPT ![w] = me]
        /\ records' = IF result = "applied" THEN Append(records, x) ELSE records
    BY <1>7, <2>3 DEF SyncApply
  <2>5. result = "applied" => HeadDigest(records) = old.head
    BY DEF compareAndApply
  <2> HIDE DEF result
  <2>6. WorkerFine(me)
    <3>1. CASE result = "conflict"  BY <1>2, <3>1 DEF WorkerFine
    <3>2. CASE result # "conflict"  BY <2>3, <3>2 DEF WorkerFine
    <3> QED  BY <3>1, <3>2
  <2>7. Copies(records')
    <3>1. CASE result = "applied"
      <4>1. Copies(Append(records, x))  BY <1>2, <2>2, <2>5, <3>1, CopyGrows
      <4> QED  BY <2>4, <3>1, <4>1
    <3>2. CASE result # "applied"  BY <1>2, <2>4, <3>2
    <3> QED  BY <3>1, <3>2
  <2> HIDE DEF me
  <2> QED  BY <1>1, <2>1, <2>4, <2>6, <2>7, WorkerKept
<1> QED  BY <1>4, <1>5, <1>6, <1>7 DEF WorkerStep

\* A step of reconciliation keeps what holds of it.
LEMMA ReconcileMoves ==
    ASSUME HistoryInv, HistoryMoves, ProjectionInv,
           ReconcileHead \/ ReconcileOffset \/ ReconcileJudge
    PROVE  ProjectionInv'
<1> DEFINE r == reconciled
<1>1. UNCHANGED <<journal, lost, records, worker>>
  BY DEF ReconcileHead, ReconcileOffset, ReconcileJudge, mirrorVars
<1>2. SUFFICES ASSUME lost = <<>>  PROVE ReconcileFine(reconciled')
  BY <1>1, ReconcileKept
<1>3. /\ ReconcileFine(r)
      /\ DOMAIN r = {"at", "headAt", "head", "offsetAt", "offset", "status"}
  BY <1>2 DEF ProjectionInv, ReconcileFine
<1>4. /\ Len(records) \in Nat /\ Len(records) <= Len(journal)
      /\ HeadDigest(records) = DigestAt(Len(records))
      /\ Len(journal) \in Nat /\ HeadDigest(journal) = DigestAt(Len(journal))
  BY <1>2, OffsetStands DEF ProjectionInv
<1>5. CASE ReconcileHead
  <2> DEFINE at == IF r.at = "idle" THEN "head" ELSE "judge"
  <2>1. /\ r.at \in {"idle", "offset"}
        /\ reconciled' = [r EXCEPT !.head = HeadDigest(journal),
                                   !.headAt = Len(journal), !.at = at]
    BY <1>5 DEF ReconcileHead
  <2>2. /\ DOMAIN reconciled' = DOMAIN r
        /\ reconciled'.head = HeadDigest(journal) /\ reconciled'.headAt = Len(journal)
        /\ reconciled'.at # "done" /\ reconciled'.status = r.status
        /\ reconciled'.offset = r.offset /\ reconciled'.offsetAt = r.offsetAt
    BY <1>3, <2>1
  <2>3. r.status = "none"  BY <1>3, <2>1 DEF ReconcileFine
  <2> QED  BY <1>3, <1>4, <2>2, <2>3 DEF ReconcileFine
<1>6. CASE ReconcileOffset
  <2> DEFINE at == IF r.at = "idle" THEN "offset" ELSE "judge"
  <2>1. /\ r.at \in {"idle", "head"}
        /\ reconciled' = [r EXCEPT !.offset = HeadDigest(records),
                                   !.offsetAt = Len(records), !.at = at]
    BY <1>6 DEF ReconcileOffset
  <2>2. /\ DOMAIN reconciled' = DOMAIN r
        /\ reconciled'.offset = HeadDigest(records) /\ reconciled'.offsetAt = Len(records)
        /\ reconciled'.at # "done" /\ reconciled'.status = r.status
        /\ reconciled'.head = r.head /\ reconciled'.headAt = r.headAt
    BY <1>3, <2>1
  <2>3. r.status = "none"  BY <1>3, <2>1 DEF ReconcileFine
  <2> QED  BY <1>3, <1>4, <2>2, <2>3 DEF ReconcileFine
<1>7. CASE ReconcileJudge
  <2> DEFINE held == r.offsetAt <= Len(journal)
                     /\ journal[r.offsetAt].entryDigest = r.offset
             status == IF r.headAt = 0 /\ r.offsetAt = 0 THEN "empty"
                       ELSE IF r.offsetAt = 0 THEN "pending"
                       ELSE IF r.headAt = r.offsetAt
                       THEN IF r.head = r.offset THEN "verified" ELSE "gap_detected"
                       ELSE IF r.offsetAt < r.headAt /\ held THEN "pending"
                       ELSE "gap_detected"
  <2>1. reconciled' = [r EXCEPT !.at = "done", !.status = status]
    BY <1>7 DEF ReconcileJudge
  <2>2. /\ r.headAt \in Nat /\ r.head = DigestAt(r.headAt)
        /\ r.offsetAt \in Nat /\ r.offsetAt <= Len(journal)
        /\ r.offset = DigestAt(r.offsetAt)
    BY <1>3 DEF ReconcileFine
  <2>3. r.offsetAt # 0 => held  BY <2>2 DEF DigestAt
  <2>4. r.headAt = r.offsetAt => r.head = r.offset  BY <2>2
  <2>5. status = "gap_detected" => r.offsetAt > r.headAt
    <3> HIDE DEF held, r
    <3> QED  BY <2>2, <2>3, <2>4
  <2> HIDE DEF status
  <2>6. /\ DOMAIN reconciled' = DOMAIN r
        /\ reconciled'.at = "done" /\ reconciled'.status = status
        /\ reconciled'.head = r.head /\ reconciled'.headAt = r.headAt
        /\ reconciled'.offset = r.offset /\ reconciled'.offsetAt = r.offsetAt
    BY <1>3, <2>1
  <2> QED  BY <1>3, <2>5, <2>6 DEF ReconcileFine
<1> QED  BY <1>5, <1>6, <1>7

\* Every step keeps what holds of the projection.
LEMMA ProjectionKept ==
    ASSUME HistoryInv, HistoryMoves, ProjectionInv, [Next]_vars
    PROVE  ProjectionInv'
<1>1. CASE UNCHANGED projectionVars  BY <1>1, ProjectionRests
<1>2. CASE WorkerSteps  BY <1>2, WorkerMoves, ReconcileMoves DEF WorkerSteps
<1>3. CASE UNCHANGED vars  BY <1>1, <1>3 DEF vars, viewVars
<1>4. CASE Next
  <2>1. CASE HistoryStep  BY <1>1, <2>1, HistoryFrame
  <2>2. CASE CallSteps  BY <1>1, <2>2, CallFrame
  <2>3. CASE DeliverySteps  BY <1>1, <2>3, DeliveryFrame
  <2>4. CASE ReaderSteps  BY <1>1, <2>4, ReaderFrame
  <2>5. CASE UNCHANGED <<setting, clock, journal, lost, callVars, publicVars,
                         mirrorVars, viewVars>>
    BY <1>1, <2>5 DEF viewVars
  <2> QED  BY <1>2, <1>4, <2>1, <2>2, <2>3, <2>4, <2>5, StepKinds
<1> QED  BY <1>3, <1>4

\* What it says of the projection.
LEMMA ProjectionHolds ==
    ASSUME HistoryInv, ProjectionInv
    PROVE  ProjectionFaithful
<1>1. PICK h \in Histories : Begins(records, h)  BY DEF ProjectionInv, Copies
<1>2. Listed(h)  BY DEF HistoryInv, SignedHistory, Histories
<1>3. IsPrefix(records, h)  BY <1>1, <1>2, BeginsIsPrefix
<1>4. \E g \in {journal, lost} : IsPrefix(records, g)  BY <1>3 DEF Histories
<1> QED  BY <1>4 DEF ProjectionFaithful, ProjectionInv, ReconcileFine

\* Every copy of the ledger is the beginning of one signed history, whatever
\* interleaves with it: mirror, pages and projection (mirror-service.ts,
\* read-service.ts, projection.ts).
THEOREM EveryCopyIsFaithful == Spec => []CopiesFaithful
<1> DEFINE IInv == /\ SettingInv /\ HistoryInv /\ MirrorInv /\ ReaderInv
                   /\ ProjectionInv
<1>1. Init => IInv
  <2> HAVE Init
  <2>1. SettingInv  BY DEF Init, SettingInv
  <2> QED  BY <2>1, HistoryStarts, MirrorStarts, ReaderStarts, ProjectionStarts
<1>2. IInv /\ [Next]_vars => IInv'
  <2> SUFFICES ASSUME IInv, [Next]_vars  PROVE IInv'  OBVIOUS
  <2>1. HistoryMoves  BY HistoryKept
  <2>2. SettingInv' /\ HistoryInv'  BY <2>1 DEF HistoryMoves, SettingInv
  <2> QED  BY <2>1, <2>2, MirrorKept, ReadersKept, ProjectionKept
<1>3. IInv => CopiesFaithful
  BY SettingSets, MirrorHolds, ReadersHold, ProjectionHolds DEF CopiesFaithful
<1> HIDE DEF IInv
<1> QED  BY <1>1, <1>2, <1>3, PTL DEF Spec

-----------------------------------------------------------------------------
(* Checkpoints: who holds a builder's lock, and what its calls know.       *)

LocalFields == {"head", "count", "entries", "put", "checkpoint", "inserted",
                "due", "tries", "got"}

Locked == {"head", "entries", "latest", "put"}
Owning == {"entries", "latest", "put"}

\* A call between its place in the queue and its release is in the queue, and
\* past the head of the journal it is at the front.
LockInv ==
    /\ DOMAIN tails = Builders /\ \A b \in Builders : Listed(tails[b])
    /\ DOMAIN pc = Calls /\ DOMAIN local = Calls
    /\ \A c \in Calls :
          /\ DOMAIN local[c] = LocalFields
          /\ pc[c] # "idle" => c \in setting.calls /\ journal # <<>>
          /\ pc[c] \in Locked => c \in ToSet(tails[BuilderOf[c]])
          /\ pc[c] \in Owning => Holds(c)

\* At first no lock is held.
LEMMA LockStarts ==
    ASSUME Init
    PROVE  LockInv
<1>1. \A c \in Calls : pc[c] = "idle" /\ local[c] = NoLocal  BY DEF Init
<1>2. DOMAIN NoLocal = LocalFields  BY DEF NoLocal, LocalFields
<1>3. \A b \in Builders : tails[b] = <<>>  BY DEF Init
<1> QED  BY <1>1, <1>2, <1>3, NothingListed DEF Init, LockInv, Locked, Owning

\* Two calls of one builder never own its lock together.
LEMMA OneOwner ==
    ASSUME LockInv, NEW c \in Calls, NEW d \in Calls, pc[c] \in Owning,
           pc[d] \in Owning, BuilderOf[c] = BuilderOf[d]
    PROVE  c = d
BY DEF LockInv, Holds

\* The first of a queue, and what is left when it leaves.
LEMMA QueueFacts ==
    ASSUME NEW q, Listed(q), q # <<>>
    PROVE  /\ Head(q) = q[1] /\ Listed(Tail(q)) /\ Head(q) \in ToSet(q)
           /\ \A x \in ToSet(q) : x = Head(q) \/ x \in ToSet(Tail(q))
           /\ ToSet(Tail(q)) \subseteq ToSet(q)
           /\ Len(Tail(q)) = Len(q) - 1
           /\ \A i \in 1..Len(q) - 1 : Tail(q)[i] = q[i + 1]
<1>1. PICK n \in Nat : n = Len(q) /\ n # 0  BY ListedFacts
<1>2. q \in Seq(ToSet(q))  BY ListedFacts
<1>3. /\ Tail(q) \in Seq(ToSet(q)) /\ Len(Tail(q)) = n - 1
      /\ \A i \in 1..n - 1 : Tail(q)[i] = q[i + 1]
  BY <1>1, <1>2, HeadTailProperties
<1>4. /\ Listed(Tail(q)) /\ ToSet(Tail(q)) \subseteq ToSet(q)
      /\ \A i \in 1..n - 1 : Tail(q)[i] \in ToSet(Tail(q))
  <2>1. \A S, s : s \in Seq(S) =>
            /\ Listed(s) /\ ToSet(s) \subseteq S
            /\ \A i \in 1..Len(s) : s[i] \in ToSet(s)
    <3> TAKE S, s
    <3> HAVE s \in Seq(S)
    <3> QED  BY ListFacts
  <2> QED  BY <1>3, <2>1
<1>5. Head(q) = q[1]  BY <1>2
<1>6. ASSUME NEW x \in ToSet(q)  PROVE x = Head(q) \/ x \in ToSet(Tail(q))
  <2>1. PICK i \in 1..n : q[i] = x  BY <1>1, ListedFacts
  <2>2. CASE i = 1  BY <1>5, <2>1, <2>2
  <2>3. CASE i # 1
    <3>1. i - 1 \in 1..n - 1 /\ (i - 1) + 1 = i  BY <1>1, <2>1, <2>3
    <3>2. Tail(q)[i - 1] = q[(i - 1) + 1]  BY <1>3, <3>1
    <3>3. Tail(q)[i - 1] = x  BY <2>1, <3>1, <3>2
    <3> QED  BY <1>4, <3>1, <3>3
  <2> QED  BY <2>2, <2>3
<1>7. Head(q) \in ToSet(q)
  <2>1. 1 \in 1..n  BY <1>1
  <2> QED  BY <1>1, <1>5, <2>1, ListedFacts
<1> QED  BY <1>1, <1>3, <1>4, <1>5, <1>6, <1>7

\* One call moves.
CallMoves(c, at, me) ==
    /\ DOMAIN pc' = Calls /\ DOMAIN local' = Calls
    /\ pc'[c] = at /\ local'[c] = me /\ DOMAIN me = LocalFields
    /\ \A d \in Calls \ {c} : pc'[d] = pc[d] /\ local'[d] = local[d]

\* It keeps its place in the queue, joins it or leaves it.
LockChange(c, at) ==
    \/ /\ tails' = tails /\ pc[c] # "idle"
       /\ at \in Locked => pc[c] \in Locked
       /\ at \in Owning => Holds(c)
    \/ /\ tails' = [tails EXCEPT ![BuilderOf[c]] = Append(@, c)]
       /\ at = "head" /\ c \in setting.calls /\ journal # <<>>
    \/ /\ Release(c) /\ pc[c] \in Owning /\ at \notin Locked

\* What such a move leaves of the locks.
LEMMA LockMoves ==
    ASSUME LockInv, HistoryMoves, NEW c \in Calls, NEW at, NEW me,
           CallMoves(c, at, me), LockChange(c, at)
    PROVE  LockInv'
<1> DEFINE b == BuilderOf[c]
<1>0. b \in Builders /\ \A d \in Calls : BuilderOf[d] \in Builders  BY DEF Builders
<1>1. /\ DOMAIN pc' = Calls /\ DOMAIN local' = Calls /\ pc'[c] = at /\ local'[c] = me
      /\ \A d \in Calls \ {c} : pc'[d] = pc[d] /\ local'[d] = local[d]
      /\ setting' = setting /\ (journal # <<>> => journal' # <<>>)
      /\ DOMAIN me = LocalFields
  BY DEF CallMoves, HistoryMoves
<1>2. \A d \in Calls : DOMAIN local'[d] = LocalFields  BY <1>1 DEF LockInv
<1> HIDE DEF b
<1>3. CASE /\ tails' = tails /\ pc[c] # "idle"
           /\ at \in Locked => pc[c] \in Locked
           /\ at \in Owning => Holds(c)
  <2>1. \A d \in Calls : Holds(d)' = Holds(d)  BY <1>3 DEF Holds
  <2>2. ASSUME NEW d \in Calls
        PROVE  /\ pc'[d] # "idle" => d \in setting'.calls /\ journal' # <<>>
               /\ pc'[d] \in Locked => d \in ToSet(tails'[BuilderOf[d]])
               /\ pc'[d] \in Owning => Holds(d)'
    <3>1. CASE d = c  BY <1>1, <1>3, <2>1, <3>1 DEF LockInv
    <3>2. CASE d # c  BY <1>1, <1>3, <2>1, <3>2 DEF LockInv
    <3> QED  BY <3>1, <3>2
  <2>3. DOMAIN tails' = Builders /\ \A x \in Builders : Listed(tails'[x])
    BY <1>3 DEF LockInv
  <2> QED  BY <1>1, <1>2, <2>2, <2>3 DEF LockInv
<1>4. CASE /\ tails' = [tails EXCEPT ![BuilderOf[c]] = Append(@, c)]
           /\ at = "head" /\ c \in setting.calls /\ journal # <<>>
  <2> DEFINE q == tails[b]
  <2>1. Listed(q) /\ Len(q) \in Nat /\ (q = <<>>) = (Len(q) = 0)
    BY <1>0, ListedFacts DEF LockInv
  <2>2. /\ DOMAIN tails' = Builders /\ tails'[b] = Append(q, c)
        /\ \A x \in Builders \ {b} : tails'[x] = tails[x]
    BY <1>0, <1>4 DEF LockInv, b
  <2>3. /\ Listed(tails'[b]) /\ ToSet(tails'[b]) = ToSet(q) \cup {c}
        /\ Len(tails'[b]) = Len(q) + 1 /\ \A i \in 1..Len(q) : tails'[b][i] = q[i]
    BY <2>1, <2>2, AppendListed
  <2>4. \A x \in Builders : Listed(tails'[x])  BY <2>2, <2>3 DEF LockInv
  <2>5. q # <<>> => tails'[b] # <<>> /\ Head(tails'[b]) = Head(q)
    <3> SUFFICES ASSUME q # <<>>  PROVE tails'[b] # <<>> /\ Head(tails'[b]) = Head(q)
      OBVIOUS
    <3>1. 1 \in 1..Len(q) /\ Len(tails'[b]) # 0  BY <2>1, <2>3
    <3>2. tails'[b] # <<>>  BY <2>3, <3>1, ListedFacts
    <3>3. Head(q) = q[1] /\ Head(tails'[b]) = tails'[b][1]
      BY <2>1, <2>3, <3>2, QueueFacts
    <3> QED  BY <2>3, <3>1, <3>2, <3>3
  <2>6. ASSUME NEW d \in Calls
        PROVE  /\ pc'[d] # "idle" => d \in setting'.calls /\ journal' # <<>>
               /\ pc'[d] \in Locked => d \in ToSet(tails'[BuilderOf[d]])
               /\ pc'[d] \in Owning => Holds(d)'
    <3>1. CASE d = c
      <4>1. pc'[d] = "head" /\ BuilderOf[d] = b  BY <1>1, <1>4, <3>1 DEF b
      <4> QED  BY <1>1, <1>4, <2>3, <3>1, <4>1 DEF Owning
    <3>2. CASE d # c
      <4>1. /\ pc'[d] = pc[d] /\ BuilderOf[d] \in Builders
            /\ pc[d] # "idle" => d \in setting.calls /\ journal # <<>>
            /\ pc[d] \in Locked => d \in ToSet(tails[BuilderOf[d]])
            /\ pc[d] \in Owning =>
                  tails[BuilderOf[d]] # <<>> /\ Head(tails[BuilderOf[d]]) = d
        BY <1>0, <1>1, <3>2 DEF LockInv, Holds
      <4>2. CASE BuilderOf[d] = b  BY <1>1, <2>3, <2>5, <4>1, <4>2 DEF Holds
      <4>3. CASE BuilderOf[d] # b  BY <1>1, <2>2, <4>1, <4>3 DEF Holds
      <4> QED  BY <4>2, <4>3
    <3> QED  BY <3>1, <3>2
  <2> QED  BY <1>1, <1>2, <2>2, <2>4, <2>6 DEF LockInv
<1>5. CASE Release(c) /\ pc[c] \in Owning /\ at \notin Locked
  <2> DEFINE q == tails[b]
  <2>1. Listed(q) /\ q # <<>> /\ Head(q) = c
    BY <1>0, <1>5 DEF LockInv, Holds, b
  <2>2. /\ DOMAIN tails' = Builders /\ tails'[b] = Tail(q)
        /\ \A x \in Builders \ {b} : tails'[x] = tails[x]
    BY <1>0, <1>5 DEF LockInv, Release, b
  <2>3. Listed(Tail(q)) /\ \A x \in ToSet(q) : x = c \/ x \in ToSet(Tail(q))
    BY <2>1, QueueFacts
  <2>4. \A x \in Builders : Listed(tails'[x])  BY <2>2, <2>3 DEF LockInv
  <2>5. ASSUME NEW d \in Calls
        PROVE  /\ pc'[d] # "idle" => d \in setting'.calls /\ journal' # <<>>
               /\ pc'[d] \in Locked => d \in ToSet(tails'[BuilderOf[d]])
               /\ pc'[d] \in Owning => Holds(d)'
    <3>1. CASE d = c
      <4>1. pc[c] # "idle" /\ at \notin Owning  BY <1>5 DEF Owning, Locked
      <4> QED  BY <1>1, <1>5, <3>1, <4>1 DEF LockInv
    <3>2. CASE d # c
      <4>1. /\ pc'[d] = pc[d] /\ BuilderOf[d] \in Builders
            /\ pc[d] # "idle" => d \in setting.calls /\ journal # <<>>
            /\ pc[d] \in Locked => d \in ToSet(tails[BuilderOf[d]])
            /\ pc[d] \in Owning =>
                  tails[BuilderOf[d]] # <<>> /\ Head(tails[BuilderOf[d]]) = d
        BY <1>0, <1>1, <3>2 DEF LockInv, Holds
      <4>2. CASE BuilderOf[d] = b
        <5>1. pc[d] \notin Owning  BY <2>1, <3>2, <4>1, <4>2
        <5> QED  BY <1>1, <2>2, <2>3, <3>2, <4>1, <4>2, <5>1
      <4>3. CASE BuilderOf[d] # b  BY <1>1, <2>2, <4>1, <4>3 DEF Holds
      <4> QED  BY <4>2, <4>3
    <3> QED  BY <3>1, <3>2
  <2> QED  BY <1>1, <1>2, <2>2, <2>4, <2>5 DEF LockInv
<1> QED  BY <1>3, <1>4, <1>5 DEF LockChange

\* What a call read is a signed history's beginning.
SnapInv ==
    \A c \in Calls :
        /\ pc[c] = "entries" => local[c].count \in Nat \ {0}
        /\ pc[c] = "latest" => local[c].entries # <<>> /\ Copies(local[c].entries)

\* The hooks that are due are those of stored checkpoints, and a call has some
\* only while it runs them.
HooksOf(me, at) ==
    /\ me.due \in Seq(store) /\ (me.due # <<>>) = (at = "hook")
    /\ me.inserted \in BOOLEAN
    /\ me.inserted => me.checkpoint \in Seq(store)

HookInv ==
    /\ DOMAIN failedHooks = Builders
    /\ \A b \in Builders : failedHooks[b] \in Seq(store)
    /\ \A c \in Calls : HooksOf(local[c], pc[c])
    /\ HooksNotLost

\* A checkpoint signs a beginning of the history.
Under(x, h) ==
    /\ x.core.treeSize \in 1..Len(h)
    /\ x.core.head = h[x.core.treeSize].entryDigest
    /\ x.core.root = root(Leaves(SubSeq(h, 1, x.core.treeSize)))

Smaller(x) == {d \in store : d.core.treeSize < x.core.treeSize}

\* It names the next smaller checkpoint as its predecessor.
Chained(x, below) ==
    IF below = {} THEN x.core.previous = NoDigest
    ELSE \E d \in below : /\ x.core.previous = d.digest
                          /\ \A y \in below : y.core.treeSize <= d.core.treeSize

\* A signed checkpoint that is about to be stored.
Continues(p) ==
    /\ \E h \in Histories : \A x \in store \cup {p} : Under(x, h)
    /\ \A x \in store : x.core.treeSize < p.core.treeSize
    /\ Chained(p, store)

ChainInv ==
    /\ \E h \in Histories : \A x \in store : Under(x, h)
    /\ \A x \in store : Chained(x, Smaller(x))
    /\ \A c \in Calls : pc[c] = "put" => Continues(local[c].put[1])

CallInv == LockInv /\ SnapInv /\ HookInv /\ (OneBuilder => ChainInv)

\* At first no call is under way.
LEMMA CallsStart ==
    ASSUME Init
    PROVE  CallInv
<1>1. /\ \A c \in Calls : pc[c] = "idle" /\ local[c] = NoLocal
      /\ store = {} /\ DOMAIN failedHooks = Builders
      /\ \A b \in Builders : failedHooks[b] = <<>>
      /\ Histories # {}
  BY DEF Init, Histories
<1>2. NoLocal.due = <<>> /\ NoLocal.inserted = FALSE  BY DEF NoLocal
<1>3. <<>> \in Seq(store)  BY EmptySeq
<1>4. HookInv  BY <1>1, <1>2, <1>3 DEF HookInv, HooksOf, HooksNotLost
<1>5. SnapInv /\ ChainInv  BY <1>1 DEF SnapInv, ChainInv
<1> QED  BY <1>4, <1>5, LockStarts DEF CallInv

\* A checkpoint stays under a history that is added to.
LEMMA UnderOn ==
    ASSUME NEW x, NEW g, NEW h, Listed(g), Listed(h), Begins(g, h), Under(x, g)
    PROVE  Under(x, h)
<1>1. PICK n \in 1..Len(g) : n = x.core.treeSize  BY DEF Under
<1>2. Len(g) \in Nat /\ Len(h) \in Nat /\ Len(g) <= Len(h) /\ g[n] = h[n]
  BY <1>1, ListedFacts DEF Begins
<1>3. SubSeq(g, 1, n) = SubSeq(h, 1, n)  BY <1>1, <1>2, BeginsIsPrefix
<1>4. n \in 1..Len(h)  BY <1>1, <1>2
<1> QED  BY <1>1, <1>2, <1>3, <1>4 DEF Under

\* All of one history stay under one history.
LEMMA UnderStays ==
    ASSUME HistoryInv, HistoryMoves, NEW S,
           \E h \in Histories : \A x \in S : Under(x, h)
    PROVE  \E h \in Histories' : \A x \in S : Under(x, h)
<1>1. PICK h \in Histories : \A x \in S : Under(x, h)  OBVIOUS
<1>2. PICK g \in Histories' : Begins(h, g)  BY DEF HistoryMoves
<1>3. Listed(h) /\ Listed(g)
  BY DEF HistoryInv, HistoryMoves, Histories, SignedHistory
<1> QED  BY <1>1, <1>2, <1>3, UnderOn

\* The chain stays while the store does.
LEMMA ChainRests ==
    ASSUME HistoryInv, HistoryMoves, ChainInv, store' = store,
           \A c \in Calls : pc'[c] = "put" =>
               Continues(local'[c].put[1])
    PROVE  ChainInv'
<1>1. \E h \in Histories' : \A x \in store : Under(x, h)
  BY UnderStays DEF ChainInv
<1>2. (\E h \in Histories : \A x \in store : Under(x, h))'
  <2>1. \A x, h : Under(x, h)' = Under(x, h)  BY DEF Under
  <2> QED  BY <1>1, <2>1
<1>3. \A x : Smaller(x)' = Smaller(x)  BY DEF Smaller
<1>4. (\A x \in store : Chained(x, Smaller(x)))'
  BY <1>3 DEF ChainInv, Chained
<1>5. ASSUME NEW p, Continues(p)  PROVE Continues(p)'
  <2>1. \E h \in Histories' : \A x \in store \cup {p} : Under(x, h)
    BY <1>5, UnderStays DEF Continues
  <2> QED  BY <1>5, <2>1 DEF Continues, Chained, Under
<1>6. ASSUME NEW c \in Calls, pc'[c] = "put"  PROVE Continues(local[c].put[1])'
  <2>1. Continues(local'[c].put[1])  BY <1>6
  <2> DEFINE p == local'[c].put[1]
  <2>2. Continues(p)  BY <2>1
  <2> HIDE DEF p
  <2>3. \E q : q = p /\ Continues(q)  BY <2>2
  <2>4. PICK q : q = p /\ Continues(q)  BY <2>3
  <2>5. Continues(q)'  BY <1>5, <2>4
  <2> QED  BY <2>4, <2>5 DEF p, Continues, Chained, Under
<1> QED  BY <1>2, <1>4, <1>6 DEF ChainInv

\* A call that goes on without a hook and without storing a checkpoint.
QuietMoves(c, at, me) ==
    /\ CallMoves(c, at, me) /\ LockChange(c, at)
    /\ UNCHANGED <<journal, lost, store, failedHooks, hooked>>
    /\ pc[c] # "hook" /\ at # "hook" /\ (pc[c] = "hooks" => ~setting.hooks)
    /\ me.due \in {<<>>, local[c].due}
    /\ \/ me.inserted = FALSE
       \/ me.inserted = local[c].inserted /\ me.checkpoint = local[c].checkpoint
    /\ at = "entries" => me.count \in Nat \ {0}
    /\ at = "latest" => me.entries # <<>> /\ Copies(me.entries)
    /\ (at = "put" /\ OneBuilder) => Continues(me.put[1])

\* A call that goes on quietly keeps what holds of the calls.
LEMMA QuietKept ==
    ASSUME SettingInv, HistoryInv, HistoryMoves, CallInv, NEW c \in Calls, NEW at, NEW me,
           QuietMoves(c, at, me)
    PROVE  CallInv'
<1>1. LockInv'  BY LockMoves DEF CallInv, QuietMoves
<1>2. /\ CallMoves(c, at, me)
      /\ pc'[c] = at /\ local'[c] = me
      /\ \A d \in Calls \ {c} : pc'[d] = pc[d] /\ local'[d] = local[d]
  BY DEF QuietMoves, CallMoves
<1>3. /\ store' = store /\ failedHooks' = failedHooks /\ hooked' = hooked
      /\ setting' = setting
      /\ pc[c] # "hook" /\ at # "hook" /\ (pc[c] = "hooks" => ~setting.hooks)
      /\ me.due \in {<<>>, local[c].due}
      /\ \/ me.inserted = FALSE
         \/ me.inserted = local[c].inserted /\ me.checkpoint = local[c].checkpoint
      /\ at = "entries" => me.count \in Nat \ {0}
      /\ at = "latest" => me.entries # <<>> /\ Copies(me.entries)
      /\ (at = "put" /\ OneBuilder) => Continues(me.put[1])
  BY DEF QuietMoves, HistoryMoves
<1>4. SnapInv'
  <2>1. \A s : Copies(s) => Copies(s)'  BY CopiesStay
  <2>2. ASSUME NEW d \in Calls
        PROVE  /\ pc'[d] = "entries" => local'[d].count \in Nat \ {0}
               /\ pc'[d] = "latest" => /\ local'[d].entries # <<>>
                                       /\ \E s : s = local'[d].entries /\ Copies(s)
    <3>1. CASE d = c  BY <1>2, <1>3, <3>1
    <3>2. CASE d # c  BY <1>2, <3>2 DEF CallInv, SnapInv
    <3> QED  BY <3>1, <3>2
  <2>3. ASSUME NEW d \in Calls, pc'[d] = "latest"  PROVE Copies(local[d].entries)'
    <3>1. PICK s : s = local'[d].entries /\ Copies(s)  BY <2>2, <2>3
    <3>2. Copies(s)'  BY <2>1, <3>1
    <3> QED  BY <3>1, <3>2
  <2> QED  BY <2>2, <2>3 DEF SnapInv
<1>5. HookInv'
  <2>1. /\ DOMAIN failedHooks = Builders
        /\ \A b \in Builders : failedHooks[b] \in Seq(store)
        /\ \A d \in Calls : HooksOf(local[d], pc[d])
    BY DEF CallInv, HookInv
  <2>2. local[c].due = <<>>  BY <1>3, <2>1 DEF HooksOf
  <2>3. ASSUME NEW d \in Calls  PROVE HooksOf(local[d], pc[d])'
    <3>1. HooksOf(local'[d], pc'[d])
      <4>1. CASE d = c
        <5>1. me.due = <<>>  BY <1>3, <2>2
        <5>2. HooksOf(me, at)
          <6>1. HooksOf(local[c], pc[c])  BY <2>1
          <6>2. <<>> \in Seq(store)  BY EmptySeq
          <6> QED  BY <1>3, <5>1, <6>1, <6>2 DEF HooksOf
        <5> QED  BY <1>2, <4>1, <5>2
      <4>2. CASE d # c  BY <1>2, <2>1, <4>2
      <4> QED  BY <4>1, <4>2
    <3> QED  BY <1>3, <3>1 DEF HooksOf
  <2>4. HooksNotLost'
    <3>1. SUFFICES ASSUME setting.hooks, NEW x \in store
                   PROVE  \/ x.digest \in hooked
                          \/ \E b \in Builders : x \in ToSet(failedHooks[b])
                          \/ \E d \in setting.calls :
                                \/ x \in ToSet(local'[d].due)
                                \/ pc'[d] = "hooks" /\ local'[d].inserted
                                   /\ x \in ToSet(local'[d].checkpoint)
      BY <1>3 DEF HooksNotLost
    <3>2. CASE \/ x.digest \in hooked
               \/ \E b \in Builders : x \in ToSet(failedHooks[b])
      BY <3>2
    <3>3. CASE \E d \in setting.calls :
                  \/ x \in ToSet(local[d].due)
                  \/ pc[d] = "hooks" /\ local[d].inserted
                     /\ x \in ToSet(local[d].checkpoint)
      <4>1. PICK d \in setting.calls :
                  \/ x \in ToSet(local[d].due)
                  \/ pc[d] = "hooks" /\ local[d].inserted
                     /\ x \in ToSet(local[d].checkpoint)
        BY <3>3
      <4>2. d # c  BY <1>3, <2>2, <3>1, <4>1, NothingListed
      <4>3. d \in Calls  BY <4>1, SettingSets
      <4>4. pc'[d] = pc[d] /\ local'[d] = local[d]  BY <1>2, <4>2, <4>3
      <4> QED  BY <4>1, <4>4
    <3> QED  BY <3>1, <3>2, <3>3 DEF CallInv, HookInv, HooksNotLost
  <2> QED  BY <1>3, <2>1, <2>3, <2>4 DEF HookInv
<1>6. ASSUME OneBuilder'  PROVE ChainInv'
  <2>1. OneBuilder  BY <1>3, <1>6 DEF OneBuilder
  <2>2. ChainInv  BY <2>1 DEF CallInv
  <2>3. ASSUME NEW d \in Calls, pc'[d] = "put"  PROVE Continues(local'[d].put[1])
    <3>1. CASE d = c  BY <1>2, <1>3, <2>1, <2>3, <3>1
    <3>2. CASE d # c
      <4>1. pc[d] = "put" /\ local'[d] = local[d]  BY <1>2, <2>3, <3>2
      <4> QED  BY <2>2, <4>1 DEF ChainInv
    <3> QED  BY <3>1, <3>2
  <2> QED  BY <1>3, <2>2, <2>3, ChainRests
<1> QED  BY <1>1, <1>4, <1>5, <1>6 DEF CallInv

\* How a call moves, from the two EXCEPTs of an action.
LEMMA MovesBoth ==
    ASSUME LockInv, NEW c \in Calls, NEW at, NEW me, pc' = [pc EXCEPT ![c] = at],
           local' = [local EXCEPT ![c] = me], DOMAIN me = LocalFields
    PROVE  CallMoves(c, at, me)
BY DEF LockInv, CallMoves

\* The same, its local state kept.
LEMMA MovesPc ==
    ASSUME LockInv, NEW c \in Calls, NEW at, pc' = [pc EXCEPT ![c] = at], local' = local
    PROVE  CallMoves(c, at, local[c])
BY DEF LockInv, CallMoves

\* The same, its place kept.
LEMMA MovesLocal ==
    ASSUME LockInv, NEW c \in Calls, NEW me, pc' = pc,
           local' = [local EXCEPT ![c] = me], DOMAIN me = LocalFields
    PROVE  CallMoves(c, pc[c], me)
BY DEF LockInv, CallMoves

\* The latest checkpoint of a store under one history is its largest.
LEMMA LatestIs ==
    ASSUME HistoryInv, NEW h \in Histories, \A x \in store : Under(x, h), store # {}
    PROVE  /\ Latest # NoCheckpoint /\ Latest[1] \in store
           /\ \A d \in store : d.core.treeSize <= Latest[1].core.treeSize
<1>1. Len(h) \in Nat  BY ListedFacts DEF HistoryInv, Histories, SignedHistory
<1>2. \A x \in store : x.core.treeSize \in 1..Len(h)  BY DEF Under
<1> DEFINE S == {Len(h) - x.core.treeSize : x \in store}
<1>3. S \in SUBSET Nat /\ S # {}  BY <1>1, <1>2
<1>4. PICK n \in S : \A k \in S : n <= k  BY <1>3, LeastOf
<1>5. PICK c \in store : n = Len(h) - c.core.treeSize  BY <1>4
<1>6. ASSUME NEW d \in store  PROVE d.core.treeSize <= c.core.treeSize
  <2>1. Len(h) - c.core.treeSize <= Len(h) - d.core.treeSize  BY <1>4, <1>5
  <2> QED  BY <1>1, <1>2, <2>1
<1> DEFINE top == CHOOSE x \in store : \A d \in store : d.core.treeSize <= x.core.treeSize
<1>7. top \in store /\ \A d \in store : d.core.treeSize <= top.core.treeSize  BY <1>6
<1>8. Latest = <<top>>  BY DEF Latest
<1> HIDE DEF top
<1>9. Latest[1] = top /\ Latest # <<>>  BY <1>8
<1> QED  BY <1>7, <1>9 DEF NoCheckpoint

\* What a checkpoint's core says.
LEMMA CheckpointSays ==
    ASSUME NEW entries, Listed(entries), NEW previous, NEW at, NEW issuer, NEW p,
           p = SignCheckpoint(entries, previous, at, issuer)
    PROVE  /\ p.core.treeSize = Len(entries) /\ p.core.previous = previous
           /\ p.core.head = entries[Len(entries)].entryDigest
           /\ p.core.root = root(Leaves(entries))
<1>1. DOMAIN entries = 1..Len(entries)  BY ListedFacts
<1>2. Leaves(entries) = [i \in 1..Len(entries) |-> entries[i].entryDigest]
  BY <1>1 DEF Leaves
<1> QED  BY <1>2 DEF SignCheckpoint

\* A snapshot that extends the latest checkpoint extends all of the store.
LEMMA SignContinues ==
    ASSUME HistoryInv, ChainInv, NEW entries, entries # <<>>, Copies(entries),
           NEW p, NEW at,
           p = SignCheckpoint(entries,
                   IF Latest = NoCheckpoint THEN NoDigest ELSE Latest[1].digest,
                   at, Recorder),
           Latest # NoCheckpoint =>
               /\ assertExtends(Latest[1], entries)
               /\ Latest[1].core.treeSize # Len(entries)
    PROVE  Continues(p)
<1>1. PICK g \in Histories : Begins(entries, g)  BY DEF Copies
<1>2. SignedHistory(g) /\ Listed(g) /\ Listed(entries)
  BY <1>1 DEF HistoryInv, Histories, SignedHistory, Begins
<1>3. PICK n \in Nat : n = Len(entries) /\ n # 0  BY <1>2, ListedFacts
<1>4. Len(g) \in Nat /\ n <= Len(g) /\ \A i \in 1..n : entries[i] = g[i]
  BY <1>1, <1>2, <1>3, ListedFacts DEF Begins
<1>5. /\ p.core.treeSize = n /\ p.core.head = entries[n].entryDigest
      /\ p.core.root = root(Leaves(entries))
      /\ p.core.previous = IF Latest = NoCheckpoint THEN NoDigest ELSE Latest[1].digest
  BY <1>2, <1>3, CheckpointSays
<1>6. Under(p, g)
  <2>1. entries = SubSeq(g, 1, n)  BY <1>1, <1>2, <1>3, BeginsIsPrefix
  <2>2. n \in 1..Len(g) /\ entries[n] = g[n]  BY <1>3, <1>4
  <2> QED  BY <1>5, <2>1, <2>2 DEF Under
<1>7. CASE store = {}
  <2>1. Latest = NoCheckpoint  BY <1>7 DEF Latest
  <2> QED  BY <1>5, <1>6, <1>7, <2>1 DEF Continues, Chained
<1>8. CASE store # {}
  <2>1. PICK h \in Histories : \A x \in store : Under(x, h)  BY DEF ChainInv
  <2> DEFINE top == Latest[1]
  <2>2. /\ Latest # NoCheckpoint /\ top \in store
        /\ \A d \in store : d.core.treeSize <= top.core.treeSize
    BY <1>8, <2>1, LatestIs
  <2>3. SignedHistory(h) /\ Listed(h)  BY DEF HistoryInv, Histories, SignedHistory
  <2>4. Len(h) \in Nat  BY <2>3, ListedFacts
  <2>5. assertExtends(top, entries) /\ top.core.treeSize # n  BY <1>3, <2>2
  <2> HIDE DEF top
  <2>6. PICK m \in 1..Len(h) : m = top.core.treeSize /\ top.core.head = h[m].entryDigest
    BY <2>1, <2>2 DEF Under
  <2>7. m \in Nat /\ m # 0 /\ m < n  BY <1>3, <2>4, <2>5, <2>6 DEF assertExtends
  <2>8. top.core.head = entries[m].entryDigest
    <3> DEFINE prefix == SubSeq(entries, 1, m)
    <3>1. top.core.head = HeadDigest(prefix)  BY <2>5, <2>6 DEF assertExtends
    <3>2. Listed(prefix) /\ Len(prefix) = m /\ prefix[m] = entries[m]
      BY <1>2, <1>3, <2>7, FirstListed
    <3>3. prefix # <<>>  BY <2>7, <3>2, NothingListed
    <3> HIDE DEF prefix
    <3> QED  BY <3>1, <3>2, <3>3 DEF HeadDigest
  <2>9. m \in 1..Len(g) /\ h[m].entryDigest = g[m].entryDigest
    BY <1>3, <1>4, <2>6, <2>7, <2>8
  <2>10. \A k \in 1..m : h[k] = g[k]  BY <1>2, <2>3, <2>9, DigestsCommit
  <2>11. ASSUME NEW x \in store  PROVE Under(x, g) /\ x.core.treeSize < n
    <3>1. PICK t \in 1..Len(h) :
              /\ t = x.core.treeSize /\ x.core.head = h[t].entryDigest
              /\ x.core.root = root(Leaves(SubSeq(h, 1, t)))
      BY <2>1 DEF Under
    <3>2. t <= m /\ t \in Nat  BY <2>2, <2>4, <2>6, <3>1
    <3>3. h[t] = g[t] /\ t \in 1..Len(g)  BY <1>4, <2>7, <2>9, <2>10, <3>1, <3>2
    <3>4. SubSeq(h, 1, t) = SubSeq(g, 1, t)
      <4> DEFINE s == SubSeq(h, 1, t)
      <4>1. Listed(s) /\ Len(s) = t /\ \A i \in 1..t : s[i] = h[i]
        BY <2>3, <2>4, <3>1, <3>2, FirstListed
      <4>2. Begins(s, g)
        <5>1. t <= Len(g)  BY <1>4, <3>3
        <5>2. \A i \in 1..t : s[i] = g[i]
          <6>1. \A i \in 1..t : i \in 1..m  BY <2>7, <3>2
          <6> QED  BY <2>10, <4>1, <6>1
        <5> QED  BY <4>1, <5>1, <5>2 DEF Begins
      <4>3. s = SubSeq(g, 1, Len(s))  BY <1>2, <4>2, BeginsIsPrefix
      <4> QED  BY <4>1, <4>3
    <3>5. Under(x, g)  BY <3>1, <3>3, <3>4 DEF Under
    <3>6. t < n  BY <2>7, <3>2
    <3> QED  BY <3>1, <3>5, <3>6
  <2>12. Chained(p, store)  BY <1>5, <1>8, <2>2 DEF Chained, top
  <2> QED  BY <1>5, <1>6, <2>11, <2>12 DEF Continues
<1> QED  BY <1>7, <1>8

\* A step of something else than a call.
LEMMA CallsRest ==
    ASSUME HistoryInv, HistoryMoves, CallInv, UNCHANGED callVars
    PROVE  CallInv'
<1>1. /\ store' = store /\ tails' = tails /\ failedHooks' = failedHooks
      /\ hooked' = hooked /\ pc' = pc /\ local' = local /\ setting' = setting
      /\ (journal # <<>> => journal' # <<>>)
  BY DEF callVars, HistoryMoves
<1>2. LockInv'  BY <1>1 DEF CallInv, LockInv, Holds
<1>3. \A s : Copies(s) => Copies(s)'  BY CopiesStay
<1>4. SnapInv'
  <2>1. ASSUME NEW c \in Calls, pc[c] = "latest"
        PROVE  local[c].entries # <<>> /\ Copies(local[c].entries)'
    <3>1. local[c].entries # <<>> /\ Copies(local[c].entries)
      BY <2>1 DEF CallInv, SnapInv
    <3>2. PICK s : s = local[c].entries  OBVIOUS
    <3>3. Copies(s)'  BY <1>3, <3>1, <3>2
    <3> QED  BY <1>1, <3>1, <3>2, <3>3
  <2> QED  BY <1>1, <2>1 DEF CallInv, SnapInv
<1>5. HookInv'  BY <1>1 DEF CallInv, HookInv, HooksOf, HooksNotLost
<1>6. ASSUME OneBuilder'  PROVE ChainInv'
  <2>1. ChainInv  BY <1>1, <1>6 DEF CallInv, OneBuilder
  <2>2. \A c \in Calls : pc'[c] = "put" => Continues(local'[c].put[1])
    BY <1>1, <2>1 DEF ChainInv
  <2> QED  BY <1>1, <2>1, <2>2, ChainRests
<1> QED  BY <1>2, <1>4, <1>5, <1>6 DEF CallInv

\* What holds of a call before it moves.
LEMMA CallFacts ==
    ASSUME SettingInv, HistoryInv, CallInv, NEW c \in Calls
    PROVE  /\ LockInv /\ DOMAIN local[c] = LocalFields
           /\ DOMAIN NoLocal = LocalFields /\ NoLocal.due = <<>>
           /\ NoLocal.inserted = FALSE
           /\ pc[c] # "idle" => Len(journal) \in Nat \ {0} /\ c \in setting.calls
           /\ Listed(journal)
           /\ pc[c] \in Owning => Holds(c)
<1>1. Listed(journal)  BY DEF HistoryInv, SignedHistory
<1>2. DOMAIN NoLocal = LocalFields /\ NoLocal.due = <<>> /\ NoLocal.inserted = FALSE
  BY DEF NoLocal, LocalFields
<1>3. journal # <<>> => Len(journal) \in Nat \ {0}  BY <1>1, ListedFacts
<1> QED  BY <1>1, <1>2, <1>3 DEF CallInv, LockInv

\* The steps of a call that are quiet.
LEMMA QuietSteps ==
    ASSUME SettingInv, HistoryInv, HistoryMoves, CallInv, NEW c \in Calls,
           UNCHANGED <<journal, lost>>,
           \/ StartCheckpoint(c) \/ ReadHead(c) \/ ReadEntries(c)
           \/ TakeHooks(c) /\ ~setting.hooks
           \/ \E o \in Observers : PublishObserver(c, o)
           \/ ObserversDone(c)
           \/ \E a \in setting.anchors : PublishAnchor(c, a)
           \/ FinishPublication(c)
    PROVE  CallInv'
<1> DEFINE old == local[c]
<1>1. /\ LockInv /\ DOMAIN old = LocalFields
      /\ pc[c] # "idle" => Len(journal) \in Nat \ {0} /\ c \in setting.calls
      /\ Listed(journal) /\ (pc[c] \in Owning => Holds(c))
  BY CallFacts
<1>2. SUFFICES \E at, me : QuietMoves(c, at, me)  BY QuietKept
<1>3. CASE StartCheckpoint(c)
  <2>1. /\ c \in setting.calls /\ pc[c] = "idle" /\ journal # <<>>
        /\ tails' = [tails EXCEPT ![BuilderOf[c]] = Append(@, c)]
        /\ pc' = [pc EXCEPT ![c] = "head"] /\ local' = local
        /\ UNCHANGED <<store, failedHooks, hooked>>
    BY <1>3 DEF StartCheckpoint, Goto
  <2>2. CallMoves(c, "head", old)  BY <1>1, <2>1, MovesPc
  <2>3. LockChange(c, "head")  BY <2>1 DEF LockChange
  <2> QED  BY <2>1, <2>2, <2>3 DEF QuietMoves
<1>4. CASE ReadHead(c)
  <2> DEFINE me == [old EXCEPT !.head = HeadDigest(journal), !.count = Len(journal)]
  <2>1. /\ pc[c] = "head" /\ Holds(c) /\ tails' = tails
        /\ pc' = [pc EXCEPT ![c] = "entries"] /\ local' = [local EXCEPT ![c] = me]
        /\ UNCHANGED <<store, failedHooks, hooked>>
    BY <1>4 DEF ReadHead, Goto
  <2>2. DOMAIN me = LocalFields  BY <1>1
  <2>3. me.due = old.due /\ me.inserted = old.inserted
        /\ me.checkpoint = old.checkpoint /\ me.count = Len(journal)
    BY <1>1 DEF LocalFields
  <2>4. LockChange(c, "entries")  BY <2>1 DEF LockChange, Locked
  <2> HIDE DEF me
  <2>5. CallMoves(c, "entries", me)  BY <1>1, <2>1, <2>2, MovesBoth
  <2> QED  BY <1>1, <2>1, <2>3, <2>4, <2>5 DEF QuietMoves
<1>5. CASE ReadEntries(c)
  <2> DEFINE n == IF Len(journal) < old.count THEN Len(journal) ELSE old.count
             entries == SubSeq(journal, 1, n)
             me == [old EXCEPT !.entries = entries]
  <2>1. /\ pc[c] = "entries" /\ local' = [local EXCEPT ![c] = me]
        /\ \/ n = old.count /\ pc' = [pc EXCEPT ![c] = "latest"] /\ tails' = tails
           \/ pc' = [pc EXCEPT ![c] = "failed"] /\ Release(c)
        /\ UNCHANGED <<store, failedHooks, hooked>>
    BY <1>5 DEF ReadEntries, Goto
  <2>2. old.count \in Nat \ {0}  BY <2>1 DEF CallInv, SnapInv
  <2>3. n \in Nat /\ n <= Len(journal) /\ n # 0  BY <1>1, <2>1, <2>2
  <2> HIDE DEF n
  <2>4. Begins(entries, journal) /\ Listed(entries) /\ Len(entries) = n
    BY <1>1, <2>3, FirstListed
  <2>5. Copies(entries) /\ entries # <<>>
    BY <2>3, <2>4, NothingListed DEF Copies, Histories
  <2> HIDE DEF entries
  <2>6. /\ DOMAIN me = LocalFields /\ me.due = old.due /\ me.inserted = old.inserted
        /\ me.checkpoint = old.checkpoint /\ me.entries = entries
    BY <1>1 DEF LocalFields
  <2> HIDE DEF me
  <2>7. CASE pc' = [pc EXCEPT ![c] = "latest"] /\ tails' = tails
    <3>1. CallMoves(c, "latest", me)  BY <1>1, <2>1, <2>6, <2>7, MovesBoth
    <3>2. LockChange(c, "latest")  BY <1>1, <2>1, <2>7 DEF LockChange, Locked, Owning
    <3> QED  BY <2>1, <2>5, <2>6, <3>1, <3>2 DEF QuietMoves
  <2>8. CASE pc' = [pc EXCEPT ![c] = "failed"] /\ Release(c)
    <3>1. CallMoves(c, "failed", me)  BY <1>1, <2>1, <2>6, <2>8, MovesBoth
    <3>2. LockChange(c, "failed")  BY <2>1, <2>8 DEF LockChange, Locked, Owning
    <3> QED  BY <2>1, <2>6, <3>1, <3>2 DEF QuietMoves
  <2> QED  BY <2>1, <2>7, <2>8
<1>6. CASE TakeHooks(c) /\ ~setting.hooks
  <2>1. /\ pc[c] = "hooks" /\ pc' = [pc EXCEPT ![c] = "publish"] /\ local' = local
        /\ tails' = tails /\ UNCHANGED <<store, failedHooks, hooked>>
    BY <1>6 DEF TakeHooks, Goto
  <2>2. CallMoves(c, "publish", old)  BY <1>1, <2>1, MovesPc
  <2>3. LockChange(c, "publish")  BY <2>1 DEF LockChange, Locked, Owning
  <2> QED  BY <1>6, <2>1, <2>2, <2>3 DEF QuietMoves
<1>7. ASSUME NEW t, NEW at \in {"publish", "anchor"}, pc[c] = at, pc' = pc,
             \E ok \in BOOLEAN : Attempt(c, t, ok),
             UNCHANGED <<store, tails, failedHooks, hooked>>
      PROVE  \E me : QuietMoves(c, at, me)
  <2>1. PICK ok \in BOOLEAN : Attempt(c, t, ok)  BY <1>7
  <2>2. ASSUME NEW me, local' = [local EXCEPT ![c] = me], DOMAIN me = LocalFields,
               me.due = old.due, me.inserted = old.inserted,
               me.checkpoint = old.checkpoint
        PROVE  QuietMoves(c, at, me)
    <3>1. CallMoves(c, at, me)  BY <1>1, <1>7, <2>2, MovesLocal
    <3>2. LockChange(c, at)  BY <1>7 DEF LockChange, Locked, Owning
    <3> QED  BY <1>7, <2>2, <3>1, <3>2 DEF QuietMoves
  <2>3. CASE local' = [local EXCEPT ![c].got = @ \cup {t}]
    <3> DEFINE me == [old EXCEPT !.got = @ \cup {t}]
    <3>1. local' = [local EXCEPT ![c] = me]  BY <2>3
    <3>2. /\ DOMAIN me = LocalFields /\ me.due = old.due /\ me.inserted = old.inserted
          /\ me.checkpoint = old.checkpoint
      BY <1>1 DEF LocalFields
    <3> HIDE DEF me
    <3> QED  BY <2>2, <3>1, <3>2
  <2>4. CASE \E tried : local' = [local EXCEPT ![c].tries = tried]
    <3>1. PICK tried : local' = [local EXCEPT ![c].tries = tried]  BY <2>4
    <3> DEFINE me == [old EXCEPT !.tries = tried]
    <3>2. local' = [local EXCEPT ![c] = me]  BY <3>1
    <3>3. /\ DOMAIN me = LocalFields /\ me.due = old.due /\ me.inserted = old.inserted
          /\ me.checkpoint = old.checkpoint
      BY <1>1 DEF LocalFields
    <3> HIDE DEF me
    <3> QED  BY <2>2, <3>2, <3>3
  <2> QED  BY <2>1, <2>3, <2>4 DEF Attempt
<1>8. ASSUME NEW o \in Observers, PublishObserver(c, o)
      PROVE  \E at, me : QuietMoves(c, at, me)
  <2>1. /\ pc[c] = "publish" /\ pc' = pc
        /\ UNCHANGED <<store, tails, failedHooks, hooked>>
    BY <1>8 DEF PublishObserver
  <2>2. \E ok \in BOOLEAN : Attempt(c, o, ok)
    <3> DEFINE verdict == ObserverVerdict(o, local[c].checkpoint[1])
               ok == verdict \in {"new", "existing"}
    <3>1. Attempt(c, o, ok) \/ Attempt(c, o, FALSE)  BY <1>8 DEF PublishObserver
    <3>2. ok \in BOOLEAN  OBVIOUS
    <3> HIDE DEF ok
    <3> QED  BY <3>1, <3>2
  <2> QED  BY <1>7, <2>1, <2>2
<1>9. ASSUME NEW a \in setting.anchors, PublishAnchor(c, a)
      PROVE  \E at, me : QuietMoves(c, at, me)
  <2>1. /\ pc[c] = "anchor" /\ pc' = pc
        /\ UNCHANGED <<store, tails, failedHooks, hooked>>
        /\ \E ok \in BOOLEAN : Attempt(c, a, ok)
    BY <1>9 DEF PublishAnchor
  <2> QED  BY <1>7, <2>1
<1>10. CASE ObserversDone(c) \/ FinishPublication(c)
  <2>1. PICK at \in {"anchor", "published", "failed"} :
          /\ pc[c] \in {"publish", "anchor"} /\ pc' = [pc EXCEPT ![c] = at]
          /\ local' = local /\ tails' = tails /\ UNCHANGED <<store, failedHooks, hooked>>
    BY <1>10 DEF ObserversDone, FinishPublication, Goto
  <2>2. CallMoves(c, at, old)  BY <1>1, <2>1, MovesPc
  <2>3. LockChange(c, at)  BY <2>1 DEF LockChange, Locked, Owning
  <2> QED  BY <2>1, <2>2, <2>3 DEF QuietMoves
<1> QED  BY <1>3, <1>4, <1>5, <1>6, <1>8, <1>9, <1>10

\* The latest checkpoint is kept, or one that continues it is signed.
LEMMA SignMoves ==
    ASSUME SettingInv, HistoryInv, HistoryMoves, CallInv, NEW c \in Calls,
           UNCHANGED <<journal, lost>>, SignLatest(c)
    PROVE  CallInv'
<1> DEFINE old == local[c]
           entries == old.entries
           none == Latest = NoCheckpoint
           same == ~none /\ Latest[1].core.treeSize = Len(entries)
           extends == IF none THEN TRUE ELSE assertExtends(Latest[1], entries)
           p == SignCheckpoint(entries, IF none THEN NoDigest ELSE Latest[1].digest,
                               clock, Recorder)
           signed == [old EXCEPT !.put = <<p>>]
           kept == [NoLocal EXCEPT !.checkpoint = Latest]
<1>1. /\ LockInv /\ DOMAIN old = LocalFields /\ DOMAIN NoLocal = LocalFields
      /\ NoLocal.due = <<>> /\ NoLocal.inserted = FALSE
      /\ (pc[c] \in Owning => Holds(c))
  BY CallFacts
<1>2. SUFFICES \E at, me : QuietMoves(c, at, me)  BY QuietKept
<1>3. /\ pc[c] = "latest" /\ UNCHANGED <<store, failedHooks, hooked>>
      /\ \/ /\ local' = [local EXCEPT ![c] = NoLocal]
            /\ pc' = [pc EXCEPT ![c] = "failed"] /\ Release(c)
         \/ /\ local' = [local EXCEPT ![c] = kept]
            /\ pc' = [pc EXCEPT ![c] = "hooks"] /\ Release(c)
         \/ /\ extends /\ ~same /\ local' = [local EXCEPT ![c].put = <<p>>]
            /\ pc' = [pc EXCEPT ![c] = "put"] /\ tails' = tails
  BY DEF SignLatest, Goto
<1>4. CASE /\ local' = [local EXCEPT ![c] = NoLocal]
           /\ pc' = [pc EXCEPT ![c] = "failed"] /\ Release(c)
  <2>1. CallMoves(c, "failed", NoLocal)  BY <1>1, <1>4, MovesBoth
  <2>2. LockChange(c, "failed")  BY <1>3, <1>4 DEF LockChange, Locked, Owning
  <2> QED  BY <1>1, <1>3, <2>1, <2>2 DEF QuietMoves
<1>5. CASE /\ local' = [local EXCEPT ![c] = kept]
           /\ pc' = [pc EXCEPT ![c] = "hooks"] /\ Release(c)
  <2>1. DOMAIN kept = LocalFields /\ kept.due = <<>> /\ kept.inserted = FALSE
    BY <1>1 DEF LocalFields
  <2> HIDE DEF kept
  <2>2. CallMoves(c, "hooks", kept)  BY <1>1, <1>5, <2>1, MovesBoth
  <2>3. LockChange(c, "hooks")  BY <1>3, <1>5 DEF LockChange, Locked, Owning
  <2> QED  BY <1>3, <2>1, <2>2, <2>3 DEF QuietMoves
<1>6. CASE /\ extends /\ ~same /\ local' = [local EXCEPT ![c].put = <<p>>]
           /\ pc' = [pc EXCEPT ![c] = "put"] /\ tails' = tails
  <2>1. OneBuilder => Continues(p)
    <3> SUFFICES ASSUME OneBuilder  PROVE Continues(p)  OBVIOUS
    <3>1. ChainInv  BY DEF CallInv
    <3>2. entries # <<>> /\ Copies(entries)  BY <1>3 DEF CallInv, SnapInv
    <3>3. Latest # NoCheckpoint => /\ assertExtends(Latest[1], entries)
                                   /\ Latest[1].core.treeSize # Len(entries)
      BY <1>6
    <3> HIDE DEF entries
    <3> QED  BY <3>1, <3>2, <3>3, SignContinues
  <2> HIDE DEF p
  <2>2. local' = [local EXCEPT ![c] = signed]  BY <1>6
  <2>3. /\ DOMAIN signed = LocalFields /\ signed.due = old.due
        /\ signed.inserted = old.inserted /\ signed.checkpoint = old.checkpoint
        /\ signed.put[1] = p
    BY <1>1 DEF LocalFields
  <2> HIDE DEF signed
  <2>4. CallMoves(c, "put", signed)  BY <1>1, <1>6, <2>2, <2>3, MovesBoth
  <2>5. LockChange(c, "put")  BY <1>1, <1>3, <1>6 DEF LockChange, Locked, Owning
  <2> QED  BY <1>3, <2>1, <2>3, <2>4, <2>5 DEF QuietMoves
<1> QED  BY <1>3, <1>4, <1>5, <1>6

\* A step of a call that runs or takes hooks, or stores a checkpoint.
LEMMA HookMoves ==
    ASSUME SettingInv, HistoryInv, HistoryMoves, CallInv, NEW c \in Calls,
           NEW at, NEW me,
           CallMoves(c, at, me), LockChange(c, at), at \notin Owning,
           store \subseteq store',
           DOMAIN failedHooks' = Builders,
           \A b \in Builders : failedHooks'[b] \in Seq(store'),
           me.due \in Seq(store'), (me.due # <<>>) = (at = "hook"),
           me.inserted \in BOOLEAN, me.inserted => me.checkpoint \in Seq(store'),
           HooksNotLost',
           store' # store => (OneBuilder => ChainInv')
    PROVE  CallInv'
<1>1. LockInv'  BY LockMoves DEF CallInv
<1>2. /\ pc'[c] = at /\ local'[c] = me /\ setting' = setting
      /\ \A d \in Calls \ {c} : pc'[d] = pc[d] /\ local'[d] = local[d]
  BY DEF CallMoves, HistoryMoves
<1>3. \A s : Copies(s) => Copies(s)'  BY CopiesStay
<1>4. SnapInv'
  <2>1. ASSUME NEW d \in Calls
        PROVE  /\ pc'[d] = "entries" => local'[d].count \in Nat \ {0}
               /\ pc'[d] = "latest" => /\ local'[d].entries # <<>>
                                       /\ \E s : s = local'[d].entries /\ Copies(s)
    <3>1. CASE d = c  BY <1>2, <3>1 DEF Owning
    <3>2. CASE d # c  BY <1>2, <3>2 DEF CallInv, SnapInv
    <3> QED  BY <3>1, <3>2
  <2>2. ASSUME NEW d \in Calls, pc'[d] = "latest"  PROVE Copies(local[d].entries)'
    <3>1. PICK s : s = local'[d].entries /\ Copies(s)  BY <2>1, <2>2
    <3>2. Copies(s)'  BY <1>3, <3>1
    <3> QED  BY <3>1, <3>2
  <2> QED  BY <2>1, <2>2 DEF SnapInv
<1>5. \A s \in Seq(store) : s \in Seq(store')  BY SeqMonotonic
<1>6. HookInv'
  <2>1. ASSUME NEW d \in Calls  PROVE HooksOf(local[d], pc[d])'
    <3>1. CASE d = c  BY <1>2, <3>1 DEF HooksOf
    <3>2. CASE d # c
      <4>1. HooksOf(local[d], pc[d])  BY DEF CallInv, HookInv
      <4> QED  BY <1>2, <1>5, <3>2, <4>1 DEF HooksOf
    <3> QED  BY <3>1, <3>2
  <2> QED  BY <2>1 DEF HookInv
<1>7. ASSUME OneBuilder'  PROVE ChainInv'
  <2>1. OneBuilder  BY <1>2, <1>7 DEF OneBuilder
  <2>2. ChainInv  BY <2>1 DEF CallInv
  <2>3. ASSUME NEW d \in Calls, pc'[d] = "put"  PROVE Continues(local'[d].put[1])
    <3>1. d # c  BY <1>2, <2>3 DEF Owning
    <3>2. pc[d] = "put" /\ local'[d] = local[d]  BY <1>2, <2>3, <3>1
    <3> QED  BY <2>2, <3>2 DEF ChainInv
  <2>4. CASE store' = store  BY <2>2, <2>3, <2>4, ChainRests
  <2>5. CASE store' # store  BY <2>1, <2>5
  <2> QED  BY <2>4, <2>5
<1> QED  BY <1>1, <1>4, <1>6, <1>7 DEF CallInv

\* Where the hook of a checkpoint is.
LEMMA HookWhere ==
    ASSUME SettingInv, CallInv, setting.hooks, NEW x \in store
    PROVE  \/ x.digest \in hooked
           \/ \E b \in Builders : x \in ToSet(failedHooks[b])
           \/ \E d \in setting.calls :
                 /\ d \in Calls
                 /\ \/ pc[d] = "hook" /\ x \in ToSet(local[d].due)
                    \/ pc[d] = "hooks" /\ local[d].inserted
                       /\ x \in ToSet(local[d].checkpoint)
<1>1. SUFFICES ASSUME NEW d \in setting.calls, x \in ToSet(local[d].due)
               PROVE  d \in Calls /\ pc[d] = "hook"
  BY SettingSets DEF CallInv, HookInv, HooksNotLost
<1>2. d \in Calls  BY SettingSets
<1>3. local[d].due # <<>>  BY <1>1, NothingListed
<1> QED  BY <1>2, <1>3 DEF CallInv, HookInv, HooksOf

\* With one builder, every call uses it.
LEMMA OneBuilderOnly ==
    ASSUME SettingInv, OneBuilder, NEW c \in setting.calls, NEW d \in setting.calls
    PROVE  BuilderOf[c] = BuilderOf[d]
<1> DEFINE S == {BuilderOf[x] : x \in setting.calls}
<1>1. IsFiniteSet(setting.calls)  BY SettingSets, EvidenceAssumption, FS_Subset
<1>2. IsFiniteSet(S)
  <2> DEFINE f == [x \in setting.calls |-> BuilderOf[x]]
  <2>1. f \in Surjection(setting.calls, S)  BY DEF Surjection
  <2> HIDE DEF f, S
  <2> QED  BY <1>1, <2>1, FS_Surjection
<1>3. Cardinality(S) \in Nat /\ Cardinality(S) <= 1
  BY <1>2, FS_CardinalityType DEF OneBuilder
<1>4. S # {}  OBVIOUS
<1>5. Cardinality(S) # 0  BY <1>2, <1>4, FS_EmptySet
<1>6. Cardinality(S) = 1  BY <1>3, <1>5
<1>7. \E x : S = {x}  BY <1>2, <1>6, FS_Singleton
<1> QED  BY <1>7

\* A signed checkpoint is stored.
LEMMA StoreMoves ==
    ASSUME SettingInv, HistoryInv, HistoryMoves, CallInv, NEW c \in Calls,
           UNCHANGED <<journal, lost>>, PutCheckpoint(c)
    PROVE  CallInv'
<1> DEFINE old == local[c]
           p == old.put[1]
           result == putIfAbsent(p)
           new == result = "inserted"
           me == [NoLocal EXCEPT !.checkpoint = <<p>>, !.inserted = new]
<1>1. /\ LockInv /\ DOMAIN old = LocalFields /\ DOMAIN NoLocal = LocalFields
      /\ NoLocal.due = <<>> /\ c \in setting.calls
  <2>1. pc[c] = "put"  BY DEF PutCheckpoint
  <2> QED  BY <2>1, CallFacts
<1>2. /\ pc[c] = "put" /\ Release(c) /\ UNCHANGED <<failedHooks, hooked>>
      /\ \/ /\ pc' = [pc EXCEPT ![c] = "failed"] /\ UNCHANGED <<store, local>>
         \/ /\ result # "conflict" /\ store' = store \cup {p}
            /\ local' = [local EXCEPT ![c] = me] /\ pc' = [pc EXCEPT ![c] = "hooks"]
  BY DEF PutCheckpoint, Goto
<1>3. CASE pc' = [pc EXCEPT ![c] = "failed"] /\ UNCHANGED <<store, local>>
  <2>1. CallMoves(c, "failed", old)  BY <1>1, <1>3, MovesPc
  <2>2. LockChange(c, "failed")  BY <1>2 DEF LockChange, Locked, Owning
  <2>3. QuietMoves(c, "failed", old)  BY <1>2, <1>3, <2>1, <2>2 DEF QuietMoves
  <2> QED  BY <2>3, QuietKept
<1>4. CASE /\ result # "conflict" /\ store' = store \cup {p}
           /\ local' = [local EXCEPT ![c] = me] /\ pc' = [pc EXCEPT ![c] = "hooks"]
  <2>1. new \/ p \in store  BY <1>4 DEF putIfAbsent
  <2>2. new \in BOOLEAN  OBVIOUS
  <2> HIDE DEF result, new, p
  <2>3. /\ DOMAIN me = LocalFields /\ me.due = <<>> /\ me.inserted = new
        /\ me.checkpoint = <<p>>
    BY <1>1 DEF LocalFields
  <2> HIDE DEF me
  <2>4. CallMoves(c, "hooks", me)  BY <1>1, <1>4, <2>3, MovesBoth
  <2>5. LockChange(c, "hooks")  BY <1>2 DEF LockChange, Locked, Owning
  <2>6. /\ pc'[c] = "hooks" /\ local'[c] = me /\ setting' = setting
        /\ \A d \in Calls \ {c} : pc'[d] = pc[d] /\ local'[d] = local[d]
    BY <2>4 DEF CallMoves, HistoryMoves
  <2>7. <<p>> \in Seq(store') /\ p \in ToSet(<<p>>) /\ <<>> \in Seq(store')
    BY <1>4, EmptySeq DEF ToSet
  <2>8. DOMAIN failedHooks' = Builders /\ \A b \in Builders : failedHooks'[b] \in Seq(store')
    BY <1>2, <1>4, SeqMonotonic DEF CallInv, HookInv
  <2>9. HooksNotLost'
    <3>1. SUFFICES ASSUME setting.hooks, NEW x \in store'
                   PROVE  \/ x.digest \in hooked
                          \/ \E b \in Builders : x \in ToSet(failedHooks[b])
                          \/ \E d \in setting.calls :
                                \/ x \in ToSet(local'[d].due)
                                \/ pc'[d] = "hooks" /\ local'[d].inserted
                                   /\ x \in ToSet(local'[d].checkpoint)
      BY <1>2, <2>6 DEF HooksNotLost
    <3>2. CASE x \in store
      <4>1. ASSUME NEW d \in setting.calls, d \in Calls,
                   \/ pc[d] = "hook" /\ x \in ToSet(local[d].due)
                   \/ pc[d] = "hooks" /\ local[d].inserted
                      /\ x \in ToSet(local[d].checkpoint)
            PROVE  \/ x \in ToSet(local'[d].due)
                   \/ pc'[d] = "hooks" /\ local'[d].inserted
                      /\ x \in ToSet(local'[d].checkpoint)
        <5>1. d # c  BY <1>2, <4>1
        <5> QED  BY <2>6, <4>1, <5>1
      <4> QED  BY <3>1, <3>2, <4>1, HookWhere
    <3>3. CASE x \notin store
      <4>1. x = p /\ new  BY <1>4, <2>1, <3>1, <3>3
      <4> QED  BY <1>1, <2>3, <2>6, <2>7, <4>1
    <3> QED  BY <3>2, <3>3
  <2>10. OneBuilder => ChainInv'
    <3> SUFFICES ASSUME OneBuilder  PROVE ChainInv'  OBVIOUS
    <3>1. ChainInv  BY DEF CallInv
    <3>2. Continues(p)  BY <1>2, <3>1 DEF ChainInv, p
    <3>3. (\E h \in Histories : \A x \in store : Under(x, h))'
      BY <1>4, <3>2 DEF Continues, Under, Histories
    <3>4. ASSUME NEW d \in Calls  PROVE pc'[d] # "put"
      <4>1. CASE d = c  BY <2>6, <4>1
      <4>2. CASE d # c
        <5>1. SUFFICES ASSUME pc[d] = "put"  PROVE FALSE  BY <2>6, <4>2
        <5>2. d \in setting.calls  BY <1>1, <5>1 DEF LockInv
        <5>3. BuilderOf[c] = BuilderOf[d]  BY <1>1, <5>2, OneBuilderOnly
        <5> QED  BY <1>1, <1>2, <4>2, <5>1, <5>3, OneOwner DEF Owning
      <4> QED  BY <4>1, <4>2
    <3>5. PICK h \in Histories : \A x \in store \cup {p} : Under(x, h)
      BY <3>2 DEF Continues
    <3>6. Len(h) \in Nat  BY ListedFacts DEF HistoryInv, Histories, SignedHistory
    <3>7. \A x \in store \cup {p} : x.core.treeSize \in Nat  BY <3>5, <3>6 DEF Under
    <3>8. /\ \A x \in store : x.core.treeSize < p.core.treeSize
          /\ Chained(p, store)
      BY <3>2 DEF Continues
    <3>9. ASSUME NEW x \in store  PROVE Smaller(x)' = Smaller(x)
      <4>1. ~ (p.core.treeSize < x.core.treeSize)  BY <3>7, <3>8
      <4> QED  BY <1>4, <4>1 DEF Smaller
    <3>10. ASSUME NEW x \in store'  PROVE Chained(x, Smaller(x))'
      <4>1. CASE x \in store
        <5>1. Chained(x, Smaller(x))  BY <3>1, <4>1 DEF ChainInv
        <5>2. Smaller(x)' = Smaller(x)  BY <3>9, <4>1
        <5> QED  BY <5>1, <5>2 DEF Chained
      <4>2. CASE x \notin store
        <5>1. x = p  BY <1>4, <3>10, <4>2
        <5>2. Smaller(x)' = store
          <6>1. ~ (x.core.treeSize < x.core.treeSize)  BY <3>7, <5>1
          <6> QED  BY <1>4, <3>8, <5>1, <6>1 DEF Smaller
        <5> QED  BY <3>8, <5>1, <5>2 DEF Chained
      <4> QED  BY <4>1, <4>2
    <3> QED  BY <3>3, <3>4, <3>10 DEF ChainInv
  <2>11. store \subseteq store'  BY <1>4
  <2> HIDE DEF me
  <2> QED  BY <2>2, <2>3, <2>4, <2>5, <2>7, <2>8, <2>9, <2>10, <2>11, HookMoves
           DEF Owning
<1> QED  BY <1>2, <1>3, <1>4

\* Two lists in one.
LEMMA ConcatListed ==
    ASSUME NEW S, NEW s \in Seq(S), NEW t \in Seq(S)
    PROVE  /\ s \o t \in Seq(S)
           /\ \A x : x \in ToSet(s \o t) <=> x \in ToSet(s) \/ x \in ToSet(t)
           /\ (s \o t = <<>>) => s = <<>>
<1> DEFINE r == s \o t
<1>1. PICK m \in Nat, n \in Nat : m = Len(s) /\ n = Len(t)  BY LenProperties
<1>2. /\ r \in Seq(S) /\ Len(r) = m + n
      /\ \A i \in 1..m + n : r[i] = IF i <= m THEN s[i] ELSE t[i - m]
  BY <1>1, ConcatProperties
<1> HIDE DEF r
<1>3. \A q \in Seq(S) :
          /\ (q = <<>>) = (Len(q) = 0)
          /\ \A x : x \in ToSet(q) <=> \E i \in 1..Len(q) : q[i] = x
  BY ListFacts
<1>4. ASSUME NEW x, x \in ToSet(s)  PROVE x \in ToSet(r)
  <2>1. PICK i \in 1..m : s[i] = x  BY <1>1, <1>3, <1>4
  <2>2. i \in 1..m + n /\ r[i] = x  BY <1>1, <1>2, <2>1
  <2> QED  BY <1>2, <1>3, <2>2
<1>5. ASSUME NEW x, x \in ToSet(t)  PROVE x \in ToSet(r)
  <2>1. PICK i \in 1..n : t[i] = x  BY <1>1, <1>3, <1>5
  <2>2. i + m \in 1..m + n /\ ~(i + m <= m) /\ (i + m) - m = i  BY <1>1, <2>1
  <2>3. r[i + m] = x  BY <1>2, <2>1, <2>2
  <2> QED  BY <1>2, <1>3, <2>2, <2>3
<1>6. ASSUME NEW x, x \in ToSet(r)  PROVE x \in ToSet(s) \/ x \in ToSet(t)
  <2>1. PICK i \in 1..m + n : r[i] = x  BY <1>2, <1>3, <1>6
  <2>2. CASE i <= m
    <3>1. i \in 1..m /\ s[i] = x  BY <1>2, <2>1, <2>2
    <3> QED  BY <1>1, <1>3, <3>1
  <2>3. CASE ~(i <= m)
    <3>1. i - m \in 1..n /\ t[i - m] = x  BY <1>2, <2>1, <2>3
    <3> QED  BY <1>1, <1>3, <3>1
  <2> QED  BY <2>2, <2>3
<1>7. r = <<>> => s = <<>>  BY <1>1, <1>2, <1>3
<1> QED  BY <1>2, <1>4, <1>5, <1>6, <1>7 DEF r

\* The hooks are taken, one completes, or one fails.
LEMMA TakeMoves ==
    ASSUME SettingInv, HistoryInv, HistoryMoves, CallInv, NEW c \in Calls,
           UNCHANGED <<journal, lost>>, TakeHooks(c), setting.hooks
    PROVE  CallInv'
<1> DEFINE old == local[c]
           b == BuilderOf[c]
           fresh == IF old.inserted THEN old.checkpoint ELSE <<>>
           due == failedHooks[b] \o fresh
           at == IF due = <<>> THEN "publish" ELSE "hook"
           me == [old EXCEPT !.due = due]
<1>1. /\ LockInv /\ DOMAIN old = LocalFields  BY CallFacts
<1>2. /\ pc[c] = "hooks" /\ UNCHANGED <<store, tails, hooked>>
      /\ failedHooks' = [failedHooks EXCEPT ![b] = <<>>]
      /\ local' = [local EXCEPT ![c].due = due]
      /\ pc' = [pc EXCEPT ![c] = at]
  BY DEF TakeHooks, Goto
<1>3. /\ DOMAIN failedHooks = Builders /\ b \in Builders
      /\ \A k \in Builders : failedHooks[k] \in Seq(store)
      /\ old.inserted \in BOOLEAN
      /\ old.inserted => old.checkpoint \in Seq(store)
      /\ <<>> \in Seq(store) /\ ToSet(<<>>) = {}
  BY EmptySeq, NothingListed DEF CallInv, HookInv, HooksOf, Builders
<1>4. fresh \in Seq(store)  BY <1>3
<1>5. old.inserted => ToSet(fresh) = ToSet(old.checkpoint)  OBVIOUS
<1> HIDE DEF fresh
<1>6. /\ due \in Seq(store)
      /\ \A x : x \in ToSet(due) <=> x \in ToSet(failedHooks[b]) \/ x \in ToSet(fresh)
  <2>1. failedHooks[b] \in Seq(store)  BY <1>3
  <2> QED  BY <1>4, <2>1, ConcatListed
<1>7. local' = [local EXCEPT ![c] = me]  BY <1>2
<1> HIDE DEF due
<1>8. /\ DOMAIN me = LocalFields /\ me.due = due /\ me.inserted = old.inserted
      /\ me.checkpoint = old.checkpoint
  BY <1>1 DEF LocalFields
<1> HIDE DEF me
<1>9. at \in {"publish", "hook"} /\ (due # <<>>) = (at = "hook")  OBVIOUS
<1> HIDE DEF at
<1>10. CallMoves(c, at, me)  BY <1>1, <1>2, <1>7, <1>8, MovesBoth
<1>11. LockChange(c, at)  BY <1>2, <1>9 DEF LockChange, Locked, Owning
<1>12. /\ pc'[c] = at /\ local'[c] = me /\ setting' = setting
       /\ \A d \in Calls \ {c} : pc'[d] = pc[d] /\ local'[d] = local[d]
  BY <1>10 DEF CallMoves, HistoryMoves
<1> HIDE DEF b
<1>13. /\ DOMAIN failedHooks' = Builders /\ failedHooks'[b] = <<>>
       /\ \A k \in Builders \ {b} : failedHooks'[k] = failedHooks[k]
  BY <1>2, <1>3
<1>14. HooksNotLost'
  <2>1. SUFFICES ASSUME NEW x \in store
                 PROVE  \/ x.digest \in hooked
                        \/ \E k \in Builders : x \in ToSet(failedHooks'[k])
                        \/ \E d \in setting.calls : x \in ToSet(local'[d].due)
                        \/ \E d \in setting.calls :
                              pc'[d] = "hooks" /\ local'[d].inserted
                              /\ x \in ToSet(local'[d].checkpoint)
    BY <1>2, <1>12 DEF HooksNotLost
  <2>2. c \in setting.calls  BY <1>1, <1>2, CallFacts
  <2>3. CASE x \in ToSet(due)  BY <1>8, <1>12, <2>2, <2>3
  <2>4. CASE x \notin ToSet(due)
    <3>1. x \notin ToSet(failedHooks[b]) /\ x \notin ToSet(fresh)  BY <1>6, <2>4
    <3>2. CASE \E k \in Builders : x \in ToSet(failedHooks[k])  BY <1>13, <3>1, <3>2
    <3>3. ASSUME NEW d \in setting.calls, d \in Calls,
                 \/ pc[d] = "hook" /\ x \in ToSet(local[d].due)
                 \/ pc[d] = "hooks" /\ local[d].inserted
                    /\ x \in ToSet(local[d].checkpoint)
          PROVE  \/ x \in ToSet(local'[d].due)
                 \/ pc'[d] = "hooks" /\ local'[d].inserted
                    /\ x \in ToSet(local'[d].checkpoint)
      <4>1. d # c  BY <1>2, <1>5, <3>1, <3>3
      <4> QED  BY <1>12, <3>3, <4>1
    <3> QED  BY <3>2, <3>3, HookWhere
  <2> QED  BY <2>3, <2>4
<1>15. \A k \in Builders : failedHooks'[k] \in Seq(store')  BY <1>2, <1>3, <1>13
<1> QED  BY <1>2, <1>3, <1>6, <1>8, <1>9, <1>10, <1>11, <1>13, <1>14, <1>15, HookMoves
         DEF Owning

\* The first hook that is due completes.
LEMMA HookDone ==
    ASSUME SettingInv, HistoryInv, HistoryMoves, CallInv, NEW c \in Calls,
           UNCHANGED <<journal, lost>>, HookCompletes(c)
    PROVE  CallInv'
<1> DEFINE old == local[c]
           rest == Tail(old.due)
           at == IF Len(old.due) = 1 THEN "publish" ELSE "hook"
           me == [old EXCEPT !.due = rest]
<1>1. LockInv /\ DOMAIN old = LocalFields  BY CallFacts
<1>2. /\ pc[c] = "hook" /\ UNCHANGED <<store, tails, failedHooks>>
      /\ hooked' = hooked \cup {Head(old.due).digest}
      /\ local' = [local EXCEPT ![c].due = Tail(@)]
      /\ pc' = [pc EXCEPT ![c] = at]
  BY DEF HookCompletes, Goto
<1>3. /\ DOMAIN failedHooks = Builders
      /\ \A k \in Builders : failedHooks[k] \in Seq(store)
      /\ old.due \in Seq(store) /\ old.due # <<>>
      /\ old.inserted \in BOOLEAN
      /\ old.inserted => old.checkpoint \in Seq(store)
  BY <1>2 DEF CallInv, HookInv, HooksOf
<1>4. Listed(old.due)  BY <1>3, ListFacts
<1>5. /\ \A x \in ToSet(old.due) : x = Head(old.due) \/ x \in ToSet(rest)
      /\ Len(rest) = Len(old.due) - 1 /\ Listed(rest)
  BY <1>3, <1>4, QueueFacts
<1>6. rest \in Seq(store)  BY <1>3, HeadTailProperties
<1>7. Len(old.due) \in Nat /\ (rest = <<>>) = (Len(rest) = 0)
  BY <1>4, <1>5, ListedFacts
<1>8. at \in {"publish", "hook"} /\ (rest # <<>>) = (at = "hook")
  <2>1. PICK n \in Nat : n = Len(old.due)  BY <1>7
  <2>2. (rest = <<>>) = (n = 1)
    <3> HIDE DEF rest
    <3> QED  BY <1>5, <1>7, <2>1
  <2>3. at = IF n = 1 THEN "publish" ELSE "hook"  BY <2>1
  <2> HIDE DEF rest, at
  <2> QED  BY <2>2, <2>3
<1>9. local' = [local EXCEPT ![c] = me]  BY <1>2
<1> HIDE DEF rest, at
<1>10. /\ DOMAIN me = LocalFields /\ me.due = rest /\ me.inserted = old.inserted
       /\ me.checkpoint = old.checkpoint
  BY <1>1 DEF LocalFields
<1> HIDE DEF me
<1>11. CallMoves(c, at, me)  BY <1>1, <1>2, <1>9, <1>10, MovesBoth
<1>12. LockChange(c, at)  BY <1>2, <1>8 DEF LockChange, Locked, Owning
<1>13. /\ pc'[c] = at /\ local'[c] = me /\ setting' = setting
       /\ \A d \in Calls \ {c} : pc'[d] = pc[d] /\ local'[d] = local[d]
  BY <1>11 DEF CallMoves, HistoryMoves
<1>14. HooksNotLost'
  <2>1. SUFFICES ASSUME setting.hooks, NEW x \in store
                 PROVE  \/ x.digest \in hooked'
                        \/ \E k \in Builders : x \in ToSet(failedHooks[k])
                        \/ \E d \in setting.calls : x \in ToSet(local'[d].due)
                        \/ \E d \in setting.calls :
                              pc'[d] = "hooks" /\ local'[d].inserted
                              /\ x \in ToSet(local'[d].checkpoint)
    BY <1>2, <1>13 DEF HooksNotLost
  <2>2. ASSUME NEW d \in setting.calls, d \in Calls,
               \/ pc[d] = "hook" /\ x \in ToSet(local[d].due)
               \/ pc[d] = "hooks" /\ local[d].inserted
                  /\ x \in ToSet(local[d].checkpoint)
        PROVE  \/ x.digest \in hooked'
               \/ x \in ToSet(local'[d].due)
               \/ pc'[d] = "hooks" /\ local'[d].inserted
                  /\ x \in ToSet(local'[d].checkpoint)
    <3>1. CASE d = c
      <4>1. x \in ToSet(old.due)  BY <1>2, <2>2, <3>1
      <4> QED  BY <1>2, <1>5, <1>10, <1>13, <3>1, <4>1
    <3>2. CASE d # c  BY <1>13, <2>2, <3>2
    <3> QED  BY <3>1, <3>2
  <2> QED  BY <1>2, <2>1, <2>2, HookWhere
<1> QED  BY <1>2, <1>3, <1>6, <1>8, <1>10, <1>11, <1>12, <1>14, HookMoves DEF Owning

\* It fails: it and the rest go before what failed meanwhile.
LEMMA HookFailing ==
    ASSUME SettingInv, HistoryInv, HistoryMoves, CallInv, NEW c \in Calls,
           UNCHANGED <<journal, lost>>, HookFails(c)
    PROVE  CallInv'
<1> DEFINE old == local[c]
           b == BuilderOf[c]
           back == old.due \o failedHooks[b]
           me == [old EXCEPT !.due = <<>>]
<1>1. LockInv /\ DOMAIN old = LocalFields  BY CallFacts
<1>2. /\ pc[c] = "hook" /\ UNCHANGED <<store, tails, hooked>>
      /\ failedHooks' = [failedHooks EXCEPT ![b] = local[c].due \o @]
      /\ local' = [local EXCEPT ![c].due = <<>>]
      /\ pc' = [pc EXCEPT ![c] = "failed"]
  BY DEF HookFails, Goto
<1>3. /\ DOMAIN failedHooks = Builders /\ b \in Builders
      /\ \A k \in Builders : failedHooks[k] \in Seq(store)
      /\ old.due \in Seq(store)
      /\ old.inserted \in BOOLEAN
      /\ old.inserted => old.checkpoint \in Seq(store)
      /\ <<>> \in Seq(store)
  BY EmptySeq DEF CallInv, HookInv, HooksOf, Builders
<1>4. /\ back \in Seq(store)
      /\ \A x : x \in ToSet(back) <=> x \in ToSet(old.due) \/ x \in ToSet(failedHooks[b])
  BY <1>3, ConcatListed
<1>5. /\ DOMAIN failedHooks' = Builders /\ failedHooks'[b] = back
      /\ \A k \in Builders \ {b} : failedHooks'[k] = failedHooks[k]
  BY <1>2, <1>3
<1>6. local' = [local EXCEPT ![c] = me]  BY <1>2
<1> HIDE DEF back, b
<1>7. /\ DOMAIN me = LocalFields /\ me.due = <<>> /\ me.inserted = old.inserted
      /\ me.checkpoint = old.checkpoint
  BY <1>1 DEF LocalFields
<1> HIDE DEF me
<1>8. CallMoves(c, "failed", me)  BY <1>1, <1>2, <1>6, <1>7, MovesBoth
<1>9. LockChange(c, "failed")  BY <1>2 DEF LockChange, Locked, Owning
<1>10. /\ pc'[c] = "failed" /\ local'[c] = me /\ setting' = setting
       /\ \A d \in Calls \ {c} : pc'[d] = pc[d] /\ local'[d] = local[d]
  BY <1>8 DEF CallMoves, HistoryMoves
<1>11. \A k \in Builders : failedHooks'[k] \in Seq(store')  BY <1>2, <1>3, <1>4, <1>5
<1>12. HooksNotLost'
  <2>1. SUFFICES ASSUME setting.hooks, NEW x \in store
                 PROVE  \/ x.digest \in hooked
                        \/ \E k \in Builders : x \in ToSet(failedHooks'[k])
                        \/ \E d \in setting.calls : x \in ToSet(local'[d].due)
                        \/ \E d \in setting.calls :
                              pc'[d] = "hooks" /\ local'[d].inserted
                              /\ x \in ToSet(local'[d].checkpoint)
    BY <1>2, <1>10 DEF HooksNotLost
  <2>2. CASE x \in ToSet(back)  BY <1>3, <1>5, <2>2
  <2>3. CASE x \notin ToSet(back)
    <3>1. x \notin ToSet(failedHooks[b]) /\ x \notin ToSet(old.due)  BY <1>4, <2>3
    <3>2. CASE \E k \in Builders : x \in ToSet(failedHooks[k])  BY <1>5, <3>1, <3>2
    <3>3. ASSUME NEW d \in setting.calls, d \in Calls,
                 \/ pc[d] = "hook" /\ x \in ToSet(local[d].due)
                 \/ pc[d] = "hooks" /\ local[d].inserted
                    /\ x \in ToSet(local[d].checkpoint)
          PROVE  \/ x \in ToSet(local'[d].due)
                 \/ pc'[d] = "hooks" /\ local'[d].inserted
                    /\ x \in ToSet(local'[d].checkpoint)
      <4>1. d # c  BY <1>2, <3>1, <3>3
      <4> QED  BY <1>10, <3>3, <4>1
    <3> QED  BY <2>1, <3>2, <3>3, HookWhere
  <2> QED  BY <2>2, <2>3
<1> QED  BY <1>2, <1>3, <1>5, <1>7, <1>8, <1>9, <1>11, <1>12, HookMoves DEF Owning

\* Every step keeps what holds of the calls.
LEMMA CallsKept ==
    ASSUME SettingInv, HistoryInv, HistoryMoves, CallInv, [Next]_vars
    PROVE  CallInv'
<1>1. CASE UNCHANGED callVars  BY <1>1, CallsRest
<1>2. CASE CallSteps
  <2>1. PICK c \in Calls : CallStep(c)  BY <1>2 DEF CallSteps
  <2>2. UNCHANGED <<journal, lost>>  BY <1>2, CallFrame
  <2>3. CASE SignLatest(c)  BY <2>2, <2>3, SignMoves
  <2>4. CASE PutCheckpoint(c)  BY <2>2, <2>4, StoreMoves
  <2>5. CASE TakeHooks(c) /\ setting.hooks  BY <2>2, <2>5, TakeMoves
  <2>6. CASE HookCompletes(c)  BY <2>2, <2>6, HookDone
  <2>7. CASE HookFails(c)  BY <2>2, <2>7, HookFailing
  <2>8. CASE \/ StartCheckpoint(c) \/ ReadHead(c) \/ ReadEntries(c)
             \/ TakeHooks(c) /\ ~setting.hooks
             \/ \E o \in Observers : PublishObserver(c, o)
             \/ ObserversDone(c)
             \/ \E a \in setting.anchors : PublishAnchor(c, a)
             \/ FinishPublication(c)
    BY <2>2, <2>8, QuietSteps
  <2> QED  BY <2>1, <2>3, <2>4, <2>5, <2>6, <2>7, <2>8 DEF CallStep
<1>3. CASE HistoryStep \/ DeliverySteps \/ ReaderSteps \/ WorkerSteps
  BY <1>1, <1>3, HistoryFrame, DeliveryFrame, ReaderFrame, WorkerFrame
<1> QED  BY <1>1, <1>2, <1>3, StepKinds DEF vars

\* What it says of the store.
LEMMA ChainHolds ==
    ASSUME HistoryInv, CallInv
    PROVE  CheckpointsSound
<1>1. HooksNotLost  BY DEF CallInv, HookInv
<1>2. CheckpointsChain
  <2> SUFFICES ASSUME OneBuilder
               PROVE  /\ \E h \in {journal, lost} : \A x \in store : Commits(h, x.core)
                      /\ \A x \in store :
                            IF Smaller(x) = {} THEN x.core.previous = NoDigest
                            ELSE \E d \in Smaller(x) :
                                   /\ x.core.previous = d.digest
                                   /\ \A y \in Smaller(x) :
                                         y.core.treeSize <= d.core.treeSize
    BY DEF CheckpointsChain, Smaller
  <2>1. ChainInv  BY DEF CallInv
  <2>2. PICK h \in Histories : \A x \in store : Under(x, h)  BY <2>1 DEF ChainInv
  <2>3. Len(h) \in Nat  BY ListedFacts DEF HistoryInv, Histories, SignedHistory
  <2>4. \A x \in store : Commits(h, x.core)  BY <2>2, <2>3 DEF Under, Commits
  <2> QED  BY <2>1, <2>2, <2>4 DEF Histories, ChainInv, Chained
<1> QED  BY <1>1, <1>2 DEF CheckpointsSound

\* Checkpoints stay sound.  What a single builder stores is one chain over one
\* history, however its calls, appends and a restored journal interleave, and
\* no stored checkpoint's hook is forgotten although a call takes the due list
\* before it awaits the first hook (checkpoint.ts, createCheckpoint).
THEOREM CheckpointsStaySound == Spec => []CheckpointsSound
<1> DEFINE IInv == SettingInv /\ HistoryInv /\ CallInv
<1>1. Init => IInv
  BY HistoryStarts, CallsStart DEF Init, SettingInv
<1>2. IInv /\ [Next]_vars => IInv'
  <2> SUFFICES ASSUME IInv, [Next]_vars  PROVE IInv'  OBVIOUS
  <2>1. HistoryMoves  BY HistoryKept
  <2>2. SettingInv' /\ HistoryInv'  BY <2>1 DEF HistoryMoves, SettingInv
  <2>3. CallInv'  BY <2>1, CallsKept
  <2> QED  BY <2>2, <2>3
<1>3. IInv => CheckpointsSound  BY ChainHolds
<1> QED  BY <1>1, <1>2, <1>3, PTL DEF Spec
=============================================================================
