-------------------------- MODULE ProofLayerProofs --------------------------
(***************************************************************************)
(* Machine-checked proofs about the server's runtime: ProofLayer, for any  *)
(* calls, transports, tools, sizes and budgets, and Sessions, for any      *)
(* sessions, calls, capacities and lifetimes.                              *)
(***************************************************************************)
EXTENDS ProofLayer, Sessions, FiniteSetTheorems, SequenceTheorems, TLAPS

-----------------------------------------------------------------------------
(* The inductive invariant.                                                *)

Events == {"started", "failed", "completed", "authorization", "refused", "generated", "not_sent",
           "mismatch", "no_session", "no_proof", "private_member", "expired"}
Terminal == {"completed", "failed"}
NeverSent == {"not_sent", "mismatch"}

Points == {"idle", "received", "intent", "handler", "wrapped", "session", "ready", "thrown",
           "layer", "proving", "outgoing", "sent", "dropped"}

LayerType ==
    /\ pc \in [Calls -> Points] /\ res \in [Calls -> Result]
    /\ claim \in [Calls -> Calls \cup {None}] /\ answering \subseteq Calls
    /\ waiting \subseteq Calls /\ leftAt \in [Calls -> Nat] /\ lefts \in Nat
    /\ closing \subseteq [id: Calls, code: NeverSent]
    /\ trail \in [Calls \cup {None} -> Seq(Events)]
    /\ signed \in [Calls -> Nat]

\* Claim i is being redeemed by the answer of d.
Proving(d, i) == pc[d] = "proving" /\ claim[d] = i
Closing(i) == \E e \in closing : e.id = i
\* Somebody has still to end claim i.
Held(i) == i \in waiting \/ Closing(i) \/ \E d \in Calls : Proving(d, i)
\* A wrapper has recorded the start of c and not yet handed its result on.
Running(c) == pc[c] \in {"handler", "wrapped", "session"}

Starts(c) == Occurs(c, {"started"})
Ends(c) == Occurs(c, Terminal)
NotSent(i) == \E k \in DOMAIN trail[i] : trail[i][k] \in NeverSent

\* A claim is held in one place, by one answer.
HeldOnce ==
    /\ \A d \in Calls : pc[d] = "proving" => claim[d] \in Calls
    /\ \A i \in waiting : ~Closing(i) /\ \A d \in Calls : ~Proving(d, i)
    /\ \A d, i \in Calls : Proving(d, i) => ~Closing(i) /\ \A e \in Calls : Proving(e, i) => e = d
    /\ \A x, y \in closing : x.id = y.id => x = y

\* A call whose claim was left is not run again, except to send an error result of
\* the SDK's own.
Spoken(c) ==
    leftAt[c] # 0 =>
        /\ pc[c] \notin {"idle", "received", "handler", "session"}
        /\ pc[c] = "intent" => c \in answering /\ res[c].error
        /\ pc[c] = "wrapped" => res[c].error
        /\ pc[c] = "ready" => res[c].stamped \/ res[c].error

\* A claim is left once, and once it has ended it stays so.
LeftOnce ==
    \A c \in Calls :
        /\ Spoken(c)
        /\ leftAt[c] = 0 => ~Held(c)
        /\ leftAt[c] = 0 \/ Held(c) => signed[c] = 0 /\ ~NotSent(c)
        /\ signed[c] <= 1 /\ (signed[c] = 1 => ~NotSent(c))

\* Every terminal event, and every one that is still to come, has its start.
Run(c) == IF Running(c) THEN 1 ELSE 0
Due(c) == Run(c) + (IF Held(c) THEN 1 ELSE 0)
Accounted == \A c \in Calls : Kind[c] # "outcome" => Ends(c) + Due(c) <= Starts(c)

LayerInv == LayerType /\ HeldOnce /\ LeftOnce /\ Accounted
-----------------------------------------------------------------------------
(* Counting in a trail.                                                    *)

Tally(s, E) == Cardinality({k \in DOMAIN s : s[k] \in E})

\* What is counted in a trail is finite.
LEMMA TallyType ==
    ASSUME NEW S, NEW s \in Seq(S), NEW E
    PROVE  /\ IsFiniteSet({k \in DOMAIN s : s[k] \in E})
           /\ Tally(s, E) \in Nat
<1>1. IsFiniteSet(1 .. Len(s))  BY FS_Interval
<1>2. {k \in DOMAIN s : s[k] \in E} \subseteq 1 .. Len(s)  OBVIOUS
<1> QED  BY <1>1, <1>2, FS_Subset, FS_CardinalityType DEF Tally

\* One event more counts at most once, and only if it is one of those counted.
LEMMA TallyAppend ==
    ASSUME NEW S, NEW s \in Seq(S), NEW e \in S, NEW E
    PROVE  Tally(Append(s, e), E) = Tally(s, E) + IF e \in E THEN 1 ELSE 0
<1> DEFINE at(t) == {k \in DOMAIN t : t[k] \in E}
<1>1. IsFiniteSet(at(s)) /\ Tally(s, E) \in Nat  BY TallyType
<1>2. Len(s) + 1 \notin at(s)  OBVIOUS
<1>3. CASE e \in E
  <2>1. at(Append(s, e)) = at(s) \cup {Len(s) + 1}  BY <1>3
  <2> QED  BY <1>1, <1>2, <1>3, <2>1, FS_AddElement DEF Tally
<1>4. CASE e \notin E
  <2>1. at(Append(s, e)) = at(s)  BY <1>4
  <2>2. Tally(Append(s, e), E) = Tally(s, E)  BY <2>1 DEF Tally
  <2> HIDE DEF at
  <2> QED  BY <1>1, <1>4, <2>2
<1> QED  BY <1>3, <1>4

\* The step added at least s starts and at most e terminal events to the trail of c,
\* and, unless unsent, no event that says a claim was not sent.
Grew(c, s, e, unsent) ==
    /\ trail' \in [Calls \cup {None} -> Seq(Events)]
    /\ \A d \in Calls :
        /\ Starts(d) \in Nat /\ Starts(d)' \in Nat /\ Ends(d) \in Nat /\ Ends(d)' \in Nat
        /\ Starts(d)' >= Starts(d) + IF d = c THEN s ELSE 0
        /\ Ends(d)' <= Ends(d) + IF d = c THEN e ELSE 0
        /\ NotSent(d)' => NotSent(d) \/ (d = c /\ unsent)

LEMMA QuietGrows ==
    ASSUME LayerType, UNCHANGED trail, NEW c
    PROVE  Grew(c, 0, 0, FALSE)
<1>1. \A d \in Calls : trail[d] \in Seq(Events)  BY DEF LayerType
<1>2. \A d \in Calls : Starts(d) \in Nat /\ Ends(d) \in Nat
  BY <1>1, TallyType DEF Starts, Ends, Occurs, Tally
<1>3. \A d \in Calls : Starts(d)' = Starts(d) /\ Ends(d)' = Ends(d) /\ NotSent(d)' = NotSent(d)
  BY DEF Starts, Ends, Occurs, NotSent
<1> QED  BY <1>2, <1>3 DEF Grew, LayerType

\* Trail c of old has got event e at its end.
OneMore(old, new, c, e) ==
    /\ new \in [Calls \cup {None} -> Seq(Events)]
    /\ \A d \in Calls : \A E : Tally(new[d], E) = Tally(old[d], E) + IF d = c /\ e \in E THEN 1 ELSE 0
    /\ \A d \in Calls : \A k \in DOMAIN new[d] :
            \/ k \in DOMAIN old[d] /\ new[d][k] = old[d][k]
            \/ d = c /\ new[d][k] = e

LEMMA AppendGrows ==
    ASSUME NEW old \in [Calls \cup {None} -> Seq(Events)], NEW c \in Calls \cup {None},
           NEW e \in Events
    PROVE  OneMore(old, [old EXCEPT ![c] = Append(@, e)], c, e)
<1> DEFINE new == [old EXCEPT ![c] = Append(@, e)]
<1>1. new \in [Calls \cup {None} -> Seq(Events)]  OBVIOUS
<1>2. \A d \in Calls : \A E : Tally(new[d], E) =
                    Tally(old[d], E) + IF d = c /\ e \in E THEN 1 ELSE 0
  <2> SUFFICES ASSUME NEW d \in Calls, NEW E
               PROVE  Tally(new[d], E) = Tally(old[d], E) + IF d = c /\ e \in E THEN 1 ELSE 0
    OBVIOUS
  <2>1. old[d] \in Seq(Events) /\ Tally(old[d], E) \in Nat  BY TallyType
  <2>2. CASE d = c
    <3>1. new[d] = Append(old[d], e)  BY <2>2
    <3> HIDE DEF new
    <3> QED  BY <2>1, <2>2, <3>1, TallyAppend
  <2>3. CASE d # c
    <3>1. new[d] = old[d]  BY <2>3
    <3> HIDE DEF new
    <3> QED  BY <2>1, <2>3, <3>1
  <2> QED  BY <2>2, <2>3
<1>3. ASSUME NEW d \in Calls, NEW k \in DOMAIN new[d]
      PROVE  \/ k \in DOMAIN old[d] /\ new[d][k] = old[d][k]
             \/ d = c /\ new[d][k] = e
  OBVIOUS
<1> QED  BY <1>1, <1>2, <1>3 DEF OneMore

\* What is counted of the trails is a number.
LEMMA Counts ==
    ASSUME LayerType
    PROVE  \A d \in Calls : /\ Starts(d) = Tally(trail[d], {"started"}) /\ Starts(d) \in Nat
                           /\ Starts(d)' = Tally(trail'[d], {"started"})
                           /\ Ends(d) = Tally(trail[d], Terminal) /\ Ends(d) \in Nat
                           /\ Ends(d)' = Tally(trail'[d], Terminal)
<1>1. \A d \in Calls : trail[d] \in Seq(Events)  BY DEF LayerType
<1>2. \A d \in Calls : \A E : Tally(trail[d], E) \in Nat  BY <1>1, TallyType
<1>3. \A d \in Calls : /\ Starts(d) = Tally(trail[d], {"started"})
                      /\ Starts(d)' = Tally(trail'[d], {"started"})
                      /\ Ends(d) = Tally(trail[d], Terminal)
                      /\ Ends(d)' = Tally(trail'[d], Terminal)
  BY DEF Starts, Ends, Occurs, Tally
<1> QED  BY <1>2, <1>3

LEMMA DeliveriesBound == \A n \in Nat : Deliveries(n) \subseteq 0 .. n
BY DEF Deliveries

LEMMA RecordNone ==
    ASSUME LayerType, NEW c \in Calls \cup {None}, NEW n \in 0 .. 0, Record(c, <<>>, n)
    PROVE  Grew(c, 0, 0, FALSE)
<1>1. trail' = trail  BY DEF Record, LayerType
<1> QED  BY <1>1, QuietGrows

LEMMA RecordOne ==
    ASSUME LayerType, NEW c \in Calls \cup {None}, NEW x \in Events, NEW n \in 0 .. 1,
           Record(c, <<x>>, n)
    PROVE  Grew(c, IF n = 1 /\ x = "started" THEN 1 ELSE 0, IF x \in Terminal THEN 1 ELSE 0,
                x \in NeverSent)
<1>1. trail \in [Calls \cup {None} -> Seq(Events)]  BY DEF LayerType
<1>2. CASE n = 0
  <2>1. trail' = trail  BY <1>1, <1>2 DEF Record
  <2>2. Grew(c, 0, 0, FALSE)  BY <2>1, QuietGrows
  <2> QED  BY <1>2, <2>2 DEF Grew
<1>3. CASE n = 1
  <2>1. trail' = [trail EXCEPT ![c] = Append(@, x)]
    <3>1. trail[c] \in Seq(Events)  BY <1>1
    <3>2. SubSeq(<<x>>, 1, 1) = <<x>>
      <4>1. <<x>> \in Seq(Events) /\ Len(<<x>>) = 1  OBVIOUS
      <4> QED  BY <4>1, SubSeqFull
    <3>3. trail[c] \o <<x>> = Append(trail[c], x)  BY <3>1
    <3> QED  BY <1>3, <3>2, <3>3 DEF Record
  <2>2. OneMore(trail, trail', c, x)  BY <1>1, <2>1, AppendGrows
  <2>3. \A d \in Calls : NotSent(d)' => NotSent(d) \/ (d = c /\ x \in NeverSent)
    BY <2>2 DEF OneMore, NotSent
  <2>4. \A d \in Calls : /\ Starts(d)' = Starts(d) + IF d = c /\ x = "started" THEN 1 ELSE 0
                        /\ Ends(d)' = Ends(d) + IF d = c /\ x \in Terminal THEN 1 ELSE 0
    BY <2>2, Counts DEF OneMore
  <2>5. trail' \in [Calls \cup {None} -> Seq(Events)]  BY <2>2 DEF OneMore
  <2> QED  BY <1>3, <2>3, <2>4, <2>5, Counts DEF Grew
<1> QED  BY <1>2, <1>3

LEMMA RecordTwo ==
    ASSUME LayerType, NEW c \in Calls \cup {None}, NEW x \in Events \ Terminal, x # "started",
           NEW y \in Events, NEW n \in 0 .. 2, Record(c, <<x, y>>, n)
    PROVE  Grew(c, 0, IF y \in Terminal THEN 1 ELSE 0, x \in NeverSent \/ y \in NeverSent)
<1>1. trail \in [Calls \cup {None} -> Seq(Events)]  BY DEF LayerType
<1>2. trail[c] \in Seq(Events)  BY <1>1
<1>3. CASE n = 0
  <2>1. trail' = trail  BY <1>1, <1>3 DEF Record
  <2>2. Grew(c, 0, 0, FALSE)  BY <2>1, QuietGrows
  <2> QED  BY <2>2 DEF Grew
<1>4. CASE n = 1
  <2>1. SubSeq(<<x, y>>, 1, 1) = SubSeq(<<x>>, 1, 1)  OBVIOUS
  <2>2. Record(c, <<x>>, 1)  BY <1>4, <2>1 DEF Record
  <2>3. Grew(c, IF 1 = 1 /\ x = "started" THEN 1 ELSE 0, IF x \in Terminal THEN 1 ELSE 0,
             x \in NeverSent)
    BY <2>2, RecordOne
  <2> QED  BY <2>3 DEF Grew
<1>5. CASE n = 2
  <2> DEFINE mid == [trail EXCEPT ![c] = Append(@, x)]
  <2>1. trail' = [mid EXCEPT ![c] = Append(@, y)]
    <3>1. SubSeq(<<x, y>>, 1, 2) = <<x, y>>
      <4>1. <<x, y>> \in Seq(Events) /\ Len(<<x, y>>) = 2  OBVIOUS
      <4> QED  BY <4>1, SubSeqFull
    <3>2. trail[c] \o <<x, y>> = Append(Append(trail[c], x), y)  BY <1>2
    <3>3. trail' = [trail EXCEPT ![c] = Append(Append(@, x), y)]
      BY <1>5, <3>1, <3>2 DEF Record
    <3> QED  BY <1>1, <3>3
  <2>2. OneMore(trail, mid, c, x)  BY <1>1, AppendGrows
  <2>3. mid \in [Calls \cup {None} -> Seq(Events)]  BY <2>2 DEF OneMore
  <2> HIDE DEF mid
  <2>4. OneMore(mid, trail', c, y)  BY <2>1, <2>3, AppendGrows
  <2>5. \A d \in Calls : NotSent(d)' =>
            NotSent(d) \/ (d = c /\ (x \in NeverSent \/ y \in NeverSent))
    BY <2>2, <2>4 DEF NotSent, OneMore
  <2>6. \A d \in Calls : Starts(d)' = Starts(d) + IF d = c /\ y = "started" THEN 1 ELSE 0
    <3> TAKE d \in Calls
    <3>1. Tally(mid[d], {"started"}) = Starts(d)  BY <2>2, Counts DEF OneMore
    <3> QED  BY <2>4, <3>1, Counts DEF OneMore
  <2>7. \A d \in Calls : Ends(d)' = Ends(d) + IF d = c /\ y \in Terminal THEN 1 ELSE 0
    <3> TAKE d \in Calls
    <3>1. Tally(mid[d], Terminal) = Ends(d)  BY <2>2, Counts DEF OneMore
    <3> QED  BY <2>4, <3>1, Counts DEF OneMore
  <2>8. trail' \in [Calls \cup {None} -> Seq(Events)]  BY <2>4 DEF OneMore
  <2> QED  BY <2>5, <2>6, <2>7, <2>8, Counts DEF Grew
<1> QED  BY <1>3, <1>4, <1>5

-----------------------------------------------------------------------------
(* Steps that leave the claims alone.                                      *)

layerInvVars == <<pc, res, claim, answering, waiting, leftAt, lefts, closing, trail, signed>>

LEMMA NothingMoved ==
    ASSUME LayerInv, UNCHANGED layerInvVars
    PROVE  LayerInv'
<1> USE DEF layerInvVars
<1>1. LayerType'  BY DEF LayerInv, LayerType
<1>2. HeldOnce'  BY DEF LayerInv, HeldOnce, Proving, Closing
<1>3. LeftOnce'
  <2>1. \A c \in Calls : /\ Held(c)' = Held(c) /\ Spoken(c)' = Spoken(c)
                        /\ NotSent(c)' = NotSent(c)
    BY DEF Held, Proving, Closing, Spoken, NotSent
  <2> QED  BY <2>1 DEF LayerInv, LeftOnce
<1>4. Accounted'
  <2>1. \A c \in Calls : Starts(c)' = Starts(c) /\ Ends(c)' = Ends(c) /\ Due(c)' = Due(c)
    BY DEF Starts, Ends, Occurs, Due, Run, Running, Held, Proving, Closing
  <2> QED  BY <2>1 DEF LayerInv, Accounted
<1> QED  BY <1>1, <1>2, <1>3, <1>4 DEF LayerInv

\* The trail of c gains no more ends than it gains starts and c stops running.
Balanced(c) ==
    /\ trail' \in [Calls \cup {None} -> Seq(Events)]
    /\ \A d \in Calls :
        /\ Starts(d) \in Nat /\ Starts(d)' \in Nat /\ Ends(d) \in Nat /\ Ends(d)' \in Nat
        /\ d # c => Starts(d)' >= Starts(d) /\ Ends(d)' <= Ends(d)
        /\ NotSent(d)' => NotSent(d)
    /\ Kind[c] # "outcome" => Ends(c)' + Run(c)' + Starts(c) <= Ends(c) + Run(c) + Starts(c)'

\* Call c moves on to another point, with a result, without taking or leaving a claim.
Moves(c) ==
    /\ pc[c] # "proving"
    /\ \E p \in Points \ {"proving"} : pc' = [pc EXCEPT ![c] = p]
    /\ \E r \in Result : res' = [res EXCEPT ![c] = r]
    /\ answering' \subseteq Calls /\ \A d \in answering \ {c} : d \in answering'
    /\ UNCHANGED <<waiting, closing, leftAt, lefts, signed, claim>>

LEMMA QuietBalanced ==
    ASSUME LayerType, NEW c \in Calls, UNCHANGED trail, Run(c)' <= Run(c)
    PROVE  Balanced(c)
<1>1. Run(c) \in 0 .. 1 /\ Run(c)' \in 0 .. 1  BY DEF Run
<1>2. Grew(c, 0, 0, FALSE)  BY QuietGrows
<1> QED  BY <1>1, <1>2 DEF Grew, Balanced

LEMMA StartedBalanced ==
    ASSUME LayerType, NEW c \in Calls, Record(c, <<"started">>, 1), Run(c) = 0, Run(c)' = 1
    PROVE  Balanced(c)
<1>1. "started" \in Events /\ "started" \notin Terminal /\ "started" \notin NeverSent
  BY DEF Events, Terminal, NeverSent
<1>2. PICK n \in 0 .. 1 : n = 1 /\ Record(c, <<"started">>, n)  OBVIOUS
<1>3. Grew(c, IF n = 1 /\ "started" = "started" THEN 1 ELSE 0,
              IF "started" \in Terminal THEN 1 ELSE 0, "started" \in NeverSent)
  BY <1>1, <1>2, RecordOne
<1> QED  BY <1>1, <1>2, <1>3 DEF Grew, Balanced

LEMMA FailedBalanced ==
    ASSUME LayerType, NEW c \in Calls, Run(c) = 1, Run(c)' = 0,
           (\E n \in Deliveries(1) : Record(c, <<"failed">>, n)) \/ UNCHANGED trail
    PROVE  Balanced(c)
<1>1. "failed" \in Events /\ "failed" \in Terminal /\ "failed" \notin NeverSent
  BY DEF Events, Terminal, NeverSent
<1>2. CASE UNCHANGED trail  BY <1>2, QuietBalanced
<1>3. ASSUME NEW n \in Deliveries(1), Record(c, <<"failed">>, n)
      PROVE  Balanced(c)
  <2>1. n \in 0 .. 1  BY DeliveriesBound
  <2>2. Grew(c, IF n = 1 /\ "failed" = "started" THEN 1 ELSE 0,
                IF "failed" \in Terminal THEN 1 ELSE 0, "failed" \in NeverSent)
    BY <1>1, <1>3, <2>1, RecordOne
  <2> QED  BY <1>1, <2>2 DEF Grew, Balanced
<1> QED  BY <1>2, <1>3

\* A gate's own events are not counted at all.
LEMMA RefusedBalanced ==
    ASSUME LayerType, NEW c \in Calls, Kind[c] = "outcome", NEW n \in Deliveries(2),
           Record(c, <<"authorization", "refused">>, n)
    PROVE  Balanced(c)
<1>1. n \in 0 .. 2  BY DeliveriesBound
<1>2. /\ "authorization" \in Events \ Terminal /\ "refused" \in Events
      /\ "refused" \notin Terminal /\ "authorization" \notin NeverSent /\ "refused" \notin NeverSent
  BY DEF Events, Terminal, NeverSent
<1>3. Grew(c, 0, IF "refused" \in Terminal THEN 1 ELSE 0,
           "authorization" \in NeverSent \/ "refused" \in NeverSent)
  BY <1>1, <1>2, RecordTwo
<1> QED  BY <1>2, <1>3 DEF Grew, Balanced

LEMMA Moved ==
    ASSUME LayerInv, NEW c \in Calls, Moves(c), Balanced(c), Spoken(c)'
    PROVE  LayerInv'
<1>0. /\ pc[c] # "proving" /\ answering' \subseteq Calls
      /\ \A d \in answering \ {c} : d \in answering'
      /\ UNCHANGED <<waiting, closing, leftAt, lefts, signed, claim>>
  BY DEF Moves
<1> PICK p \in Points \ {"proving"} : pc' = [pc EXCEPT ![c] = p]  BY DEF Moves
<1> PICK r \in Result : res' = [res EXCEPT ![c] = r]  BY DEF Moves
<1>1. LayerType'  BY <1>0 DEF LayerInv, LayerType, Balanced
<1>2. \A d, i \in Calls : Proving(d, i)' = Proving(d, i)
  BY <1>0 DEF LayerInv, LayerType, Proving
<1>3. \A i : Closing(i)' = Closing(i)  BY <1>0 DEF Closing
<1>4. \A i \in Calls : Held(i)' = Held(i)  BY <1>0, <1>2, <1>3 DEF Held
<1>5. HeldOnce'
  <2>1. \A d \in Calls : pc'[d] = "proving" <=> pc[d] = "proving"
    BY <1>0 DEF LayerInv, LayerType
  <2>2. waiting \subseteq Calls  BY DEF LayerInv, LayerType
  <2> QED  BY <1>0, <1>2, <1>3, <2>1, <2>2 DEF LayerInv, HeldOnce
<1>6. LeftOnce'
  <2>1. ASSUME NEW d \in Calls, d # c PROVE Spoken(d)'
    <3>1. pc'[d] = pc[d] /\ res'[d] = res[d]  BY <2>1 DEF LayerInv, LayerType
    <3> QED  BY <1>0, <2>1, <3>1 DEF LayerInv, LayerType, LeftOnce, Spoken
  <2>2. \A d \in Calls : NotSent(d)' => NotSent(d)  BY DEF Balanced
  <2> QED  BY <1>0, <1>4, <2>1, <2>2 DEF LayerInv, LeftOnce
<1>7. Accounted'
  <2> SUFFICES ASSUME NEW d \in Calls, Kind[d] # "outcome"
               PROVE  Ends(d)' + Due(d)' <= Starts(d)'
    BY DEF Accounted
  <2>1. Ends(d) + Due(d) <= Starts(d)  BY DEF LayerInv, Accounted
  <2>2. /\ Starts(d) \in Nat /\ Starts(d)' \in Nat /\ Ends(d) \in Nat /\ Ends(d)' \in Nat
        /\ d # c => Starts(d)' >= Starts(d) /\ Ends(d)' <= Ends(d)
        /\ d = c => Ends(d)' + Run(d)' + Starts(d) <= Ends(d) + Run(d) + Starts(d)'
    BY DEF Balanced
  <2>3. Run(d) \in 0 .. 1 /\ Run(d)' \in 0 .. 1 /\ (d # c => Run(d)' = Run(d))
    BY DEF Run, Running, LayerInv, LayerType
  <2>4. Due(d) = Run(d) + (IF Held(d) THEN 1 ELSE 0) /\ Due(d)' = Run(d)' + (IF Held(d) THEN 1 ELSE 0)
    BY <1>4 DEF Due
  <2> QED  BY <2>1, <2>2, <2>3, <2>4
<1> QED  BY <1>1, <1>5, <1>6, <1>7 DEF LayerInv

\* Waiting claims of S are taken unsent.
LEMMA ClosedUnsent ==
    ASSUME LayerInv, NEW S, waiting' = waiting \ S,
           closing' = closing \cup Unsent(S \cap waiting),
           UNCHANGED <<pc, res, claim, answering, leftAt, lefts, trail, signed>>
    PROVE  LayerInv'
<1>1. LayerType'  BY DEF LayerInv, LayerType, Unsent, NeverSent
<1>2. \A d, i : Proving(d, i)' = Proving(d, i)  BY DEF Proving
<1>3. \A i : Closing(i)' <=> (Closing(i) \/ i \in S \cap waiting)
  <2>1. ASSUME NEW i, Closing(i)' PROVE Closing(i) \/ i \in S \cap waiting
    <3> PICK x \in closing' : x.id = i  BY <2>1 DEF Closing
    <3>1. CASE x \in closing  BY <3>1 DEF Closing
    <3>2. CASE x \in Unsent(S \cap waiting)  BY <3>2 DEF Unsent
    <3> QED  BY <3>1, <3>2
  <2>2. ASSUME NEW i \in S \cap waiting PROVE Closing(i)'
    <3>1. [id |-> i, code |-> "not_sent"] \in closing'  BY DEF Unsent
    <3> QED  BY <3>1 DEF Closing
  <2> QED  BY <2>1, <2>2 DEF Closing
<1>4. \A i \in Calls : Held(i)' = Held(i)  BY <1>2, <1>3 DEF Held
<1>5. HeldOnce'
  <2>1. \A x, y \in closing' : x.id = y.id => x = y
    <3>1. \A x \in closing : x.id \notin waiting
      BY DEF LayerInv, LayerType, HeldOnce, Closing
    <3>2. \A x, y \in closing : x.id = y.id => x = y  BY DEF LayerInv, HeldOnce
    <3> QED  BY <3>1, <3>2 DEF Unsent
  <2>2. \A i \in waiting : i \in Calls  BY DEF LayerInv, LayerType
  <2> QED  BY <1>2, <1>3, <2>1, <2>2 DEF LayerInv, HeldOnce
<1>6. LeftOnce'  BY <1>4 DEF LayerInv, LeftOnce, Spoken, NotSent
<1>7. Accounted'
  <2>1. \A d \in Calls : Ends(d)' = Ends(d) /\ Starts(d)' = Starts(d) /\ Due(d)' = Due(d)
    BY <1>4 DEF Ends, Starts, Occurs, Due, Run, Running
  <2> QED  BY <2>1 DEF LayerInv, Accounted
<1> QED  BY <1>1, <1>5, <1>6, <1>7 DEF LayerInv

-----------------------------------------------------------------------------
(* Steps that take or leave claims.                                        *)

\* A verdict on claim i: an event on its proof, if any, and then the terminal one.
LEMMA VerdictGrows ==
    ASSUME LayerType, NEW i \in Calls, NEW x \in Events \ (Terminal \cup {"started"}),
           NEW y \in Terminal, NEW events \in {<<x, y>>, <<x>>, <<>>},
           NEW n \in Deliveries(Len(events)), Record(i, events, n)
    PROVE  Grew(i, 0, 1, x \in NeverSent)
<1>0. y \in Events /\ x # "started" /\ y \notin NeverSent /\ (x \in NeverSent) \in BOOLEAN
  BY DEF Terminal, Events, NeverSent
<1>1. CASE events = <<x, y>>
  <2>1. n \in 0 .. 2  BY <1>1, DeliveriesBound
  <2>2. Grew(i, 0, IF y \in Terminal THEN 1 ELSE 0, x \in NeverSent \/ y \in NeverSent)
    BY <1>0, <1>1, <2>1, RecordTwo
  <2> QED  BY <1>0, <2>2
<1>2. CASE events = <<x>>
  <2>1. n \in 0 .. 1  BY <1>2, DeliveriesBound
  <2>2. Grew(i, IF n = 1 /\ x = "started" THEN 1 ELSE 0, IF x \in Terminal THEN 1 ELSE 0,
             x \in NeverSent)
    BY <1>2, <2>1, RecordOne
  <2>3. Grew(i, 0, 0, x \in NeverSent)  BY <1>0, <2>2
  <2> QED  BY <2>3 DEF Grew
<1>3. CASE events = <<>>
  <2>1. n \in 0 .. 0  BY <1>3, DeliveriesBound
  <2>2. Grew(i, 0, 0, FALSE)  BY <1>3, <2>1, RecordNone
  <2> QED  BY <2>2 DEF Grew
<1> QED  BY <1>1, <1>2, <1>3

\* The claims that are held are held on, elsewhere perhaps.
LEMMA HeldOn ==
    ASSUME LayerInv, NEW x, \A j \in Calls : Held(j)' = Held(j),
           leftAt' = leftAt, signed' = signed, Grew(x, 0, 0, FALSE),
           \A d \in Calls : Run(d)' = Run(d) /\ (Spoken(d) => Spoken(d)')
    PROVE  LeftOnce' /\ Accounted'
<1>1. LeftOnce'
  <2>1. \A d \in Calls : NotSent(d)' => NotSent(d)  BY DEF Grew
  <2> QED  BY <2>1 DEF LayerInv, LeftOnce
<1>2. Accounted'
  <2> SUFFICES ASSUME NEW d \in Calls, Kind[d] # "outcome"
               PROVE  Ends(d)' + Due(d)' <= Starts(d)'
    BY DEF Accounted
  <2>1. Ends(d) + Due(d) <= Starts(d)  BY DEF LayerInv, Accounted
  <2>2. Due(d)' = Due(d) /\ Due(d) \in 0 .. 2  BY DEF Due, Run
  <2>3. /\ Starts(d) \in Nat /\ Starts(d)' \in Nat /\ Ends(d) \in Nat /\ Ends(d)' \in Nat
        /\ Starts(d)' >= Starts(d) /\ Ends(d)' <= Ends(d)
    BY DEF Grew
  <2> QED  BY <2>1, <2>2, <2>3
<1> QED  BY <1>1, <1>2

\* Claim i ends: a verdict on it is recorded and it is held no more.
LEMMA Ended ==
    ASSUME LayerInv, NEW i \in Calls, NEW g \in 0 .. 1,
           Held(i), ~Held(i)', \A j \in Calls \ {i} : Held(j)' = Held(j),
           leftAt' = leftAt, signed' = [signed EXCEPT ![i] = @ + g], Grew(i, 0, 1, g = 0),
           \A d \in Calls : Run(d)' = Run(d) /\ (Spoken(d) => Spoken(d)')
    PROVE  LeftOnce' /\ Accounted'
<1>0. signed \in [Calls -> Nat] /\ leftAt \in [Calls -> Nat]  BY DEF LayerInv, LayerType
<1>1. LeftOnce'
  <2> SUFFICES ASSUME NEW c \in Calls
               PROVE  /\ Spoken(c)'
                      /\ leftAt[c] = 0 => ~Held(c)'
                      /\ leftAt[c] = 0 \/ Held(c)' => signed'[c] = 0 /\ ~NotSent(c)'
                      /\ signed'[c] <= 1 /\ (signed'[c] = 1 => ~NotSent(c)')
    BY DEF LeftOnce
  <2>1. /\ Spoken(c)
        /\ leftAt[c] = 0 => ~Held(c)
        /\ leftAt[c] = 0 \/ Held(c) => signed[c] = 0 /\ ~NotSent(c)
        /\ signed[c] <= 1 /\ (signed[c] = 1 => ~NotSent(c))
    BY DEF LayerInv, LeftOnce
  <2>2. NotSent(c)' => NotSent(c) \/ (c = i /\ g = 0)  BY DEF Grew
  <2>3. CASE c = i
    <3>1. leftAt[c] # 0 /\ signed[c] = 0 /\ ~NotSent(c)  BY <2>1, <2>3
    <3>2. signed'[c] = g  BY <1>0, <2>3, <3>1
    <3> QED  BY <2>1, <2>2, <2>3, <3>1, <3>2
  <2>4. CASE c # i
    <3>1. signed'[c] = signed[c] /\ Held(c)' = Held(c)  BY <1>0, <2>4
    <3> QED  BY <2>1, <2>2, <2>4, <3>1
  <2> QED  BY <2>3, <2>4
<1>2. Accounted'
  <2> SUFFICES ASSUME NEW d \in Calls, Kind[d] # "outcome"
               PROVE  Ends(d)' + Due(d)' <= Starts(d)'
    BY DEF Accounted
  <2>1. Ends(d) + Due(d) <= Starts(d)  BY DEF LayerInv, Accounted
  <2>2. /\ Run(d) \in 0 .. 1 /\ Run(d)' = Run(d)
        /\ Due(d) = Run(d) + (IF Held(d) THEN 1 ELSE 0)
        /\ Due(d)' = Run(d)' + (IF Held(d)' THEN 1 ELSE 0)
    BY DEF Due, Run
  <2>3. /\ Starts(d) \in Nat /\ Starts(d)' \in Nat /\ Ends(d) \in Nat /\ Ends(d)' \in Nat
        /\ Starts(d)' >= Starts(d) /\ Ends(d)' <= Ends(d) + IF d = i THEN 1 ELSE 0
    BY DEF Grew
  <2>4. CASE d = i  BY <2>1, <2>2, <2>3, <2>4
  <2>5. CASE d # i
    <3>1. Held(d)' = Held(d)  BY <2>5
    <3> QED  BY <2>1, <2>2, <2>3, <2>5, <3>1
  <2> QED  BY <2>4, <2>5
<1> QED  BY <1>1, <1>2

LEMMA LeavesClaim ==
    ASSUME LayerInv, NEW c \in Calls, Leave(c)
    PROVE  LayerInv'
<1> DEFINE gone == Evicted(c)
<1>1. /\ pc[c] = "session"
      /\ waiting' = (waiting \ gone) \cup {c}
      /\ lefts' = lefts + 1 /\ leftAt' = [leftAt EXCEPT ![c] = lefts + 1]
      /\ closing' = closing \cup Unsent(gone)
      /\ res' = [res EXCEPT ![c] = Stamped([@ EXCEPT !.id = c])]
      /\ pc' = [pc EXCEPT ![c] = Returned(c)]
      /\ UNCHANGED <<claim, answering, trail, signed>>
  BY DEF Leave, LeaveToOuterLayer, callVars, ghostVars
<1>2. gone \subseteq waiting  BY DEF Evicted
<1> HIDE DEF gone
<1>3. LayerType /\ leftAt \in [Calls -> Nat] /\ pc \in [Calls -> Points]
  BY DEF LayerInv, LayerType
<1>4. Stamped([res[c] EXCEPT !.id = c]) \in Result
      /\ Stamped([res[c] EXCEPT !.id = c]).stamped
  <2>1. res[c] \in Result  BY DEF LayerInv, LayerType
  <2>2. [res[c] EXCEPT !.id = c] \in Result  BY <2>1 DEF Result
  <2> QED  BY <2>2 DEF Stamped, Result
<1>5. Returned(c) \in {"layer", "ready"}  BY DEF Returned
<1>6. leftAt[c] = 0 /\ leftAt'[c] # 0
  BY <1>1, <1>3 DEF LayerInv, LayerType, LeftOnce, Spoken
<1>7. ~Held(c) /\ signed[c] = 0 /\ ~NotSent(c)  BY <1>6 DEF LayerInv, LeftOnce
<1>8. LayerType'
  <2>1. pc' \in [Calls -> Points] /\ res' \in [Calls -> Result]
    BY <1>1, <1>3, <1>4, <1>5 DEF LayerType, Points
  <2>2. closing' \subseteq [id: Calls, code: NeverSent]
    BY <1>1, <1>2, <1>3 DEF LayerType, Unsent, NeverSent
  <2> QED  BY <1>1, <1>2, <1>3, <2>1, <2>2 DEF LayerType
<1>9. \A d, i \in Calls : Proving(d, i)' = Proving(d, i)
  BY <1>1, <1>3, <1>5 DEF Proving
<1>10. \A i : Closing(i)' <=> (Closing(i) \/ i \in gone)
  <2>1. ASSUME NEW i, Closing(i)' PROVE Closing(i) \/ i \in gone
    <3> PICK x \in closing' : x.id = i  BY <2>1 DEF Closing
    <3>1. CASE x \in closing  BY <3>1 DEF Closing
    <3>2. CASE x \in Unsent(gone)  BY <3>2 DEF Unsent
    <3> QED  BY <1>1, <3>1, <3>2
  <2>2. ASSUME NEW i \in gone PROVE Closing(i)'
    <3>1. [id |-> i, code |-> "not_sent"] \in closing'  BY <1>1 DEF Unsent
    <3> QED  BY <3>1 DEF Closing
  <2>3. ASSUME NEW i, Closing(i) PROVE Closing(i)'  BY <1>1, <2>3 DEF Closing
  <2> QED  BY <2>1, <2>2, <2>3
<1>11. \A i \in Calls : Held(i)' <=> (Held(i) \/ i = c)
  BY <1>1, <1>2, <1>9, <1>10 DEF Held
<1>12. HeldOnce'
  <2>1. \A x, y \in closing' : x.id = y.id => x = y
    <3>1. \A x \in closing : x.id \notin waiting
      BY DEF LayerInv, LayerType, HeldOnce, Closing
    <3>2. \A x, y \in closing : x.id = y.id => x = y  BY DEF LayerInv, HeldOnce
    <3> QED  BY <1>1, <1>2, <3>1, <3>2 DEF Unsent
  <2>2. \A d \in Calls : pc'[d] = "proving" => pc[d] = "proving"  BY <1>1, <1>3, <1>5
  <2>3. \A i \in waiting' : ~Closing(i)' /\ \A d \in Calls : ~Proving(d, i)'
    <3> TAKE i \in waiting'
    <3>1. i \in Calls  BY <1>8 DEF LayerType
    <3>2. CASE i = c  BY <1>2, <1>7, <1>9, <1>10, <3>2 DEF Held
    <3>3. CASE i # c  BY <1>1, <1>9, <1>10, <3>1, <3>3 DEF LayerInv, HeldOnce
    <3> QED  BY <3>2, <3>3
  <2>4. \A d, i \in Calls : Proving(d, i)' =>
            ~Closing(i)' /\ \A e \in Calls : Proving(e, i)' => e = d
    BY <1>2, <1>9, <1>10 DEF LayerInv, HeldOnce
  <2> QED  BY <1>1, <2>1, <2>2, <2>3, <2>4 DEF LayerInv, HeldOnce
<1>13. LeftOnce'
  <2> SUFFICES ASSUME NEW d \in Calls
               PROVE  /\ Spoken(d)'
                      /\ leftAt'[d] = 0 => ~Held(d)'
                      /\ leftAt'[d] = 0 \/ Held(d)' => signed[d] = 0 /\ ~NotSent(d)
                      /\ signed[d] <= 1 /\ (signed[d] = 1 => ~NotSent(d))
    BY <1>1 DEF LeftOnce, NotSent
  <2>1. /\ Spoken(d)
        /\ leftAt[d] = 0 => ~Held(d)
        /\ leftAt[d] = 0 \/ Held(d) => signed[d] = 0 /\ ~NotSent(d)
        /\ signed[d] <= 1 /\ (signed[d] = 1 => ~NotSent(d))
    BY DEF LayerInv, LeftOnce
  <2>2. CASE d = c
    <3>1. pc'[c] \in {"layer", "ready"} /\ res'[c].stamped
      BY <1>1, <1>3, <1>4, <1>5 DEF LayerType
    <3>2. Spoken(c)'  BY <3>1 DEF Spoken
    <3> QED  BY <1>6, <1>7, <2>1, <2>2, <3>2
  <2>3. CASE d # c
    <3>1. pc'[d] = pc[d] /\ res'[d] = res[d] /\ leftAt'[d] = leftAt[d]
      BY <1>1, <1>3, <2>3 DEF LayerType
    <3>2. Spoken(d)'  BY <1>1, <2>1, <3>1 DEF Spoken
    <3> QED  BY <1>11, <2>1, <2>3, <3>1, <3>2
  <2> QED  BY <2>2, <2>3
<1>14. Accounted'
  <2> SUFFICES ASSUME NEW d \in Calls, Kind[d] # "outcome"
               PROVE  Ends(d)' + Due(d)' <= Starts(d)'
    BY DEF Accounted
  <2>1. Ends(d) + Due(d) <= Starts(d)  BY DEF LayerInv, Accounted
  <2>2. Ends(d)' = Ends(d) /\ Starts(d)' = Starts(d)  BY <1>1 DEF Ends, Starts, Occurs
  <2>3. Due(d)' = Due(d)
    <3>1. CASE d = c
      <4>1. Run(c) = 1 /\ Run(c)' = 0
        BY <1>1, <1>3, <1>5 DEF Run, Running
      <4>2. ~Held(c) /\ Held(c)'  BY <1>7, <1>11
      <4> QED  BY <3>1, <4>1, <4>2 DEF Due
    <3>2. CASE d # c
      <4>1. pc'[d] = pc[d]  BY <1>1, <1>3, <3>2
      <4>2. Held(d)' <=> Held(d)  BY <1>11, <3>2
      <4> QED  BY <4>1, <4>2 DEF Due, Run, Running
    <3> QED  BY <3>1, <3>2
  <2> QED  BY <2>1, <2>2, <2>3
<1> QED  BY <1>8, <1>12, <1>13, <1>14 DEF LayerInv

\* The answer of a call ends the claim it had taken.
LEMMA AnswerEnds ==
    ASSUME LayerInv, NEW c \in Calls, NEW i, i = claim[c], NEW g \in 0 .. 1, pc[c] = "proving",
           pc' = [pc EXCEPT ![c] = "outgoing"], signed' = [signed EXCEPT ![i] = @ + g],
           Grew(i, 0, 1, FALSE),
           UNCHANGED <<res, claim, answering, waiting, leftAt, lefts, closing>>
    PROVE  LayerInv'
<1>1. i \in Calls /\ Proving(c, i)  BY DEF LayerInv, HeldOnce, Proving
<1>2. pc \in [Calls -> Points] /\ signed \in [Calls -> Nat]  BY DEF LayerInv, LayerType
<1>3. LayerType'
  <2>1. pc' \in [Calls -> Points] /\ signed' \in [Calls -> Nat]  BY <1>1, <1>2 DEF Points
  <2> QED  BY <2>1 DEF LayerInv, LayerType, Grew
<1>4. \A d, j \in Calls : Proving(d, j)' <=> (Proving(d, j) /\ d # c)
  BY <1>2 DEF Proving
<1>5. \A j : Closing(j)' <=> Closing(j)  BY DEF Closing
<1>6. Held(i) /\ ~Held(i)'
  BY <1>1, <1>4, <1>5 DEF Held, LayerInv, HeldOnce
<1>7. \A j \in Calls \ {i} : Held(j)' = Held(j)
  <2>1. \A j \in Calls \ {i} : ~Proving(c, j)  BY <1>1 DEF Proving
  <2> QED  BY <1>4, <1>5, <2>1 DEF Held
<1>8. HeldOnce'
  <2>1. \A d \in Calls : pc'[d] = "proving" => pc[d] = "proving"  BY <1>2
  <2>2. \A j \in waiting : j \in Calls  BY DEF LayerInv, LayerType
  <2> QED  BY <1>4, <1>5, <2>1, <2>2 DEF LayerInv, HeldOnce
<1>9. \A d \in Calls : Run(d)' = Run(d) /\ (Spoken(d) => Spoken(d)')
  <2> TAKE d \in Calls
  <2>1. CASE d = c
    <3>1. pc'[c] = "outgoing"  BY <1>2
    <3> QED  BY <2>1, <3>1 DEF Run, Running, Spoken
  <2>2. CASE d # c
    <3>1. pc'[d] = pc[d]  BY <1>2, <2>2
    <3> QED  BY <3>1 DEF Run, Running, Spoken
  <2> QED  BY <2>1, <2>2
<1>10. LeftOnce' /\ Accounted'
  <2>1. signed' = [signed EXCEPT ![i] = @ + g] /\ Grew(i, 0, 1, g = 0)  BY DEF Grew
  <2> QED  BY <1>1, <1>6, <1>7, <1>9, <2>1, Ended
<1> QED  BY <1>3, <1>8, <1>10 DEF LayerInv

\* The records of a claim taken unsent are written.
LEMMA TakenEnds ==
    ASSUME LayerInv, NEW e \in closing, CloseTaken(e)
    PROVE  LayerInv'
<1> DEFINE i == e.id
<1>0. PICK g \in 0 .. 1 : g = 0  OBVIOUS
<1>1. i \in Calls /\ e.code \in NeverSent  BY DEF LayerInv, LayerType
<1>2. closing' = closing \ {e} /\ UNCHANGED <<pc, res, claim, answering, waiting, leftAt, lefts, signed>>
  BY DEF CloseTaken, callVars, ghostVars
<1>3. Grew(i, 0, 1, g = 0)
  <2>1. Verdict(i, e.code) \in {<<e.code, "failed">>, <<e.code>>, <<>>}  BY DEF Verdict
  <2>2. PICK n \in Deliveries(Len(Verdict(i, e.code))) : Record(i, Verdict(i, e.code), n)
    BY DEF CloseTaken
  <2>3. e.code \in Events \ (Terminal \cup {"started"}) /\ "failed" \in Terminal
    BY <1>1 DEF NeverSent, Events, Terminal
  <2>4. Grew(i, 0, 1, e.code \in NeverSent)
    BY <1>1, <2>1, <2>2, <2>3, VerdictGrows DEF LayerInv
  <2> QED  BY <1>0, <2>4 DEF Grew
<1>4. LayerType'  BY <1>2, <1>3 DEF LayerInv, LayerType, Grew
<1>5. \A d, j \in Calls : Proving(d, j)' <=> Proving(d, j)  BY <1>2 DEF Proving
<1>6. \A j : Closing(j)' <=> (Closing(j) /\ j # i)
  <2>1. \A x, y \in closing : x.id = y.id => x = y  BY DEF LayerInv, HeldOnce
  <2> QED  BY <1>2, <2>1 DEF Closing
<1>7. Closing(i)  BY DEF Closing
<1>8. Held(i) /\ ~Held(i)'
  BY <1>1, <1>2, <1>5, <1>6, <1>7 DEF Held, LayerInv, HeldOnce
<1>9. \A j \in Calls \ {i} : Held(j)' = Held(j)
  BY <1>2, <1>5, <1>6 DEF Held
<1>10. HeldOnce'
  <2>1. \A j \in waiting : j \in Calls  BY DEF LayerInv, LayerType
  <2> QED  BY <1>2, <1>5, <1>6, <2>1 DEF LayerInv, HeldOnce
<1>11. \A d \in Calls : Run(d)' = Run(d) /\ (Spoken(d) => Spoken(d)')
  BY <1>2 DEF Run, Running, Spoken
<1>12. signed' = [signed EXCEPT ![i] = @ + g]  BY <1>0, <1>1, <1>2 DEF LayerInv, LayerType
<1> HIDE DEF i
<1>13. LeftOnce' /\ Accounted'
  BY <1>1, <1>2, <1>3, <1>8, <1>9, <1>11, <1>12, Ended
<1> QED  BY <1>4, <1>10, <1>13 DEF LayerInv

\* A result goes through the layer: the claims found in it are closed, and its own is
\* redeemed, refused, or ended by a private member.
LEMMA LayerSends ==
    ASSUME LayerInv, NEW c \in Calls, NEW answer, LayerSend(c, answer),
           pc[c] \in {"ready", "layer"},
           answering' \subseteq Calls, \A d \in Calls \ {c} : d \in answering => d \in answering',
           UNCHANGED <<res, leftAt, lefts, signed>>
    PROVE  LayerInv'
<1> PICK id : id = IF res[c].stamped THEN res[c].id ELSE None  OBVIOUS
<1> DEFINE found == FoundIds(c)
           own == IF id \in waiting THEN {id} ELSE {}
           bad == own # {} /\ ~res[c].leaks /\ NamesAnother(c, id, answer)
           proves == own # {} /\ ~res[c].leaks /\ ~bad
           spilt == own # {} /\ res[c].leaks
<1>1. /\ waiting' = waiting \ (found \cup own)
      /\ closing' = closing \cup Unsent(found \cap waiting)
                    \cup IF bad THEN {[id |-> id, code |-> "mismatch"]} ELSE {}
      /\ claim' = [claim EXCEPT ![c] = IF proves THEN id ELSE None]
      /\ pc' = [pc EXCEPT ![c] = IF proves THEN "proving" ELSE "outgoing"]
  BY DEF LayerSend, Take
<1>2. \/ /\ spilt
         /\ \E n \in Deliveries(Len(AtSend(id, "private_member"))) :
                Record(id, AtSend(id, "private_member"), n)
      \/ /\ ~spilt /\ id # None
         /\ \E n \in Deliveries(1) :
                Record(IF Contains(remembered, id) THEN id ELSE None, <<"expired">>, n)
      \/ ~spilt /\ UNCHANGED trail
  BY DEF LayerSend
<1>3. /\ pc \in [Calls -> Points] /\ claim \in [Calls -> Calls \cup {None}]
      /\ waiting \subseteq Calls /\ res[c] \in Result
  BY DEF LayerInv, LayerType
<1>4. id \in Calls \cup {None} /\ id \notin found
  BY <1>3, ProofLayerAssumption DEF Result, FoundIds
<1>5. own = {} \/ (own = {id} /\ id \in waiting /\ id \in Calls)  BY <1>3
<1> HIDE DEF found, own, proves, bad, spilt
<1>6. /\ proves => id \in waiting /\ ~bad /\ ~spilt /\ own = {id}
      /\ bad => id \in waiting /\ ~spilt /\ own = {id}
      /\ spilt => id \in waiting /\ ~proves /\ ~bad /\ own = {id}
      /\ ~proves /\ ~bad /\ ~spilt => own = {}
  BY <1>5 DEF proves, bad, spilt
<1>7. \A d, j \in Calls : Proving(d, j)' <=> (Proving(d, j) \/ (proves /\ d = c /\ j = id))
  <2> TAKE d, j \in Calls
  <2>1. CASE d = c
    <3>1. pc[c] # "proving" /\ pc'[c] = (IF proves THEN "proving" ELSE "outgoing")
          /\ claim'[c] = (IF proves THEN id ELSE None)
      BY <1>1, <1>3
    <3> QED  BY <2>1, <3>1 DEF Proving
  <2>2. CASE d # c
    <3>1. pc'[d] = pc[d] /\ claim'[d] = claim[d]  BY <1>1, <1>3, <2>2
    <3> QED  BY <2>2, <3>1 DEF Proving
  <2> QED  BY <2>1, <2>2
<1>8. \A j : Closing(j)' <=> (Closing(j) \/ j \in found \cap waiting \/ (bad /\ j = id))
  <2>1. ASSUME NEW j, Closing(j)'
        PROVE  Closing(j) \/ j \in found \cap waiting \/ (bad /\ j = id)
    <3> PICK x \in closing' : x.id = j  BY <2>1 DEF Closing
    <3>1. CASE x \in closing  BY <3>1 DEF Closing
    <3>2. CASE x \in Unsent(found \cap waiting)  BY <3>2 DEF Unsent
    <3>3. CASE bad /\ x = [id |-> id, code |-> "mismatch"]  BY <3>3
    <3> QED  BY <1>1, <3>1, <3>2, <3>3
  <2>2. ASSUME NEW j \in found \cap waiting PROVE Closing(j)'
    <3>1. [id |-> j, code |-> "not_sent"] \in closing'  BY <1>1 DEF Unsent
    <3> QED  BY <3>1 DEF Closing
  <2>3. ASSUME bad PROVE Closing(id)'
    <3> DEFINE x == [id |-> id, code |-> "mismatch"]
    <3>1. x \in closing' /\ x.id = id  BY <1>1, <2>3
    <3> HIDE DEF x
    <3> QED  BY <3>1 DEF Closing
  <2>4. ASSUME NEW j, Closing(j) PROVE Closing(j)'  BY <1>1, <2>4 DEF Closing
  <2> QED  BY <2>1, <2>2, <2>3, <2>4
<1>9. \A j \in Calls : Held(j)' <=> (Held(j) /\ ~(spilt /\ j = id))
  <2>1. \A j \in waiting : ~Closing(j) /\ \A d \in Calls : ~Proving(d, j)
    BY DEF LayerInv, HeldOnce
  <2> QED  BY <1>1, <1>4, <1>6, <1>7, <1>8, <2>1 DEF Held
<1>10. HeldOnce'
  <2>1. \A x, y \in closing' : x.id = y.id => x = y
    <3>1. \A x \in closing : x.id \notin waiting
      BY DEF LayerInv, LayerType, HeldOnce, Closing
    <3>2. \A x, y \in closing : x.id = y.id => x = y  BY DEF LayerInv, HeldOnce
    <3>3. \A x \in closing' : \/ x \in closing
                              \/ x.id \in found \cap waiting /\ x = [id |-> x.id, code |-> "not_sent"]
                              \/ bad /\ x.id = id /\ x = [id |-> id, code |-> "mismatch"]
      BY <1>1 DEF Unsent
    <3> QED  BY <1>4, <1>6, <3>1, <3>2, <3>3
  <2>2. \A d \in Calls : pc'[d] = "proving" => claim'[d] \in Calls
    BY <1>1, <1>3, <1>6 DEF LayerInv, HeldOnce
  <2>3. \A j \in waiting' : ~Closing(j)' /\ \A d \in Calls : ~Proving(d, j)'
    BY <1>1, <1>3, <1>6, <1>7, <1>8 DEF LayerInv, HeldOnce
  <2>4. \A d, j \in Calls : Proving(d, j)' =>
            ~Closing(j)' /\ \A e \in Calls : Proving(e, j)' => e = d
    BY <1>4, <1>6, <1>7, <1>8 DEF LayerInv, HeldOnce
  <2> QED  BY <2>1, <2>2, <2>3, <2>4 DEF HeldOnce
<1>11. \A d \in Calls : Run(d)' = Run(d) /\ (Spoken(d) => Spoken(d)')
  <2> TAKE d \in Calls
  <2>1. CASE d = c
    <3>1. pc'[c] \in {"proving", "outgoing"}  BY <1>1, <1>3
    <3> QED  BY <2>1, <3>1 DEF Run, Running, Spoken
  <2>2. CASE d # c
    <3>1. pc'[d] = pc[d]  BY <1>1, <1>3, <2>2
    <3> QED  BY <2>2, <3>1 DEF Run, Running, Spoken
  <2> QED  BY <2>1, <2>2
<1>12. ASSUME trail' \in [Calls \cup {None} -> Seq(Events)] PROVE LayerType'
  <2>1. pc' \in [Calls -> Points] /\ claim' \in [Calls -> Calls \cup {None}]
    BY <1>1, <1>3, <1>4 DEF Points
  <2>2. closing' \subseteq [id: Calls, code: NeverSent]
    BY <1>1, <1>3, <1>6 DEF LayerInv, LayerType, Unsent, NeverSent
  <2> QED  BY <1>1, <1>12, <2>1, <2>2 DEF LayerInv, LayerType
<1>13. CASE spilt
  <2>0. PICK g \in 0 .. 1 : g = 0  OBVIOUS
  <2>1. id \in Calls /\ Held(id) /\ ~Held(id)' /\ \A j \in Calls \ {id} : Held(j)' = Held(j)
    <3>1. id \in Calls /\ Held(id)  BY <1>3, <1>6, <1>13 DEF Held
    <3>2. \A j \in Calls \ {id} : Held(j)' = Held(j)  BY <1>9 DEF Held
    <3> QED  BY <1>9, <1>13, <3>1, <3>2
  <2>2. Grew(id, 0, 1, g = 0)
    <3>1. AtSend(id, "private_member") \in {<<"private_member", "completed">>, <<"private_member">>, <<>>}
      BY DEF AtSend
    <3>2. PICK n \in Deliveries(Len(AtSend(id, "private_member"))) :
              Record(id, AtSend(id, "private_member"), n)
      BY <1>2, <1>13
    <3>3. /\ "private_member" \in Events \ (Terminal \cup {"started"}) /\ "completed" \in Terminal
          /\ "private_member" \notin NeverSent
      BY DEF NeverSent, Events, Terminal
    <3>4. Grew(id, 0, 1, "private_member" \in NeverSent)
      BY <2>1, <3>1, <3>2, <3>3, VerdictGrows DEF LayerInv
    <3> QED  BY <2>0, <3>3, <3>4 DEF Grew
  <2>3. signed' = [signed EXCEPT ![id] = @ + g]  BY <2>0, <2>1 DEF LayerInv, LayerType
  <2>4. LeftOnce' /\ Accounted'  BY <1>11, <2>1, <2>2, <2>3, Ended
  <2>5. LayerType'  BY <1>12, <2>2 DEF Grew
  <2> QED  BY <1>10, <2>4, <2>5 DEF LayerInv
<1>14. CASE ~spilt
  <2>1. \A j \in Calls : Held(j)' = Held(j)  BY <1>9, <1>14 DEF Held
  <2>2. \E x : Grew(x, 0, 0, FALSE)
    <3>1. CASE UNCHANGED trail  BY <3>1, QuietGrows DEF LayerInv
    <3>2. ASSUME NEW x \in Calls \cup {None}, NEW n \in Deliveries(1), Record(x, <<"expired">>, n)
          PROVE  Grew(x, 0, 0, FALSE)
      <4>1. n \in 0 .. 1  BY DeliveriesBound
      <4>2. "expired" \in Events /\ "expired" \notin Terminal /\ "expired" \notin NeverSent
        BY DEF Events, Terminal, NeverSent
      <4>3. Grew(x, IF n = 1 /\ "expired" = "started" THEN 1 ELSE 0,
                    IF "expired" \in Terminal THEN 1 ELSE 0, "expired" \in NeverSent)
        BY <3>2, <4>1, <4>2, RecordOne DEF LayerInv
      <4> QED  BY <4>2, <4>3 DEF Grew
    <3> QED  BY <1>2, <1>4, <1>14, <3>1, <3>2
  <2>3. LeftOnce' /\ Accounted'  BY <1>11, <2>1, <2>2, HeldOn
  <2>4. LayerType'  BY <1>12, <2>2 DEF Grew
  <2> QED  BY <1>10, <2>3, <2>4 DEF LayerInv
<1> QED  BY <1>13, <1>14

-----------------------------------------------------------------------------
(* The steps of the system.                                                *)

LEMMA LayerInit == Init => LayerInv
<1> SUFFICES ASSUME Init PROVE LayerInv  OBVIOUS
<1> USE DEF Init
<1>1. LayerType
  BY DEF LayerType, Points, Fresh, Result
<1>2. \A i \in Calls : ~Held(i) /\ ~NotSent(i)
  BY DEF Held, Closing, Proving, NotSent
<1>3. HeldOnce  BY DEF HeldOnce, Proving, Closing
<1>4. LeftOnce  BY <1>2 DEF LeftOnce, Spoken
<1>5. Accounted
  <2>1. \A c \in Calls : Due(c) = 0  BY <1>2 DEF Due, Run, Running
  <2>2. \A c \in Calls : Ends(c) = 0 /\ Starts(c) = 0
    <3> TAKE c \in Calls
    <3>1. \A E : {k \in DOMAIN trail[c] : trail[c][k] \in E} = {}  OBVIOUS
    <3> QED  BY <3>1, FS_EmptySet DEF Ends, Starts, Occurs
  <2> QED  BY <2>1, <2>2 DEF Accounted
<1> QED  BY <1>1, <1>3, <1>4, <1>5 DEF LayerInv

\* What a handler returns is a result.
LEMMA HandlerResultType ==
    ASSUME LayerType, NEW c \in Calls, NEW e \in BOOLEAN, NEW r \in HandlerResults(c, e)
    PROVE  r \in Result
<1>1. \A i \in Calls : res[i] \in Result /\ {res[i].id} \ {None} \subseteq Calls
  BY DEF LayerType, Result
<1>2. Fresh(e) \in Result  BY DEF Fresh, Result
<1>3. \A i \in Calls : /\ [Fresh(e) EXCEPT !.ids = {res[i].id} \ {None}] \in Result
                      /\ [Fresh(e) EXCEPT !.ids = {res[i].id} \ {None}, !.leaks = TRUE] \in Result
  BY <1>1 DEF Fresh, Result
<1>4. r = Fresh(e) \/ \E i \in Calls :
          r \in {res[i], [Fresh(e) EXCEPT !.ids = {res[i].id} \ {None}],
                [Fresh(e) EXCEPT !.ids = {res[i].id} \ {None}, !.leaks = TRUE]}
  BY Zenon DEF HandlerResults
<1> HIDE DEF Fresh
<1> QED  BY <1>1, <1>2, <1>3, <1>4

\* Calls on their way in, and what a handler does.
LEMMA CallMoves ==
    ASSUME LayerInv, NEW c \in Calls,
           \/ Receive(c) \/ Wrap(c) \/ Intent(c) \/ HandlerThrows(c) \/ WrapReceived(c) \/ Outcome(c)
           \/ \E r \in Result : HandlerReturns(c, r) \/ PlainReturns(c, r)
    PROVE  LayerInv'
<1> USE DEF callVars, layerVars, ghostVars
<1>1. /\ LayerType /\ pc \in [Calls -> Points] /\ res \in [Calls -> Result] /\ answering \subseteq Calls
      /\ Spoken(c) /\ leftAt' = leftAt
      /\ UNCHANGED <<answering, waiting, closing, leftAt, lefts, signed, claim>>
  BY DEF LayerInv, LayerType, LeftOnce, Receive, Wrap, Intent, HandlerThrows, WrapReceived, Outcome,
         HandlerReturns, PlainReturns
<1>2. ASSUME UNCHANGED trail, Run(c)' <= Run(c) PROVE Balanced(c)
  BY <1>1, <1>2, QuietBalanced
<1>3. ASSUME (\E n \in Deliveries(1) : Record(c, <<"failed">>, n)) \/ UNCHANGED trail,
             Run(c) = 1, Run(c)' = 0
      PROVE  Balanced(c)
  BY <1>1, <1>2, <1>3, FailedBalanced
<1>4. CASE Receive(c)
  <2>1. pc[c] = "idle" /\ pc' = [pc EXCEPT ![c] = "received"] /\ UNCHANGED <<res, trail>>
    BY <1>4 DEF Receive
  <2>2. Run(c) = 0 /\ Run(c)' = 0  BY <1>1, <2>1 DEF Run, Running
  <2>3. Spoken(c)'  BY <1>1, <2>1 DEF Spoken
  <2>4. Moves(c)  BY <1>1, <2>1 DEF Moves, Points
  <2> QED  BY <1>2, <2>1, <2>2, <2>3, <2>4, Moved
<1>5. CASE Wrap(c)
  <2>1. pc[c] \in {"idle", "received"} /\ UNCHANGED <<res, trail>>
    BY <1>5 DEF Wrap
  <2>2. PICK p \in {"thrown", "intent"} : pc' = [pc EXCEPT ![c] = p]
    BY <1>5 DEF Wrap, RequireProofLayer
  <2>3. Run(c) = 0 /\ Run(c)' = 0  BY <1>1, <2>1, <2>2 DEF Run, Running
  <2>4. Spoken(c)'  BY <1>1, <2>1 DEF Spoken
  <2>5. Moves(c)  BY <1>1, <2>1, <2>2 DEF Moves, Points
  <2> QED  BY <1>2, <2>1, <2>3, <2>4, <2>5, Moved
<1>6. CASE Intent(c)
  <2>1. pc[c] = "intent" /\ Run(c) = 0  BY <1>6 DEF Intent, Run, Running
  <2>2. CASE UNCHANGED trail /\ pc' = [pc EXCEPT ![c] = Returned(c)]
             /\ res' = IF c \in answering /\ res[c].error THEN res
                       ELSE [res EXCEPT ![c] = Unavailable]
    <3>1. PICK r \in Result : res' = [res EXCEPT ![c] = r] /\ (r = res[c] \/ r.stamped)
      <4>1. Unavailable \in Result /\ Unavailable.stamped
        BY DEF Unavailable, Stamped, Fresh, Result
      <4>2. CASE c \in answering /\ res[c].error  BY <1>1, <2>2, <4>2
      <4>3. CASE ~(c \in answering /\ res[c].error)  BY <2>2, <4>1, <4>3
      <4> QED  BY <4>2, <4>3
    <3>2. PICK p \in {"layer", "ready"} : pc' = [pc EXCEPT ![c] = p] /\ (c \in answering => p = "layer")
      BY <2>2 DEF Returned
    <3>3. pc'[c] = p /\ res'[c] = r  BY <1>1, <3>1, <3>2
    <3>4. Spoken(c)'  BY <1>1, <2>1, <3>1, <3>2, <3>3 DEF Spoken
    <3>5. Run(c)' = 0  BY <3>3 DEF Run, Running
    <3>6. Moves(c)  BY <1>1, <2>1, <3>1, <3>2 DEF Moves, Points
    <3> QED  BY <1>2, <2>1, <2>2, <3>4, <3>5, <3>6, Moved
  <2>3. CASE /\ Record(c, <<"started">>, 1) /\ UNCHANGED res
             /\ pc' = [pc EXCEPT ![c] = IF c \in answering THEN "wrapped" ELSE "handler"]
    <3>1. PICK p \in {"wrapped", "handler"} :
             pc' = [pc EXCEPT ![c] = p] /\ (c \in answering => p = "wrapped")
      BY <2>3
    <3>2. pc'[c] = p /\ res'[c] = res[c]  BY <1>1, <2>3, <3>1
    <3>3. Spoken(c)'  BY <1>1, <2>1, <3>1, <3>2 DEF Spoken
    <3>4. Run(c)' = 1  BY <3>2 DEF Run, Running
    <3>5. Balanced(c)  BY <1>1, <2>1, <2>3, <3>4, StartedBalanced
    <3>6. Moves(c)
      <4>1. res' = [res EXCEPT ![c] = res[c]] /\ res[c] \in Result  BY <1>1, <2>3
      <4> QED  BY <1>1, <2>1, <3>1, <4>1 DEF Moves, Points
    <3> QED  BY <3>3, <3>5, <3>6, Moved
  <2> QED  BY <1>6, <2>2, <2>3 DEF Intent
<1>7. CASE HandlerThrows(c)
  <2>1. pc[c] = "handler" /\ pc' = [pc EXCEPT ![c] = "thrown"] /\ UNCHANGED res
    BY <1>7 DEF HandlerThrows
  <2>2. Run(c) = 1 /\ Run(c)' = 0  BY <1>1, <2>1 DEF Run, Running
  <2>3. Balanced(c)  BY <1>3, <1>7, <2>2 DEF HandlerThrows
  <2>4. Spoken(c)'  BY <1>1, <2>1 DEF Spoken
  <2>5. Moves(c)  BY <1>1, <2>1 DEF Moves, Points
  <2> QED  BY <2>3, <2>4, <2>5, Moved
<1>8. CASE WrapReceived(c)
  <2>1. pc[c] = "wrapped" /\ UNCHANGED res  BY <1>8 DEF WrapReceived
  <2>2. CASE res[c].error
    <3>1. pc' = [pc EXCEPT ![c] = "layer"]  BY <1>8, <2>2 DEF WrapReceived
    <3>2. Run(c) = 1 /\ Run(c)' = 0  BY <1>1, <2>1, <3>1 DEF Run, Running
    <3>3. Balanced(c)  BY <1>3, <1>8, <2>2, <3>2 DEF WrapReceived
    <3>4. Spoken(c)'  BY <1>1, <3>1 DEF Spoken
    <3>5. Moves(c)  BY <1>1, <2>1, <3>1 DEF Moves, Points
    <3> QED  BY <3>3, <3>4, <3>5, Moved
  <2>3. CASE ~res[c].error
    <3>1. pc' = [pc EXCEPT ![c] = "session"] /\ UNCHANGED trail
      BY <1>8, <2>3 DEF WrapReceived
    <3>2. Run(c) = 1 /\ Run(c)' = 1  BY <1>1, <2>1, <3>1 DEF Run, Running
    <3>3. Spoken(c)'  BY <1>1, <2>1, <2>3 DEF Spoken
    <3>4. Moves(c)  BY <1>1, <2>1, <3>1 DEF Moves, Points
    <3> QED  BY <1>2, <3>1, <3>2, <3>3, <3>4, Moved
  <2> QED  BY <2>2, <2>3
<1>9. CASE Outcome(c)
  <2>1. /\ pc[c] = "intent" /\ Kind[c] = "outcome" /\ c \notin answering
        /\ pc' = [pc EXCEPT ![c] = "session"]
    BY <1>9 DEF Outcome
  <2>2. PICK n \in Deliveries(2), e \in BOOLEAN :
            Record(c, <<"authorization", "refused">>, n) /\ res' = [res EXCEPT ![c] = Fresh(e)]
    BY <1>9 DEF Outcome
  <2>3. Balanced(c)  BY <1>1, <2>1, <2>2, RefusedBalanced
  <2>4. Fresh(e) \in Result  BY DEF Fresh, Result
  <2>5. Spoken(c)'  BY <1>1, <2>1 DEF Spoken
  <2>6. Moves(c)  BY <1>1, <2>1, <2>2, <2>4 DEF Moves, Points
  <2> QED  BY <2>3, <2>5, <2>6, Moved
<1>10. ASSUME NEW r \in Result, HandlerReturns(c, r) PROVE LayerInv'
  <2>1. pc[c] = "handler"  BY <1>10 DEF HandlerReturns
  <2>2. Run(c) = 1 /\ Spoken(c)'  BY <1>1, <2>1 DEF Run, Running, Spoken
  <2>3. Stamped(r) \in Result  BY DEF Stamped, Result
  <2>4. CASE pc' = [pc EXCEPT ![c] = "ready"] /\ res' = [res EXCEPT ![c] = Stamped(r)]
    <3>1. Run(c)' = 0  BY <1>1, <2>4 DEF Run, Running
    <3>2. (\E n \in Deliveries(1) : Record(c, <<"failed">>, n)) \/ UNCHANGED trail
      BY <1>10 DEF HandlerReturns
    <3>3. Balanced(c)  BY <1>3, <2>2, <3>1, <3>2
    <3>4. Moves(c)  BY <1>1, <2>1, <2>3, <2>4 DEF Moves, Points
    <3> QED  BY <2>2, <3>3, <3>4, Moved
  <2>5. CASE pc' = [pc EXCEPT ![c] = "session"] /\ res' = [res EXCEPT ![c] = r] /\ UNCHANGED trail
    <3>1. Run(c)' = 1  BY <1>1, <2>5 DEF Run, Running
    <3>2. Moves(c)  BY <1>1, <2>1, <2>5 DEF Moves, Points
    <3> QED  BY <1>2, <2>2, <2>5, <3>1, <3>2, Moved
  <2> QED  BY <1>10, <2>4, <2>5 DEF HandlerReturns
<1>11. ASSUME NEW r \in Result, PlainReturns(c, r) PROVE LayerInv'
  <2>1. /\ pc[c] = "received" /\ pc' = [pc EXCEPT ![c] = "ready"] /\ res' = [res EXCEPT ![c] = r]
        /\ UNCHANGED trail
    BY <1>11 DEF PlainReturns
  <2>2. Run(c) = 0 /\ Run(c)' = 0 /\ Spoken(c)'  BY <1>1, <2>1 DEF Run, Running, Spoken
  <2>3. Moves(c)  BY <1>1, <2>1 DEF Moves, Points
  <2> QED  BY <1>2, <2>1, <2>2, <2>3, Moved
<1> QED  BY <1>4, <1>5, <1>6, <1>7, <1>8, <1>9, <1>10, <1>11

\* Ways out of a wrapper that leave no claim, and what the SDK does with a result.
LEMMA ResultMoves ==
    ASSUME LayerInv, NEW c \in Calls,
           \/ HashFails(c) \/ SendError(c) \/ Replace(c) \/ Drop(c) \/ Deliver(c) \/ Resend(c)
           \/ \E r \in {res[c], Stripped(res[c])} : NoSession(c, r)
    PROVE  LayerInv'
<1> USE DEF callVars, layerVars, ghostVars
<1>1. /\ LayerType /\ pc \in [Calls -> Points] /\ res \in [Calls -> Result] /\ answering \subseteq Calls
      /\ Spoken(c) /\ leftAt' = leftAt /\ res[c] \in Result
      /\ answering' \subseteq Calls /\ \A d \in answering \ {c} : d \in answering'
      /\ UNCHANGED <<waiting, closing, leftAt, lefts, signed, claim>>
  BY DEF LayerInv, LayerType, LeftOnce, HashFails, SendError, Replace, Drop, Deliver, Resend, NoSession
<1>2. Stripped(res[c]) \in Result /\ \A r \in Result : Stamped(r) \in Result /\ Stamped(r).stamped
  <2>1. Stripped(res[c]) \in Result  BY <1>1 DEF Stripped, Result
  <2>2. \A r \in Result : Stamped(r) \in Result /\ Stamped(r).stamped  BY DEF Stamped, Result
  <2> QED  BY <2>1, <2>2
<1>3. ASSUME NEW r \in {res[c], Stripped(res[c])}, NoSession(c, r) PROVE LayerInv'
  <2>1. pc[c] = "session" /\ res' = [res EXCEPT ![c] = Stamped(r)] /\ Stamped(r) \in Result
    BY <1>1, <1>2, <1>3 DEF NoSession
  <2>2. PICK p \in {"layer", "ready"} : pc' = [pc EXCEPT ![c] = p]  BY <1>3 DEF NoSession, Returned
  <2>3. Run(c) = 1 /\ Run(c)' = 0  BY <1>1, <2>1, <2>2 DEF Run, Running
  <2>4. Balanced(c)
    <3>1. CASE UNCHANGED trail  BY <1>1, <2>3, <3>1, QuietBalanced
    <3>2. ASSUME NEW n \in Deliveries(2), Record(c, <<"no_session", "completed">>, n)
          PROVE  Balanced(c)
      <4>1. n \in 0 .. 2  BY DeliveriesBound
      <4>2. /\ "no_session" \in Events \ Terminal /\ "completed" \in Events /\ "completed" \in Terminal
            /\ "no_session" \notin NeverSent /\ "completed" \notin NeverSent
        BY DEF Events, Terminal, NeverSent
      <4>3. Grew(c, 0, IF "completed" \in Terminal THEN 1 ELSE 0,
                 "no_session" \in NeverSent \/ "completed" \in NeverSent)
        BY <1>1, <3>2, <4>1, <4>2, RecordTwo
      <4> QED  BY <2>3, <4>2, <4>3 DEF Grew, Balanced
    <3> QED  BY <1>3, <3>1, <3>2 DEF NoSession
  <2>5. Spoken(c)'  BY <1>1, <2>1 DEF Spoken
  <2>6. Moves(c)  BY <1>1, <2>1, <2>2 DEF Moves, Points
  <2> QED  BY <2>4, <2>5, <2>6, Moved
<1>4. CASE HashFails(c)
  <2>1. /\ pc[c] = "session" /\ Stamped(Stripped(res[c])) \in Result
        /\ res' = [res EXCEPT ![c] = Stamped(Stripped(res[c]))]
    BY <1>1, <1>2, <1>4 DEF HashFails
  <2>2. PICK p \in {"layer", "ready"} : pc' = [pc EXCEPT ![c] = p]  BY <1>4 DEF HashFails, Returned
  <2>3. Run(c) = 1 /\ Run(c)' = 0  BY <1>1, <2>1, <2>2 DEF Run, Running
  <2>4. Balanced(c)
    <3>1. CASE UNCHANGED trail  BY <1>1, <2>3, <3>1, QuietBalanced
    <3>2. ASSUME NEW n \in Deliveries(1), Record(c, <<"no_proof">>, n)
          PROVE  Balanced(c)
      <4>1. n \in 0 .. 1  BY DeliveriesBound
      <4>2. "no_proof" \in Events /\ "no_proof" \notin Terminal /\ "no_proof" \notin NeverSent
        BY DEF Events, Terminal, NeverSent
      <4>3. Grew(c, IF n = 1 /\ "no_proof" = "started" THEN 1 ELSE 0,
                    IF "no_proof" \in Terminal THEN 1 ELSE 0, "no_proof" \in NeverSent)
        BY <1>1, <3>2, <4>1, <4>2, RecordOne
      <4> QED  BY <2>3, <4>2, <4>3 DEF Grew, Balanced
    <3> QED  BY <1>4, <3>1, <3>2 DEF HashFails
  <2>5. Spoken(c)'  BY <1>1, <2>1 DEF Spoken
  <2>6. Moves(c)  BY <1>1, <2>1, <2>2 DEF Moves, Points
  <2> QED  BY <2>4, <2>5, <2>6, Moved
<1>5. ASSUME NEW p \in {"outgoing", "ready", "dropped", "sent"}, NEW r \in Result,
             pc[c] \in {"thrown", "ready", "outgoing", "sent"}, UNCHANGED trail,
             pc' = [pc EXCEPT ![c] = p], res' = [res EXCEPT ![c] = r],
             p = "ready" => r.stamped \/ r.error
      PROVE  LayerInv'
  <2>1. Run(c) = 0 /\ Run(c)' = 0  BY <1>1, <1>5 DEF Run, Running
  <2>2. Balanced(c)  BY <1>1, <1>5, <2>1, QuietBalanced
  <2>3. pc'[c] = p /\ res'[c] = r  BY <1>1, <1>5
  <2>4. Spoken(c)'  BY <1>5, <2>3 DEF Spoken
  <2>5. Moves(c)  BY <1>1, <1>5 DEF Moves, Points
  <2> QED  BY <2>2, <2>4, <2>5, Moved
<1>6. res = [res EXCEPT ![c] = res[c]]  BY <1>1
<1>7. CASE SendError(c)
  <2>1. /\ pc[c] = "thrown" /\ pc' = [pc EXCEPT ![c] = "outgoing"] /\ UNCHANGED <<res, trail>>
    BY <1>7 DEF SendError
  <2> QED  BY <1>1, <1>5, <1>6, <2>1
<1>8. CASE Replace(c)
  <2>1. /\ pc[c] \in {"thrown", "ready"} /\ pc' = [pc EXCEPT ![c] = "ready"] /\ UNCHANGED trail
        /\ res' = [res EXCEPT ![c] = Fresh(TRUE)]
    BY <1>8 DEF Replace
  <2>2. Fresh(TRUE) \in Result /\ Fresh(TRUE).error  BY DEF Fresh, Result
  <2> QED  BY <1>5, <2>1, <2>2
<1>9. CASE Drop(c)
  <2>1. /\ pc[c] \in {"thrown", "ready"} /\ pc' = [pc EXCEPT ![c] = "dropped"]
        /\ UNCHANGED <<res, trail>>
    BY <1>9 DEF Drop
  <2> QED  BY <1>1, <1>5, <1>6, <2>1
<1>10. CASE Deliver(c)
  <2>1. /\ pc[c] = "outgoing" /\ pc' = [pc EXCEPT ![c] = "sent"] /\ UNCHANGED <<res, trail>>
    BY <1>10 DEF Deliver
  <2> QED  BY <1>1, <1>5, <1>6, <2>1
<1>11. CASE Resend(c)
  <2>1. /\ pc[c] = "sent" /\ pc' = [pc EXCEPT ![c] = "ready"] /\ res[c].stamped
        /\ UNCHANGED <<res, trail>>
    BY <1>11 DEF Resend
  <2> QED  BY <1>1, <1>5, <1>6, <2>1
<1> QED  BY <1>3, <1>4, <1>7, <1>8, <1>9, <1>10, <1>11

\* Results that are sent, and the end of the proving of an answer.
LEMMA AnswerMoves ==
    ASSUME LayerInv, NEW c \in Calls,
           Send(c) \/ SendWrapped(c) \/ SessionGone(c) \/ SigningFails(c) \/ Prove(c)
    PROVE  LayerInv'
<1> USE DEF callVars, layerVars, ghostVars
<1>1. /\ LayerType /\ pc \in [Calls -> Points] /\ res \in [Calls -> Result] /\ answering \subseteq Calls
      /\ Spoken(c) /\ signed \in [Calls -> Nat]
  BY DEF LayerInv, LayerType, LeftOnce
<1>2. CASE Send(c)
  <2>1. /\ pc[c] = "ready" /\ UNCHANGED <<res, leftAt, lefts, signed>>
        /\ answering' \subseteq Calls /\ \A d \in Calls \ {c} : d \in answering => d \in answering'
    BY <1>1, <1>2 DEF Send
  <2>2. CASE c \in tracked /\ ~res[c].stamped
    <3>1. /\ answering' = answering \cup {c}
          /\ UNCHANGED <<waiting, closing, trail, claim>>
      BY <1>2, <2>2 DEF Send
    <3>2. PICK p \in {"layer", "intent"} : pc' = [pc EXCEPT ![c] = p]  BY <1>2, <2>2 DEF Send
    <3>3. Run(c) = 0 /\ Run(c)' = 0  BY <1>1, <2>1, <3>2 DEF Run, Running
    <3>4. Balanced(c)  BY <1>1, <3>1, <3>3, QuietBalanced
    <3>5. Spoken(c)'
      <4>1. pc'[c] = p  BY <1>1, <3>2
      <4> QED  BY <1>1, <2>1, <2>2, <3>1, <4>1 DEF Spoken
    <3>6. Moves(c)  BY <1>1, <2>1, <3>1, <3>2 DEF Moves, Points
    <3> QED  BY <3>4, <3>5, <3>6, Moved
  <2>3. CASE ~(c \in tracked /\ ~res[c].stamped)
    <3>1. LayerSend(c, c \in tracked)  BY <1>2, <2>3 DEF Send
    <3> QED  BY <2>1, <3>1, LayerSends
  <2> QED  BY <2>2, <2>3
<1>3. CASE SendWrapped(c)
  <2>1. /\ pc[c] = "layer" /\ UNCHANGED <<res, leftAt, lefts, signed, answering>>
    BY <1>3 DEF SendWrapped
  <2>2. LayerSend(c, TRUE)  BY <1>3 DEF SendWrapped
  <2> QED  BY <1>1, <2>1, <2>2, LayerSends
<1>4. CASE SessionGone(c) \/ SigningFails(c) \/ Prove(c)
  <2>1. /\ pc[c] = "proving" /\ pc' = [pc EXCEPT ![c] = "outgoing"]
        /\ UNCHANGED <<res, claim, answering, waiting, leftAt, lefts, closing>>
    BY <1>4 DEF SessionGone, SigningFails, Prove
  <2>2. PICK i \in Calls : i = claim[c]  BY <2>1 DEF LayerInv, HeldOnce
  <2>3. Grew(i, 0, 1, FALSE)
    <3>1. /\ "no_session" \in Events \ (Terminal \cup {"started"}) /\ "completed" \in Terminal
          /\ "generated" \in Events \ (Terminal \cup {"started"})
          /\ "no_proof" \in Events \ (Terminal \cup {"started"})
          /\ {"no_session", "generated", "no_proof"} \cap NeverSent = {}
      BY DEF Events, Terminal, NeverSent
    <3>2. CASE SessionGone(c)
      <4>1. PICK n \in Deliveries(Len(AtSend(i, "no_session"))) : Record(i, AtSend(i, "no_session"), n)
        BY <2>2, <3>2 DEF SessionGone
      <4>2. AtSend(i, "no_session") \in {<<"no_session", "completed">>, <<"no_session">>, <<>>}
        BY DEF AtSend
      <4>3. Grew(i, 0, 1, "no_session" \in NeverSent)  BY <1>1, <3>1, <4>1, <4>2, VerdictGrows
      <4> QED  BY <3>1, <4>3 DEF Grew
    <3>3. CASE SigningFails(c)
      <4>1. CASE UNCHANGED trail
        <5>1. Grew(i, 0, 0, FALSE)  BY <1>1, <4>1, QuietGrows
        <5> QED  BY <5>1 DEF Grew
      <4>2. ASSUME NEW n \in Deliveries(1), Record(i, <<"no_proof">>, n) PROVE Grew(i, 0, 1, FALSE)
        <5>1. n \in 0 .. 1  BY DeliveriesBound
        <5>2. Grew(i, IF n = 1 /\ "no_proof" = "started" THEN 1 ELSE 0,
                      IF "no_proof" \in Terminal THEN 1 ELSE 0, "no_proof" \in NeverSent)
          BY <1>1, <3>1, <4>2, <5>1, RecordOne
        <5> QED  BY <3>1, <5>2 DEF Grew
      <4> QED  BY <2>2, <3>3, <4>1, <4>2 DEF SigningFails
    <3>4. CASE Prove(c)
      <4>1. PICK n \in Deliveries(Len(Generated(i))) : Record(i, Generated(i), n)
        BY <2>2, <3>4 DEF Prove
      <4>2. Generated(i) \in {<<"generated", "completed">>, <<"generated">>, <<>>}
        BY DEF Generated
      <4>3. Grew(i, 0, 1, "generated" \in NeverSent)  BY <1>1, <3>1, <4>1, <4>2, VerdictGrows
      <4> QED  BY <3>1, <4>3 DEF Grew
    <3> QED  BY <1>4, <3>2, <3>3, <3>4
  <2>4. PICK g \in 0 .. 1 : signed' = [signed EXCEPT ![i] = @ + g]
    <3>1. CASE Prove(c)
      <4>1. signed' = [signed EXCEPT ![i] = @ + 1]  BY <2>2, <3>1 DEF Prove
      <4> QED  BY <4>1
    <3>2. CASE ~Prove(c)
      <4>1. signed' = signed  BY <1>4, <3>2 DEF SessionGone, SigningFails
      <4>2. signed' = [signed EXCEPT ![i] = @ + 0]  BY <1>1, <4>1
      <4> QED  BY <4>2
    <3> QED  BY <3>1, <3>2
  <2> QED  BY <2>1, <2>2, <2>3, <2>4, AnswerEnds
<1> QED  BY <1>2, <1>3, <1>4

\* A claim is closed by its timer, a message that shows its id, or the last transport.
LEMMA ClosingMoves ==
    ASSUME LayerInv,
           \/ \E i \in Calls : Expire(i) \/ Notify(i) \/ Cancel(i)
           \/ \E t \in Transports : Start(t) \/ ReleaseOpen(t)
    PROVE  LayerInv'
<1> USE DEF callVars, layerVars, ghostVars
<1>1. ASSUME NEW S, CloseUnsent(S), UNCHANGED <<pc, res, claim, answering, leftAt, lefts, trail, signed>>
      PROVE  LayerInv'
  BY <1>1, ClosedUnsent DEF CloseUnsent, Take
<1>2. CASE \E i \in Calls : Expire(i)  BY <1>1, <1>2 DEF Expire
<1>3. CASE \E i \in Calls : Notify(i)
  <2>1. PICK i \in Calls : Notify(i)  BY <1>3
  <2>2. CloseUnsent({res[i].id}) /\ UNCHANGED <<pc, res, claim, answering, leftAt, lefts, trail, signed>>
    BY <2>1 DEF Notify
  <2> QED  BY <1>1, <2>2
<1>4. CASE \E i \in Calls : Cancel(i)
  <2>1. UNCHANGED layerInvVars  BY <1>4 DEF Cancel, layerInvVars
  <2> QED  BY <2>1, NothingMoved
<1>5. CASE \E t \in Transports : Start(t)
  <2>1. UNCHANGED layerInvVars  BY <1>5 DEF Start, layerInvVars
  <2> QED  BY <2>1, NothingMoved
<1>6. CASE \E t \in Transports : ReleaseOpen(t)
  <2>1. UNCHANGED <<pc, res, claim, answering, leftAt, lefts, trail, signed>>
    BY <1>6 DEF ReleaseOpen
  <2>2. CASE CloseUnsent(waiting)  BY <1>1, <2>1, <2>2
  <2>3. CASE UNCHANGED <<waiting, closing>>
    <3>1. UNCHANGED layerInvVars  BY <2>1, <2>3 DEF layerInvVars
    <3> QED  BY <3>1, NothingMoved
  <2> QED  BY <1>6, <2>2, <2>3 DEF ReleaseOpen
<1> QED  BY <1>2, <1>3, <1>4, <1>5, <1>6

-----------------------------------------------------------------------------
(* The theorem.                                                            *)

\* What settings allow is what the assumption says of them.
LEMMA SettingCalls == setting \in Settings => setting.calls \subseteq Calls
BY ProofLayerAssumption DEF SettingType

LEMMA LayerStep ==
    ASSUME LayerInv, setting \in Settings, [Next]_vars
    PROVE  LayerInv'
<1>1. CASE UNCHANGED vars
  <2>1. UNCHANGED layerInvVars  BY <1>1 DEF vars, callVars, layerVars, ghostVars, layerInvVars
  <2> QED  BY <2>1, NothingMoved
<1>2. CASE \E e \in closing : CloseTaken(e)  BY <1>2, TakenEnds
<1>3. CASE \E t \in Transports : Start(t) \/ ReleaseOpen(t)  BY <1>3, ClosingMoves
<1>4. ASSUME NEW c \in Calls, Receive(c) \/ Cancel(c) \/ Work(c) \/ Resend(c) \/ Notify(c) \/ Expire(c)
      PROVE  LayerInv'
  <2>1. CASE Cancel(c) \/ Notify(c) \/ Expire(c)  BY <2>1, ClosingMoves
  <2>2. CASE Send(c) \/ SendWrapped(c) \/ SessionGone(c) \/ SigningFails(c) \/ Prove(c)
    BY <2>2, AnswerMoves
  <2>3. CASE Leave(c)  BY <2>3, LeavesClaim
  <2>4. CASE \/ HashFails(c) \/ SendError(c) \/ Replace(c) \/ Drop(c) \/ Deliver(c) \/ Resend(c)
             \/ \E r \in {res[c], Stripped(res[c])} : NoSession(c, r)
    BY <2>4, ResultMoves
  <2>5. CASE \/ Receive(c) \/ Wrap(c) \/ Intent(c) \/ HandlerThrows(c) \/ WrapReceived(c) \/ Outcome(c)
             \/ \E r \in Result : HandlerReturns(c, r) \/ PlainReturns(c, r)
    BY <2>5, CallMoves
  <2>6. CASE \E e \in BOOLEAN : \E r \in HandlerResults(c, e) : HandlerReturns(c, r) \/ PlainReturns(c, r)
    <3>0. PICK e \in BOOLEAN :
              \E r \in HandlerResults(c, e) : HandlerReturns(c, r) \/ PlainReturns(c, r)
      BY <2>6
    <3>1. PICK r \in HandlerResults(c, e) : HandlerReturns(c, r) \/ PlainReturns(c, r)
      BY <3>0
    <3>2. r \in Result  BY HandlerResultType DEF LayerInv
    <3> QED  BY <3>1, <3>2, CallMoves
  <2> QED  BY <1>4, <2>1, <2>2, <2>3, <2>4, <2>5, <2>6 DEF Work
<1> QED  BY <1>1, <1>2, <1>3, <1>4, SettingCalls DEF Next

LEMMA LayerImplies == LayerInv => EndsOnce
<1> SUFFICES ASSUME LayerInv PROVE EndsOnce  OBVIOUS
<1>1. RedeemedOnce
  <2> SUFFICES ASSUME NEW i \in Calls
               PROVE  signed[i] <= 1 /\ (signed[i] = 1 => ~Unredeemable(i))
    BY DEF RedeemedOnce
  <2>1. /\ signed[i] <= 1 /\ (signed[i] = 1 => ~NotSent(i))
        /\ Held(i) => signed[i] = 0
    BY DEF LayerInv, LeftOnce
  <2>2. Closing(i) => Held(i)  BY DEF Held
  <2> QED  BY <2>1, <2>2 DEF Unredeemable, NotSent, NeverSent, Closing
<1>2. SettledOnce
  <2> SUFFICES ASSUME NEW c \in Calls, Kind[c] # "outcome"
               PROVE  Ends(c) <= Starts(c)
    BY DEF SettledOnce, Ends, Starts, Terminal
  <2>1. Ends(c) + Due(c) <= Starts(c)  BY DEF LayerInv, Accounted
  <2>2. Due(c) \in Nat  BY DEF Due, Run
  <2>3. Ends(c) \in Nat /\ Starts(c) \in Nat  BY Counts DEF LayerInv
  <2> QED  BY <2>1, <2>2, <2>3
<1> QED  BY <1>1, <1>2 DEF EndsOnce

\* For any calls, transports and limits, and whatever takes a claim - the answer that
\* redeems it, its timer, eviction, the last close, a message that shows its id - at
\* most one proof is made from it, none from one recorded as not sent, and no start of
\* a call gets two verdicts in the trail (takePendingProof, closeTaken, sendResult).
THEOREM ClaimsEndOnce == Spec => []EndsOnce
<1>1. Init => setting \in Settings  BY DEF Init
<1>2. setting \in Settings /\ [Next]_vars => (setting \in Settings)'
  BY DEF Next, vars
<1>3. LayerInv /\ setting \in Settings /\ [Next]_vars => LayerInv'  BY LayerStep
<1> QED  BY <1>1, <1>2, <1>3, LayerInit, LayerImplies, PTL DEF Spec

-----------------------------------------------------------------------------
(* A proof belongs to the answer it is on.                                 *)

\* The ids a result names are of claims that were left, each of them once.
NamesLeft(r) ==
    /\ r.id # None => leftAt[r.id] # 0
    /\ \A i \in r.ids : leftAt[i] # 0
    /\ r.id \notin r.ids

\* The answer to a tracked request is on its way from send() to the wire, and the
\* claim it has taken was left for the tool it answers for.
AnswersFor(c) ==
    c \in answering =>
        /\ pc[c] \in {"intent", "wrapped", "session", "layer", "proving", "outgoing", "sent"}
        /\ pc[c] = "proving" => Tool[claim[c]] = Tool[c]

BelongInv ==
    /\ \A c \in Calls : NamesLeft(res[c]) /\ AnswersFor(c)
    /\ \A i \in exposed : i \in Calls /\ leftAt[i] # 0
    /\ ProvedForItsTool
    /\ ExposedIsVoid

LEMMA BelongInit == Init => BelongInv
<1> SUFFICES ASSUME Init PROVE BelongInv  OBVIOUS
<1> QED  BY DEF Init, BelongInv, NamesLeft, AnswersFor, ProvedForItsTool, ExposedIsVoid, Fresh

LEMMA BelongStays ==
    ASSUME BelongInv, UNCHANGED <<res, pc, leftAt, claim, answers, exposed, answering>>,
           waiting' \subseteq waiting
    PROVE  BelongInv'
<1>1. \A c \in Calls : NamesLeft(res[c])' /\ AnswersFor(c)'
  BY DEF BelongInv, NamesLeft, AnswersFor
<1> QED  BY <1>1 DEF BelongInv, ProvedForItsTool, ExposedIsVoid

\* Call c moves on, with a result that names nothing new.
BelongMoves(c) ==
    /\ \E p \in Points : pc' = [pc EXCEPT ![c] = p]
    /\ \E r \in Result : res' = [res EXCEPT ![c] = r] /\ NamesLeft(r)
    /\ \A d \in Calls \ {c} : d \in answering' => d \in answering
    /\ waiting' \subseteq waiting
    /\ UNCHANGED <<leftAt, claim, exposed>>

LEMMA BelongMoved ==
    ASSUME LayerInv, BelongInv, NEW c \in Calls, BelongMoves(c), AnswersFor(c)', ProvedForItsTool'
    PROVE  BelongInv'
<1> PICK p \in Points : pc' = [pc EXCEPT ![c] = p]  BY DEF BelongMoves
<1> PICK r \in Result : res' = [res EXCEPT ![c] = r] /\ NamesLeft(r)  BY DEF BelongMoves
<1>1. /\ \A d \in Calls \ {c} : d \in answering' => d \in answering
      /\ waiting' \subseteq waiting
      /\ UNCHANGED <<leftAt, claim, exposed>>
  BY DEF BelongMoves
<1>2. pc \in [Calls -> Points] /\ res \in [Calls -> Result]  BY DEF LayerInv, LayerType
<1>3. \A d \in Calls : NamesLeft(res[d])'
  <2> TAKE d \in Calls
  <2>1. res'[d] = r \/ res'[d] = res[d]  BY <1>2
  <2>2. NamesLeft(res[d]) /\ NamesLeft(r)  BY DEF BelongInv
  <2> QED  BY <1>1, <2>1, <2>2 DEF NamesLeft
<1>4. ASSUME NEW d \in Calls, d # c PROVE AnswersFor(d)'
  <2>1. pc'[d] = pc[d] /\ AnswersFor(d)  BY <1>2, <1>4 DEF BelongInv
  <2> QED  BY <1>1, <1>4, <2>1 DEF AnswersFor
<1> QED  BY <1>1, <1>3, <1>4 DEF BelongInv, ExposedIsVoid

\* The steps of a call that name and show nothing new.
LEMMA BelongCalls ==
    ASSUME LayerInv, BelongInv, NEW c \in Calls,
           \/ Receive(c) \/ Wrap(c) \/ Intent(c) \/ HandlerThrows(c) \/ WrapReceived(c) \/ Outcome(c)
           \/ HashFails(c) \/ SendError(c) \/ Replace(c) \/ Drop(c) \/ Deliver(c) \/ Resend(c)
           \/ SessionGone(c) \/ SigningFails(c)
           \/ \E r \in {res[c], Stripped(res[c])} : NoSession(c, r)
    PROVE  BelongInv'
<1> USE DEF callVars, layerVars, ghostVars
<1>1. /\ UNCHANGED <<leftAt, claim, exposed, waiting, answers>>
      /\ answering' \subseteq answering
      /\ pc[c] # "proving" \/ pc' = [pc EXCEPT ![c] = "outgoing"]
  BY DEF Receive, Wrap, Intent, HandlerThrows, WrapReceived, Outcome, HashFails, SendError, Replace,
         Drop, Deliver, Resend, SessionGone, SigningFails, NoSession
<1>2. /\ pc \in [Calls -> Points] /\ res \in [Calls -> Result] /\ res[c] \in Result
      /\ NamesLeft(res[c]) /\ AnswersFor(c)
  BY DEF LayerInv, LayerType, BelongInv
<1>3. ProvedForItsTool'  BY <1>1 DEF BelongInv, ProvedForItsTool
<1>4. \A e \in BOOLEAN : Fresh(e) \in Result /\ NamesLeft(Fresh(e))
  BY DEF Fresh, Result, NamesLeft
<1>5. Stripped(res[c]) \in Result /\ NamesLeft(Stripped(res[c]))
  <2>1. Stripped(res[c]) \in Result  BY <1>2 DEF Stripped, Result
  <2>2. Stripped(res[c]).id = None /\ Stripped(res[c]).ids = res[c].ids /\ res[c].ids \subseteq Calls
    BY <1>2 DEF Stripped, Result
  <2> QED  BY <1>2, <2>1, <2>2, ProofLayerAssumption DEF NamesLeft
<1>6. \A r \in Result : NamesLeft(r) => Stamped(r) \in Result /\ NamesLeft(Stamped(r))
  <2> TAKE r \in Result
  <2>1. Stamped(r) \in Result /\ Stamped(r).id = r.id /\ Stamped(r).ids = r.ids
    BY DEF Stamped, Result
  <2> QED  BY <2>1 DEF NamesLeft
<1>7. \E r \in Result : res' = [res EXCEPT ![c] = r] /\ NamesLeft(r)
  <2>1. CASE res' = res
    <3>1. res' = [res EXCEPT ![c] = res[c]]  BY <1>2, <2>1
    <3> QED  BY <1>2, <3>1
  <2>2. CASE \E e \in BOOLEAN : res' = [res EXCEPT ![c] = Fresh(e)]  BY <1>4, <2>2
  <2>3. CASE res' = [res EXCEPT ![c] = Unavailable]
    <3>1. Unavailable \in Result /\ NamesLeft(Unavailable)  BY <1>4, <1>6 DEF Unavailable
    <3> QED  BY <2>3, <3>1
  <2>4. CASE \E r \in {res[c], Stripped(res[c])} : res' = [res EXCEPT ![c] = Stamped(r)]
    BY <1>2, <1>5, <1>6, <2>4
  <2> QED
    BY <2>1, <2>2, <2>3, <2>4
    DEF Receive, Wrap, Intent, HandlerThrows, WrapReceived, Outcome, HashFails, SendError, Replace,
        Drop, Deliver, Resend, SessionGone, SigningFails, NoSession
<1>8. \E p \in Points : /\ pc' = [pc EXCEPT ![c] = p]
                        /\ c \in answering' =>
                              p \in {"intent", "wrapped", "session", "layer", "outgoing", "sent"}
  <2>1. CASE Receive(c) \/ Wrap(c) \/ HandlerThrows(c) \/ Outcome(c) \/ SendError(c) \/ Replace(c)
             \/ Drop(c)
    <3>1. c \notin answering
      BY <1>2, <2>1
      DEF AnswersFor, Receive, Wrap, HandlerThrows, Outcome, SendError, Replace, Drop
    <3>2. \E p \in Points : pc' = [pc EXCEPT ![c] = p]
      BY <2>1 DEF Receive, Wrap, RequireProofLayer, HandlerThrows, Outcome, SendError, Replace,
                  Drop, Points
    <3> QED  BY <1>1, <3>1, <3>2
  <2>2. CASE Intent(c)
    <3>1. \/ pc' = [pc EXCEPT ![c] = Returned(c)]
          \/ pc' = [pc EXCEPT ![c] = IF c \in answering THEN "wrapped" ELSE "handler"]
      BY <2>2 DEF Intent
    <3> QED  BY <1>1, <3>1 DEF Returned, Points
  <2>3. CASE HashFails(c) \/ \E r \in {res[c], Stripped(res[c])} : NoSession(c, r)
    <3>1. pc' = [pc EXCEPT ![c] = Returned(c)]  BY <2>3 DEF HashFails, NoSession
    <3> QED  BY <1>1, <3>1 DEF Returned, Points
  <2>4. CASE WrapReceived(c)  BY <2>4 DEF WrapReceived, Points
  <2>5. CASE Deliver(c)  BY <2>5 DEF Deliver, Points
  <2>6. CASE Resend(c)
    <3>1. c \notin answering' /\ pc' = [pc EXCEPT ![c] = "ready"]  BY <2>6 DEF Resend
    <3> QED  BY <3>1 DEF Points
  <2>7. CASE SessionGone(c) \/ SigningFails(c)  BY <2>7 DEF SessionGone, SigningFails, Points
  <2> QED  BY <2>1, <2>2, <2>3, <2>4, <2>5, <2>6, <2>7
<1>9. AnswersFor(c)'
  <2>1. PICK p \in Points : /\ pc' = [pc EXCEPT ![c] = p]
                            /\ c \in answering' =>
                                  p \in {"intent", "wrapped", "session", "layer", "outgoing", "sent"}
    BY <1>8
  <2>2. pc'[c] = p  BY <1>2, <2>1
  <2> QED  BY <2>1, <2>2 DEF AnswersFor
<1>10. BelongMoves(c)  BY <1>1, <1>7, <1>8 DEF BelongMoves
<1> QED  BY <1>3, <1>9, <1>10, BelongMoved

\* A handler names what its inner calls named.
LEMMA BelongHandler ==
    ASSUME LayerInv, BelongInv, NEW c \in Calls, NEW e \in BOOLEAN, NEW r \in HandlerResults(c, e),
           HandlerReturns(c, r) \/ PlainReturns(c, r)
    PROVE  BelongInv'
<1> USE DEF callVars, layerVars, ghostVars
<1>1. r \in Result  BY HandlerResultType DEF LayerInv
<1>2. NamesLeft(r)
  <2>1. r = Fresh(e) \/ \E i \in Calls :
            r \in {res[i], [Fresh(e) EXCEPT !.ids = {res[i].id} \ {None}],
                  [Fresh(e) EXCEPT !.ids = {res[i].id} \ {None}, !.leaks = TRUE]}
    BY Zenon DEF HandlerResults
  <2>2. CASE r = Fresh(e)  BY <2>2 DEF Fresh, NamesLeft
  <2>3. ASSUME NEW i \in Calls, r = res[i] PROVE NamesLeft(r)  BY <2>3 DEF BelongInv
  <2>4. ASSUME NEW i \in Calls,
               r \in {[Fresh(e) EXCEPT !.ids = {res[i].id} \ {None}],
                      [Fresh(e) EXCEPT !.ids = {res[i].id} \ {None}, !.leaks = TRUE]}
        PROVE  NamesLeft(r)
    <3>1. r.id = None /\ r.ids = {res[i].id} \ {None}  BY <2>4 DEF Fresh
    <3>2. NamesLeft(res[i])  BY DEF BelongInv
    <3> QED  BY <3>1, <3>2 DEF NamesLeft
  <2> QED  BY <2>1, <2>2, <2>3, <2>4
<1>3. Stamped(r) \in Result /\ NamesLeft(Stamped(r))
  <2>1. Stamped(r) \in Result /\ Stamped(r).id = r.id /\ Stamped(r).ids = r.ids
    BY <1>1 DEF Stamped, Result
  <2> QED  BY <1>2, <2>1 DEF NamesLeft
<1>4. /\ UNCHANGED <<leftAt, claim, exposed, waiting, answers, answering>>
      /\ pc[c] \in {"handler", "received"}
      /\ \E p \in {"ready", "session"} : pc' = [pc EXCEPT ![c] = p]
      /\ \E q \in {r, Stamped(r)} : res' = [res EXCEPT ![c] = q]
  BY DEF HandlerReturns, PlainReturns
<1>5. ProvedForItsTool'  BY <1>4 DEF BelongInv, ProvedForItsTool
<1>6. AnswersFor(c)'
  <2>1. c \notin answering  BY <1>4 DEF BelongInv, AnswersFor
  <2> QED  BY <1>4, <2>1 DEF AnswersFor
<1>7. BelongMoves(c)  BY <1>1, <1>2, <1>3, <1>4 DEF BelongMoves, Points
<1> QED  BY <1>5, <1>6, <1>7, BelongMoved

LEMMA BelongLeave ==
    ASSUME LayerInv, BelongInv, NEW c \in Calls, Leave(c)
    PROVE  BelongInv'
<1>1. /\ pc[c] = "session"
      /\ waiting' \subseteq waiting \cup {c}
      /\ leftAt' = [leftAt EXCEPT ![c] = lefts + 1]
      /\ res' = [res EXCEPT ![c] = Stamped([@ EXCEPT !.id = c])]
      /\ pc' = [pc EXCEPT ![c] = Returned(c)]
      /\ UNCHANGED <<claim, answering, exposed, answers>>
  BY DEF Leave, LeaveToOuterLayer, callVars, ghostVars
<1>2. /\ leftAt \in [Calls -> Nat] /\ lefts \in Nat /\ pc \in [Calls -> Points]
      /\ res \in [Calls -> Result] /\ leftAt[c] = 0
  BY <1>1 DEF LayerInv, LayerType, LeftOnce, Spoken
<1>3. /\ \A i \in Calls : leftAt[i] # 0 => leftAt'[i] # 0
      /\ leftAt'[c] # 0
  BY <1>1, <1>2
<1>4. \A d \in Calls : NamesLeft(res[d])'
  <2> TAKE d \in Calls
  <2>1. NamesLeft(res[d]) /\ res[d].ids \subseteq Calls /\ res[d].id \in Calls \cup {None}
    BY <1>2 DEF BelongInv, Result
  <2>2. CASE d = c
    <3>1. res'[c].id = c /\ res'[c].ids = res[c].ids
      <4>1. res[c] \in Result /\ res'[c] = Stamped([res[c] EXCEPT !.id = c])  BY <1>1, <1>2
      <4> QED  BY <4>1 DEF Stamped, Result
    <3> QED  BY <1>2, <1>3, <2>1, <2>2, <3>1 DEF NamesLeft
  <2>3. CASE d # c
    <3>1. res'[d] = res[d]  BY <1>1, <1>2, <2>3
    <3> QED  BY <1>3, <2>1, <3>1 DEF NamesLeft
  <2> QED  BY <2>2, <2>3
<1>5. \A d \in Calls : AnswersFor(d)'
  <2> TAKE d \in Calls
  <2>1. AnswersFor(d)  BY DEF BelongInv
  <2>2. CASE d = c
    <3>1. c \in answering => pc'[c] = "layer"  BY <1>1, <1>2 DEF Returned
    <3> QED  BY <1>1, <2>2, <3>1 DEF AnswersFor
  <2>3. CASE d # c
    <3>1. pc'[d] = pc[d]  BY <1>1, <1>2, <2>3
    <3> QED  BY <1>1, <2>1, <3>1 DEF AnswersFor
  <2> QED  BY <2>2, <2>3
<1>6. ExposedIsVoid'  BY <1>1, <1>2 DEF BelongInv, ExposedIsVoid
<1> QED  BY <1>1, <1>3, <1>4, <1>5, <1>6 DEF BelongInv, ProvedForItsTool

\* A result that goes through the layer shows the ids it holds; its own claim is taken
\* for its own tool only.
LEMMA BelongSends ==
    ASSUME LayerInv, BelongInv, NEW c \in Calls, Send(c) \/ SendWrapped(c)
    PROVE  BelongInv'
<1>1. /\ pc \in [Calls -> Points] /\ res[c] \in Result /\ claim \in [Calls -> Calls \cup {None}]
      /\ NamesLeft(res[c]) /\ AnswersFor(c)
      /\ UNCHANGED <<res, leftAt, answers>>
  BY DEF LayerInv, LayerType, BelongInv, Send, SendWrapped, layerVars, ghostVars
<1>2. /\ \A d \in Calls \ {c} : d \in answering' => d \in answering
      /\ \A d \in Calls \ {c} : pc'[d] = pc[d] /\ claim'[d] = claim[d]
  BY <1>1 DEF Send, SendWrapped, LayerSend
<1>3. ASSUME NEW answer, LayerSend(c, answer), c \in answering' => answer
      PROVE  BelongInv'
  <2> PICK id : id = IF res[c].stamped THEN res[c].id ELSE None  OBVIOUS
  <2>1. /\ waiting' \subseteq waiting \ (res[c].ids \ {res[c].id})
        /\ exposed' = exposed \cup (res[c].ids \ {id})
    BY <1>3 DEF LayerSend, Take, FoundIds
  <2>2. pc'[c] = "outgoing" \/ (pc'[c] = "proving" /\ claim'[c] = id /\ ~NamesAnother(c, id, answer))
    BY <1>1, <1>3 DEF LayerSend
  <2>3. AnswersFor(c)'
    <3>1. c \in answering' /\ pc'[c] = "proving" => Tool[claim'[c]] = Tool[c]
      BY <1>3, <2>2 DEF NamesAnother
    <3> QED  BY <2>2, <3>1 DEF AnswersFor
  <2>4. \A d \in Calls : NamesLeft(res[d])'  BY <1>1 DEF BelongInv, NamesLeft
  <2>5. ASSUME NEW d \in Calls, d # c PROVE AnswersFor(d)'
    <3>1. AnswersFor(d)  BY DEF BelongInv
    <3> QED  BY <1>2, <2>5, <3>1 DEF AnswersFor
  <2>6. \A i \in res[c].ids : i \in Calls /\ leftAt[i] # 0 /\ i # res[c].id
    BY <1>1 DEF NamesLeft, Result
  <2>7. ExposedIsVoid' /\ \A i \in exposed' : i \in Calls /\ leftAt'[i] # 0
    BY <1>1, <2>1, <2>6 DEF BelongInv, ExposedIsVoid
  <2> QED  BY <1>1, <2>3, <2>4, <2>5, <2>7 DEF BelongInv, ProvedForItsTool
<1>4. CASE SendWrapped(c)
  <2>1. LayerSend(c, TRUE)  BY <1>4 DEF SendWrapped
  <2> QED  BY <1>3, <2>1
<1>5. CASE Send(c) /\ ~(c \in tracked /\ ~res[c].stamped)
  <2>1. LayerSend(c, c \in tracked)  BY <1>5 DEF Send
  <2>2. c \in answering' => c \in tracked
    <3>1. pc[c] = "ready" /\ answering' = IF c \in tracked THEN answering \cup {c} ELSE answering
      BY <1>5 DEF Send
    <3> QED  BY <1>1, <3>1 DEF AnswersFor
  <2> QED  BY <1>3, <2>1, <2>2
<1>6. CASE Send(c) /\ c \in tracked /\ ~res[c].stamped
  <2>1. /\ UNCHANGED <<waiting, claim, exposed>>
        /\ \E p \in {"layer", "intent"} : pc' = [pc EXCEPT ![c] = p]
    BY <1>6 DEF Send
  <2>2. AnswersFor(c)'  BY <1>1, <2>1 DEF AnswersFor
  <2>3. res' = [res EXCEPT ![c] = res[c]]  BY <1>1 DEF LayerInv, LayerType
  <2>4. BelongMoves(c)  BY <1>1, <1>2, <2>1, <2>3 DEF BelongMoves, Points
  <2>5. ProvedForItsTool'  BY <1>1 DEF BelongInv, ProvedForItsTool
  <2> QED  BY <2>2, <2>4, <2>5, BelongMoved
<1> QED  BY <1>4, <1>5, <1>6

\* A proof that is made goes on the answer of the call that took its claim.
LEMMA BelongProve ==
    ASSUME LayerInv, BelongInv, NEW c \in Calls, Prove(c)
    PROVE  BelongInv'
<1> USE DEF callVars, layerVars, ghostVars
<1>1. /\ pc[c] = "proving" /\ pc' = [pc EXCEPT ![c] = "outgoing"]
      /\ UNCHANGED <<res, leftAt, claim, exposed, waiting, answering>>
      /\ answers' \subseteq answers \cup
            (IF c \in answering THEN {[call |-> c, id |-> claim[c]]} ELSE {})
  BY DEF Prove
<1>2. pc \in [Calls -> Points] /\ res \in [Calls -> Result] /\ AnswersFor(c) /\ NamesLeft(res[c])
  BY DEF LayerInv, LayerType, BelongInv
<1>3. ProvedForItsTool'  BY <1>1, <1>2 DEF BelongInv, ProvedForItsTool, AnswersFor
<1>4. AnswersFor(c)'  BY <1>1, <1>2 DEF AnswersFor
<1>5. res' = [res EXCEPT ![c] = res[c]]  BY <1>1, <1>2
<1>6. BelongMoves(c)  BY <1>1, <1>2, <1>5 DEF BelongMoves, Points
<1> QED  BY <1>3, <1>4, <1>6, BelongMoved

LEMMA BelongClosing ==
    ASSUME LayerInv, BelongInv,
           \/ \E i \in Calls : Expire(i) \/ Notify(i) \/ Cancel(i)
           \/ \E t \in Transports : Start(t) \/ ReleaseOpen(t)
           \/ \E e \in closing : CloseTaken(e)
    PROVE  BelongInv'
<1> USE DEF callVars, layerVars, ghostVars
<1>1. CASE \E i \in Calls : Notify(i)
  <2> PICK i \in Calls : Notify(i)  BY <1>1
  <2>1. /\ UNCHANGED <<res, pc, leftAt, claim, answers, answering>>
        /\ waiting' = waiting \ {res[i].id} /\ exposed' = exposed \cup {res[i].id}
        /\ res[i].id # None
    BY DEF Notify, CloseUnsent, Take
  <2>2. res[i].id \in Calls /\ leftAt[res[i].id] # 0
    BY <2>1 DEF LayerInv, LayerType, Result, BelongInv, NamesLeft
  <2>3. \A c \in Calls : NamesLeft(res[c])' /\ AnswersFor(c)'
    BY <2>1 DEF BelongInv, NamesLeft, AnswersFor
  <2> QED  BY <2>1, <2>2, <2>3 DEF BelongInv, ProvedForItsTool, ExposedIsVoid
<1>2. CASE \/ \E i \in Calls : Expire(i) \/ Cancel(i)
           \/ \E t \in Transports : Start(t) \/ ReleaseOpen(t)
           \/ \E e \in closing : CloseTaken(e)
  <2>1. UNCHANGED <<res, pc, leftAt, claim, answers, exposed, answering>> /\ waiting' \subseteq waiting
    BY <1>2 DEF Expire, Cancel, Start, ReleaseOpen, CloseTaken, CloseUnsent, Take
  <2> QED  BY <2>1, BelongStays
<1> QED  BY <1>1, <1>2

LEMMA BelongStep ==
    ASSUME LayerInv, BelongInv, setting \in Settings, [Next]_vars
    PROVE  BelongInv'
<1>1. CASE UNCHANGED vars
  BY <1>1, BelongStays DEF vars, callVars, layerVars, ghostVars
<1>2. CASE (\E e \in closing : CloseTaken(e)) \/ \E t \in Transports : Start(t) \/ ReleaseOpen(t)
  BY <1>2, BelongClosing
<1>3. ASSUME NEW c \in Calls, Receive(c) \/ Cancel(c) \/ Work(c) \/ Resend(c) \/ Notify(c) \/ Expire(c)
      PROVE  BelongInv'
  <2>1. CASE Cancel(c) \/ Notify(c) \/ Expire(c)  BY <2>1, BelongClosing
  <2>2. CASE Send(c) \/ SendWrapped(c)  BY <2>2, BelongSends
  <2>3. CASE Prove(c)  BY <2>3, BelongProve
  <2>4. CASE Leave(c)  BY <2>4, BelongLeave
  <2>5. CASE \E e \in BOOLEAN : \E r \in HandlerResults(c, e) : HandlerReturns(c, r) \/ PlainReturns(c, r)
    BY <2>5, BelongHandler
  <2>6. CASE \/ Receive(c) \/ Wrap(c) \/ Intent(c) \/ HandlerThrows(c) \/ WrapReceived(c) \/ Outcome(c)
             \/ HashFails(c) \/ SendError(c) \/ Replace(c) \/ Drop(c) \/ Deliver(c) \/ Resend(c)
             \/ SessionGone(c) \/ SigningFails(c)
             \/ \E r \in {res[c], Stripped(res[c])} : NoSession(c, r)
    BY <2>6, BelongCalls
  <2> QED  BY <1>3, <2>1, <2>2, <2>3, <2>4, <2>5, <2>6 DEF Work
<1> QED  BY <1>1, <1>2, <1>3, SettingCalls DEF Next

\* A proof on the answer to a tools/call was left for the tool that was called, and a
\* claim whose id was shown inside another message can not be redeemed any more
\* (closeFoundProofs, the tool check of sendResult).
THEOREM ProofsStayWhereTheyBelong == Spec => []ProofsBelong
<1>1. Init => setting \in Settings  BY DEF Init
<1>2. setting \in Settings /\ [Next]_vars => (setting \in Settings)'
  BY DEF Next, vars
<1>3. LayerInv /\ setting \in Settings /\ [Next]_vars => LayerInv'  BY LayerStep
<1>4. BelongInv /\ LayerInv /\ setting \in Settings /\ [Next]_vars => BelongInv'  BY BelongStep
<1>5. BelongInv => ProofsBelong  BY DEF BelongInv, ProofsBelong
<1> QED  BY <1>1, <1>2, <1>3, <1>4, <1>5, LayerInit, BelongInit, PTL DEF Spec

-----------------------------------------------------------------------------
(* Sessions: the inductive invariant.                                      *)

FallbackPhases == {"probe", "count", "missing", "creating", "created", "joining", "settling"}
CreatorPhases == {"creating", "created", "settling"}

\* What a call knows: the session it works on was handed out, and only fallback calls
\* come to some phases.
Knowing ==
    /\ active \in used \cup {NoId}
    /\ \A a \in Actors :
         /\ want[a] \in used \cup {NoId} /\ since[a] <= now
         /\ phase[a] \in FallbackPhases => a \in Unthreaded
         /\ phase[a] \in {"held", "probe", "recording", "created", "settling"} => want[a] # NoId

\* insertionOrder has every stored session, in the order of insertion; what it has besides was
\* deleted as expired, so that no reader puts it back.
Ordered ==
    /\ \A s \in live : \E k \in DOMAIN order : order[k] = s
    /\ \A j, k \in DOMAIN order : j < k => place[order[j]] < place[order[k]]
    /\ \A k \in DOMAIN order : order[k] \in live \/ Expired(order[k], now)

\* A sweep has still to visit every stored session that had expired when it read the clock.
Swept ==
    \A a \in Actors : \A s \in live : Expired(s, since[a]) =>
        /\ phase[a] = "sweeping" => s \in todo[a]
        /\ phase[a] # "counted"

\* A session has expired, or was evicted at some time: there were more than the store holds.
Lost == (\E s \in used : Expired(s, now)) \/ Cardinality(used) > MaxSessions

\* One fallback call at a time creates an auto session, and the first one that is created
\* stays the fallback until another session takes its place.
OneCreator ==
    /\ \A a \in Actors :
         /\ phase[a] # "missing"
         /\ phase[a] \in CreatorPhases => creator = a
         /\ phase[a] = "creating" => auto = {}
         /\ phase[a] = "settling" => active # NoId
    /\ creator = NoId /\ active = NoId => auto = {}
    /\ \A s, t \in auto : s = t

Fallback ==
    ~sset.mayClear =>
        /\ \A s \in used : s \in live \/ Lost
        /\ Lost \/ OneCreator

SessionsInv ==
    /\ SessionsTypeOK /\ Cardinality(live) <= MaxSessions
    /\ Knowing /\ Ordered /\ Swept /\ Fallback

-----------------------------------------------------------------------------
(* Finite sets of numbers.                                                 *)

\* The k-th smallest of a finite set of numbers exists: ranks are an injection of the
\* set into as many numbers as it has elements.
LEMMA RankExists ==
    ASSUME NEW places \in SUBSET Nat, IsFiniteSet(places), NEW k \in 1 .. Cardinality(places)
    PROVE  \E i \in places : Cardinality({n \in places : n <= i}) = k
<1> DEFINE upto(i) == {j \in places : j <= i}
           rank == [i \in places |-> Cardinality(upto(i))]
           n == Cardinality(places)
<1>1. n \in Nat  BY FS_CardinalityType
<1>2. ASSUME NEW i \in places
      PROVE  /\ IsFiniteSet(upto(i)) /\ i \in upto(i) /\ upto(i) \subseteq places
             /\ Cardinality(upto(i)) \in 1 .. n
  <2>1. i \in upto(i) /\ upto(i) \in SUBSET places  OBVIOUS
  <2> HIDE DEF upto
  <2>2. IsFiniteSet(upto(i)) /\ Cardinality(upto(i)) <= n  BY <2>1, FS_Subset
  <2>3. Cardinality(upto(i)) \in Nat /\ Cardinality(upto(i)) # 0
    BY <2>1, <2>2, FS_CardinalityType, FS_EmptySet
  <2> QED  BY <1>1, <2>1, <2>2, <2>3
<1>3. ASSUME NEW i \in places, NEW j \in places, i < j
      PROVE  Cardinality(upto(i)) # Cardinality(upto(j))
  <2>0. i \in Nat /\ j \in Nat /\ \A m \in places : m \in Nat  OBVIOUS
  <2>1. upto(i) \subseteq upto(j)
    <3> SUFFICES ASSUME NEW m \in places, m <= i PROVE m <= j  OBVIOUS
    <3> QED  BY <1>3, <2>0
  <2>2. IsFiniteSet(upto(j))  BY <1>2
  <2>3. j \notin upto(i) /\ j \in upto(j)  BY <1>3, <2>0
  <2> HIDE DEF upto
  <2> QED  BY <2>1, <2>2, <2>3, FS_Subset
<1>4. rank \in Injection(places, 1 .. n)
  <2>1. rank \in [places -> 1 .. n]  BY <1>2
  <2>2. ASSUME NEW i \in places, NEW j \in places, rank[i] = rank[j]
        PROVE  i = j
    <3>1. ~(i < j) /\ ~(j < i)  BY <1>3, <2>2
    <3> QED  BY <3>1
  <2> HIDE DEF rank
  <2> QED  BY <2>1, <2>2 DEF Injection, IsInjective
<1>5. IsFiniteSet(1 .. n) /\ Cardinality(1 .. n) = n
  <2> SUFFICES ASSUME NEW m \in Nat PROVE IsFiniteSet(1 .. m) /\ Cardinality(1 .. m) = m
    BY <1>1
  <2> QED  BY FS_Interval
<1>6. rank \in Surjection(places, 1 .. n)
  <2> HIDE DEF rank
  <2> QED  BY <1>4, <1>5, FS_Injection
<1> QED  BY <1>6 DEF Surjection

\* A finite set of numbers that has an element has a least and a greatest one.
LEMMA ExtremesExist ==
    ASSUME NEW places \in SUBSET Nat, IsFiniteSet(places), places # {}
    PROVE  /\ \E m \in places : \A j \in places : m <= j
           /\ \E m \in places : \A j \in places : j <= m
<1>1. PICK n \in Nat : n = Cardinality(places) /\ n # 0
  BY FS_CardinalityType, FS_EmptySet
<1>2. PICK least \in places : Cardinality({j \in places : j <= least}) = 1
  <2>1. 1 \in 1 .. Cardinality(places)  BY <1>1
  <2> QED  BY <2>1, RankExists
<1>3. \A j \in places : least <= j
  <2> DEFINE below == {j \in places : j <= least}
  <2>1. below \in SUBSET places /\ Cardinality(below) = 1 /\ least \in below  BY <1>2
  <2>2. \A j \in places : j \notin below => least <= j  OBVIOUS
  <2> HIDE DEF below
  <2>3. IsFiniteSet(below)  BY <2>1, FS_Subset
  <2>4. below = {least}  BY <2>1, <2>3, FS_Singleton
  <2> QED  BY <2>2, <2>4
<1>4. PICK greatest \in places : Cardinality({j \in places : j <= greatest}) = n
  <2>1. n \in 1 .. Cardinality(places)  BY <1>1
  <2> QED  BY <2>1, RankExists
<1>5. PICK below : below = {j \in places : j <= greatest}  OBVIOUS
<1>6. below \subseteq places /\ Cardinality(below) = Cardinality(places)  BY <1>1, <1>4, <1>5
<1>7. below = places  BY <1>6, FS_Subset
<1> QED  BY <1>3, <1>5, <1>7

\* t has the elements of s that belong to kept, all of them and in the order of s.
FilteredTo(s, kept, t) ==
    \E n \in Nat : \E from \in [1 .. n -> DOMAIN s] :
        /\ t = [k \in 1 .. n |-> s[from[k]]]
        /\ \A i \in DOMAIN s : s[i] \in kept <=> \E k \in 1 .. n : from[k] = i
        /\ \A j, k \in 1 .. n : j < k => from[j] < from[k]

\* filter() keeps what belongs to the set.
LEMMA FilterKeeps ==
    ASSUME NEW S, NEW s \in Seq(S), NEW kept
    PROVE  FilteredTo(s, kept, Filter(s, kept))
<1> DEFINE places == {i \in DOMAIN s : s[i] \in kept}
           n == Cardinality(places)
           upto(i) == {m \in places : m <= i}
           kth(k) == CHOOSE i \in places : Cardinality(upto(i)) = k
           from == [k \in 1 .. n |-> kth(k)]
<1>1. places \in SUBSET Nat /\ places \in SUBSET (1 .. Len(s)) /\ Len(s) \in Nat  OBVIOUS
<1>2. IsFiniteSet(places)
  <2>1. IsFiniteSet(1 .. Len(s))  BY <1>1, FS_Interval
  <2> HIDE DEF places
  <2> QED  BY <1>1, <2>1, FS_Subset
<1>3. n \in Nat  BY <1>2, FS_CardinalityType
<1>4. \A k \in 1 .. n : kth(k) \in places /\ Cardinality(upto(kth(k))) = k
  <2> HIDE DEF places
  <2> QED  BY <1>1, <1>2, RankExists
<1>5. ASSUME NEW i \in places, NEW j \in places, i <= j
      PROVE  Cardinality(upto(i)) <= Cardinality(upto(j)) /\ Cardinality(upto(i)) \in 1 .. n
  <2>0. \A m \in places : m \in Nat  BY <1>1
  <2>1. upto(i) \subseteq upto(j)
    <3> SUFFICES ASSUME NEW m \in places, m <= i PROVE m <= j  OBVIOUS
    <3> QED  BY <1>5, <2>0
  <2>2. upto(j) \subseteq places /\ upto(i) \subseteq places  OBVIOUS
  <2>3. i \in upto(i)  BY <2>0
  <2> HIDE DEF upto, places
  <2>4. IsFiniteSet(upto(j)) /\ IsFiniteSet(upto(i)) /\ Cardinality(upto(i)) <= n  BY <2>2, <1>2, FS_Subset
  <2>5. Cardinality(upto(i)) \in Nat /\ Cardinality(upto(i)) # 0
    BY <2>3, <2>4, FS_CardinalityType, FS_EmptySet
  <2>6. Cardinality(upto(i)) <= Cardinality(upto(j))  BY <2>1, <2>4, FS_Subset
  <2> QED  BY <1>3, <2>4, <2>5, <2>6
<1>6. ASSUME NEW j \in 1 .. n, NEW k \in 1 .. n, j < k PROVE kth(j) < kth(k)
  <2>1. kth(j) \in places /\ kth(k) \in places /\ kth(j) \in Nat /\ kth(k) \in Nat  BY <1>1, <1>4
  <2>2. Cardinality(upto(kth(j))) = j /\ Cardinality(upto(kth(k))) = k  BY <1>4
  <2> HIDE DEF kth, upto, places
  <2>3. j \in Nat /\ k \in Nat  BY <1>3
  <2>4. ~(kth(k) <= kth(j))  BY <1>5, <1>6, <2>1, <2>2, <2>3
  <2> QED  BY <1>6, <2>1, <2>4
<1>7. \A i \in DOMAIN s : s[i] \in kept <=> \E k \in 1 .. n : from[k] = i
  <2> SUFFICES ASSUME NEW i \in DOMAIN s PROVE i \in places <=> \E k \in 1 .. n : kth(k) = i
    OBVIOUS
  <2>1. ASSUME i \in places PROVE \E k \in 1 .. n : kth(k) = i
    <3>1. i <= i /\ i \in Nat  BY <1>1
    <3>2. PICK k \in 1 .. n : k = Cardinality(upto(i))  BY <1>5, <2>1, <3>1
    <3>3. kth(k) \in places /\ Cardinality(upto(kth(k))) = k  BY <1>4
    <3>4. CASE kth(k) # i
      <4>1. PICK low \in places, high \in places :
              low < high /\ Cardinality(upto(low)) = k /\ Cardinality(upto(high)) = k
        <5>1. kth(k) \in Nat  BY <1>1, <3>3
        <5> HIDE DEF kth, upto, places
        <5>2. kth(k) < i \/ i < kth(k)  BY <3>1, <3>4, <5>1
        <5> QED  BY <2>1, <3>2, <3>3, <5>2
      <4>2. low \in Nat /\ high \in Nat /\ \A m \in places : m \in Nat  BY <1>1
      <4>3. upto(low) \subseteq upto(high)
        <5> SUFFICES ASSUME NEW m \in places, m <= low PROVE m <= high  OBVIOUS
        <5> QED  BY <4>1, <4>2
      <4>4. high \in upto(high) /\ high \notin upto(low) /\ upto(high) \subseteq places  BY <4>1, <4>2
      <4> HIDE DEF upto, places
      <4>5. IsFiniteSet(upto(high))  BY <4>4, <1>2, FS_Subset
      <4> QED  BY <4>1, <4>3, <4>4, <4>5, FS_Subset
    <3> QED  BY <3>4
  <2>2. ASSUME NEW k \in 1 .. n, kth(k) = i PROVE i \in places
    <3> HIDE DEF kth, places
    <3> QED  BY <1>4, <2>2
  <2> QED  BY <2>1, <2>2
<1>8. Filter(s, kept) = [k \in 1 .. n |-> s[from[k]]]  BY DEF Filter
<1>9. from \in [1 .. n -> DOMAIN s]
  <2> HIDE DEF kth, n
  <2> QED  BY <1>4
<1>10. \A j, k \in 1 .. n : j < k => from[j] < from[k]
  <2> HIDE DEF kth, n
  <2> QED  BY <1>6
<1> HIDE DEF from, n
<1> QED  BY <1>3, <1>7, <1>8, <1>9, <1>10 DEF FilteredTo

-----------------------------------------------------------------------------
(* The store.                                                              *)

\* The fields of the setting, and the finite sets.
LEMMA SessionTypes ==
    ASSUME SessionsTypeOK
    PROVE  /\ sset.actors \subseteq Actors /\ MaxSessions \in Nat \ {0} /\ sset.idleLimit \in Nat
           /\ Lifetime \in Nat /\ now \in Nat
           /\ IsFiniteSet(used) /\ IsFiniteSet(live) /\ Cardinality(used) \in Nat /\ Cardinality(live) \in Nat
<1>1. sset \in SessionSettingType /\ Lifetime \in Nat /\ IsFiniteSet(Ids)
  BY SessionsAssumption DEF SessionsTypeOK
<1>2. sset.actors \subseteq Actors /\ sset.maxSessions \in Nat \ {0} /\ sset.idleLimit \in Nat
  BY <1>1 DEF SessionSettingType
<1>3. used \subseteq Ids /\ live \subseteq used /\ now \in Nat  BY DEF SessionsTypeOK
<1>4. IsFiniteSet(used) /\ IsFiniteSet(live)  BY <1>1, <1>3, FS_Subset
<1> QED  BY <1>1, <1>2, <1>3, <1>4, FS_CardinalityType DEF MaxSessions

\* A session that is inserted comes after all the others.
LEMMA RankIsLast ==
    ASSUME SessionsTypeOK, NEW s \in Ids
    PROVE  Rank \in Nat /\ \A x \in Ids : place[x] < Rank
<1> DEFINE places == {place[x] : x \in Ids}
<1>1. places \in SUBSET Nat /\ places # {} /\ place \in [Ids -> Nat]  BY DEF SessionsTypeOK
<1>2. IsFiniteSet(places)
  <2>1. places \in SUBSET places /\ place \in Surjection(Ids, places)  BY <1>1 DEF Surjection
  <2> HIDE DEF places
  <2> QED  BY <2>1, SessionsAssumption, FS_Surjection
<1>3. \E m \in places : \A j \in places : j <= m
  <2> HIDE DEF places
  <2> QED  BY <1>1, <1>2, ExtremesExist
<1>4. PICK m \in places : m = (CHOOSE n \in places : \A x \in Ids : place[x] <= n) /\ \A x \in Ids : place[x] <= m
  BY <1>3
<1>5. Rank = 1 + m /\ m \in Nat  BY <1>1, <1>4 DEF Rank
<1>6. \A x \in Ids : place[x] \in Nat /\ place[x] <= m  BY <1>1, <1>4
<1>7. \A x \in Ids : place[x] < 1 + m  BY ONLY <1>5, <1>6
<1> QED  BY <1>5, <1>7

\* What the k oldest entries of insertionOrder name.
Oldest(k) == {order[i] : i \in 1 .. k}

\* The insertion of s, after the k oldest entries were shifted off to make room.
Inserted(s, k) ==
    /\ order' \in Seq(Ids) /\ Len(order') = Len(order) - k + 1
    /\ \A i \in 1 .. Len(order) - k : order'[i] = order[i + k]
    /\ order'[Len(order) - k + 1] = s
    /\ live' = (live \ Oldest(k)) \cup {s}
    /\ Cardinality(live \ Oldest(k)) < MaxSessions
    /\ k > 0 => Cardinality(live) >= MaxSessions
    /\ place' \in [Ids -> Nat] /\ \A x \in Ids : place[x] < place'[s] /\ (x # s => place'[x] = place[x])

\* Evicting from the front makes room, because every stored session is in insertionOrder.
LEMMA StoreInserts ==
    ASSUME SessionsTypeOK, Ordered, NEW s \in Ids, s \notin live, StoreSet(s)
    PROVE  \E k \in 0 .. Len(order) : Inserted(s, k)
<1> DEFINE room == {k \in 0 .. Len(order) : Kept(k)}
<1>1. order \in Seq(Ids) /\ Len(order) \in Nat /\ DOMAIN order = 1 .. Len(order)  BY DEF SessionsTypeOK
<1>2. \A k \in 0 .. Len(order) :
        /\ SubSeq(order, 1, k) \in Seq(Ids) /\ Len(SubSeq(order, 1, k)) = k
        /\ ToSet(SubSeq(order, 1, k)) = Oldest(k)
  <2> SUFFICES ASSUME NEW k \in 0 .. Len(order)
               PROVE  /\ SubSeq(order, 1, k) \in Seq(Ids) /\ Len(SubSeq(order, 1, k)) = k
                      /\ ToSet(SubSeq(order, 1, k)) = Oldest(k)
    OBVIOUS
  <2>1. PICK t : t = SubSeq(order, 1, k)  OBVIOUS
  <2>2. t \in Seq(Ids) /\ Len(t) = k /\ \A i \in 1 .. k : t[i] = order[i]  BY <1>1, <2>1, SubSeqProperties
  <2>3. ToSet(t) = {t[i] : i \in 1 .. k}  BY <2>2 DEF ToSet
  <2> QED  BY <2>1, <2>2, <2>3 DEF Oldest
<1>3. \A k \in 0 .. Len(order) : Kept(k) <=> Cardinality(live \ Oldest(k)) < MaxSessions  BY <1>2 DEF Kept
<1>4. Len(order) \in room
  <2>1. live \ Oldest(Len(order)) = {}  BY <1>1 DEF Ordered, Oldest
  <2>2. Cardinality(live \ Oldest(Len(order))) = 0  BY <2>1, FS_EmptySet
  <2>3. MaxSessions \in Nat \ {0}  BY SessionTypes
  <2> QED  BY <1>1, <1>3, <2>2, <2>3
<1>5. \E k \in room : \A j \in room : k <= j
  <2>1. IsFiniteSet(0 .. Len(order))  BY <1>1, FS_Interval
  <2>2. room \in SUBSET (0 .. Len(order)) /\ room \in SUBSET Nat  BY <1>1
  <2> HIDE DEF room
  <2>3. IsFiniteSet(room)  BY <2>1, <2>2, FS_Subset
  <2> QED  BY <1>4, <2>2, <2>3, ExtremesExist
<1>6. PICK k \in room : k = Shifted /\ \A j \in room : k <= j  BY <1>4, <1>5 DEF Shifted
<1>7. k \in 0 .. Len(order) /\ Cardinality(live \ Oldest(k)) < MaxSessions  BY <1>3, <1>6
<1>8. k > 0 => Cardinality(live) >= MaxSessions
  <2> SUFFICES ASSUME k > 0, Cardinality(live) < MaxSessions PROVE FALSE  BY SessionTypes
  <2>1. 0 \in 0 .. Len(order) /\ Oldest(0) = {}  BY <1>1 DEF Oldest
  <2>2. live \ Oldest(0) = live  BY <2>1
  <2>3. 0 \in room  BY <1>3, <2>1, <2>2
  <2> QED  BY <1>6, <1>7, <2>3
<1>9. /\ live' = (live \ Oldest(k)) \cup {s}
      /\ order' = Append(SubSeq(order, k + 1, Len(order)), s) /\ place' = [place EXCEPT ![s] = Rank]
  BY <1>2, <1>6, <1>7 DEF StoreSet
<1>10. /\ order' \in Seq(Ids) /\ Len(order') = Len(order) - k + 1
       /\ \A i \in 1 .. Len(order) - k : order'[i] = order[i + k]
       /\ order'[Len(order) - k + 1] = s
  <2>1. PICK t : t = SubSeq(order, k + 1, Len(order))  OBVIOUS
  <2>2. k + 1 \in 1 .. Len(order) + 1  BY <1>1, <1>7
  <2>3. t \in Seq(Ids) /\ Len(t) = Len(order) - k /\ \A i \in 1 .. Len(order) - k : t[i] = order[i + k]
    <3>1. PICK n \in Nat : n = Len(order)  BY <1>1
    <3>2. \A i \in 1 .. n : order[i] \in Ids  BY <1>1, <3>1
    <3>3. t = [i \in 1 .. (n - (k + 1) + 1) |-> order[(k + 1) + i - 1]]  BY <2>1, <3>1
    <3>4. n - (k + 1) + 1 = n - k /\ n - k \in Nat /\ \A i \in 1 .. n - k : (k + 1) + i - 1 = i + k /\ i + k \in 1 .. n
      BY <1>7, <3>1
    <3>5. t = [i \in 1 .. n - k |-> order[i + k]]  BY <3>3, <3>4
    <3>6. t \in [1 .. n - k -> Ids]  BY <3>2, <3>4, <3>5
    <3>7. PICK m \in Nat : m = n - k  BY <3>4
    <3>8. t \in [1 .. m -> Ids]  BY <3>6, <3>7
    <3>9. t \in Seq(Ids) /\ Len(t) = m  BY ONLY <3>7, <3>8
    <3> QED  BY <3>1, <3>5, <3>7, <3>9
  <2>4. order' = Append(t, s) /\ Len(order) - k \in Nat  BY <1>9, <2>1, <1>1, <1>7
  <2> QED  BY <2>3, <2>4
<1>11. place' \in [Ids -> Nat] /\ \A x \in Ids : place[x] < place'[s] /\ (x # s => place'[x] = place[x])
  BY <1>9, RankIsLast DEF SessionsTypeOK
<1> QED  BY <1>7, <1>8, <1>9, <1>10, <1>11 DEF Inserted

-----------------------------------------------------------------------------
(* Steps.  What one does to the store is one of these.                     *)

Rested == used' = used /\ live' = live /\ order' = order /\ place' = place /\ obj' = obj

\* A session is stored: a new one, or one that was read and has not expired.
Put(s) ==
    /\ now' = now /\ used' = used \cup {s} /\ StoreSet(s)
    /\ obj' \in [Ids -> [created: Nat, last: Nat]] /\ \A x \in Ids : x # s => obj'[x] = obj[x]
    /\ obj'[s].last = now
    /\ \/ s \notin used /\ obj'[s].created = now
       \/ s \in used /\ ~Expired(s, now) /\ obj'[s].created = obj[s].created

\* An expired session is deleted.
Dropped(s) ==
    /\ now' = now /\ used' = used /\ obj' = obj /\ StoreDelete(s)
    /\ Expired(s, now)

Cleared ==
    /\ sset.mayClear /\ now' = now /\ used' = used /\ obj' = obj /\ place' = place
    /\ live' = {} /\ order' = <<>>

Compacted ==
    /\ now' = now /\ used' = used /\ obj' = obj /\ place' = place /\ live' = live
    /\ order' = Filter(order, live)

StoreStep ==
    \/ Rested
    \/ \E s \in Ids : Put(s) \/ Dropped(s)
    \/ Cleared \/ Compacted

\* A session that had expired when a sweep read the clock has expired.
LEMMA ExpiredSince ==
    ASSUME SessionsTypeOK, NEW s \in Ids, NEW t \in Nat, t <= now, Expired(s, t)
    PROVE  Expired(s, now)
<1>1. obj[s].last \in Nat /\ obj[s].created \in Nat  BY DEF SessionsTypeOK
<1>2. sset.idleLimit \in Nat /\ Lifetime \in Nat /\ now \in Nat  BY SessionTypes
<1> QED  BY <1>1, <1>2 DEF Expired

\* validateHandshake stores a session under a fresh id.
LEMMA EstablishPuts ==
    ASSUME SessionsTypeOK, now' = now, NEW s \in Ids, Establish(s)
    PROVE  Put(s) /\ s \notin used
<1>1. \E t \in Ids \ used : TRUE  BY DEF Establish, SessionsTypeOK
<1>2. s \in Ids \ used  BY <1>1 DEF Establish
<1> QED  BY <1>2 DEF Establish, Put, SessionsTypeOK

\* getSession puts back a session that has not expired, and deletes one that has.
LEMMA RefreshStores ==
    ASSUME SessionsTypeOK, NEW a \in Actors, want[a] \in used, now' = now, used' = used,
           NEW found, NEW missing, Refresh(a, found, missing)
    PROVE  StoreStep
<1>1. want[a] \in Ids  BY DEF SessionsTypeOK
<1>2. CASE Expired(want[a], now)  BY <1>1, <1>2 DEF Refresh, StoreStep, Dropped
<1>3. CASE ~Expired(want[a], now)
  <2>1. obj[want[a]] \in [created: Nat, last: Nat] /\ now \in Nat  BY <1>1 DEF SessionsTypeOK
  <2>2. obj' = [obj EXCEPT ![want[a]].last = now] /\ StoreSet(want[a])  BY <1>3 DEF Refresh
  <2>3. obj' \in [Ids -> [created: Nat, last: Nat]] /\ obj'[want[a]].last = now
        /\ obj'[want[a]].created = obj[want[a]].created /\ \A x \in Ids : x # want[a] => obj'[x] = obj[x]
    BY <1>1, <2>1, <2>2 DEF SessionsTypeOK
  <2>4. Put(want[a])  BY <1>3, <2>2, <2>3 DEF Put
  <2> QED  BY <1>1, <2>4 DEF StoreStep
<1> QED  BY <1>2, <1>3

\* A step goes on in time or does one thing to the store.
LEMMA StepStores ==
    ASSUME SessionsTypeOK, Knowing, SessionsNext
    PROVE  sset' = sset /\ now' \in Nat /\ now <= now' /\ StoreStep
<1>0. sset' = sset /\ now \in Nat /\ sset.actors \subseteq Actors  BY SessionTypes DEF SessionsNext
<1>1. CASE Tick  BY <1>0, <1>1 DEF Tick, StoreStep, Rested, storeVars
<1>2. CASE ClearSessions  BY <1>0, <1>2 DEF ClearSessions, StoreStep, Cleared
<1>3. ASSUME NEW a \in Actors, NEW s \in Ids,
             UseSession(a, s) \/ Handshake(a, s) \/ SweepOne(a, s) \/ CreateAutoSession(a, s)
      PROVE  now' = now /\ StoreStep
  <2>1. CASE UseSession(a, s)  BY <2>1 DEF UseSession, StoreStep, Rested, storeVars
  <2>2. CASE Handshake(a, s)  BY <2>2, EstablishPuts DEF Handshake, StoreStep
  <2>3. CASE CreateAutoSession(a, s)  BY <2>3, EstablishPuts DEF CreateAutoSession, StoreStep
  <2>4. CASE SweepOne(a, s)
    <3>1. since[a] \in Nat /\ since[a] <= now  BY DEF SessionsTypeOK, Knowing
    <3>2. Expired(s, since[a]) => Expired(s, now)  BY <3>1, ExpiredSince
    <3> QED  BY <2>4, <3>2 DEF SweepOne, StoreStep, Rested, Dropped, storeVars
  <2> QED  BY <1>3, <2>1, <2>2, <2>3, <2>4
<1>4. ASSUME NEW a \in Actors, UseRefresh(a) \/ Probe(a)
      PROVE  now' = now /\ StoreStep
  <2>1. want[a] \in used  BY <1>4 DEF UseRefresh, Probe, Knowing
  <2> QED  BY <1>4, <2>1, RefreshStores DEF UseRefresh, Probe
<1>5. ASSUME NEW a \in Actors, SweepEnd(a)
      PROVE  now' = now /\ StoreStep
  BY <1>5 DEF SweepEnd, StoreStep, Compacted
<1>6. ASSUME NEW a \in Actors,
             \/ HandshakeDone(a) \/ EnsureSession(a) \/ Count(a) \/ CountAgain(a)
             \/ Cleanup(a) \/ SweepStart(a) \/ Missing(a) \/ Adopt(a) \/ Settle(a)
      PROVE  now' = now /\ StoreStep
  BY <1>6 DEF HandshakeDone, EnsureSession, Count, CountAgain, Cleanup, SweepStart, Missing, Adopt, Settle,
    StoreStep, Rested, storeVars
<1> QED  BY <1>0, <1>1, <1>2, <1>3, <1>4, <1>5, <1>6 DEF SessionsNext

\* Expiry is for good, but for a session that is put back, which has not expired.
LEMMA ExpiryStays ==
    ASSUME SessionsTypeOK, sset' = sset, now' \in Nat, now <= now', StoreStep
    PROVE  /\ \A s \in used : s \in used' /\ (Expired(s, now) => Expired(s, now)')
           /\ \A s \in live', t \in Nat : t <= now /\ Expired(s, t)' => s \in live /\ Expired(s, t)
<1>0. /\ now \in Nat /\ Lifetime \in Nat /\ sset.idleLimit \in Nat
      /\ \A x \in Ids : obj[x].last \in Nat /\ obj[x].created \in Nat
  BY SessionTypes DEF SessionsTypeOK
<1>1. used \subseteq Ids /\ live \subseteq used  BY DEF SessionsTypeOK
<1>2. CASE Rested \/ Cleared \/ Compacted \/ \E s \in Ids : Dropped(s)
  <2>1. used' = used /\ obj' = obj /\ live' \subseteq live
    BY <1>2 DEF Rested, Cleared, Compacted, Dropped, StoreDelete
  <2>2. \A s, t : Expired(s, t)' <=> Expired(s, t)  BY <2>1 DEF Expired
  <2>3. \A s \in used : Expired(s, now) => Expired(s, now)'  BY <1>0, <1>1, <2>1 DEF Expired
  <2> QED  BY <2>1, <2>2, <2>3
<1>3. ASSUME NEW x \in Ids, Put(x)
      PROVE  /\ \A s \in used : s \in used' /\ (Expired(s, now) => Expired(s, now)')
             /\ \A s \in live', t \in Nat : t <= now /\ Expired(s, t)' => s \in live /\ Expired(s, t)
  <2>1. /\ used \subseteq used' /\ now' = now /\ live' \subseteq live \cup {x}
        /\ \A s \in Ids : s # x => obj'[s] = obj[s]
    BY <1>3 DEF Put, StoreSet, storeVars
  <2>2. \A s \in Ids : s # x => \A t : Expired(s, t)' <=> Expired(s, t)  BY <2>1 DEF Expired
  <2>3. obj'[x].last = now /\ obj'[x].created \in Nat /\ ~Expired(x, now)'
        /\ (x \in used => ~Expired(x, now))
    BY <1>0, <1>3 DEF Put, Expired
  <2>4. \A t \in Nat : t <= now => ~Expired(x, t)'  BY <1>0, <2>1, <2>3 DEF Expired
  <2>5. \A s \in used : Expired(s, now) => Expired(s, now)'
    <3> SUFFICES ASSUME NEW s \in used, Expired(s, now) PROVE Expired(s, now)'  OBVIOUS
    <3>1. s # x /\ obj'[s] = obj[s]  BY <1>1, <2>1, <2>3
    <3> QED  BY <2>1, <3>1 DEF Expired
  <2> QED  BY <1>1, <2>1, <2>2, <2>4, <2>5
<1> QED  BY <1>2, <1>3 DEF StoreStep

\* The variables of the store keep their shapes, and the store its capacity.
LEMMA StoreKeepsTypes ==
    ASSUME SessionsTypeOK, Ordered, Cardinality(live) <= MaxSessions,
           sset' = sset, now' \in Nat, now <= now', StoreStep
    PROVE  /\ used' \subseteq Ids /\ used \subseteq used' /\ live' \subseteq used' /\ order' \in Seq(used')
           /\ obj' \in [Ids -> [created: Nat, last: Nat]] /\ place' \in [Ids -> Nat]
           /\ Cardinality(live') <= MaxSessions'
<1>0. used \subseteq Ids /\ live \subseteq used /\ order \in Seq(used) /\ MaxSessions' = MaxSessions
  BY DEF SessionsTypeOK, MaxSessions
<1>1. ASSUME live' \subseteq live PROVE Cardinality(live') <= MaxSessions'
  <2>1. IsFiniteSet(live) /\ MaxSessions \in Nat /\ Cardinality(live) \in Nat  BY SessionTypes
  <2>2. IsFiniteSet(live') /\ Cardinality(live') <= Cardinality(live)  BY <1>1, <2>1, FS_Subset
  <2>3. Cardinality(live') \in Nat  BY <2>2, FS_CardinalityType
  <2> QED  BY <1>0, <2>1, <2>2, <2>3
<1>2. CASE Rested \/ Cleared \/ \E s \in Ids : Dropped(s)
  <2>1. used' = used /\ obj' = obj /\ place' = place /\ live' \subseteq live /\ (order' = order \/ order' = <<>>)
    BY <1>2 DEF Rested, Cleared, Dropped, StoreDelete
  <2>2. order' \in Seq(used')
    <3>1. << >> \in Seq(used)  OBVIOUS
    <3> QED  BY <1>0, <2>1, <3>1
  <2>3. obj' \in [Ids -> [created: Nat, last: Nat]] /\ place' \in [Ids -> Nat]  BY <2>1 DEF SessionsTypeOK
  <2> QED  BY <1>0, <1>1, <2>1, <2>2, <2>3
<1>3. CASE Compacted
  <2>1. PICK n \in Nat : \E from \in [1 .. n -> DOMAIN order] : order' = [k \in 1 .. n |-> order[from[k]]]
    <3>1. FilteredTo(order, live, Filter(order, live))  BY <1>0, FilterKeeps
    <3> QED  BY <1>3, <3>1 DEF FilteredTo, Compacted
  <2>2. PICK from \in [1 .. n -> DOMAIN order] : order' = [k \in 1 .. n |-> order[from[k]]]  BY <2>1
  <2>3. order' \in [1 .. n -> used]  BY <1>0, <2>2
  <2>4. order' \in Seq(used)  BY ONLY <2>1, <2>3
  <2> QED  BY <1>0, <1>1, <1>3, <2>4 DEF Compacted, SessionsTypeOK
<1>4. ASSUME NEW s \in Ids, Put(s), s \in live
      PROVE  used' = used /\ live' = live /\ order' = order /\ place' = place
  BY <1>0, <1>4 DEF Put, StoreSet, storeVars
<1>5. ASSUME NEW s \in Ids, Put(s), s \notin live, NEW k \in 0 .. Len(order), Inserted(s, k)
      PROVE  /\ live' \subseteq used' /\ order' \in Seq(used') /\ place' \in [Ids -> Nat]
             /\ Cardinality(live') <= MaxSessions'
  <2>1. used' = used \cup {s}  BY <1>5 DEF Put
  <2>2. live' \subseteq used' /\ place' \in [Ids -> Nat]  BY <1>0, <1>5, <2>1 DEF Inserted
  <2>3. PICK n \in Nat : n = Len(order)  BY <1>0
  <2>4. order' \in Seq(used')
    <3>1. order' \in Seq(Ids) /\ Len(order') = n - k + 1 /\ n - k + 1 \in Nat
      BY <1>5, <2>3 DEF Inserted
    <3>2. \A i \in 1 .. n : order[i] \in used  BY <1>0, <2>3
    <3>3. \A i \in 1 .. n - k + 1 : order'[i] \in used'
      <4> SUFFICES ASSUME NEW i \in 1 .. n - k + 1 PROVE order'[i] \in used'  OBVIOUS
      <4>1. i = n - k + 1 \/ (i \in 1 .. n - k /\ i + k \in 1 .. n)  BY <2>3, <1>5
      <4> QED  BY <1>5, <2>1, <2>3, <3>2, <4>1 DEF Inserted
    <3>4. PICK m \in Nat : m = Len(order')  BY <3>1
    <3>5. order' \in [1 .. m -> used']  BY <3>1, <3>3, <3>4
    <3> QED  BY ONLY <3>4, <3>5
  <2>5. PICK rest : rest = live \ Oldest(k)  OBVIOUS
  <2>6. live' = rest \cup {s} /\ Cardinality(rest) < MaxSessions  BY <1>5, <2>5 DEF Inserted
  <2>7. IsFiniteSet(rest) /\ MaxSessions \in Nat /\ s \notin rest  BY <1>5, <2>5, SessionTypes, FS_Subset
  <2>8. Cardinality(rest) \in Nat /\ Cardinality(live') = Cardinality(rest) + 1
    BY <2>6, <2>7, FS_CardinalityType, FS_AddElement
  <2> QED  BY <1>0, <2>2, <2>4, <2>6, <2>7, <2>8
<1>6. ASSUME NEW s \in Ids, Put(s)
      PROVE  /\ used' \subseteq Ids /\ used \subseteq used' /\ live' \subseteq used' /\ order' \in Seq(used')
             /\ obj' \in [Ids -> [created: Nat, last: Nat]] /\ place' \in [Ids -> Nat]
             /\ Cardinality(live') <= MaxSessions'
  <2>1. used' \subseteq Ids /\ used \subseteq used' /\ obj' \in [Ids -> [created: Nat, last: Nat]]
    BY <1>0, <1>6 DEF Put
  <2>2. CASE s \in live  BY <1>0, <1>1, <1>4, <1>6, <2>1, <2>2 DEF SessionsTypeOK
  <2>3. CASE s \notin live
    <3>1. StoreSet(s)  BY <1>6 DEF Put
    <3>2. \E k \in 0 .. Len(order) : Inserted(s, k)  BY <2>3, <3>1, StoreInserts
    <3> QED  BY <1>5, <1>6, <2>1, <2>3, <3>2
  <2> QED  BY <2>2, <2>3
<1> QED  BY <1>0, <1>2, <1>3, <1>6 DEF StoreStep, Compacted, Rested, Cleared, Dropped

\* A stored session is in the order of insertion, behind those inserted before it.
LEMMA OrderedStep ==
    ASSUME SessionsTypeOK, Ordered, sset' = sset, now' \in Nat, now <= now', StoreStep
    PROVE  Ordered'
<1>0. /\ used \subseteq Ids /\ live \subseteq used /\ order \in Seq(used)
      /\ DOMAIN order = 1 .. Len(order) /\ \A k \in DOMAIN order : order[k] \in used
  BY DEF SessionsTypeOK
<1>1. \A s \in used : Expired(s, now) => Expired(s, now)'  BY ExpiryStays
<1>2. ASSUME live' = live, order' = order, place' = place PROVE Ordered'
  BY <1>0, <1>1, <1>2 DEF Ordered
<1>3. CASE Cleared  BY <1>3 DEF Cleared, Ordered
<1>4. ASSUME NEW s \in Ids, Dropped(s) PROVE Ordered'
  BY <1>0, <1>1, <1>4 DEF Dropped, StoreDelete, Ordered
<1>5. CASE Compacted
  <2>1. order' = Filter(order, live) /\ live' = live /\ place' = place  BY <1>5 DEF Compacted
  <2>2. PICK n \in Nat : \E from \in [1 .. n -> DOMAIN order] :
             /\ order' = [k \in 1 .. n |-> order[from[k]]]
             /\ \A i \in DOMAIN order : order[i] \in live <=> \E k \in 1 .. n : from[k] = i
             /\ \A j, k \in 1 .. n : j < k => from[j] < from[k]
    <3>1. FilteredTo(order, live, Filter(order, live))  BY <1>0, FilterKeeps
    <3> QED  BY <2>1, <3>1 DEF FilteredTo
  <2>3. PICK from \in [1 .. n -> DOMAIN order] :
             /\ order' = [k \in 1 .. n |-> order[from[k]]]
             /\ \A i \in DOMAIN order : order[i] \in live <=> \E k \in 1 .. n : from[k] = i
             /\ \A j, k \in 1 .. n : j < k => from[j] < from[k]
    BY <2>2
  <2>4. DOMAIN order' = 1 .. n /\ \A k \in 1 .. n : order'[k] = order[from[k]] /\ from[k] \in DOMAIN order
    BY <2>3
  <2>5. \A k \in 1 .. n : order'[k] \in live  BY <2>3, <2>4
  <2>6. \A s \in live : \E k \in 1 .. n : order'[k] = s
    <3> SUFFICES ASSUME NEW s \in live PROVE \E k \in 1 .. n : order'[k] = s  OBVIOUS
    <3>1. PICK i \in DOMAIN order : order[i] = s  BY DEF Ordered
    <3> QED  BY <2>3, <2>4, <3>1
  <2>7. \A j, k \in 1 .. n : j < k => place[order'[j]] < place[order'[k]]  BY <2>3, <2>4 DEF Ordered
  <2> QED  BY <2>1, <2>4, <2>5, <2>6, <2>7 DEF Ordered
<1>6. ASSUME NEW s \in Ids, Put(s), s \notin live PROVE Ordered'
  <2>1. StoreSet(s) /\ (s \in used => ~Expired(s, now))  BY <1>6 DEF Put
  <2>2. \A k \in DOMAIN order : order[k] # s  BY <1>0, <1>6, <2>1 DEF Ordered
  <2>3. PICK k \in 0 .. Len(order) : Inserted(s, k)  BY <1>6, <2>1, StoreInserts
  <2>4. PICK n \in Nat : n = Len(order)  BY <1>0, LenProperties
  <2>5. /\ DOMAIN order' = 1 .. n - k + 1 /\ n - k + 1 \in Nat /\ order'[n - k + 1] = s
        /\ \A i \in 1 .. n - k : order'[i] = order[i + k] /\ i + k \in 1 .. n /\ order[i + k] \in used
        /\ \A i \in 1 .. n - k + 1 : i = n - k + 1 \/ i \in 1 .. n - k
    BY <1>0, <2>3, <2>4 DEF Inserted
  <2>6. /\ live' = (live \ Oldest(k)) \cup {s}
        /\ \A x \in Ids : place[x] < place'[s] /\ (x # s => place'[x] = place[x])
    BY <2>3 DEF Inserted
  <2>7. \A i, j \in 1 .. n : i < j => place[order[i]] < place[order[j]]  BY <1>0, <2>4 DEF Ordered
  <2>8. \A x \in live' : \E i \in DOMAIN order' : order'[i] = x
    <3>0. n - k + 1 \in DOMAIN order'  BY <2>4, <2>5
    <3> SUFFICES ASSUME NEW x \in live', x # s PROVE \E i \in DOMAIN order' : order'[i] = x
      BY <2>5, <3>0
    <3>1. x \in live /\ x \notin Oldest(k)  BY <2>6
    <3>2. PICK j \in 1 .. n : order[j] = x  BY <1>0, <2>4, <3>1 DEF Ordered
    <3>3. j \notin 1 .. k  BY <3>1, <3>2 DEF Oldest
    <3>4. j - k \in 1 .. n - k /\ (j - k) + k = j /\ j - k \in 1 .. n - k + 1  BY <2>3, <2>4, <3>2, <3>3
    <3> QED  BY <2>5, <3>2, <3>4
  <2>9. \A i, j \in DOMAIN order' : i < j => place'[order'[i]] < place'[order'[j]]
    <3> SUFFICES ASSUME NEW i \in 1 .. n - k + 1, NEW j \in 1 .. n - k + 1, i < j
                 PROVE  place'[order'[i]] < place'[order'[j]]
      BY <2>5
    <3>1. i \in 1 .. n - k /\ order'[i] = order[i + k] /\ i + k \in 1 .. n /\ order[i + k] \in Ids
      BY <1>0, <2>3, <2>4, <2>5
    <3>2. place'[order'[i]] = place[order[i + k]]  BY <1>0, <2>2, <2>4, <2>6, <3>1
    <3>3. CASE j = n - k + 1  BY <2>5, <2>6, <3>1, <3>2, <3>3
    <3>4. CASE j \in 1 .. n - k
      <4>1. order'[j] = order[j + k] /\ j + k \in 1 .. n /\ order[j + k] \in Ids  BY <1>0, <2>5, <3>4
      <4>2. place'[order'[j]] = place[order[j + k]]  BY <1>0, <2>2, <2>4, <2>6, <4>1
      <4>3. i + k < j + k  BY <2>3, <2>4
      <4> QED  BY <2>7, <3>1, <3>2, <4>1, <4>2, <4>3
    <3> QED  BY <2>5, <3>3, <3>4
  <2>10. \A i \in DOMAIN order' : order'[i] \in live' \/ Expired(order[i], now)'
    <3> SUFFICES ASSUME NEW i \in 1 .. n - k PROVE order'[i] \in live' \/ Expired(order[i], now)'
      BY <2>5, <2>6
    <3>1. order'[i] = order[i + k] /\ i + k \in 1 .. n /\ order[i + k] \in used  BY <2>5
    <3>2. CASE Expired(order[i + k], now)
      <4>1. PICK x \in used : x = order[i + k]  BY <3>1
      <4>2. Expired(x, now)'  BY <1>1, <3>2, <4>1
      <4>3. order'[i] = x  BY <3>1, <4>1
      <4>4. Expired(order[i], now)'  BY ONLY <4>2, <4>3 DEF Expired
      <4> QED  BY <4>4
    <3>3. CASE order[i + k] \in live
      <4>1. ASSUME NEW m \in 1 .. k, order[m] = order[i + k] PROVE FALSE
        <5>1. m \in 1 .. n /\ m < i + k  BY <2>3, <2>4
        <5>2. place[order[m]] < place[order[i + k]]  BY <2>7, <3>1, <5>1
        <5>3. place[order[i + k]] \in Nat  BY <1>0, <3>1 DEF SessionsTypeOK
        <5> QED  BY <4>1, <5>2, <5>3
      <4>2. order[i + k] \notin Oldest(k)  BY <4>1 DEF Oldest
      <4> QED  BY <2>6, <3>1, <3>3, <4>2
    <3> QED  BY <1>0, <2>4, <3>1, <3>2, <3>3 DEF Ordered
  <2> QED  BY <2>8, <2>9, <2>10 DEF Ordered
<1>7. ASSUME NEW s \in Ids, Put(s), s \in live PROVE Ordered'
  BY <1>2, <1>7 DEF Put, StoreSet, storeVars
<1> QED  BY <1>2, <1>3, <1>4, <1>5, <1>6, <1>7 DEF StoreStep, Rested

-----------------------------------------------------------------------------
(* The calls.                                                              *)

\* What an actor does in one step, with a session or without.
Acts(a) ==
    \/ \E s \in Ids : UseSession(a, s) \/ Handshake(a, s) \/ SweepOne(a, s) \/ CreateAutoSession(a, s)
    \/ UseRefresh(a) \/ HandshakeDone(a)
    \/ EnsureSession(a) \/ Probe(a) \/ Count(a) \/ CountAgain(a)
    \/ Cleanup(a) \/ SweepStart(a) \/ SweepEnd(a)
    \/ Missing(a) \/ Adopt(a) \/ Settle(a)

LEMMA NextActs ==
    ASSUME SessionsTypeOK, SessionsNext
    PROVE  Tick \/ ClearSessions \/ \E a \in Actors : Acts(a)
BY SessionTypes DEF SessionsNext, Acts

SessionPhases ==
    {"idle", "held", "recording", "probe", "count", "sweep", "sweeping", "counted", "missing", "creating", "created",
     "joining", "settling", "done"}

LocalTypes ==
    /\ active \in Ids \cup {NoId} /\ creator \in Unthreaded \cup {NoId}
    /\ lastSweep \in Nat \cup {NoId}
    /\ todo \in [Actors -> SUBSET Ids] /\ since \in [Actors -> Nat]
    /\ phase \in [Actors -> SessionPhases]
    /\ want \in [Actors -> Ids \cup {NoId}]
    /\ result \in [Actors -> Ids \cup {NoId, "ambiguous"}]

\* What the calls carry keeps its shape.
LEMMA LocalsKeepTypes ==
    ASSUME SessionsTypeOK, Knowing, SessionsNext
    PROVE  LocalTypes'
<1>0. LocalTypes /\ now \in Nat /\ live \subseteq Ids /\ Unthreaded \subseteq Actors
  BY DEF SessionsTypeOK, LocalTypes, SessionPhases, Actors
<1> USE DEF LocalTypes, SessionPhases
<1>1. CASE Tick \/ ClearSessions  BY <1>0, <1>1 DEF Tick, ClearSessions, sweepVars
<1>2. ASSUME NEW a \in Actors, NEW s \in Ids, UseSession(a, s) \/ Handshake(a, s) PROVE LocalTypes'
  BY <1>0, <1>2 DEF UseSession, Handshake, GetSession, sweepVars
<1>3. ASSUME NEW a \in Actors, NEW s \in Ids, SweepOne(a, s) \/ CreateAutoSession(a, s) PROVE LocalTypes'
  BY <1>0, <1>3 DEF SweepOne, CreateAutoSession, sweepVars
<1>4. ASSUME NEW a \in Actors, UseRefresh(a) \/ HandshakeDone(a) PROVE LocalTypes'
  BY <1>0, <1>4 DEF UseRefresh, Refresh, HandshakeDone, sweepVars
<1>5. ASSUME NEW a \in Actors, EnsureSession(a) \/ Missing(a) PROVE LocalTypes'
  <2>1. a \in Unthreaded  BY <1>5 DEF EnsureSession, Missing, Knowing, FallbackPhases
  <2> QED  BY <1>0, <1>5, <2>1 DEF EnsureSession, Missing, Share, GetSession, sweepVars
<1>6. ASSUME NEW a \in Actors, Probe(a) \/ Count(a) \/ CountAgain(a) PROVE LocalTypes'
  BY <1>0, <1>6 DEF Probe, Refresh, Count, CountAgain, Decide, sweepVars
<1>7. ASSUME NEW a \in Actors, Cleanup(a) \/ SweepStart(a) \/ SweepEnd(a) \/ Adopt(a) PROVE LocalTypes'
  BY <1>0, <1>7 DEF Cleanup, SweepStart, SweepEnd, Adopt, sweepVars
<1>8. ASSUME NEW a \in Actors, Settle(a) PROVE LocalTypes'
  BY <1>0, <1>8 DEF Settle, sweepVars
<1> QED  BY <1>1, <1>2, <1>3, <1>4, <1>5, <1>6, <1>7, <1>8, NextActs DEF Acts

\* Every variable keeps its shape.
LEMMA SessionTypesStay ==
    ASSUME SessionsTypeOK, Knowing, Ordered, Cardinality(live) <= MaxSessions, SessionsNext
    PROVE  SessionsTypeOK' /\ Cardinality(live') <= MaxSessions'
<1>1. sset' = sset /\ now' \in Nat /\ now <= now' /\ StoreStep  BY StepStores
<1>2. /\ used' \subseteq Ids /\ used \subseteq used' /\ live' \subseteq used' /\ order' \in Seq(used')
      /\ obj' \in [Ids -> [created: Nat, last: Nat]] /\ place' \in [Ids -> Nat]
      /\ Cardinality(live') <= MaxSessions'
  BY <1>1, StoreKeepsTypes
<1>3. LocalTypes'  BY LocalsKeepTypes
<1>4. auto' \subseteq used'
  <2>1. auto \subseteq used  BY DEF SessionsTypeOK
  <2>2. CASE auto' = auto  BY <1>2, <2>1, <2>2
  <2>3. ASSUME NEW a \in Actors, NEW s \in Ids, CreateAutoSession(a, s) PROVE auto' \subseteq used'
    BY <2>1, <2>3 DEF CreateAutoSession, Establish
  <2> QED  BY <2>2, <2>3, NextActs DEF Acts, Tick, ClearSessions, UseSession, Handshake, SweepOne, UseRefresh,
           HandshakeDone, EnsureSession, Probe, Count, CountAgain, Cleanup, SweepStart, SweepEnd, Missing, Adopt, Settle
<1> QED  BY <1>1, <1>2, <1>3, <1>4 DEF SessionsTypeOK, LocalTypes, SessionPhases

\* The sessions the calls work on were handed out.
LEMMA KnowingStep ==
    ASSUME SessionsTypeOK, Knowing, SessionsNext, used \subseteq used'
    PROVE  Knowing'
<1>0. /\ now \in Nat /\ live \subseteq used /\ used \subseteq used' /\ NoId \notin Ids /\ used \subseteq Ids
      /\ since \in [Actors -> Nat] /\ phase \in [Actors -> SessionPhases] /\ want \in [Actors -> Ids \cup {NoId}]
      /\ active \in used \cup {NoId}
      /\ \A a \in Actors :
         /\ want[a] \in used \cup {NoId} /\ since[a] <= now
         /\ phase[a] \in FallbackPhases => a \in Unthreaded
         /\ phase[a] \in {"held", "probe", "recording", "created", "settling"} => want[a] # NoId
  BY SessionsAssumption DEF SessionsTypeOK, Knowing, SessionPhases
<1> USE DEF SessionPhases, FallbackPhases
<1>1. CASE Tick \/ ClearSessions  BY <1>0, <1>1 DEF Knowing, Tick, ClearSessions, sweepVars
<1>2. ASSUME NEW a \in Actors, NEW s \in Ids, UseSession(a, s) \/ Handshake(a, s) PROVE Knowing'
  <2>1. s \in used' /\ s # NoId  BY <1>0, <1>2 DEF UseSession, Handshake, Establish
  <2> QED  BY <1>0, <1>2, <2>1 DEF Knowing, UseSession, Handshake, GetSession, sweepVars
<1>3. ASSUME NEW a \in Actors, NEW s \in Ids, SweepOne(a, s) \/ CreateAutoSession(a, s) PROVE Knowing'
  <2>1. CreateAutoSession(a, s) => s \in used' /\ s # NoId  BY <1>0 DEF CreateAutoSession, Establish
  <2> QED  BY <1>0, <1>3, <2>1 DEF Knowing, SweepOne, CreateAutoSession, sweepVars
<1>4. ASSUME NEW a \in Actors, UseRefresh(a) \/ HandshakeDone(a) PROVE Knowing'
  BY <1>0, <1>4 DEF Knowing, UseRefresh, Refresh, HandshakeDone, sweepVars
<1>5. ASSUME NEW a \in Actors, EnsureSession(a) \/ Missing(a) PROVE Knowing'
  <2>1. a \in Unthreaded  BY <1>0, <1>5 DEF EnsureSession, Missing
  <2> QED  BY <1>0, <1>5, <2>1 DEF Knowing, EnsureSession, Missing, Share, GetSession, sweepVars
<1>6. ASSUME NEW a \in Actors, Probe(a) \/ Count(a) \/ CountAgain(a) PROVE Knowing'
  BY <1>0, <1>6 DEF Knowing, Probe, Refresh, Count, CountAgain, Decide, sweepVars
<1>7. ASSUME NEW a \in Actors, Cleanup(a) \/ SweepStart(a) \/ SweepEnd(a) \/ Adopt(a) PROVE Knowing'
  BY <1>0, <1>7 DEF Knowing, Cleanup, SweepStart, SweepEnd, Adopt, sweepVars
<1>8. ASSUME NEW a \in Actors, Settle(a) PROVE Knowing'
  BY <1>0, <1>8 DEF Knowing, Settle, sweepVars
<1> QED  BY <1>1, <1>2, <1>3, <1>4, <1>5, <1>6, <1>7, <1>8, NextActs DEF Acts

\* A sweep is through with what it has left behind.
LEMMA SweptStep ==
    ASSUME SessionsTypeOK, Knowing, Swept, SessionsNext
    PROVE  Swept'
<1>1. sset' = sset /\ now' \in Nat /\ now <= now' /\ StoreStep  BY StepStores
<1>2. \A s \in live', t \in Nat : t <= now /\ Expired(s, t)' => s \in live /\ Expired(s, t)
  BY <1>1, ExpiryStays
<1>3. /\ since \in [Actors -> Nat] /\ phase \in [Actors -> SessionPhases] /\ todo \in [Actors -> SUBSET Ids]
      /\ now \in Nat /\ \A a \in Actors : since[a] <= now
  BY DEF SessionsTypeOK, Knowing, SessionPhases
\* For one sweep it is enough to follow what it has still to visit.
<1>4. SUFFICES ASSUME NEW b \in Actors, NEW s \in live', NEW t \in Nat, t = since'[b], t <= now,
                      s \in live, Expired(s, t)
               PROVE  (phase'[b] = "sweeping" => s \in todo'[b]) /\ phase'[b] # "counted"
  <2>1. \A b \in Actors : since'[b] \in Nat /\ since'[b] <= now
    BY <1>3, NextActs DEF Acts, Tick, ClearSessions, UseSession, Handshake, SweepOne, CreateAutoSession, UseRefresh,
      HandshakeDone, EnsureSession, Probe, Count, CountAgain, Cleanup, SweepStart, SweepEnd, Missing, Adopt, Settle,
      sweepVars
  <2>2. \A b \in Actors : \A s \in live' : Expired(s, since[b])' =>
          (phase'[b] = "sweeping" => s \in todo'[b]) /\ phase'[b] # "counted"
    <3> SUFFICES ASSUME NEW b \in Actors, NEW s \in live', Expired(s, since[b])'
                 PROVE  (phase'[b] = "sweeping" => s \in todo'[b]) /\ phase'[b] # "counted"
      OBVIOUS
    <3>1. PICK t \in Nat : t = since'[b] /\ t <= now  BY <2>1
    <3>2. Expired(s, t)'  BY <3>1 DEF Expired
    <3> QED  BY <1>2, <1>4, <3>1, <3>2
  <2> QED  BY <2>2 DEF Swept
<1>5. since'[b] = since[b] => (phase[b] = "sweeping" => s \in todo[b]) /\ phase[b] # "counted"
  BY <1>4 DEF Swept
<1> USE DEF SessionPhases
<1>6. CASE Tick \/ ClearSessions  BY <1>3, <1>5, <1>6 DEF Tick, ClearSessions, sweepVars
<1>7. ASSUME NEW a \in Actors, NEW x \in Ids, UseSession(a, x) \/ Handshake(a, x) \/ CreateAutoSession(a, x)
      PROVE  (phase'[b] = "sweeping" => s \in todo'[b]) /\ phase'[b] # "counted"
  BY <1>3, <1>5, <1>7 DEF UseSession, Handshake, CreateAutoSession, GetSession, sweepVars
<1>8. ASSUME NEW a \in Actors, NEW x \in Ids, SweepOne(a, x)
      PROVE  (phase'[b] = "sweeping" => s \in todo'[b]) /\ phase'[b] # "counted"
  <2>1. since' = since /\ phase' = phase /\ todo' = [todo EXCEPT ![a] = @ \ {x}]
        /\ (Expired(x, since[a]) => live' = live \ {x})
    BY <1>8 DEF SweepOne, StoreDelete
  <2>2. CASE a = b /\ x = s  BY <1>4, <2>1, <2>2
  <2>3. CASE ~(a = b /\ x = s)  BY <1>3, <1>5, <2>1, <2>3
  <2> QED  BY <2>2, <2>3
<1>9. ASSUME NEW a \in Actors,
             UseRefresh(a) \/ HandshakeDone(a) \/ EnsureSession(a) \/ Missing(a) \/ Probe(a) \/ Adopt(a)
      PROVE  (phase'[b] = "sweeping" => s \in todo'[b]) /\ phase'[b] # "counted"
  BY <1>3, <1>5, <1>9 DEF UseRefresh, Refresh, HandshakeDone, EnsureSession, Missing, Share, GetSession, Probe, Adopt,
    sweepVars
<1>10. ASSUME NEW a \in Actors, Count(a) \/ CountAgain(a) \/ Cleanup(a) \/ SweepStart(a) \/ Settle(a)
      PROVE  (phase'[b] = "sweeping" => s \in todo'[b]) /\ phase'[b] # "counted"
  BY <1>3, <1>4, <1>5, <1>10 DEF Count, CountAgain, Decide, Cleanup, SweepStart, Settle, sweepVars
<1>11. ASSUME NEW a \in Actors, SweepEnd(a)
      PROVE  (phase'[b] = "sweeping" => s \in todo'[b]) /\ phase'[b] # "counted"
  BY <1>3, <1>5, <1>11 DEF SweepEnd, sweepVars
<1> QED  BY <1>6, <1>7, <1>8, <1>9, <1>10, <1>11, NextActs DEF Acts

\* Once a session is lost to expiry or capacity, one is.
LEMMA LostStays ==
    ASSUME SessionsTypeOK, Ordered, Cardinality(live) <= MaxSessions, sset' = sset, now' \in Nat, now <= now',
           StoreStep, ~sset.mayClear, \A s \in used : s \in live \/ Lost
    PROVE  (Lost => Lost') /\ \A s \in used' : s \in live' \/ Lost'
<1>0. /\ \A s \in used : s \in used' /\ (Expired(s, now) => Expired(s, now)')
      /\ used \subseteq used' /\ used' \subseteq Ids /\ live' \subseteq used' /\ used \subseteq Ids /\ live \subseteq used
      /\ MaxSessions' = MaxSessions /\ MaxSessions \in Nat
  BY ExpiryStays, StoreKeepsTypes, SessionTypes DEF SessionsTypeOK, MaxSessions
<1>1. IsFiniteSet(used') /\ Cardinality(used') \in Nat
  BY <1>0, SessionsAssumption, FS_Subset, FS_CardinalityType
<1>2. Lost => Lost'
  <2>1. CASE \E s \in used : Expired(s, now)
    <3>1. PICK s \in used : Expired(s, now)  BY <2>1
    <3>2. s \in used' /\ Expired(s, now)'  BY <1>0, <3>1
    <3> QED  BY <3>2 DEF Lost
  <2>2. CASE Cardinality(used) > MaxSessions
    <3>1. Cardinality(used) <= Cardinality(used') /\ Cardinality(used) \in Nat
      BY <1>0, <1>1, FS_Subset, SessionTypes
    <3>2. Cardinality(used') > MaxSessions'  BY <1>0, <1>1, <2>2, <3>1
    <3> QED  BY <3>2 DEF Lost
  <2> QED  BY <2>1, <2>2 DEF Lost
<1>3. ASSUME NEW x \in Ids, Put(x), x \notin live, live \subseteq used, \E s \in live : s \notin live'
      PROVE  Lost'
  <2>1. StoreSet(x) /\ used' = used \cup {x}  BY <1>3 DEF Put
  <2>2. PICK k \in 0 .. Len(order) : Inserted(x, k)  BY <1>3, <2>1, StoreInserts
  <2>3. k > 0
    <3>1. k = 0 => Oldest(k) = {}  BY DEF Oldest
    <3>2. Len(order) \in Nat  BY DEF SessionsTypeOK
    <3> QED  BY <1>3, <2>2, <3>1, <3>2 DEF Inserted
  <2>4. Cardinality(live) >= MaxSessions /\ Cardinality(live) \in Nat /\ IsFiniteSet(live)
    BY <2>2, <2>3, SessionTypes DEF Inserted
  <2>5. IsFiniteSet(live \cup {x}) /\ Cardinality(live \cup {x}) = Cardinality(live) + 1
    BY <1>3, <2>4, FS_AddElement
  <2>6. live \cup {x} \subseteq used'  BY <1>0, <2>1
  <2>7. Cardinality(live \cup {x}) <= Cardinality(used')  BY <1>1, <2>6, FS_Subset
  <2>8. Cardinality(used') > MaxSessions'  BY <1>0, <1>1, <2>4, <2>5, <2>7
  <2> QED  BY <2>8 DEF Lost
<1>4. \A s \in used' : s \in live' \/ Lost'
  <2> SUFFICES ASSUME ~Lost, ~Lost', NEW s \in used', s \notin live' PROVE FALSE  BY <1>2
  <2>1. live = used  BY <1>0
  <2>2. CASE Rested \/ Compacted  BY <2>1, <2>2 DEF Rested, Compacted
  <2>3. CASE Cleared  BY <2>3 DEF Cleared
  <2>4. ASSUME NEW x \in Ids, Dropped(x) PROVE FALSE
    <3>1. used' = used /\ live' = live \ {x} /\ Expired(x, now)  BY <2>4 DEF Dropped, StoreDelete
    <3>2. s = x /\ s \in used  BY <2>1, <3>1
    <3> QED  BY <3>1, <3>2 DEF Lost
  <2>5. ASSUME NEW x \in Ids, Put(x) PROVE FALSE
    <3>1. used' = used \cup {x} /\ x \in live' /\ StoreSet(x)
      BY <2>5 DEF Put, StoreSet, storeVars
    <3>2. s \in live  BY <2>1, <3>1
    <3>3. x \notin live  BY <3>1, <3>2 DEF StoreSet, storeVars
    <3> QED  BY <1>0, <1>3, <2>5, <3>2, <3>3
  <2> QED  BY <2>2, <2>3, <2>4, <2>5 DEF StoreStep
<1> QED  BY <1>2, <1>4

\* While every session is live, one call creates the fallback session.
LEMMA OneCreatorStep ==
    ASSUME SessionsTypeOK, Knowing, OneCreator, SessionsNext, ~sset.mayClear,
           \A s \in used : s \in live /\ ~Expired(s, now)
    PROVE  OneCreator'
<1>0. /\ NoId \notin Actors /\ NoId \notin Ids /\ phase \in [Actors -> SessionPhases]
      /\ want \in [Actors -> Ids \cup {NoId}] /\ active \in used \cup {NoId}
      /\ \A a \in Actors : phase[a] \in {"held", "probe", "recording", "created", "settling"} =>
             want[a] \in used /\ want[a] \in Ids /\ want[a] # NoId
  BY SessionsAssumption DEF SessionsTypeOK, Knowing, SessionPhases
<1> USE DEF SessionPhases, CreatorPhases
<1>1. CASE Tick  BY <1>0, <1>1 DEF OneCreator, Tick
<1>2. ASSUME NEW a \in Actors, NEW s \in Ids, UseSession(a, s) \/ Handshake(a, s) \/ SweepOne(a, s) PROVE OneCreator'
  BY <1>0, <1>2 DEF OneCreator, UseSession, Handshake, GetSession, SweepOne
<1>3. ASSUME NEW a \in Actors, NEW s \in Ids, CreateAutoSession(a, s) PROVE OneCreator'
  <2>1. /\ phase[a] = "creating" /\ creator = a /\ auto = {}
    BY <1>3 DEF CreateAutoSession, OneCreator
  <2>2. /\ phase' = [phase EXCEPT ![a] = "created"] /\ creator' = creator /\ auto' = {s} /\ active' = active
    BY <1>3, <2>1 DEF CreateAutoSession
  <2> QED  BY <1>0, <2>1, <2>2 DEF OneCreator
<1>4. ASSUME NEW a \in Actors, UseRefresh(a) \/ HandshakeDone(a) PROVE OneCreator'
  BY <1>0, <1>4 DEF OneCreator, UseRefresh, Refresh, HandshakeDone
<1>5. ASSUME NEW a \in Actors, EnsureSession(a) PROVE OneCreator'
  <2>1. auto' = auto /\ active' = active /\ phase[a] = "idle"  BY <1>5 DEF EnsureSession
  <2>2. CASE active # NoId
    <3>1. phase' = [phase EXCEPT ![a] = "probe"] /\ creator' = creator
      BY <1>0, <1>5, <2>2 DEF EnsureSession, GetSession
    <3> QED  BY <1>0, <2>1, <3>1 DEF OneCreator
  <2>3. CASE active = NoId
    <3>1. Share(a)  BY <1>5, <2>3 DEF EnsureSession
    <3>2. CASE creator' = creator /\ (phase' = [phase EXCEPT ![a] = "done"] \/ phase' = [phase EXCEPT ![a] = "joining"])
      BY <1>0, <2>1, <3>2 DEF OneCreator
    <3>3. CASE creator = NoId /\ creator' = a /\ phase' = [phase EXCEPT ![a] = "creating"]
      <4>1. auto = {} /\ \A b \in Actors : phase[b] \notin {"creating", "created", "settling"}
        BY <1>0, <2>3, <3>3 DEF OneCreator
      <4> QED  BY <1>0, <2>1, <3>3, <4>1 DEF OneCreator
    <3> QED  BY <3>1, <3>2, <3>3 DEF Share
  <2> QED  BY <2>2, <2>3
<1>6. ASSUME NEW a \in Actors, Missing(a) PROVE OneCreator'  BY <1>6 DEF Missing, OneCreator
<1>7. ASSUME NEW a \in Actors, Probe(a) PROVE OneCreator'
  <2>1. ~Expired(want[a], now)  BY <1>0, <1>7 DEF Probe
  <2> QED  BY <1>0, <1>7, <2>1 DEF OneCreator, Probe, Refresh
<1>8. ASSUME NEW a \in Actors, Count(a) \/ CountAgain(a) \/ Cleanup(a) \/ SweepStart(a) \/ SweepEnd(a) PROVE OneCreator'
  BY <1>0, <1>8 DEF OneCreator, Count, CountAgain, Decide, Cleanup, SweepStart, SweepEnd
<1>9. ASSUME NEW a \in Actors, Adopt(a) PROVE OneCreator'
  BY <1>0, <1>9 DEF OneCreator, Adopt
<1>10. ASSUME NEW a \in Actors, Settle(a) PROVE OneCreator'
  <2>1. /\ phase[a] = "settling" /\ creator = a /\ active # NoId /\ auto' = auto /\ active' = active /\ creator' = NoId
        /\ \A b \in Actors : phase'[b] = phase[b] \/ phase'[b] = "done"
        /\ phase'[a] = "done"
    BY <1>10 DEF Settle, OneCreator
  <2>2. \A b \in Actors : phase[b] \in CreatorPhases => b = a  BY <2>1 DEF OneCreator
  <2>3. \A b \in Actors : phase'[b] \notin CreatorPhases /\ phase'[b] # "missing"
    BY <2>1, <2>2 DEF OneCreator
  <2> QED  BY <2>1, <2>3 DEF OneCreator
<1> QED  BY <1>1, <1>2, <1>3, <1>4, <1>5, <1>6, <1>7, <1>8, <1>9, <1>10, NextActs DEF Acts, ClearSessions

LEMMA FallbackStep ==
    ASSUME SessionsInv, SessionsNext
    PROVE  Fallback'
<1>1. sset' = sset /\ now' \in Nat /\ now <= now' /\ StoreStep  BY StepStores DEF SessionsInv
<1>2. SUFFICES ASSUME ~sset.mayClear PROVE (\A s \in used' : s \in live' \/ Lost') /\ (Lost' \/ OneCreator')
  BY <1>1 DEF Fallback
<1>3. (\A s \in used : s \in live \/ Lost) /\ (Lost \/ OneCreator)  BY <1>2 DEF SessionsInv, Fallback
<1>4. (Lost => Lost') /\ \A s \in used' : s \in live' \/ Lost'  BY <1>1, <1>2, <1>3, LostStays DEF SessionsInv
<1>5. ASSUME ~Lost PROVE OneCreator'
  <2>1. \A s \in used : s \in live /\ ~Expired(s, now)  BY <1>3, <1>5 DEF Lost
  <2> QED  BY <1>2, <1>3, <1>5, <2>1, OneCreatorStep DEF SessionsInv
<1> QED  BY <1>4, <1>5

LEMMA SessionsInitially == SessionsInit => SessionsInv
<1> SUFFICES ASSUME SessionsInit PROVE SessionsInv  OBVIOUS
<1>1. Cardinality({}) = 0 /\ sset \in SessionSettings  BY FS_EmptySet DEF SessionsInit
<1>2. SessionsTypeOK
  <2>1. << >> \in Seq({})  OBVIOUS
  <2> QED  BY <1>1, <2>1 DEF SessionsInit, SessionsTypeOK
<1>3. MaxSessions \in Nat  BY <1>2, SessionTypes
<1>4. Knowing /\ Ordered /\ Swept
  BY DEF SessionsInit, Knowing, Ordered, Swept, FallbackPhases
<1>5. Fallback  BY DEF SessionsInit, Fallback, OneCreator, CreatorPhases
<1> QED  BY <1>1, <1>2, <1>3, <1>4, <1>5 DEF SessionsInv, SessionsInit

LEMMA SessionsStep == SessionsInv /\ [SessionsNext]_sessionVars => SessionsInv'
<1> SUFFICES ASSUME SessionsInv, [SessionsNext]_sessionVars PROVE SessionsInv'  OBVIOUS
<1>1. CASE SessionsNext
  <2>1. sset' = sset /\ now' \in Nat /\ now <= now' /\ StoreStep  BY <1>1, StepStores DEF SessionsInv
  <2>2. SessionsTypeOK' /\ Cardinality(live') <= MaxSessions'  BY <1>1, SessionTypesStay DEF SessionsInv
  <2>3. used \subseteq used'  BY <2>1, StoreKeepsTypes DEF SessionsInv
  <2> QED  BY <1>1, <2>1, <2>2, <2>3, KnowingStep, OrderedStep, SweptStep, FallbackStep DEF SessionsInv
<1>2. CASE UNCHANGED sessionVars
  BY <1>2 DEF SessionsInv, sessionVars, storeVars, sweepVars, SessionsTypeOK, MaxSessions, Knowing, Ordered, Swept, Expired,
    Fallback, Lost, OneCreator
<1> QED  BY <1>1, <1>2

LEMMA SessionsInvariant == SessionsSpec => []SessionsInv
BY SessionsInitially, SessionsStep, PTL DEF SessionsSpec

\* MemorySessionStore, ensureSession and createAutoSession: every session can be evicted, and the fallback
\* does not make itself ambiguous.
THEOREM StoreStaysSound == SessionsSpec => []StoreSound
<1>1. SessionsInv => StoreSound
  <2> SUFFICES ASSUME SessionsInv PROVE StoreSound  OBVIOUS
  <2>0. SessionsTypeOK /\ Ordered /\ Fallback /\ Cardinality(live) <= MaxSessions  BY DEF SessionsInv
  <2>1. ASSUME NEW s \in live PROVE Cardinality({k \in DOMAIN order : order[k] = s}) = 1
    <3>1. PICK j \in DOMAIN order : order[j] = s  BY <2>0 DEF Ordered
    <3>2. \A k \in DOMAIN order : order[k] = s => k = j
      <4> SUFFICES ASSUME NEW k \in DOMAIN order, order[k] = s, k # j PROVE FALSE  OBVIOUS
      <4>0. live \subseteq used /\ used \subseteq Ids /\ place \in [Ids -> Nat] /\ order \in Seq(used)
        BY <2>0 DEF SessionsTypeOK
      <4>1. k \in Nat /\ j \in Nat /\ s \in Ids /\ place[s] \in Nat  BY <4>0
      <4>2. k < j \/ j < k  BY <4>1
      <4>3. place[s] < place[s]  BY <2>0, <3>1, <4>2 DEF Ordered
      <4> QED  BY <4>1, <4>3
    <3>3. {k \in DOMAIN order : order[k] = s} = {j}  BY <3>1, <3>2
    <3> QED  BY <3>3, FS_Singleton
  <2>2. OneAutoSession
    <3> SUFFICES ASSUME ~sset.mayClear, \A s \in used : s \in live /\ ~Expired(s, now)
                 PROVE  Cardinality(auto) <= 1
      BY DEF OneAutoSession
    <3>1. used = live  BY <2>0 DEF SessionsTypeOK
    <3>2. ~(Cardinality(used) > MaxSessions)  BY <2>0, <3>1, SessionTypes
    <3>3. OneCreator  BY <2>0, <3>2 DEF Fallback, Lost
    <3>4. auto = {} \/ \E s : auto = {s}  BY <3>3 DEF OneCreator
    <3>5. Cardinality(auto) = 0 \/ Cardinality(auto) = 1  BY <3>4, FS_EmptySet, FS_Singleton
    <3> QED  BY <3>5
  <2> QED  BY <2>0, <2>1, <2>2 DEF StoreSound, LiveOnceInOrder
<1> QED  BY <1>1, SessionsInvariant, PTL

\* evictIfNeeded takes the session inserted longest ago.
LEMMA EvictionStep ==
    ASSUME SessionsTypeOK, Ordered, StoreStep
    PROVE  EvictsOldest
<1> SUFFICES ASSUME NEW s \in live \ live', NEW y \in live' \ live, NEW v \in live \cap live'
             PROVE  place[s] < place[v]
  BY DEF EvictsOldest
<1>1. PICK x \in Ids : Put(x) /\ x \notin live
  BY DEF StoreStep, Rested, Cleared, Compacted, Dropped, StoreDelete, Put, StoreSet, storeVars
<1>2. PICK k \in 0 .. Len(order) : Inserted(x, k)  BY <1>1, StoreInserts DEF Put
<1>3. live' = (live \ Oldest(k)) \cup {x}  BY <1>2 DEF Inserted
<1>4. PICK i \in 1 .. k : order[i] = s  BY <1>3 DEF Oldest
<1>5. PICK j \in DOMAIN order : order[j] = v  BY DEF Ordered
<1>6. DOMAIN order = 1 .. Len(order) /\ Len(order) \in Nat  BY DEF SessionsTypeOK
<1>7. v \notin Oldest(k)  BY <1>1, <1>3
<1>8. j \notin 1 .. k  BY <1>5, <1>7 DEF Oldest
<1>9. i \in DOMAIN order /\ i < j  BY <1>2, <1>5, <1>6, <1>8
<1> QED  BY <1>4, <1>5, <1>9 DEF Ordered

\* resolveSessionId refuses the fallback when there is more than one session to choose from.
LEMMA AmbiguityStep ==
    ASSUME SessionsTypeOK, Knowing, Swept, SessionsNext
    PROVE  AmbiguousOnlyIfSeveral
<1> SUFFICES ASSUME NEW c \in Unthreaded, result'[c] = "ambiguous", result[c] # "ambiguous"
             PROVE  \/ phase[c] = "count" /\ lastSweep # NoId /\ now - lastSweep < SweepInterval
                    \/ phase[c] = "counted" /\ Cardinality({s \in live : ~Expired(s, since[c])}) > 1
  BY DEF AmbiguousOnlyIfSeveral
<1>0. /\ c \in Actors /\ "ambiguous" \notin Ids /\ NoId # "ambiguous" /\ Cardinality(live) \in Nat
      /\ result \in [Actors -> Ids \cup {NoId, "ambiguous"}] /\ active \in Ids \cup {NoId}
      /\ want \in [Actors -> Ids \cup {NoId}]
  BY SessionsAssumption, SessionTypes DEF SessionsTypeOK, Actors
<1>1. ASSUME NEW a \in Actors, Count(a)
      PROVE  phase[c] = "count" /\ lastSweep # NoId /\ now - lastSweep < SweepInterval
  BY <1>0, <1>1 DEF Count, Decide, RecentlySwept
<1>2. ASSUME NEW a \in Actors, CountAgain(a)
      PROVE  phase[c] = "counted" /\ Cardinality({s \in live : ~Expired(s, since[c])}) > 1
  <2>1. a = c /\ phase[c] = "counted" /\ Cardinality(live) > 1
    BY <1>0, <1>2 DEF CountAgain, Decide
  <2>2. {s \in live : ~Expired(s, since[c])} = live  BY <1>0, <2>1 DEF Swept
  <2> QED  BY <2>1, <2>2
<1>3. ASSUME NEW a \in Actors, UseRefresh(a) \/ Settle(a) PROVE FALSE
  BY <1>0, <1>3 DEF UseRefresh, Settle
<1>4. result' # result  OBVIOUS
<1> QED  BY <1>1, <1>2, <1>3, <1>4, NextActs DEF Acts, Tick, ClearSessions, UseSession, Handshake, SweepOne,
         CreateAutoSession, HandshakeDone, EnsureSession, Probe, Cleanup, SweepStart, SweepEnd, Missing, Adopt

\* MemorySessionStore.set and resolveSessionId: the store gives up its oldest session, and the fallback is
\* refused only when there is a choice.
THEOREM SessionsGiveUpRightly == SessionsSpec => GivesUpRightly
<1>1. SessionsInv /\ [SessionsNext]_sessionVars => [EvictsOldest /\ AmbiguousOnlyIfSeveral]_sessionVars
  <2> SUFFICES ASSUME SessionsInv, SessionsNext PROVE EvictsOldest /\ AmbiguousOnlyIfSeveral  OBVIOUS
  <2>1. StoreStep  BY StepStores DEF SessionsInv
  <2> QED  BY <2>1, EvictionStep, AmbiguityStep DEF SessionsInv
<1> QED  BY <1>1, SessionsInvariant, PTL DEF SessionsSpec, GivesUpRightly
=============================================================================
