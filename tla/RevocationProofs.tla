-------------------------- MODULE RevocationProofs --------------------------
(***************************************************************************)
(* Machine-checked proofs about the revocation of delegations, for every   *)
(* forest of delegations, every set of operations and every setting: what  *)
(* a revocation that succeeded leaves behind in the graph and in the       *)
(* status list, whatever runs beside it; for every setting and every age   *)
(* of caches and responses, what is read from a ledger and written to it;  *)
(* and, for every setting, what is earned by whoever is authorised.        *)
(***************************************************************************)
EXTENDS Revocation, Cheqd, Authorization, FiniteSetTheorems, FunctionTheorems, SequenceTheorems, WellFoundedInduction, TLAPS

-----------------------------------------------------------------------------
(* The inductive invariant.                                                *)

ListPoints == {"list", "create", "publish"}
RegisterPoints == {"existing", "insert", "set", "link", "push", "rollback"}
MarkPoints == {"write", "back", "marked"}

\* Only operations of one kind come to a point.
Courses(o) ==
    /\ pc[o] \in RegisterPoints => Kind(o) = "register"
    /\ pc[o] \in {"parent", "unlink", "delete"} => Kind(o) = "remove"
    /\ pc[o] \in {"ensure", "create"} => Kind(o) = "allocate"
    /\ pc[o] \in {"depth", "mark", "descend", "next"} => Kind(o) = "revoke"
    /\ pc[o] \in {"unpublish", "unmark"} => Kind(o) = "restore"
    /\ pc[o] \in MarkPoints \cup {"publish"} => Kind(o) \in {"revoke", "restore"}
    /\ pc[o] = "list" => Kind(o) \in {"allocate", "revoke", "restore"}
    /\ pc[o] \in {"walk", "valid"} => Kind(o) = "check"

HasEntry(n) == n \in Listed => entry[n] # None

\* What an operation knows from what it has read: that nodes it read are delegations
\* with their entries, and the object it read.
Knows(o) ==
    /\ o \notin setting.ops => pc[o] = "idle"
    /\ pc[o] \in RegisterPoints => HasEntry(Node(o))
    /\ pc[o] \in {"link", "push", "parent", "unlink"} => Parent[Node(o)] # None
    /\ pc[o] \in {"push", "unlink"} => ref[o] # 0 /\ HasEntry(Parent[Node(o)])
    /\ pc[o] \in MarkPoints => cur[o] \in Nodes /\ HasEntry(cur[o])
    /\ pc[o] = "write" => ref[o] # 0
    /\ pc[o] \in ListPoints /\ Kind(o) # "allocate" =>
         cur[o] \in Nodes /\ cur[o] \in Listed /\ HasEntry(cur[o])
    /\ pc[o] = "unpublish" => Node(o) \in Listed /\ HasEntry(Node(o))
    /\ Kind(o) = "restore" /\ pc[o] \notin {"idle", "done", "failed"} => cur[o] = Node(o)
    /\ Node(o) \notin left[o]

\* A stored delegation has its entry.
StoredHaveEntries == \A n \in Nodes : at[n] # 0 => HasEntry(n)

Controlled == Shapes /\ StoredHaveEntries /\ \A o \in Ops : Courses(o) /\ Knows(o)

\* The locks: who waits is in the queue of its manager, once; who reads and writes
\* the list is at its head.
Queued ==
    /\ \A m \in Managers : \A j, k \in DOMAIN queue[m] :
         /\ pc[queue[m][j]] \in ListPoints /\ Op[queue[m][j]].manager = m
         /\ queue[m][j] = queue[m][k] => j = k
    /\ \A o \in Ops : pc[o] \in {"create", "publish"} => Holds(o)

\* Entries: usable, below the counter, and not the index of an allocation under way.
Allocating(o) == Kind(o) = "allocate" /\ pc[o] \in {"ensure", "list", "create"}
Allotted ==
    /\ EntriesUsable
    /\ \A n \in Nodes : entry[n] # None => entry[n] < counter
    /\ \A o \in Ops : Allocating(o) =>
         /\ entry[Node(o)] = None
         /\ \E i \in 0 .. counter - 1 : copy[o] = {i} /\ \A n \in Nodes : entry[n] # i
         /\ \A q \in Ops : Allocating(q) /\ q # o => copy[q] \cap copy[o] = {}

\* With one manager, what the holder of the lock has read is what is published.
ReadCurrent ==
    OneManager => \A o \in Ops :
        /\ pc[o] = "publish" => list = {copy[o]}
        /\ pc[o] = "create" => list = {}

\* No restoreDelegation of n has cleared anything so far.
Unrestored(n) ==
    \A r \in Called({"restore"}) :
        Node(r) = n => pc[r] \in {"idle", "unpublish", "list", "publish"}

\* A revocation that is through with its target: past its bit, and past its mark.
ThroughBit(o) ==
    \/ pc[o] \in {"descend", "next", "done"}
    \/ pc[o] \in MarkPoints \cup ListPoints /\ cur[o] # Node(o)
ThroughMark(o) == ThroughBit(o) \/ pc[o] \in {"back", "marked"} \cup ListPoints

TargetsPublished ==
    OneManager => \A o \in Called({"revoke"}) :
        ThroughBit(o) /\ Node(o) \in Listed /\ Unrestored(Node(o)) => BitSet(Node(o))

\* A storage that drops the field never shows a mark, and who saw one has none such.
MarksDropped ==
    /\ setting.dropsMark => \A i \in DOMAIN heap : ~heap[i].revoked
    /\ \A o \in Called({"revoke"}) :
         /\ pc[o] = "marked" /\ back[o] => ~setting.dropsMark
         /\ ThroughBit(o) /\ Node(o) \notin Listed => ~setting.dropsMark

\* While no registration is made in parts and nothing is removed, no one writes back a
\* stale copy, and a mark stays.
Quiet == Called({"remove"}) = {} /\ (setting.atomic \/ Called({"register"}) = {})

TargetsMarked ==
    Quiet /\ ~setting.dropsMark => \A o \in Called({"revoke"}) :
        ThroughMark(o) /\ Unrestored(Node(o)) => Marked(Node(o))

Direct ==
    Quiet =>
        /\ \A o \in Ops : pc[o] \notin {"set", "link", "push", "rollback", "parent", "unlink", "delete"}
        /\ \A o \in Ops : pc[o] \in MarkPoints => at[cur[o]] # 0
        /\ \A n \in Nodes : at[n] # 0 => \A k \in DOMAIN Path[n] : at[Path[n][k]] # 0

\* The cascade, while the graph has the delegations it had at the beginning: every
\* link is in a children list, and every descendant is still to be visited, under
\* way, or reached.
Undisturbed == ~setting.dropsMark /\ Called({"register", "remove", "restore"}) = {}
Kids(n) == {d \in setting.registered : Parent[d] = n}
Under(n) == {d \in setting.registered \ {n} : \E k \in DOMAIN Path[d] : Path[d][k] = n}
Reached(d) == Marked(d) /\ (OneManager /\ d \in Listed => BitSet(d))

Cascading ==
    Undisturbed =>
        /\ \A n \in Nodes : at[n] # 0 <=> n \in setting.registered
        /\ \A n \in Nodes : at[n] # 0 => heap[at[n]].children = Kids(n)
        /\ \A o \in Ops : pc[o] = "write" => heap[ref[o]].children = Kids(cur[o])
        /\ \A o \in Called({"revoke"}) :
             ThroughBit(o) /\ pc[o] # "descend" => \A d \in Under(Node(o)) :
                \/ d \in left[o] /\ pc[o] # "done"
                \/ pc[o] \in MarkPoints \cup ListPoints /\ d = cur[o] /\ (pc[o] = "write" \/ Marked(d))
                \/ Reached(d)

\* A check that is due has yet to come to an item that it will not pass.
Doomed(x) ==
    \/ x.marked
    \/ OneManager /\ BitSet(x.node) /\ \A r \in Called({"restore"}) : Node(r) # x.node
ChecksDue ==
    NoStaleCopies /\ (OneManager \/ ~setting.dropsMark) =>
        \A o \in due :
            \/ pc[o] \in {"revoked", "failed"}
            \/ pc[o] = "walk" /\ \E k \in DOMAIN chain[o] : Doomed(chain[o][k])

RevocationInv ==
    /\ Controlled /\ Queued /\ Allotted /\ ReadCurrent /\ TargetsPublished
    /\ MarksDropped /\ Direct /\ TargetsMarked /\ Cascading /\ ChecksDue

-----------------------------------------------------------------------------
(* The constants.                                                          *)

\* The fields of a call.
LEMMA OpTypes ==
    \A o \in Ops : Node(o) \in Nodes /\ Kind(o) \in Kinds /\ Op[o].manager \in Managers
BY RevocationAssumption DEF Node, Kind

\* The fields of the setting.
LEMMA SettingTypes ==
    ASSUME Shapes
    PROVE  /\ setting \in Settings /\ setting.ops \subseteq Ops /\ setting.registered \subseteq Nodes
           /\ setting.capacity \in Nat
BY RevocationAssumption DEF Shapes, OpShapes, SettingType

\* The largest element of a set of positions.
LEMMA MaxExists ==
    ASSUME NEW n \in Nat, NEW S \in SUBSET (1 .. n), S # {}
    PROVE  Max(S) \in S /\ \A y \in S : Max(S) >= y
<1> DEFINE T == {k \in Nat : n - k \in S}
<1>1. T \subseteq Nat /\ T # {}
  <2>1. PICK x \in S : TRUE  OBVIOUS
  <2>2. n - x \in Nat /\ n - (n - x) = x  BY <2>1
  <2> QED  BY <2>1, <2>2
<1>2. PICK k \in T : \A j \in T : ~ (<<j, k>> \in OpToRel(<, Nat))
  BY <1>1, NatLessThanWellFounded, WFMin
<1>3. \A j \in T : ~(j < k)  BY <1>1, <1>2 DEF OpToRel
<1>4. n - k \in S /\ k \in Nat  BY <1>2
<1>5. \A y \in S : n - k >= y
  <2> SUFFICES ASSUME NEW y \in S PROVE n - k >= y  OBVIOUS
  <2>1. y \in 1 .. n  OBVIOUS
  <2>2. n - y \in Nat /\ n - (n - y) = y  BY <2>1
  <2>3. n - y \in T  BY <2>2
  <2> HIDE DEF T
  <2> QED  BY <2>3, <2>1, <2>2, <1>3, <1>4
<1> QED  BY <1>4, <1>5 DEF Max

\* A chain as it is read consists of delegations.
LEMMA ChainTypes ==
    ASSUME NEW n \in Nodes
    PROVE  Path[n] \in Seq(Nodes) /\ GetChain(n) \in Seq(Nodes)
<1> DEFINE gaps == {k \in DOMAIN Path[n] : at[Path[n][k]] = 0}
<1>1. Path[n] \in Seq(Nodes)  BY ForestAssumption
<1>2. CASE gaps = {}  BY <1>1, <1>2 DEF GetChain
<1>3. CASE gaps # {}
  <2>1. PICK p \in Seq(Nodes) : p = Path[n]  BY <1>1
  <2>2. gaps \in SUBSET (1 .. Len(p)) /\ Len(p) \in Nat  BY <2>1
  <2>3. Max(gaps) \in 1 .. Len(p)
    <3> HIDE DEF gaps
    <3> QED  BY <1>3, <2>2, MaxExists
  <2>4. SubSeq(p, Max(gaps) + 1, Len(p)) \in Seq(Nodes)
    <3>1. PICK m \in 1 .. Len(p) : m = Max(gaps)  BY <2>3
    <3>2. m + 1 \in 1 .. Len(p) + 1  BY <2>2
    <3>3. SubSeq(p, m + 1, Len(p)) \in Seq(Nodes)  BY ONLY <2>1, <2>2, <3>2, SubSeqProperties
    <3> QED  BY <3>1, <3>3
  <2> QED  BY <1>1, <1>3, <2>1, <2>4 DEF GetChain
<1> QED  BY <1>1, <1>2, <1>3

-----------------------------------------------------------------------------
(* Steps.                                                                  *)

\* What the other operations carry stays as it is.
Elsewhere(o) ==
    \A q \in Ops \ {o} :
        /\ pc'[q] = pc[q] /\ cur'[q] = cur[q] /\ ref'[q] = ref[q] /\ back'[q] = back[q]
        /\ left'[q] = left[q] /\ copy'[q] = copy[q] /\ chain'[q] = chain[q]

\* A step changes what its own operation carries.
LEMMA ElsewhereHolds == ASSUME Shapes, NEW o \in Ops, Step(o) PROVE Elsewhere(o)
<1>1. CASE \/ RegisterStart(o) \/ RegisterExisting(o) \/ RegisterNodeAtomic(o) \/ RegisterSet(o)
           \/ LinkRead(o) \/ LinkWrite(o) \/ Rollback(o)
  BY <1>1 DEF Shapes, GraphShapes, ListShapes, OpShapes, Elsewhere, RegisterStart, Goto, localVars,
    RegisterExisting, RegisterNodeAtomic, RegisterSet, LinkRead, LinkWrite, Rollback
<1>2. CASE RemoveStart(o) \/ RemoveParent(o) \/ RemoveUnlink(o) \/ RemoveDelete(o)
  BY <1>2 DEF Shapes, GraphShapes, ListShapes, OpShapes, Elsewhere, RemoveStart, Goto, localVars, RemoveParent,
    RemoveUnlink, RemoveDelete
<1>3. CASE AllocateIndex(o) \/ EnsureStatusListExists(o) \/ CreateRead(o) \/ CreateWrite(o)
  BY <1>3 DEF Shapes, GraphShapes, ListShapes, OpShapes, Elsewhere, AllocateIndex, Goto, localVars,
    EnsureStatusListExists, CreateRead, Allocated, CreateWrite
<1>4. CASE RevokeStart(o) \/ Depth(o) \/ MarkTarget(o) \/ MarkWrite(o) \/ MarkBack(o) \/ NodeMarked(o)
  BY <1>4 DEF Shapes, GraphShapes, ListShapes, OpShapes, Elsewhere, RevokeStart, Goto, localVars, Depth,
    MarkTarget, MarkRead, MarkWrite, MarkBack, NodeMarked
<1>5. CASE UpdateRead(o) \/ UpdateWrite(o)
  BY <1>5 DEF Shapes, GraphShapes, ListShapes, OpShapes, Elsewhere, UpdateRead, Goto, localVars, UpdateWrite
<1>6. CASE Descend(o) \/ (\E n \in Nodes : RevokeNext(o, n)) \/ RevokeDone(o)
  BY <1>6 DEF Shapes, GraphShapes, ListShapes, OpShapes, Elsewhere, Descend, Goto, localVars, RevokeNext, MarkRead,
    RevokeDone
<1>7. CASE RestoreStart(o) \/ RestoreUpdate(o)
  BY <1>7 DEF Shapes, GraphShapes, ListShapes, OpShapes, Elsewhere, RestoreStart, Goto, localVars, RestoreUpdate
<1>8. CASE CheckStart(o) \/ CheckNode(o) \/ CheckChain(o)
  BY <1>8 DEF Shapes, GraphShapes, ListShapes, OpShapes, Elsewhere, CheckStart, Goto, localVars, CheckNode,
    CheckChain
<1> QED  BY <1>1, <1>2, <1>3, <1>4, <1>5, <1>6, <1>7, <1>8 DEF Step

\* What a parent field names, unless it is None.
LEMMA ParentTypes == \A n \in Nodes : Parent[n] # None => Parent[n] \in Nodes
BY RevocationAssumption

Objects == [children: SUBSET Nodes, revoked: BOOLEAN]

\* What is in the heap.
LEMMA ObjectTypes ==
    ASSUME GraphShapes
    PROVE  /\ heap \in Seq(Objects)
           /\ \A r \in 1 .. Len(heap) : heap[r] \in Objects /\ heap[r].children \in SUBSET Nodes
<1>1. heap \in Seq(Objects)  BY DEF GraphShapes, Objects
<1>2. \A r \in 1 .. Len(heap) : heap[r] \in Objects  BY <1>1
<1>3. \A x \in Objects : x.children \in SUBSET Nodes  BY DEF Objects
<1> QED  BY <1>1, <1>2, <1>3

\* setNode keeps the shapes: with a new object, and with one that was read.
LEMMA StoreNewShapes ==
    ASSUME GraphShapes, ref' = ref, NEW n \in Nodes, NEW object \in Objects, StoreNew(n, object)
    PROVE  GraphShapes'
<1>1. heap' \in Seq(Objects) /\ Len(heap') = Len(heap) + 1  BY DEF GraphShapes, StoreNew, Objects
<1>2. Len(heap) \in Nat /\ 0 .. Len(heap) \subseteq 0 .. Len(heap')  BY <1>1 DEF GraphShapes
<1>3. at' \in [Nodes -> 0 .. Len(heap')] /\ ref' \in [Ops -> 0 .. Len(heap')]
  BY <1>1, <1>2 DEF GraphShapes, StoreNew
<1> QED  BY <1>1, <1>3 DEF GraphShapes, Objects

\* setNode with an object that was read, its children changed in place.
LEMMA StoreBackShapes ==
    ASSUME GraphShapes, ref' = ref, NEW n \in Nodes, NEW r \in 1 .. Len(heap),
           NEW children \in SUBSET Nodes, StoreBack(n, r, children)
    PROVE  GraphShapes'
<1>1. heap' \in Seq(Objects) /\ Len(heap') = Len(heap)
  <2>1. heap \in Seq(Objects) /\ heap[r] \in Objects  BY ObjectTypes
  <2>2. [heap[r] EXCEPT !.children = children] \in Objects  BY <2>1 DEF Objects
  <2> QED  BY <2>1, <2>2 DEF StoreBack
<1>2. at' \in [Nodes -> 0 .. Len(heap')] /\ ref' \in [Ops -> 0 .. Len(heap')]
  BY <1>1 DEF GraphShapes, StoreBack
<1> QED  BY <1>1, <1>2 DEF GraphShapes, Objects

\* registerNodeAtomic adds one object, or one and the linked copy of the parent.
LEMMA InsertShapes ==
    ASSUME GraphShapes, ref' = ref, NEW n \in Nodes, NEW parent,
           parent # None => parent \in Nodes /\ at[parent] # 0, InsertLinked(n, parent)
    PROVE  GraphShapes' /\ Len(heap) <= Len(heap')
<1>1. heap \in Seq(Objects) /\ Len(heap) \in Nat  BY DEF GraphShapes, Objects
<1>2. NewNode \in Objects  BY DEF NewNode, Objects
<1>3. CASE parent = None
  <2>1. heap' = heap \o <<NewNode>> \o <<>>  BY <1>3 DEF InsertLinked
  <2>2. heap' \in Seq(Objects) /\ Len(heap') = Len(heap) + 1  BY ONLY <1>1, <1>2, <2>1
  <2>3. 0 .. Len(heap) \subseteq 0 .. Len(heap') /\ Len(heap) + 1 \in 0 .. Len(heap')  BY ONLY <1>1, <2>2
  <2>4. \A x \in Nodes : at'[x] \in {Len(heap) + 1, at[x]}
    <3>1. None \notin Nodes  BY RevocationAssumption
    <3> QED  BY <1>3, <3>1 DEF InsertLinked
  <2>5. at' \in [Nodes -> 0 .. Len(heap')]
    <3>1. at' = [x \in Nodes |-> at'[x]]  BY DEF InsertLinked
    <3>2. \A x \in Nodes : at[x] \in 0 .. Len(heap)  BY DEF GraphShapes
    <3>3. \A x \in Nodes : at'[x] \in 0 .. Len(heap')  BY ONLY <2>3, <2>4, <3>2
    <3> QED  BY ONLY <3>1, <3>3
  <2> QED  BY <1>1, <2>2, <2>3, <2>5 DEF GraphShapes, Objects
<1>4. CASE parent # None
  <2> DEFINE linked == [heap[at[parent]] EXCEPT !.children = @ \cup {n}]
  <2>1. heap' = heap \o <<NewNode>> \o <<linked>>  BY <1>4 DEF InsertLinked
  <2>2. linked \in Objects
    <3>1. at[parent] \in 1 .. Len(heap)  BY <1>1, <1>4 DEF GraphShapes
    <3>2. heap[at[parent]] \in Objects  BY <1>1, <3>1
    <3> QED  BY <3>2 DEF Objects
  <2> HIDE DEF linked
  <2>3. heap' \in Seq(Objects) /\ Len(heap') = Len(heap) + 2  BY ONLY <1>1, <1>2, <2>1, <2>2
  <2>4. 0 .. Len(heap) \subseteq 0 .. Len(heap') /\ {Len(heap) + 1, Len(heap) + 2} \subseteq 0 .. Len(heap')
    BY ONLY <1>1, <2>3
  <2>5. \A x \in Nodes : at'[x] \in {Len(heap) + 1, Len(heap) + 2, at[x]}  BY DEF InsertLinked
  <2>6. at' \in [Nodes -> 0 .. Len(heap')]
    <3>1. at' = [x \in Nodes |-> at'[x]]  BY DEF InsertLinked
    <3>2. \A x \in Nodes : at[x] \in 0 .. Len(heap)  BY DEF GraphShapes
    <3>3. \A x \in Nodes : at'[x] \in 0 .. Len(heap')  BY ONLY <2>4, <2>5, <3>2
    <3> QED  BY ONLY <3>1, <3>3
  <2> QED  BY <1>1, <2>3, <2>4, <2>6 DEF GraphShapes, Objects
<1> QED  BY <1>3, <1>4

\* Every stored node keeps an object.
LEMMA GraphShapesStep ==
    ASSUME Controlled, NEW o \in setting.ops, Step(o), setting' = setting
    PROVE  GraphShapes'
<1>0. o \in Ops  BY SettingTypes DEF Controlled
<1>u. CASE UNCHANGED <<heap, at, ref>>  BY <1>u DEF Controlled, Shapes, GraphShapes
<1>r. CASE \/ RegisterStart(o) \/ RegisterExisting(o) \/ RemoveStart(o) \/ AllocateIndex(o)
           \/ EnsureStatusListExists(o) \/ CreateRead(o) \/ CreateWrite(o) \/ RevokeStart(o) \/ Depth(o)
           \/ MarkBack(o) \/ NodeMarked(o) \/ UpdateRead(o) \/ UpdateWrite(o) \/ Descend(o) \/ RevokeDone(o)
           \/ RestoreStart(o) \/ RestoreUpdate(o) \/ CheckStart(o) \/ CheckNode(o) \/ CheckChain(o)
  BY <1>u, <1>r DEF RegisterStart, RegisterExisting, RemoveStart, AllocateIndex, EnsureStatusListExists, Enter,
    CreateRead, Allocated, Release, Fits, CreateWrite, RevokeStart, Depth, MarkBack, NodeMarked, AfterMark,
    UpdateRead, UpdateWrite, Descend, RevokeDone, RestoreStart, RestoreUpdate, CheckStart, CheckNode, CheckChain,
    graphVars, localVars
<1>1. CASE RegisterNodeAtomic(o)
  <2>1. Node(o) \in Nodes /\ (Parent[Node(o)] # None => Parent[Node(o)] \in Nodes)  BY <1>0, OpTypes, ParentTypes
  <2>2. ref' = ref  BY <1>1 DEF RegisterNodeAtomic, localVars
  <2>3. \/ UNCHANGED graphVars
        \/ /\ InsertLinked(Node(o), Parent[Node(o)])
           /\ Parent[Node(o)] # None => at[Parent[Node(o)]] # 0
    BY <1>1 DEF RegisterNodeAtomic
  <2> QED  BY <1>u, <2>1, <2>2, <2>3, InsertShapes DEF graphVars, Controlled, Shapes
<1>2. CASE RegisterSet(o)
  <2>1. NewNode \in Objects  BY DEF NewNode, Objects
  <2> QED  BY <1>0, <1>2, <2>1, OpTypes, StoreNewShapes DEF Controlled, Shapes, RegisterSet, localVars
<1>3. CASE LinkRead(o)
  <2>1. Parent[Node(o)] \in Nodes  BY <1>0, <1>3, OpTypes, ParentTypes DEF Controlled, Knows, LinkRead
  <2> QED  BY <1>0, <1>3, <2>1 DEF Controlled, Shapes, GraphShapes, LinkRead, graphVars
<1>4. CASE LinkWrite(o)
  <2>1. Parent[Node(o)] \in Nodes /\ ref[o] # 0 /\ Node(o) \in Nodes
    BY <1>0, <1>4, OpTypes, ParentTypes DEF Controlled, Knows, LinkWrite
  <2>2. ref[o] \in 1 .. Len(heap)  BY <1>0, <2>1 DEF Controlled, Shapes, GraphShapes
  <2>3. heap[ref[o]].children \in SUBSET Nodes  BY <2>2, ObjectTypes DEF Controlled, Shapes
  <2>4. heap[ref[o]].children \cup {Node(o)} \in SUBSET Nodes  BY <2>1, <2>3
  <2> QED  BY <1>u, <1>4, <2>1, <2>2, <2>4, StoreBackShapes DEF Controlled, Shapes, LinkWrite, graphVars, localVars
<1>5. CASE Rollback(o)
  BY <1>0, <1>5, OpTypes DEF Controlled, Courses, Knows, Shapes, GraphShapes, Rollback, graphVars, localVars
<1>6. CASE RemoveParent(o)
  <2>1. Parent[Node(o)] \in Nodes  BY <1>0, <1>6, OpTypes, ParentTypes DEF Controlled, Knows, RemoveParent
  <2> QED  BY <1>0, <1>6, <2>1 DEF Controlled, Shapes, GraphShapes, RemoveParent, graphVars
<1>7. CASE RemoveUnlink(o)
  <2>1. Parent[Node(o)] \in Nodes /\ ref[o] # 0
    BY <1>0, <1>7, OpTypes, ParentTypes DEF Controlled, Knows, RemoveUnlink
  <2>2. ref[o] \in 1 .. Len(heap)  BY <1>0, <2>1 DEF Controlled, Shapes, GraphShapes
  <2>3. heap[ref[o]].children \in SUBSET Nodes  BY <2>2, ObjectTypes DEF Controlled, Shapes
  <2>4. heap[ref[o]].children \ {Node(o)} \in SUBSET Nodes  BY <2>3
  <2> QED  BY <1>7, <2>1, <2>2, <2>4, StoreBackShapes DEF Controlled, Shapes, RemoveUnlink, localVars
<1>8. CASE RemoveDelete(o)
  BY <1>0, <1>8, OpTypes DEF Controlled, Courses, Knows, Shapes, GraphShapes, RemoveDelete, graphVars, localVars
<1>9. CASE MarkTarget(o)
  BY <1>0, <1>9, OpTypes DEF Controlled, Courses, Knows, Shapes, GraphShapes, MarkTarget, MarkRead, graphVars,
    localVars
<1>10. CASE MarkWrite(o)
  <2> DEFINE object == [heap[ref[o]] EXCEPT !.revoked = Kind(o) = "revoke" /\ ~setting.dropsMark]
  <2>1. cur[o] \in Nodes /\ ref[o] # 0  BY <1>0, <1>10 DEF Controlled, Knows, MarkWrite, MarkPoints
  <2>2. heap[ref[o]] \in Objects
    <3>1. ref[o] \in 1 .. Len(heap)  BY <1>0, <2>1 DEF Controlled, Shapes, GraphShapes
    <3> QED  BY <3>1, ObjectTypes DEF Controlled, Shapes
  <2>3. object \in Objects  BY <2>2 DEF Objects
  <2>4. StoreNew(cur[o], object) /\ ref' = ref  BY <1>10 DEF MarkWrite, localVars
  <2> HIDE DEF object
  <2> QED  BY <2>1, <2>3, <2>4, StoreNewShapes DEF Controlled, Shapes
<1>11. CASE \E n \in Nodes : RevokeNext(o, n)
  BY <1>0, <1>11, OpTypes DEF Controlled, Courses, Knows, Shapes, GraphShapes, RevokeNext, MarkRead, graphVars,
    localVars
<1> QED  BY <1>r, <1>1, <1>2, <1>3, <1>4, <1>5, <1>6, <1>7, <1>8, <1>9, <1>10, <1>11 DEF Step

\* Who enters or leaves a lock.
LEMMA QueueShapes ==
    ASSUME ListShapes, NEW o \in Ops, Enter(o) \/ (Holds(o) /\ Release(o))
    PROVE  queue' \in [Managers -> Seq(Ops)]
<1>1. Op[o].manager \in Managers /\ queue[Op[o].manager] \in Seq(Ops)  BY OpTypes DEF ListShapes
<1>2. CASE Enter(o)
  <2>1. Append(queue[Op[o].manager], o) \in Seq(Ops)  BY <1>1
  <2> QED  BY <1>2, <2>1 DEF Enter, ListShapes
<1>3. CASE Holds(o) /\ Release(o)
  <2>1. Tail(queue[Op[o].manager]) \in Seq(Ops)  BY <1>1, <1>3 DEF Holds
  <2> QED  BY <1>3, <2>1 DEF Release, ListShapes
<1> QED  BY <1>2, <1>3

\* allocateStatusEntry returns the index it took from the counter, or fails.
LEMMA AllocatedFacts ==
    ASSUME Allotted, NEW o \in Ops, Allocating(o), Allocated(o)
    PROVE  \E i \in 0 .. counter - 1 :
             /\ copy[o] = {i} /\ (\A n \in Nodes : entry[n] # i) /\ entry[Node(o)] = None
             /\ \/ entry' = entry /\ Goto(o, "failed")
                \/ i < setting.capacity /\ entry' = [entry EXCEPT ![Node(o)] = i] /\ Goto(o, "done")
<1>1. PICK i \in 0 .. counter - 1 : copy[o] = {i} /\ \A n \in Nodes : entry[n] # i  BY DEF Allotted
<1>2. entry[Node(o)] = None  BY DEF Allotted
<1>3. (CHOOSE x \in copy[o] : TRUE) = i  BY <1>1
<1> QED  BY <1>1, <1>2, <1>3 DEF Allocated, Fits

\* There is one list at most, and the locks queue operations.
LEMMA ListShapesStep ==
    ASSUME Controlled, Queued, Allotted, NEW o \in setting.ops, Step(o), setting' = setting
    PROVE  ListShapes'
<1>0. o \in Ops  BY SettingTypes DEF Controlled
<1>u. CASE UNCHANGED <<list, counter, entry, queue, copy>>  BY <1>u DEF Controlled, Shapes, ListShapes
<1>r. CASE \/ RegisterStart(o) \/ RegisterExisting(o) \/ RegisterNodeAtomic(o) \/ RegisterSet(o) \/ LinkRead(o)
           \/ LinkWrite(o) \/ Rollback(o) \/ RemoveStart(o) \/ RemoveParent(o) \/ RemoveUnlink(o)
           \/ RemoveDelete(o) \/ RevokeStart(o) \/ Depth(o) \/ MarkTarget(o) \/ MarkWrite(o) \/ MarkBack(o)
           \/ Descend(o) \/ (\E n \in Nodes : RevokeNext(o, n)) \/ RevokeDone(o) \/ RestoreStart(o)
           \/ CheckStart(o) \/ CheckNode(o) \/ CheckChain(o)
  BY <1>u, <1>r DEF RegisterStart, RegisterExisting, RegisterNodeAtomic, InsertLinked, RegisterSet, StoreNew,
    LinkRead, LinkWrite, StoreBack, Rollback, RemoveStart, RemoveParent, RemoveUnlink, RemoveDelete, RevokeStart,
    Depth, MarkTarget, MarkRead, MarkWrite, MarkBack, Descend, RevokeNext, RevokeDone, RestoreStart, CheckStart,
    CheckNode, CheckChain, listVars, localVars
<1>1. CASE AllocateIndex(o)
  BY <1>0, <1>1, OpTypes DEF Controlled, Courses, Knows, Shapes, ListShapes, AllocateIndex, listVars, localVars
<1>2. CASE EnsureStatusListExists(o)
  BY <1>0, <1>2, OpTypes DEF Controlled, Courses, Knows, Shapes, ListShapes, EnsureStatusListExists, Enter,
    listVars, localVars
<1>3. CASE CreateRead(o)
  <2>1. Allocating(o)  BY <1>3 DEF Allocating, CreateRead
  <2>2. queue' \in [Managers -> Seq(Ops)]
    BY <1>0, <1>3, QueueShapes DEF Controlled, Shapes, ListShapes, CreateRead
  <2>3. entry' \in [Nodes -> Nat \cup {None}]
    <3>1. CASE entry' = entry  BY <3>1 DEF Controlled, Shapes, ListShapes
    <3>2. CASE Allocated(o)
      <4>1. PICK i \in 0 .. counter - 1 : entry' = entry \/ entry' = [entry EXCEPT ![Node(o)] = i]
        BY <1>0, <2>1, <3>2, AllocatedFacts
      <4>2. i \in Nat  BY DEF Controlled, Shapes, ListShapes
      <4> QED  BY <4>1, <4>2 DEF Controlled, Shapes, ListShapes
    <3> QED  BY <1>3, <3>1, <3>2 DEF CreateRead
  <2> QED  BY <1>3, <2>2, <2>3 DEF Controlled, Shapes, ListShapes, CreateRead, localVars
<1>4. CASE CreateWrite(o)
  <2>1. Allocating(o) /\ Holds(o)
    BY <1>0, <1>4 DEF Controlled, Courses, Queued, Allocating, CreateWrite
  <2>2. queue' \in [Managers -> Seq(Ops)]
    BY <1>0, <1>4, <2>1, QueueShapes DEF Controlled, Shapes, CreateWrite
  <2>3. entry' \in [Nodes -> Nat \cup {None}]
    <3>1. CASE entry' = entry  BY <3>1 DEF Controlled, Shapes, ListShapes
    <3>2. CASE Allocated(o)
      <4>1. PICK i \in 0 .. counter - 1 : entry' = entry \/ entry' = [entry EXCEPT ![Node(o)] = i]
        BY <1>0, <2>1, <3>2, AllocatedFacts
      <4>2. i \in Nat  BY DEF Controlled, Shapes, ListShapes
      <4> QED  BY <4>1, <4>2 DEF Controlled, Shapes, ListShapes
    <3> QED  BY <1>4, <3>1, <3>2 DEF CreateWrite
  <2>4. list' \subseteq SUBSET Nat /\ \A a, b \in list' : a = b
    BY <1>4 DEF Controlled, Shapes, ListShapes, CreateWrite
  <2> QED  BY <1>4, <2>2, <2>3, <2>4 DEF Controlled, Shapes, ListShapes, CreateWrite, localVars
<1>5. CASE NodeMarked(o)
  <2>1. queue' \in [Managers -> Seq(Ops)]
    BY <1>0, <1>5, QueueShapes DEF Controlled, Shapes, ListShapes, NodeMarked
  <2> QED  BY <1>5, <2>1 DEF Controlled, Shapes, ListShapes, NodeMarked, localVars
<1>6. CASE UpdateRead(o)
  <2>1. queue' \in [Managers -> Seq(Ops)]
    BY <1>0, <1>6, QueueShapes DEF Controlled, Shapes, ListShapes, UpdateRead
  <2>2. UNION list \in SUBSET Nat  BY DEF Controlled, Shapes, ListShapes
  <2>3. copy' \in [Ops -> SUBSET Nat]  BY <1>0, <1>6, <2>2 DEF Controlled, Shapes, ListShapes, UpdateRead
  <2> QED  BY <1>6, <2>1, <2>3 DEF Controlled, Shapes, ListShapes, UpdateRead
<1>7. CASE UpdateWrite(o)
  <2>1. Kind(o) \in {"revoke", "restore"} /\ Holds(o)
    BY <1>0, <1>7 DEF Controlled, Courses, Queued, UpdateWrite
  <2>2. queue' \in [Managers -> Seq(Ops)]
    BY <1>0, <1>7, <2>1, QueueShapes DEF Controlled, Shapes, UpdateWrite
  <2>3. entry[cur[o]] \in Nat /\ copy[o] \in SUBSET Nat
    BY <1>0, <1>7, <2>1 DEF Controlled, Knows, HasEntry, ListPoints, Shapes, ListShapes, UpdateWrite
  <2>4. list' \subseteq SUBSET Nat /\ \A a, b \in list' : a = b
    <3>1. CASE list' = list  BY <3>1 DEF Controlled, Shapes, ListShapes
    <3>2. CASE list' = {IF Kind(o) = "revoke" THEN copy[o] \cup {entry[cur[o]]} ELSE copy[o] \ {entry[cur[o]]}}
      <4>1. (IF Kind(o) = "revoke" THEN copy[o] \cup {entry[cur[o]]} ELSE copy[o] \ {entry[cur[o]]}) \in SUBSET Nat
        BY <2>3
      <4> QED  BY <3>2, <4>1
    <3> QED  BY <1>7, <3>1, <3>2 DEF UpdateWrite
  <2> QED  BY <1>7, <2>2, <2>4 DEF Controlled, Shapes, ListShapes, UpdateWrite, localVars
<1>8. CASE RestoreUpdate(o)
  BY <1>0, <1>8, OpTypes DEF Controlled, Courses, Knows, Shapes, ListShapes, RestoreUpdate, Enter, listVars,
    localVars
<1> QED  BY <1>r, <1>1, <1>2, <1>3, <1>4, <1>5, <1>6, <1>7, <1>8 DEF Step

\* An operation goes to a point of the program.
LEMMA PointsStep ==
    ASSUME Shapes, NEW o \in Ops, Step(o)
    PROVE  pc' \in [Ops -> ControlPoints]
<1>1. \A point \in ControlPoints : Goto(o, point) => pc' \in [Ops -> ControlPoints]
  BY DEF Shapes, OpShapes, Goto
<1> SUFFICES \E point \in ControlPoints : Goto(o, point)  BY <1>1
<1>2. CASE \/ RegisterStart(o) \/ RegisterExisting(o) \/ RegisterNodeAtomic(o) \/ RegisterSet(o)
           \/ LinkRead(o) \/ LinkWrite(o) \/ Rollback(o)
  BY <1>2 DEF RegisterStart, ControlPoints, RegisterExisting, RegisterNodeAtomic, RegisterSet, LinkRead, LinkWrite,
    Rollback
<1>3. CASE RemoveStart(o) \/ RemoveParent(o) \/ RemoveUnlink(o) \/ RemoveDelete(o)
  BY <1>3 DEF RemoveStart, ControlPoints, RemoveParent, RemoveUnlink, RemoveDelete
<1>4. CASE AllocateIndex(o) \/ EnsureStatusListExists(o) \/ CreateRead(o) \/ CreateWrite(o)
  BY <1>4 DEF AllocateIndex, ControlPoints, EnsureStatusListExists, CreateRead, Allocated, CreateWrite
<1>5. CASE RevokeStart(o) \/ Depth(o) \/ MarkTarget(o) \/ MarkWrite(o) \/ MarkBack(o) \/ NodeMarked(o)
  BY <1>5 DEF RevokeStart, ControlPoints, Depth, MarkTarget, MarkRead, MarkWrite, MarkBack, NodeMarked, AfterMark
<1>6. CASE UpdateRead(o) \/ UpdateWrite(o)
  BY <1>6 DEF UpdateRead, ControlPoints, UpdateWrite
<1>7. CASE Descend(o) \/ (\E n \in Nodes : RevokeNext(o, n)) \/ RevokeDone(o)
  BY <1>7 DEF Descend, ControlPoints, RevokeNext, MarkRead, RevokeDone
<1>8. CASE RestoreStart(o) \/ RestoreUpdate(o)
  BY <1>8 DEF RestoreStart, ControlPoints, RestoreUpdate
<1>9. CASE CheckStart(o) \/ CheckNode(o) \/ CheckChain(o)
  BY <1>9 DEF CheckStart, ControlPoints, CheckNode, CheckChain
<1> QED  BY <1>2, <1>3, <1>4, <1>5, <1>6, <1>7, <1>8, <1>9 DEF Step

\* The local variables keep their shapes.
LEMMA OpShapesStep ==
    ASSUME Controlled, NEW o \in setting.ops, Step(o), setting' = setting
    PROVE  OpShapes'
<1>0. o \in Ops /\ Node(o) \in Nodes  BY SettingTypes, OpTypes DEF Controlled
<1>p. pc' \in [Ops -> ControlPoints]  BY <1>0, PointsStep DEF Controlled
<1>u. CASE UNCHANGED <<cur, back, left, chain, due>>  BY <1>u, <1>p DEF Controlled, Shapes, OpShapes
<1>r. CASE \/ RegisterStart(o) \/ RegisterExisting(o) \/ RegisterNodeAtomic(o) \/ RegisterSet(o) \/ LinkRead(o)
           \/ LinkWrite(o) \/ Rollback(o) \/ RemoveStart(o) \/ RemoveParent(o) \/ RemoveUnlink(o)
           \/ RemoveDelete(o) \/ AllocateIndex(o) \/ EnsureStatusListExists(o) \/ CreateRead(o) \/ CreateWrite(o)
           \/ RevokeStart(o) \/ Depth(o) \/ MarkWrite(o) \/ NodeMarked(o) \/ UpdateRead(o) \/ UpdateWrite(o)
           \/ RevokeDone(o) \/ RestoreUpdate(o) \/ CheckChain(o)
  BY <1>u, <1>r DEF RegisterStart, RegisterExisting, RegisterNodeAtomic, RegisterSet, LinkRead, LinkWrite, Rollback,
    RemoveStart, RemoveParent, RemoveUnlink, RemoveDelete, AllocateIndex, EnsureStatusListExists, CreateRead,
    CreateWrite, RevokeStart, Depth, MarkWrite, NodeMarked, UpdateRead, UpdateWrite, RevokeDone, RestoreUpdate,
    CheckChain, localVars
<1>1. CASE MarkTarget(o)
  BY <1>0, <1>p, <1>1 DEF Controlled, Shapes, OpShapes, MarkTarget, MarkRead
<1>2. CASE MarkBack(o)
  BY <1>0, <1>p, <1>2 DEF Controlled, Shapes, OpShapes, MarkBack
<1>3. CASE Descend(o)
  <2>1. GetDescendants(Node(o)) \in SUBSET Nodes  BY DEF GetDescendants
  <2>2. left' \in [Ops -> SUBSET Nodes]  BY <1>3, <2>1 DEF Controlled, Shapes, OpShapes, Descend
  <2> QED  BY <1>p, <1>3, <2>2 DEF Controlled, Shapes, OpShapes, Descend
<1>4. CASE \E n \in Nodes : RevokeNext(o, n)
  <2>1. PICK n \in Nodes : RevokeNext(o, n)  BY <1>4
  <2>2. left' \in [Ops -> SUBSET Nodes]  BY <1>0, <2>1 DEF Controlled, Shapes, OpShapes, RevokeNext
  <2>3. cur' \in [Ops -> Nodes \cup {None}]  BY <2>1 DEF Controlled, Shapes, OpShapes, RevokeNext, MarkRead
  <2> QED  BY <1>p, <2>1, <2>2, <2>3 DEF Controlled, Shapes, OpShapes, RevokeNext
<1>5. CASE RestoreStart(o)
  BY <1>0, <1>p, <1>5 DEF Controlled, Shapes, OpShapes, RestoreStart
<1>6. CASE CheckStart(o)
  <2>1. PICK c \in Seq(Nodes) : c = GetChain(Node(o))  BY <1>0, ChainTypes
  <2>2. ReadChain(Node(o)) \in Seq([node: Nodes, marked: BOOLEAN])
    <3>1. ReadChain(Node(o)) = [k \in 1 .. Len(c) |-> [node |-> c[k], marked |-> Marked(c[k])]]
      BY <2>1 DEF ReadChain
    <3>2. \A k \in 1 .. Len(c) : [node |-> c[k], marked |-> Marked(c[k])] \in [node: Nodes, marked: BOOLEAN]
      <4> SUFFICES ASSUME NEW k \in 1 .. Len(c)
                   PROVE  c[k] \in Nodes /\ Marked(c[k]) \in BOOLEAN
        OBVIOUS
      <4>1. c[k] \in Nodes  OBVIOUS
      <4>2. Marked(c[k]) \in BOOLEAN  BY DEF Marked
      <4> QED  BY <4>1, <4>2
    <3> QED  BY <3>1, <3>2
  <2>3. chain' \in [Ops -> Seq([node: Nodes, marked: BOOLEAN])]
    BY <1>6, <2>2 DEF Controlled, Shapes, OpShapes, CheckStart
  <2>4. due' \subseteq Ops  BY <1>0, <1>6 DEF Controlled, Shapes, OpShapes, CheckStart
  <2> QED  BY <1>p, <1>6, <2>3, <2>4 DEF Controlled, Shapes, OpShapes, CheckStart
<1>7. CASE CheckNode(o)
  <2>1. chain[o] \in Seq([node: Nodes, marked: BOOLEAN]) /\ chain[o] # <<>>
    BY <1>0, <1>7 DEF Controlled, Shapes, OpShapes, CheckNode
  <2>2. Tail(chain[o]) \in Seq([node: Nodes, marked: BOOLEAN])  BY ONLY <2>1
  <2>3. chain' \in [Ops -> Seq([node: Nodes, marked: BOOLEAN])]
    BY <1>7, <2>2 DEF Controlled, Shapes, OpShapes, CheckNode
  <2> QED  BY <1>p, <1>7, <2>3 DEF Controlled, Shapes, OpShapes, CheckNode
<1> QED  BY <1>r, <1>1, <1>2, <1>3, <1>4, <1>5, <1>6, <1>7 DEF Step

\* An entry is given once, to a delegation that had none.
LEMMA EntryStep ==
    ASSUME Controlled, Queued, Allotted, NEW o \in setting.ops, Step(o)
    PROVE  \/ entry' = entry
           \/ /\ Allocating(o) /\ pc'[o] = "done" /\ entry[Node(o)] = None
              /\ \E i \in copy[o] : /\ i \in Nat /\ i < setting.capacity /\ copy[o] = {i}
                                    /\ entry' = [entry EXCEPT ![Node(o)] = i]
<1>0. o \in Ops  BY SettingTypes DEF Controlled
<1>u. CASE entry' = entry  BY <1>u
<1>a. CASE Allocating(o) /\ Allocated(o)
  <2>1. PICK i \in 0 .. counter - 1 :
             /\ copy[o] = {i} /\ (\A n \in Nodes : entry[n] # i) /\ entry[Node(o)] = None
             /\ \/ entry' = entry /\ Goto(o, "failed")
                \/ i < setting.capacity /\ entry' = [entry EXCEPT ![Node(o)] = i] /\ Goto(o, "done")
    BY <1>0, <1>a, AllocatedFacts
  <2>2. i \in Nat  BY DEF Controlled, Shapes, ListShapes
  <2>3. Goto(o, "done") => pc'[o] = "done"  BY <1>0 DEF Goto, Controlled, Shapes, OpShapes
  <2> QED  BY <1>a, <2>1, <2>2, <2>3
<1>r. CASE \/ RegisterStart(o) \/ RegisterExisting(o) \/ RegisterNodeAtomic(o) \/ RegisterSet(o) \/ LinkRead(o)
           \/ LinkWrite(o) \/ Rollback(o) \/ RemoveStart(o) \/ RemoveParent(o) \/ RemoveUnlink(o)
           \/ RemoveDelete(o) \/ AllocateIndex(o) \/ EnsureStatusListExists(o) \/ RevokeStart(o) \/ Depth(o)
           \/ MarkTarget(o) \/ MarkWrite(o) \/ MarkBack(o) \/ NodeMarked(o) \/ UpdateRead(o) \/ UpdateWrite(o)
           \/ Descend(o) \/ (\E n \in Nodes : RevokeNext(o, n)) \/ RevokeDone(o) \/ RestoreStart(o)
           \/ RestoreUpdate(o) \/ CheckStart(o) \/ CheckNode(o) \/ CheckChain(o)
  BY <1>u, <1>r DEF RegisterStart, RegisterExisting, RegisterNodeAtomic, RegisterSet, LinkRead, LinkWrite, Rollback,
    RemoveStart, RemoveParent, RemoveUnlink, RemoveDelete, AllocateIndex, EnsureStatusListExists, RevokeStart,
    Depth, MarkTarget, MarkWrite, MarkBack, NodeMarked, UpdateRead, UpdateWrite, Descend, RevokeNext, RevokeDone,
    RestoreStart, RestoreUpdate, CheckStart, CheckNode, CheckChain, listVars
<1>1. CASE CreateRead(o)  BY <1>0, <1>a, <1>u, <1>1 DEF Controlled, Courses, Allocating, CreateRead
<1>2. CASE CreateWrite(o)  BY <1>0, <1>a, <1>u, <1>2 DEF Controlled, Courses, Allocating, CreateWrite
<1> QED  BY <1>r, <1>1, <1>2 DEF Step

\* A credential keeps the entry that it names.
LEMMA EntriesStay ==
    ASSUME Controlled, Queued, Allotted, NEW o \in setting.ops, Step(o)
    PROVE  \A n \in Nodes : (entry[n] # None => entry'[n] = entry[n]) /\ (HasEntry(n) => HasEntry(n)')
<1>0. Node(o) \in Nodes  BY SettingTypes, OpTypes DEF Controlled
<1>1. \A n \in Nodes : entry[n] # None => entry'[n] = entry[n]
  BY <1>0, EntryStep DEF Controlled, Shapes, ListShapes
<1> QED  BY <1>1 DEF HasEntry

\* Only a delegation with its entry comes to be stored.
LEMMA StoredStep ==
    ASSUME Controlled, NEW o \in setting.ops, Step(o)
    PROVE  \A n \in Nodes : at'[n] # 0 => at[n] # 0 \/ HasEntry(n)
<1>0. o \in Ops /\ Node(o) \in Nodes /\ (Parent[Node(o)] # None => Parent[Node(o)] \in Nodes)
  BY SettingTypes, OpTypes, ParentTypes DEF Controlled
<1>u. CASE at' = at  BY <1>u
<1>p. \A n \in Nodes : \A i : HasEntry(n) /\ at' = [at EXCEPT ![n] = i] =>
          \A x \in Nodes : at'[x] # 0 => at[x] # 0 \/ HasEntry(x)
  BY DEF Controlled, Shapes, GraphShapes
<1>d. \A n \in Nodes : at' = [at EXCEPT ![n] = 0] => \A x \in Nodes : at'[x] # 0 => at[x] # 0
  BY DEF Controlled, Shapes, GraphShapes
<1>r. CASE \/ RegisterStart(o) \/ RegisterExisting(o) \/ LinkRead(o) \/ RemoveStart(o) \/ RemoveParent(o)
           \/ AllocateIndex(o) \/ EnsureStatusListExists(o) \/ CreateRead(o) \/ CreateWrite(o) \/ RevokeStart(o)
           \/ Depth(o) \/ MarkTarget(o) \/ MarkBack(o) \/ NodeMarked(o) \/ UpdateRead(o) \/ UpdateWrite(o)
           \/ Descend(o) \/ (\E n \in Nodes : RevokeNext(o, n)) \/ RevokeDone(o) \/ RestoreStart(o)
           \/ RestoreUpdate(o) \/ CheckStart(o) \/ CheckNode(o) \/ CheckChain(o)
  BY <1>u, <1>r DEF RegisterStart, RegisterExisting, LinkRead, RemoveStart, RemoveParent, AllocateIndex,
    EnsureStatusListExists, CreateRead, CreateWrite, RevokeStart, Depth, MarkTarget, MarkBack, NodeMarked,
    UpdateRead, UpdateWrite, Descend, RevokeNext, RevokeDone, RestoreStart, RestoreUpdate, CheckStart, CheckNode,
    CheckChain, graphVars
<1>1. CASE RegisterNodeAtomic(o)
  <2>1. HasEntry(Node(o))  BY <1>0, <1>1 DEF Controlled, Knows, RegisterPoints, RegisterNodeAtomic
  <2>2. CASE UNCHANGED graphVars  BY <1>u, <2>2 DEF graphVars
  <2>3. CASE InsertLinked(Node(o), Parent[Node(o)]) /\ (Parent[Node(o)] # None => at[Parent[Node(o)]] # 0)
    <3>1. \A x \in Nodes : x # Node(o) /\ x # Parent[Node(o)] => at'[x] = at[x]  BY <2>3 DEF InsertLinked
    <3>2. None \notin Nodes  BY RevocationAssumption
    <3> QED  BY <1>0, <2>1, <2>3, <3>1, <3>2
  <2> QED  BY <1>1, <2>2, <2>3 DEF RegisterNodeAtomic
<1>2. CASE RegisterSet(o)
  BY <1>0, <1>u, <1>p, <1>2 DEF Controlled, Knows, RegisterPoints, RegisterSet, StoreNew, graphVars
<1>3. CASE LinkWrite(o)
  BY <1>0, <1>u, <1>p, <1>3 DEF Controlled, Knows, RegisterPoints, LinkWrite, StoreBack, graphVars
<1>4. CASE Rollback(o)  BY <1>0, <1>d, <1>4 DEF Rollback
<1>5. CASE RemoveUnlink(o)
  BY <1>0, <1>u, <1>p, <1>5 DEF Controlled, Knows, RegisterPoints, RemoveUnlink, StoreBack, graphVars
<1>6. CASE RemoveDelete(o)  BY <1>0, <1>d, <1>6 DEF RemoveDelete
<1>7. CASE MarkWrite(o)
  BY <1>0, <1>u, <1>p, <1>7 DEF Controlled, Knows, RegisterPoints, MarkWrite, StoreNew, MarkPoints, graphVars
<1> QED  BY <1>r, <1>1, <1>2, <1>3, <1>4, <1>5, <1>6, <1>7 DEF Step

\* What an operation knows stays true in a step of another one.
LEMMA OthersKnow ==
    ASSUME Controlled, Queued, Allotted, NEW o \in setting.ops, Step(o), setting' = setting,
           NEW q \in Ops, q # o
    PROVE  Courses(q)' /\ Knows(q)'
<1>0. o \in Ops /\ Node(q) \in Nodes /\ (Parent[Node(q)] # None => Parent[Node(q)] \in Nodes)
  BY SettingTypes, OpTypes, ParentTypes DEF Controlled
<1>1. /\ pc'[q] = pc[q] /\ cur'[q] = cur[q] /\ ref'[q] = ref[q] /\ left'[q] = left[q]
  BY <1>0, ElsewhereHolds DEF Controlled, Elsewhere
<1>2. Node(q)' = Node(q) /\ Kind(q)' = Kind(q)  BY DEF Node, Kind
<1>3. \A n \in Nodes : (entry[n] # None => entry'[n] = entry[n]) /\ (HasEntry(n) => HasEntry(n)')
  BY EntriesStay
<1>4. Courses(q) /\ Knows(q)  BY DEF Controlled
<1>5. Courses(q)'  BY <1>1, <1>2, <1>4 DEF Courses
<1>6. Knows(q)'
  <2>1. Knows(q)  BY <1>4
  <2>2. \A n \in Nodes : entry[n] # None => entry'[n] # None  BY <1>3
  <2>3. cur'[q] \in Nodes => (HasEntry(cur[q]) => HasEntry(cur[q])')  BY <1>1, <2>2 DEF HasEntry
  <2>4. HasEntry(Node(q)) => HasEntry(Node(q))'  BY <1>0, <1>2, <2>2 DEF HasEntry
  <2>5. Parent[Node(q)] # None /\ HasEntry(Parent[Node(q)]) => HasEntry(Parent[Node(q)])'
    BY <1>0, <1>2, <2>2 DEF HasEntry
  <2> QED  BY <1>1, <1>2, <2>1, <2>3, <2>4, <2>5 DEF Knows
<1> QED  BY <1>5, <1>6

\* An operation keeps to its course.
LEMMA CoursesStep ==
    ASSUME Controlled, NEW o \in setting.ops, Step(o)
    PROVE  Courses(o)'
<1>0. o \in Ops /\ Kind(o) \in Kinds /\ Kind(o)' = Kind(o)
  BY SettingTypes, OpTypes DEF Controlled, Kind
<1>1. Courses(o) /\ pc \in [Ops -> ControlPoints]  BY <1>0 DEF Controlled, Shapes, OpShapes
<1> USE DEF Courses, RegisterPoints, MarkPoints, Goto
<1>2. CASE \/ RegisterStart(o) \/ RegisterExisting(o) \/ RegisterNodeAtomic(o) \/ RegisterSet(o)
           \/ LinkRead(o) \/ LinkWrite(o) \/ Rollback(o)
  BY <1>0, <1>1, <1>2 DEF RegisterStart, RegisterExisting, RegisterNodeAtomic, RegisterSet, LinkRead, LinkWrite,
    Rollback
<1>3. CASE RemoveStart(o) \/ RemoveParent(o) \/ RemoveUnlink(o) \/ RemoveDelete(o)
  BY <1>0, <1>1, <1>3 DEF RemoveStart, RemoveParent, RemoveUnlink, RemoveDelete
<1>4. CASE AllocateIndex(o) \/ EnsureStatusListExists(o) \/ CreateRead(o) \/ CreateWrite(o)
  BY <1>0, <1>1, <1>4 DEF AllocateIndex, EnsureStatusListExists, CreateRead, Allocated, CreateWrite
<1>5. CASE RevokeStart(o) \/ Depth(o) \/ MarkTarget(o) \/ MarkWrite(o) \/ MarkBack(o) \/ NodeMarked(o)
  BY <1>0, <1>1, <1>5 DEF RevokeStart, Depth, MarkTarget, MarkRead, MarkWrite, MarkBack, NodeMarked, AfterMark
<1>6. CASE UpdateRead(o) \/ UpdateWrite(o)
  BY <1>0, <1>1, <1>6 DEF UpdateRead, UpdateWrite
<1>7. CASE Descend(o) \/ (\E n \in Nodes : RevokeNext(o, n)) \/ RevokeDone(o)
  BY <1>0, <1>1, <1>7 DEF Descend, RevokeNext, MarkRead, RevokeDone
<1>8. CASE RestoreStart(o) \/ RestoreUpdate(o)
  BY <1>0, <1>1, <1>8 DEF RestoreStart, RestoreUpdate
<1>9. CASE CheckStart(o) \/ CheckNode(o) \/ CheckChain(o)
  BY <1>0, <1>1, <1>9 DEF CheckStart, CheckNode, CheckChain
<1> QED  BY <1>2, <1>3, <1>4, <1>5, <1>6, <1>7, <1>8, <1>9 DEF Step

\* An operation knows what it has read.
LEMMA KnowsStep ==
    ASSUME Controlled, Queued, Allotted, NEW o \in setting.ops, Step(o), setting' = setting
    PROVE  Knows(o)'
<1>0. /\ o \in Ops /\ Node(o) \in Nodes /\ (Parent[Node(o)] # None => Parent[Node(o)] \in Nodes)
      /\ Node(o)' = Node(o) /\ Kind(o)' = Kind(o)
  BY SettingTypes, OpTypes, ParentTypes DEF Controlled, Node, Kind
<1>1. pc \in [Ops -> ControlPoints] /\ cur \in [Ops -> Nodes \cup {None}] /\ o \in setting.ops
      /\ left \in [Ops -> SUBSET Nodes] /\ ref \in [Ops -> 0 .. Len(heap)] /\ setting' = setting
  BY DEF Controlled, Shapes, OpShapes, GraphShapes
<1>2. Knows(o) /\ Courses(o)  BY <1>0 DEF Controlled
<1>3. \A n \in Nodes : (entry[n] # None => entry'[n] = entry[n]) /\ (HasEntry(n) => HasEntry(n)')
  BY EntriesStay
<1>4. \A n \in Nodes : at[n] # 0 => HasEntry(n)  BY DEF Controlled, StoredHaveEntries
<1>5. HasEntry(Node(o)) => HasEntry(Node(o))'  BY <1>0, <1>3 DEF HasEntry
<1>6. Parent[Node(o)] # None /\ HasEntry(Parent[Node(o)]) => HasEntry(Parent[Node(o)])'
  BY <1>0, <1>3 DEF HasEntry
<1>7. cur'[o] \in Nodes => (HasEntry(cur'[o]) => HasEntry(cur[o])')  BY <1>3 DEF HasEntry
<1> USE DEF RegisterPoints, MarkPoints, ListPoints, Goto
<1>8. CASE RegisterStart(o)
  <2>1. HasEntry(Node(o))'  BY <1>0, <1>5, <1>8 DEF RegisterStart, HasEntry
  <2> QED  BY <1>0, <1>1, <1>2, <1>8, <2>1 DEF Knows, Courses, RegisterStart, localVars
<1>9. CASE \/ RegisterExisting(o) \/ RegisterNodeAtomic(o) \/ RegisterSet(o)
           \/ LinkRead(o) \/ LinkWrite(o) \/ Rollback(o)
  BY <1>0, <1>1, <1>2, <1>5, <1>6, <1>7, <1>4, <1>9 DEF Knows, Courses, RegisterExisting, localVars,
    RegisterNodeAtomic, RegisterSet, LinkRead, LinkWrite, Rollback
<1>10. CASE RemoveStart(o) \/ RemoveParent(o) \/ RemoveUnlink(o) \/ RemoveDelete(o)
  BY <1>0, <1>1, <1>2, <1>5, <1>6, <1>7, <1>4, <1>10 DEF Knows, Courses, RemoveStart, localVars, RemoveParent,
    RemoveUnlink, RemoveDelete
<1>11. CASE AllocateIndex(o) \/ EnsureStatusListExists(o) \/ CreateRead(o) \/ CreateWrite(o)
  BY <1>0, <1>1, <1>2, <1>5, <1>6, <1>7, <1>11 DEF Knows, Courses, AllocateIndex, localVars, EnsureStatusListExists,
    CreateRead, Allocated, CreateWrite
<1>12. CASE RevokeStart(o) \/ Depth(o) \/ MarkTarget(o) \/ MarkWrite(o) \/ MarkBack(o) \/ NodeMarked(o)
  BY <1>0, <1>1, <1>2, <1>5, <1>6, <1>7, <1>4, <1>12 DEF Knows, Courses, RevokeStart, localVars, Depth, MarkTarget,
    MarkRead, MarkWrite, MarkBack, NodeMarked, AfterMark
<1>13. CASE UpdateRead(o) \/ UpdateWrite(o)
  BY <1>0, <1>1, <1>2, <1>5, <1>6, <1>7, <1>13 DEF Knows, Courses, UpdateRead, localVars, UpdateWrite
<1>14. CASE Descend(o)
  <2>1. Node(o) \notin GetDescendants(Node(o))  BY DEF GetDescendants
  <2> QED  BY <1>0, <1>1, <1>2, <1>5, <1>6, <1>7, <1>14, <2>1 DEF Knows, Courses, Descend, localVars
<1>15. CASE (\E n \in Nodes : RevokeNext(o, n)) \/ RevokeDone(o)
  BY <1>0, <1>1, <1>2, <1>5, <1>6, <1>7, <1>4, <1>15 DEF Knows, Courses, RevokeNext, MarkRead, localVars, RevokeDone
<1>16. CASE RestoreStart(o) \/ RestoreUpdate(o)
  BY <1>0, <1>1, <1>2, <1>5, <1>6, <1>7, <1>4, <1>16 DEF Knows, Courses, RestoreStart, localVars, RestoreUpdate
<1>17. CASE CheckStart(o) \/ CheckNode(o) \/ CheckChain(o)
  BY <1>0, <1>1, <1>2, <1>5, <1>6, <1>7, <1>17 DEF Knows, Courses, CheckStart, localVars, CheckNode, CheckChain
<1> QED  BY <1>8, <1>9, <1>10, <1>11, <1>12, <1>13, <1>14, <1>15, <1>16, <1>17 DEF Step

\* Control is kept: shapes, courses, and what operations know.
LEMMA ControlledStep ==
    ASSUME Controlled, Queued, Allotted, NEW o \in setting.ops, Step(o), setting' = setting
    PROVE  Controlled'
<1>0. o \in Ops  BY SettingTypes DEF Controlled
<1>1. Shapes'  BY GraphShapesStep, ListShapesStep, OpShapesStep DEF Shapes
<1>2. StoredHaveEntries'
  <2> SUFFICES ASSUME NEW n \in Nodes, at'[n] # 0 PROVE HasEntry(n)'  BY DEF StoredHaveEntries
  <2>1. HasEntry(n)  BY StoredStep DEF Controlled, StoredHaveEntries
  <2> QED  BY <2>1, EntriesStay
<1>3. \A q \in Ops : Courses(q)' /\ Knows(q)'  BY <1>0, CoursesStep, KnowsStep, OthersKnow
<1> QED  BY <1>1, <1>2, <1>3 DEF Controlled

-----------------------------------------------------------------------------
(* The locks.                                                              *)

\* How a step uses the list lock: not at all, to enter it, or to release it.
LEMMA QueueStep ==
    ASSUME Controlled, Queued, NEW o \in setting.ops, Step(o)
    PROVE  \/ /\ queue' = queue /\ (pc[o] \in ListPoints <=> pc'[o] \in ListPoints)
              /\ pc'[o] \in {"create", "publish"} => Holds(o)
           \/ Enter(o) /\ pc[o] \notin ListPoints /\ pc'[o] = "list"
           \/ Release(o) /\ Holds(o) /\ pc[o] \in ListPoints /\ pc'[o] \notin ListPoints
<1>0. o \in Ops  BY SettingTypes DEF Controlled
<1>1. /\ Courses(o) /\ pc \in [Ops -> ControlPoints]
      /\ pc[o] \in {"create", "publish"} => Holds(o)
  BY <1>0 DEF Controlled, Shapes, OpShapes, Queued
<1> USE DEF Courses, ListPoints, MarkPoints, RegisterPoints, Goto
<1>2. CASE \/ RegisterStart(o) \/ RegisterExisting(o) \/ RegisterNodeAtomic(o) \/ RegisterSet(o)
           \/ LinkRead(o) \/ LinkWrite(o) \/ Rollback(o)
  BY <1>0, <1>1, <1>2 DEF RegisterStart, listVars, RegisterExisting, RegisterNodeAtomic, RegisterSet, LinkRead,
    LinkWrite, Rollback
<1>3. CASE RemoveStart(o) \/ RemoveParent(o) \/ RemoveUnlink(o) \/ RemoveDelete(o)
  BY <1>0, <1>1, <1>3 DEF RemoveStart, listVars, RemoveParent, RemoveUnlink, RemoveDelete
<1>4. CASE AllocateIndex(o) \/ EnsureStatusListExists(o) \/ CreateRead(o) \/ CreateWrite(o)
  BY <1>0, <1>1, <1>4 DEF AllocateIndex, listVars, EnsureStatusListExists, CreateRead, Allocated, CreateWrite
<1>5. CASE RevokeStart(o) \/ Depth(o) \/ MarkTarget(o) \/ MarkWrite(o) \/ MarkBack(o) \/ NodeMarked(o)
  BY <1>0, <1>1, <1>5 DEF RevokeStart, listVars, Depth, MarkTarget, MarkRead, MarkWrite, MarkBack, NodeMarked,
    AfterMark
<1>6. CASE UpdateRead(o) \/ UpdateWrite(o)
  BY <1>0, <1>1, <1>6 DEF UpdateRead, listVars, UpdateWrite
<1>7. CASE Descend(o) \/ (\E n \in Nodes : RevokeNext(o, n)) \/ RevokeDone(o)
  BY <1>0, <1>1, <1>7 DEF Descend, listVars, RevokeNext, MarkRead, RevokeDone
<1>8. CASE RestoreStart(o) \/ RestoreUpdate(o)
  BY <1>0, <1>1, <1>8 DEF RestoreStart, listVars, RestoreUpdate
<1>9. CASE CheckStart(o) \/ CheckNode(o) \/ CheckChain(o)
  BY <1>0, <1>1, <1>9 DEF CheckStart, listVars, CheckNode, CheckChain
<1> QED  BY <1>2, <1>3, <1>4, <1>5, <1>6, <1>7, <1>8, <1>9 DEF Step

\* The locks are kept: withListLock serves one operation at a time, in order.
LEMMA QueuedStep ==
    ASSUME Controlled, Queued, NEW o \in setting.ops, Step(o)
    PROVE  Queued'
<1> DEFINE m == Op[o].manager
<1>0. o \in Ops /\ m \in Managers  BY SettingTypes, OpTypes DEF Controlled
<1>1. /\ \A q \in Ops : q # o => pc'[q] = pc[q]
      /\ queue \in [Managers -> Seq(Ops)]
  BY <1>0, ElsewhereHolds DEF Elsewhere, Controlled, Shapes, ListShapes
<1>2. /\ \A x \in Managers : \A j, k \in DOMAIN queue[x] :
            /\ pc[queue[x][j]] \in ListPoints /\ Op[queue[x][j]].manager = x
            /\ queue[x][j] = queue[x][k] => j = k
      /\ \A q \in Ops : pc[q] \in {"create", "publish"} => Holds(q)
  BY DEF Queued
<1>3. \A q \in Ops : Holds(q) /\ Holds(o) /\ Op[q].manager = m => q = o  BY DEF Holds
<1>4. \A x \in Managers : \A j \in DOMAIN queue[x] : queue[x][j] \in Ops  BY <1>1
<1> SUFFICES /\ \A x \in Managers : \A j, k \in DOMAIN queue'[x] :
                  /\ pc'[queue'[x][j]] \in ListPoints /\ Op[queue'[x][j]].manager = x
                  /\ queue'[x][j] = queue'[x][k] => j = k
             /\ \A q \in Ops : pc'[q] \in {"create", "publish"} =>
                  queue'[Op[q].manager] # <<>> /\ Head(queue'[Op[q].manager]) = q
  BY DEF Queued, Holds
<1>5. CASE /\ queue' = queue /\ (pc[o] \in ListPoints <=> pc'[o] \in ListPoints)
           /\ pc'[o] \in {"create", "publish"} => Holds(o)
  BY <1>0, <1>1, <1>2, <1>4, <1>5 DEF Holds
<1>6. CASE Enter(o) /\ pc[o] \notin ListPoints /\ pc'[o] = "list"
  <2>1. queue' = [queue EXCEPT ![m] = Append(queue[m], o)]  BY <1>6 DEF Enter
  <2>2. \A x \in Managers : x # m => queue'[x] = queue[x]  BY <2>1, <1>1
  <2>3. queue'[m] = Append(queue[m], o)  BY <2>1, <1>0, <1>1
  <2>4. PICK s \in Seq(Ops) : s = queue[m]  BY <1>0, <1>1
  <2>5. \A j \in DOMAIN s : s[j] \in Ops /\ s[j] # o /\ pc[s[j]] \in ListPoints /\ Op[s[j]].manager = m
    BY <1>0, <1>2, <1>6, <2>4
  <2>6. \A j, k \in DOMAIN s : s[j] = s[k] => j = k  BY <1>0, <1>2, <2>4
  <2>t. PICK t : t = queue'[m]  OBVIOUS
  <2>7. \A j \in DOMAIN t : (j \in DOMAIN s /\ t[j] = s[j]) \/ (j = Len(s) + 1 /\ t[j] = o)
    BY <1>0, <2>3, <2>4, <2>t
  <2>8. \A j, k \in DOMAIN t :
            /\ pc'[t[j]] \in ListPoints /\ Op[t[j]].manager = m
            /\ t[j] = t[k] => j = k
    BY <1>1, <1>6, <2>5, <2>6, <2>7 DEF ListPoints
  <2>9. \A x \in Managers : \A j, k \in DOMAIN queue'[x] :
            /\ pc'[queue'[x][j]] \in ListPoints /\ Op[queue'[x][j]].manager = x
            /\ queue'[x][j] = queue'[x][k] => j = k
    <3> SUFFICES ASSUME NEW x \in Managers
                 PROVE  \A j, k \in DOMAIN queue'[x] :
                            /\ pc'[queue'[x][j]] \in ListPoints /\ Op[queue'[x][j]].manager = x
                            /\ queue'[x][j] = queue'[x][k] => j = k
      OBVIOUS
    <3>1. CASE x = m  BY <2>t, <2>8, <3>1
    <3>2. CASE x # m
      <4>1. queue'[x] = queue[x]  BY <2>2, <3>2
      <4>2. \A j \in DOMAIN queue[x] : queue[x][j] \in Ops /\ queue[x][j] # o  BY <1>2, <1>4, <1>6
      <4> QED  BY <1>1, <1>2, <4>1, <4>2
    <3> QED  BY <3>1, <3>2
  <2>10. ASSUME NEW q \in Ops, pc'[q] \in {"create", "publish"}
         PROVE  queue'[Op[q].manager] # <<>> /\ Head(queue'[Op[q].manager]) = q
    <3>1. q # o  BY <1>6, <2>10
    <3>2. Holds(q)  BY <1>1, <1>2, <2>10, <3>1
    <3>3. CASE Op[q].manager = m
      <4>1. s # <<>> /\ Head(s) = q  BY <2>4, <3>2, <3>3 DEF Holds
      <4>2. Append(s, o) # <<>> /\ Head(Append(s, o)) = q  BY <1>0, <4>1
      <4> QED  BY <2>3, <2>4, <3>3, <4>2
    <3>4. CASE Op[q].manager # m  BY <2>2, <3>2, <3>4, OpTypes DEF Holds
    <3> QED  BY <3>3, <3>4
  <2> QED  BY <2>9, <2>10
<1>7. CASE Release(o) /\ Holds(o) /\ pc[o] \in ListPoints /\ pc'[o] \notin ListPoints
  <2>1. queue' = [queue EXCEPT ![m] = Tail(queue[m])]  BY <1>7 DEF Release
  <2>2. \A x \in Managers : x # m => queue'[x] = queue[x]  BY <2>1, <1>1
  <2>3. queue'[m] = Tail(queue[m])  BY <2>1, <1>0, <1>1
  <2>4. PICK s \in Seq(Ops) : s = queue[m] /\ s # <<>> /\ s[1] = o  BY <1>0, <1>1, <1>7 DEF Holds
  <2>5. \A j, k \in DOMAIN s :
            /\ s[j] \in Ops /\ pc[s[j]] \in ListPoints /\ Op[s[j]].manager = m
            /\ s[j] = s[k] => j = k
    BY <1>0, <1>2, <2>4
  <2>t. PICK t : t = queue'[m]  OBVIOUS
  <2>6. \A j \in DOMAIN t : j \in Nat /\ j + 1 \in DOMAIN s /\ j + 1 # 1 /\ t[j] = s[j + 1]
    BY <2>3, <2>4, <2>t
  <2>7. 1 \in DOMAIN s  BY <2>4
  <2>8. \A j \in DOMAIN t : t[j] # o
    <3> SUFFICES ASSUME NEW j \in DOMAIN t, t[j] = o PROVE FALSE  OBVIOUS
    <3>1. s[j + 1] = s[1] /\ j + 1 \in DOMAIN s /\ j + 1 # 1  BY <2>4, <2>6
    <3> QED  BY <2>5, <2>7, <3>1
  <2>9. ASSUME NEW j \in DOMAIN t, NEW k \in DOMAIN t
        PROVE  /\ pc'[t[j]] \in ListPoints /\ Op[t[j]].manager = m
               /\ t[j] = t[k] => j = k
    <3>1. j \in Nat /\ j + 1 \in DOMAIN s /\ t[j] = s[j + 1]  BY <2>6
    <3>2. k \in Nat /\ k + 1 \in DOMAIN s /\ t[k] = s[k + 1]  BY <2>6
    <3>3. t[j] \in Ops /\ t[j] # o /\ pc[t[j]] \in ListPoints /\ Op[t[j]].manager = m  BY <2>5, <2>8, <3>1
    <3>4. t[j] = t[k] => j + 1 = k + 1  BY <2>5, <3>1, <3>2
    <3> QED  BY <1>1, <3>1, <3>2, <3>3, <3>4
  <2>10. \A x \in Managers : \A j, k \in DOMAIN queue'[x] :
            /\ pc'[queue'[x][j]] \in ListPoints /\ Op[queue'[x][j]].manager = x
            /\ queue'[x][j] = queue'[x][k] => j = k
    <3> SUFFICES ASSUME NEW x \in Managers
                 PROVE  \A j, k \in DOMAIN queue'[x] :
                            /\ pc'[queue'[x][j]] \in ListPoints /\ Op[queue'[x][j]].manager = x
                            /\ queue'[x][j] = queue'[x][k] => j = k
      OBVIOUS
    <3>1. CASE x = m  BY <2>t, <2>9, <3>1
    <3>2. CASE x # m
      <4>1. queue'[x] = queue[x]  BY <2>2, <3>2
      <4>2. \A j \in DOMAIN queue[x] : queue[x][j] \in Ops /\ queue[x][j] # o  BY <1>2, <1>4, <3>2
      <4> QED  BY <1>1, <1>2, <4>1, <4>2
    <3> QED  BY <3>1, <3>2
  <2>11. ASSUME NEW q \in Ops, pc'[q] \in {"create", "publish"}
         PROVE  queue'[Op[q].manager] # <<>> /\ Head(queue'[Op[q].manager]) = q
    <3>1. q # o  BY <1>7, <2>11 DEF ListPoints
    <3>2. Holds(q)  BY <1>1, <1>2, <2>11, <3>1
    <3>3. Op[q].manager # m  BY <1>3, <1>7, <3>1, <3>2
    <3> QED  BY <2>2, <3>2, <3>3, OpTypes DEF Holds
  <2> QED  BY <2>10, <2>11
<1> QED  BY <1>5, <1>6, <1>7, QueueStep

\* Between the allocation of an index and the entry in the credential, the index is kept.
LEMMA AllocatingStep ==
    ASSUME Controlled, NEW o \in setting.ops, Step(o)
    PROVE  \/ AllocateIndex(o)
           \/ counter' = counter /\ (Allocating(o)' => Allocating(o) /\ copy'[o] = copy[o])
<1>0. o \in Ops /\ Kind(o)' = Kind(o)  BY SettingTypes DEF Controlled, Kind
<1>c. Courses(o) /\ pc \in [Ops -> ControlPoints]  BY <1>0 DEF Controlled, Shapes, OpShapes
<1> USE DEF Courses, RegisterPoints, MarkPoints, Goto, Allocating, listVars, localVars
<1>1. CASE \/ RegisterStart(o) \/ RegisterExisting(o) \/ RegisterNodeAtomic(o) \/ RegisterSet(o)
           \/ LinkRead(o) \/ LinkWrite(o) \/ Rollback(o)
  BY <1>0, <1>c, <1>1 DEF RegisterStart, RegisterExisting, RegisterNodeAtomic, RegisterSet, LinkRead, LinkWrite,
    Rollback
<1>2. CASE RemoveStart(o) \/ RemoveParent(o) \/ RemoveUnlink(o) \/ RemoveDelete(o)
  BY <1>0, <1>c, <1>2 DEF RemoveStart, RemoveParent, RemoveUnlink, RemoveDelete
<1>3. CASE AllocateIndex(o) \/ EnsureStatusListExists(o) \/ CreateRead(o) \/ CreateWrite(o)
  BY <1>0, <1>c, <1>3 DEF AllocateIndex, EnsureStatusListExists, CreateRead, Allocated, CreateWrite
<1>4. CASE RevokeStart(o) \/ Depth(o) \/ MarkTarget(o) \/ MarkWrite(o) \/ MarkBack(o) \/ NodeMarked(o)
  BY <1>0, <1>c, <1>4 DEF RevokeStart, Depth, MarkTarget, MarkRead, MarkWrite, MarkBack, NodeMarked, AfterMark
<1>5. CASE UpdateRead(o) \/ UpdateWrite(o)
  BY <1>0, <1>c, <1>5 DEF UpdateRead, UpdateWrite
<1>6. CASE Descend(o) \/ (\E n \in Nodes : RevokeNext(o, n)) \/ RevokeDone(o)
  BY <1>0, <1>c, <1>6 DEF Descend, RevokeNext, MarkRead, RevokeDone
<1>7. CASE RestoreStart(o) \/ RestoreUpdate(o)
  BY <1>0, <1>c, <1>7 DEF RestoreStart, RestoreUpdate
<1>8. CASE CheckStart(o) \/ CheckNode(o) \/ CheckChain(o)
  BY <1>0, <1>c, <1>8 DEF CheckStart, CheckNode, CheckChain
<1> QED  BY <1>1, <1>2, <1>3, <1>4, <1>5, <1>6, <1>7, <1>8 DEF Step

\* No two credentials name one index, whatever allocations run at the same time.
LEMMA AllottedStep ==
    ASSUME Controlled, Queued, Allotted, NEW o \in setting.ops, Step(o), setting' = setting
    PROVE  Allotted'
<1>0. o \in Ops /\ Node(o) \in Nodes /\ counter \in Nat /\ entry \in [Nodes -> Nat \cup {None}]
  BY SettingTypes, OpTypes DEF Controlled, Shapes, ListShapes
<1>1. \A q \in Ops : Kind(q)' = Kind(q) /\ Node(q)' = Node(q) /\ Node(q) \in Nodes
  BY OpTypes DEF Kind, Node
<1>2. \A q \in Ops : q # o => (Allocating(q)' <=> Allocating(q)) /\ copy'[q] = copy[q]
  BY <1>0, <1>1, ElsewhereHolds DEF Controlled, Elsewhere, Allocating
<1>3. /\ \A n \in Nodes : entry[n] # None =>
            /\ entry[n] < setting.capacity /\ entry[n] < counter
            /\ \A m \in Nodes : entry[m] = entry[n] => m = n
      /\ \A q \in Ops : Allocating(q) =>
            /\ entry[Node(q)] = None
            /\ \E i \in 0 .. counter - 1 : copy[q] = {i} /\ \A n \in Nodes : entry[n] # i
            /\ \A r \in Ops : Allocating(r) /\ r # q => copy[r] \cap copy[q] = {}
  BY DEF Allotted, EntriesUsable
<1> SUFFICES
      /\ \A n \in Nodes : entry'[n] # None =>
            /\ entry'[n] < setting.capacity /\ entry'[n] < counter'
            /\ \A m \in Nodes : entry'[m] = entry'[n] => m = n
      /\ \A q \in Ops : Allocating(q)' =>
            /\ entry'[Node(q)] = None
            /\ \E i \in 0 .. counter' - 1 : copy'[q] = {i} /\ \A n \in Nodes : entry'[n] # i
            /\ \A r \in Ops : Allocating(r)' /\ r # q => copy'[r] \cap copy'[q] = {}
  BY <1>1 DEF Allotted, EntriesUsable
<1>4. CASE AllocateIndex(o)
  <2>1. entry' = entry /\ counter' = counter + 1 /\ entry[Node(o)] = None /\ copy'[o] = {counter}
    BY <1>0, <1>4 DEF AllocateIndex, Controlled, Shapes, ListShapes
  <2>2. \A n \in Nodes : entry[n] # None => entry[n] \in Nat /\ entry[n] < counter /\ entry[n] # counter
    BY <1>0, <1>3
  <2>3. None # counter  BY <1>0, RevocationAssumption
  <2>4. \A n \in Nodes : entry[n] # counter  BY <2>2, <2>3
  <2>5. \A q \in Ops : q # o /\ Allocating(q)' =>
            /\ entry[Node(q)] = None
            /\ \E i \in 0 .. counter - 1 : copy'[q] = {i} /\ \A n \in Nodes : entry[n] # i
    BY <1>2, <1>3
  <2>6. \A q \in Ops : q # o /\ Allocating(q)' => counter \notin copy'[q]
    <3> SUFFICES ASSUME NEW q \in Ops, q # o, Allocating(q)' PROVE counter \notin copy'[q]  OBVIOUS
    <3>1. PICK i \in 0 .. counter - 1 : copy'[q] = {i}  BY <2>5
    <3>2. i # counter  BY <1>0
    <3> QED  BY <3>1, <3>2
  <2>7. ASSUME NEW q \in Ops, Allocating(q)'
        PROVE  /\ entry'[Node(q)] = None
               /\ \E i \in 0 .. counter' - 1 : copy'[q] = {i} /\ \A n \in Nodes : entry'[n] # i
    <3>1. CASE q = o
      <4>1. counter \in 0 .. counter' - 1  BY <1>0, <2>1
      <4> QED  BY <2>1, <2>4, <3>1, <4>1
    <3>2. CASE q # o
      <4>1. PICK i \in 0 .. counter - 1 : copy'[q] = {i} /\ \A n \in Nodes : entry[n] # i
        BY <2>5, <2>7, <3>2
      <4>2. i \in 0 .. counter' - 1  BY <1>0, <2>1
      <4> QED  BY <2>1, <2>5, <2>7, <3>2, <4>1, <4>2
    <3> QED  BY <3>1, <3>2
  <2>8. ASSUME NEW q \in Ops, Allocating(q)', NEW r \in Ops, Allocating(r)', r # q
        PROVE  copy'[r] \cap copy'[q] = {}
    <3>1. CASE q # o /\ r # o  BY <1>2, <1>3, <2>8, <3>1
    <3>2. CASE q = o  BY <2>1, <2>6, <2>8, <3>2
    <3>3. CASE r = o  BY <2>1, <2>6, <2>8, <3>3
    <3> QED  BY <3>1, <3>2, <3>3
  <2>9. ASSUME NEW n \in Nodes, entry'[n] # None
        PROVE  /\ entry'[n] < setting.capacity /\ entry'[n] < counter'
               /\ \A m \in Nodes : entry'[m] = entry'[n] => m = n
    <3>1. entry'[n] \in Nat /\ entry'[n] < counter  BY <2>1, <2>2, <2>9
    <3>2. entry'[n] < counter'  BY <1>0, <2>1, <3>1
    <3> QED  BY <1>3, <2>1, <2>9, <3>2
  <2> QED  BY <2>7, <2>8, <2>9
<1>5. CASE counter' = counter /\ (Allocating(o)' => Allocating(o) /\ copy'[o] = copy[o])
  <2>1. \A q \in Ops : Allocating(q)' => Allocating(q) /\ copy'[q] = copy[q]  BY <1>2, <1>5
  <2>2. CASE entry' = entry  BY <1>3, <1>5, <2>1, <2>2
  <2>3. CASE /\ Allocating(o) /\ pc'[o] = "done" /\ entry[Node(o)] = None
             /\ \E i \in copy[o] : /\ i \in Nat /\ i < setting.capacity /\ copy[o] = {i}
                                   /\ entry' = [entry EXCEPT ![Node(o)] = i]
    <3>1. PICK i \in Nat : /\ i < setting.capacity /\ copy[o] = {i}
                           /\ entry' = [entry EXCEPT ![Node(o)] = i]
      BY <2>3
    <3>2. entry'[Node(o)] = i /\ \A n \in Nodes : n # Node(o) => entry'[n] = entry[n]  BY <1>0, <3>1
    <3>3. i \in 0 .. counter - 1 /\ \A n \in Nodes : entry[n] # i
      <4>1. PICK j \in 0 .. counter - 1 : copy[o] = {j} /\ \A n \in Nodes : entry[n] # j  BY <1>0, <1>3, <2>3
      <4>2. i = j  BY <3>1, <4>1
      <4> QED  BY <4>1, <4>2
    <3>4. ~Allocating(o)'  BY <2>3 DEF Allocating
    <3>5. ASSUME NEW q \in Ops, Allocating(q)'
          PROVE  /\ q # o /\ Allocating(q) /\ copy'[q] = copy[q] /\ Node(q) # Node(o)
                 /\ \E j \in 0 .. counter - 1 : copy[q] = {j} /\ j # i /\ \A n \in Nodes : entry[n] # j
      <4>1. q # o /\ Allocating(q) /\ copy'[q] = copy[q]  BY <2>1, <3>4, <3>5
      <4>2. {Op[o].kind, Op[q].kind} = {"allocate"}  BY <2>3, <4>1 DEF Allocating, Kind
      <4>3. Op[o].node # Op[q].node  BY <1>0, <4>1, <4>2, RevocationAssumption
      <4>4. copy[o] \cap copy[q] = {}  BY <1>0, <1>3, <2>3, <4>1
      <4>5. PICK j \in 0 .. counter - 1 : copy[q] = {j} /\ \A n \in Nodes : entry[n] # j  BY <1>3, <4>1
      <4>6. j # i  BY <3>1, <4>4, <4>5
      <4> QED  BY <4>1, <4>3, <4>5, <4>6 DEF Node
    <3>6. ASSUME NEW q \in Ops, Allocating(q)'
          PROVE  /\ entry'[Node(q)] = None
                 /\ \E j \in 0 .. counter' - 1 : copy'[q] = {j} /\ \A n \in Nodes : entry'[n] # j
      <4>1. entry'[Node(q)] = None  BY <1>1, <1>3, <3>2, <3>5, <3>6
      <4>2. PICK j \in 0 .. counter - 1 : copy[q] = {j} /\ j # i /\ \A n \in Nodes : entry[n] # j  BY <3>5, <3>6
      <4>3. \A n \in Nodes : entry'[n] # j  BY <3>2, <4>2
      <4> QED  BY <1>5, <3>5, <3>6, <4>1, <4>2, <4>3
    <3>7. \A q \in Ops : Allocating(q)' => \A r \in Ops : Allocating(r)' /\ r # q => copy'[r] \cap copy'[q] = {}
      BY <1>3, <3>5
    <3>8. ASSUME NEW n \in Nodes, entry'[n] # None
          PROVE  /\ entry'[n] < setting.capacity /\ entry'[n] < counter'
                 /\ \A m \in Nodes : entry'[m] = entry'[n] => m = n
      <4>1. CASE n = Node(o)
        <5>1. i < counter  BY <1>0, <3>3
        <5> QED  BY <1>5, <3>1, <3>2, <3>3, <4>1, <5>1
      <4>2. CASE n # Node(o)  BY <1>3, <1>5, <3>2, <3>3, <3>8, <4>2
      <4> QED  BY <4>1, <4>2
    <3> QED  BY <3>6, <3>7, <3>8
  <2> QED  BY <2>2, <2>3, EntryStep
<1> QED  BY <1>4, <1>5, AllocatingStep

\* One manager: the holder of the lock is the only one that writes the list.
LEMMA OneHolder ==
    ASSUME Controlled, Queued, OneManager, NEW o \in Ops, NEW q \in Ops,
           pc[o] \in {"create", "publish"}, pc[q] \in {"create", "publish"}
    PROVE  q = o
<1>1. Holds(o) /\ Holds(q)  BY DEF Queued
<1>2. o \in setting.ops /\ q \in setting.ops  BY DEF Controlled, Knows
<1> QED  BY <1>1, <1>2 DEF OneManager, Holds

\* The list changes in the lock, and what an operation has read of it stays.
LEMMA ListStep ==
    ASSUME Controlled, NEW o \in setting.ops, Step(o)
    PROVE  \/ CreateWrite(o) \/ UpdateWrite(o)
           \/ /\ list' = list
              /\ pc'[o] = "publish" => list # {} /\ copy'[o] = UNION list /\ UpdateRead(o)
              /\ pc'[o] = "create" => list = {}
<1>0. o \in Ops  BY SettingTypes DEF Controlled
<1>c. Courses(o) /\ pc \in [Ops -> ControlPoints] /\ copy \in [Ops -> SUBSET Nat]
  BY <1>0 DEF Controlled, Shapes, ListShapes, OpShapes
<1> USE DEF Courses, RegisterPoints, MarkPoints, Goto, listVars, localVars
<1>1. CASE \/ RegisterStart(o) \/ RegisterExisting(o) \/ RegisterNodeAtomic(o) \/ RegisterSet(o)
           \/ LinkRead(o) \/ LinkWrite(o) \/ Rollback(o)
  BY <1>0, <1>c, <1>1 DEF RegisterStart, RegisterExisting, RegisterNodeAtomic, RegisterSet, LinkRead, LinkWrite,
    Rollback
<1>2. CASE RemoveStart(o) \/ RemoveParent(o) \/ RemoveUnlink(o) \/ RemoveDelete(o)
  BY <1>0, <1>c, <1>2 DEF RemoveStart, RemoveParent, RemoveUnlink, RemoveDelete
<1>3. CASE AllocateIndex(o) \/ EnsureStatusListExists(o) \/ CreateRead(o) \/ CreateWrite(o)
  BY <1>0, <1>c, <1>3 DEF AllocateIndex, EnsureStatusListExists, CreateRead, Allocated, CreateWrite
<1>4. CASE RevokeStart(o) \/ Depth(o) \/ MarkTarget(o) \/ MarkWrite(o) \/ MarkBack(o) \/ NodeMarked(o)
  BY <1>0, <1>c, <1>4 DEF RevokeStart, Depth, MarkTarget, MarkRead, MarkWrite, MarkBack, NodeMarked, AfterMark
<1>5. CASE UpdateRead(o) \/ UpdateWrite(o)
  BY <1>0, <1>c, <1>5 DEF UpdateRead, UpdateWrite
<1>6. CASE Descend(o) \/ (\E n \in Nodes : RevokeNext(o, n)) \/ RevokeDone(o)
  BY <1>0, <1>c, <1>6 DEF Descend, RevokeNext, MarkRead, RevokeDone
<1>7. CASE RestoreStart(o) \/ RestoreUpdate(o)
  BY <1>0, <1>c, <1>7 DEF RestoreStart, RestoreUpdate
<1>8. CASE CheckStart(o) \/ CheckNode(o) \/ CheckChain(o)
  BY <1>0, <1>c, <1>8 DEF CheckStart, CheckNode, CheckChain
<1> QED  BY <1>1, <1>2, <1>3, <1>4, <1>5, <1>6, <1>7, <1>8 DEF Step

\* With one manager, no one writes between the read and the write of an update.
LEMMA ReadCurrentStep ==
    ASSUME Controlled, Queued, ReadCurrent, NEW o \in setting.ops, Step(o), setting' = setting
    PROVE  ReadCurrent'
<1>0. o \in Ops  BY SettingTypes DEF Controlled
<1> SUFFICES ASSUME OneManager, NEW q \in Ops
             PROVE  /\ pc'[q] = "publish" => list' = {copy'[q]}
                    /\ pc'[q] = "create" => list' = {}
  BY DEF ReadCurrent, OneManager
<1>1. /\ pc[q] = "publish" => list = {copy[q]}
      /\ pc[q] = "create" => list = {}
  BY DEF ReadCurrent
<1>2. q # o => pc'[q] = pc[q] /\ copy'[q] = copy[q]  BY <1>0, ElsewhereHolds DEF Controlled, Elsewhere
<1>3. CASE CreateWrite(o) \/ UpdateWrite(o)
  <2>1. pc[o] \in {"create", "publish"} /\ pc'[o] \notin {"create", "publish"}
    BY <1>0, <1>3 DEF CreateWrite, UpdateWrite, Allocated, Goto, Controlled, Shapes, OpShapes
  <2> QED  BY <1>0, <1>2, <2>1, OneHolder
<1>4. CASE /\ list' = list
           /\ pc'[o] = "publish" => list # {} /\ copy'[o] = UNION list /\ UpdateRead(o)
           /\ pc'[o] = "create" => list = {}
  <2>1. CASE q # o  BY <1>1, <1>2, <1>4, <2>1
  <2>2. CASE q = o /\ pc'[o] = "publish"
    <3>1. \A a, b \in list : a = b  BY DEF Controlled, Shapes, ListShapes
    <3>2. PICK a : a \in list  BY <1>4, <2>2
    <3>3. list = {a}  BY <3>1, <3>2
    <3>4. UNION list = a  BY <3>3
    <3> QED  BY <1>4, <2>2, <3>3, <3>4
  <2>3. CASE q = o /\ pc'[o] # "publish"  BY <1>4, <2>3
  <2> QED  BY <2>1, <2>2, <2>3
<1> QED  BY <1>3, <1>4, ListStep

-----------------------------------------------------------------------------
(* The bits.                                                               *)

\* With one manager a bit is cleared by a restoreDelegation of its delegation only.
LEMMA BitsStep ==
    ASSUME Controlled, Queued, Allotted, ReadCurrent, OneManager, NEW o \in setting.ops, Step(o),
           NEW n \in Nodes, BitSet(n)
    PROVE  \/ BitSet(n)'
           \/ Kind(o) = "restore" /\ Node(o) = n /\ pc[o] = "publish"
<1>0. o \in Ops /\ Node(o) \in Nodes  BY SettingTypes, OpTypes DEF Controlled
<1>1. entry[n] # None /\ entry'[n] = entry[n] /\ \E bits \in list : entry[n] \in bits
  BY EntriesStay DEF BitSet
<1>2. CASE CreateWrite(o)
  <2>1. pc[o] = "create"  BY <1>2 DEF CreateWrite
  <2>2. list = {}  BY <1>0, <2>1 DEF ReadCurrent
  <2> QED  BY <1>1, <2>2
<1>3. CASE UpdateWrite(o)
  <2>1. pc[o] = "publish" /\ list = {copy[o]}  BY <1>0, <1>3 DEF UpdateWrite, ReadCurrent
  <2>2. entry[n] \in copy[o]  BY <1>1, <2>1
  <2>3. cur[o] \in Nodes /\ entry[cur[o]] # None /\ Kind(o) \in {"revoke", "restore"}
    BY <1>0, <2>1 DEF Controlled, Knows, Courses, ListPoints, HasEntry
  <2>4. Kind(o) = "restore" => cur[o] = Node(o)  BY <1>0, <2>1 DEF Controlled, Knows
  <2>5. CASE list' = list  BY <1>1, <2>5 DEF BitSet
  <2>6. CASE Kind(o) = "revoke" /\ list' = {copy[o] \cup {entry[cur[o]]}}  BY <1>1, <2>2, <2>6 DEF BitSet
  <2>7. CASE Kind(o) = "restore" /\ list' = {copy[o] \ {entry[cur[o]]}}
    <3>1. CASE entry[n] = entry[cur[o]]
      <4>1. n = cur[o]  BY <1>1, <2>3, <3>1 DEF Allotted, EntriesUsable
      <4> QED  BY <2>1, <2>4, <2>7, <4>1
    <3>2. CASE entry[n] # entry[cur[o]]  BY <1>1, <2>2, <2>7, <3>2 DEF BitSet
    <3> QED  BY <3>1, <3>2
  <2> QED  BY <1>3, <2>3, <2>5, <2>6, <2>7 DEF UpdateWrite
<1>4. CASE list' = list  BY <1>1, <1>4 DEF BitSet
<1> QED  BY <1>2, <1>3, <1>4, ListStep

\* A revocation sets the bit of the delegation it works on.
LEMMA BitPublished ==
    ASSUME Controlled, NEW o \in setting.ops, UpdateWrite(o), Kind(o) = "revoke", pc'[o] # "failed"
    PROVE  BitSet(cur[o])'
<1>0. o \in Ops  BY SettingTypes DEF Controlled
<1>1. pc[o] = "publish" /\ entry' = entry /\ list' = {copy[o] \cup {entry[cur[o]]}}
  BY <1>0 DEF UpdateWrite, Goto, Controlled, Shapes, OpShapes
<1>2. cur[o] \in Nodes /\ entry[cur[o]] # None  BY <1>0, <1>1 DEF Controlled, Knows, ListPoints, HasEntry
<1>3. BitSet(cur[o])' <=> entry'[cur'[o]] # None /\ \E bits \in list' : entry'[cur'[o]] \in bits  BY DEF BitSet
<1>4. cur' = cur  BY DEF UpdateWrite, localVars
<1> QED  BY <1>1, <1>2, <1>3, <1>4

\* What a restoreDelegation has not yet cleared, it had not cleared before.
LEMMA RestoreCourse ==
    ASSUME Controlled, NEW o \in setting.ops, Step(o), Kind(o) = "restore",
           pc'[o] \in {"idle", "unpublish", "list", "publish"}
    PROVE  pc[o] \in {"idle", "unpublish", "list"}
<1>0. o \in Ops  BY SettingTypes DEF Controlled
<1>c. Courses(o) /\ pc \in [Ops -> ControlPoints]  BY <1>0 DEF Controlled, Shapes, OpShapes
<1> USE DEF Courses, RegisterPoints, MarkPoints, Goto
<1>1. CASE \/ RegisterStart(o) \/ RegisterExisting(o) \/ RegisterNodeAtomic(o) \/ RegisterSet(o)
           \/ LinkRead(o) \/ LinkWrite(o) \/ Rollback(o)
  BY <1>0, <1>c, <1>1 DEF RegisterStart, RegisterExisting, RegisterNodeAtomic, RegisterSet, LinkRead, LinkWrite,
    Rollback
<1>2. CASE RemoveStart(o) \/ RemoveParent(o) \/ RemoveUnlink(o) \/ RemoveDelete(o)
  BY <1>0, <1>c, <1>2 DEF RemoveStart, RemoveParent, RemoveUnlink, RemoveDelete
<1>3. CASE AllocateIndex(o) \/ EnsureStatusListExists(o) \/ CreateRead(o) \/ CreateWrite(o)
  BY <1>0, <1>c, <1>3 DEF AllocateIndex, EnsureStatusListExists, CreateRead, Allocated, CreateWrite
<1>4. CASE RevokeStart(o) \/ Depth(o) \/ MarkTarget(o) \/ MarkWrite(o) \/ MarkBack(o) \/ NodeMarked(o)
  BY <1>0, <1>c, <1>4 DEF RevokeStart, Depth, MarkTarget, MarkRead, MarkWrite, MarkBack, NodeMarked, AfterMark
<1>5. CASE UpdateRead(o) \/ UpdateWrite(o)
  BY <1>0, <1>c, <1>5 DEF UpdateRead, UpdateWrite
<1>6. CASE Descend(o) \/ (\E n \in Nodes : RevokeNext(o, n)) \/ RevokeDone(o)
  BY <1>0, <1>c, <1>6 DEF Descend, RevokeNext, MarkRead, RevokeDone
<1>7. CASE RestoreStart(o) \/ RestoreUpdate(o)
  BY <1>0, <1>c, <1>7 DEF RestoreStart, RestoreUpdate
<1>8. CASE CheckStart(o) \/ CheckNode(o) \/ CheckChain(o)
  BY <1>0, <1>c, <1>8 DEF CheckStart, CheckNode, CheckChain
<1> QED  BY <1>1, <1>2, <1>3, <1>4, <1>5, <1>6, <1>7, <1>8 DEF Step

\* A delegation that nobody has restored by now was not restored before.
LEMMA UnrestoredStep ==
    ASSUME Controlled, NEW o \in setting.ops, Step(o), setting' = setting, NEW n \in Nodes, Unrestored(n)'
    PROVE  Unrestored(n) /\ ~(Kind(o) = "restore" /\ Node(o) = n /\ pc[o] = "publish")
<1>0. o \in Ops  BY SettingTypes DEF Controlled
<1>1. \A r \in setting.ops : Kind(r) = "restore" /\ Node(r) = n =>
          pc'[r] \in {"idle", "unpublish", "list", "publish"}
  BY DEF Unrestored, Called, Kind, Node
<1>2. \A r \in setting.ops : r # o => pc'[r] = pc[r]
  BY <1>0, SettingTypes, ElsewhereHolds DEF Controlled, Elsewhere
<1>3. Kind(o) = "restore" /\ Node(o) = n => pc[o] \in {"idle", "unpublish", "list"}
  BY <1>1, RestoreCourse
<1> QED  BY <1>1, <1>2, <1>3 DEF Unrestored, Called

\* How a revocation comes to be through with the bit of its target.
LEMMA ThroughBitStep ==
    ASSUME Controlled, NEW o \in setting.ops, Step(o), Kind(o) = "revoke", ThroughBit(o)'
    PROVE  \/ ThroughBit(o)
           \/ UpdateWrite(o) /\ pc'[o] # "failed" /\ cur[o] = Node(o)
           \/ pc[o] = "marked" /\ UNCHANGED graphVars /\ cur[o] = Node(o) /\ Node(o) \notin Listed /\ back[o]
<1>0. o \in Ops /\ Node(o)' = Node(o)  BY SettingTypes DEF Controlled, Node
<1>c. Courses(o) /\ pc \in [Ops -> ControlPoints] /\ cur \in [Ops -> Nodes \cup {None}]
  BY <1>0 DEF Controlled, Shapes, OpShapes
<1> USE DEF ThroughBit, Courses, RegisterPoints, MarkPoints, ListPoints, Goto, localVars
<1>1. CASE \/ RegisterStart(o) \/ RegisterExisting(o) \/ RegisterNodeAtomic(o) \/ RegisterSet(o)
           \/ LinkRead(o) \/ LinkWrite(o) \/ Rollback(o)
  BY <1>0, <1>c, <1>1 DEF RegisterStart, RegisterExisting, RegisterNodeAtomic, RegisterSet, LinkRead, LinkWrite,
    Rollback
<1>2. CASE RemoveStart(o) \/ RemoveParent(o) \/ RemoveUnlink(o) \/ RemoveDelete(o)
  BY <1>0, <1>c, <1>2 DEF RemoveStart, RemoveParent, RemoveUnlink, RemoveDelete
<1>3. CASE AllocateIndex(o) \/ EnsureStatusListExists(o) \/ CreateRead(o) \/ CreateWrite(o)
  BY <1>0, <1>c, <1>3 DEF AllocateIndex, EnsureStatusListExists, CreateRead, Allocated, CreateWrite
<1>4. CASE RevokeStart(o) \/ Depth(o) \/ MarkTarget(o) \/ MarkWrite(o) \/ MarkBack(o) \/ NodeMarked(o)
  BY <1>0, <1>c, <1>4 DEF RevokeStart, Depth, MarkTarget, MarkRead, MarkWrite, MarkBack, NodeMarked, AfterMark
<1>5. CASE UpdateRead(o) \/ UpdateWrite(o)
  BY <1>0, <1>c, <1>5 DEF UpdateRead, UpdateWrite
<1>6. CASE Descend(o) \/ RevokeDone(o)
  BY <1>0, <1>c, <1>6 DEF Descend, RevokeDone
<1>7. CASE \E n \in Nodes : RevokeNext(o, n)
  <2>1. pc[o] = "next"  BY <1>7 DEF RevokeNext
  <2> QED  BY <2>1
<1>8. CASE RestoreStart(o) \/ RestoreUpdate(o)
  BY <1>0, <1>c, <1>8 DEF RestoreStart, RestoreUpdate
<1>9. CASE CheckStart(o) \/ CheckNode(o) \/ CheckChain(o)
  BY <1>0, <1>c, <1>9 DEF CheckStart, CheckNode, CheckChain
<1> QED  BY <1>1, <1>2, <1>3, <1>4, <1>5, <1>6, <1>7, <1>8, <1>9 DEF Step

\* The bit of a revoked delegation stays set until it is restored.
LEMMA TargetsPublishedStep ==
    ASSUME Controlled, Queued, Allotted, ReadCurrent, TargetsPublished,
           NEW o \in setting.ops, Step(o), setting' = setting
    PROVE  TargetsPublished'
<1>0. o \in Ops  BY SettingTypes DEF Controlled
<1> SUFFICES ASSUME OneManager, NEW q \in setting.ops, Kind(q) = "revoke",
                    ThroughBit(q)', Node(q) \in Listed, Unrestored(Node(q))'
             PROVE  BitSet(Node(q))'
  BY DEF TargetsPublished, OneManager, Called, Kind, Node
<1>1. q \in Ops /\ Node(q) \in Nodes /\ Node(q)' = Node(q)  BY SettingTypes, OpTypes DEF Controlled, Node
<1>2. /\ Unrestored(Node(q))
      /\ ~(Kind(o) = "restore" /\ Node(o) = Node(q) /\ pc[o] = "publish")
  BY <1>1, UnrestoredStep
<1>3. CASE ThroughBit(q)
  <2>1. BitSet(Node(q))  BY <1>2, <1>3 DEF TargetsPublished, Called
  <2>2. \A n \in Nodes : BitSet(n) => BitSet(n)' \/ (Kind(o) = "restore" /\ Node(o) = n /\ pc[o] = "publish")
    BY BitsStep
  <2>3. BitSet(Node(q))' <=> (entry'[Node(q)] # None /\ \E bits \in list' : entry'[Node(q)] \in bits)
    BY <1>1 DEF BitSet
  <2> QED  BY <1>1, <1>2, <2>1, <2>2, <2>3 DEF BitSet
<1>4. CASE ~ThroughBit(q)
  <2>1. q = o  BY <1>0, <1>1, <1>4, ElsewhereHolds DEF Controlled, Elsewhere, ThroughBit
  <2>2. UpdateWrite(o) /\ pc'[o] # "failed" /\ cur[o] = Node(o)  BY <1>4, <2>1, ThroughBitStep
  <2>3. BitSet(cur[o])'  BY <2>1, <2>2, BitPublished
  <2>4. cur' = cur  BY <2>2 DEF UpdateWrite, localVars
  <2> QED  BY <1>1, <2>1, <2>2, <2>3, <2>4 DEF BitSet
<1> QED  BY <1>3, <1>4

-----------------------------------------------------------------------------
(* The marks.                                                              *)

\* Which steps change the graph.
LEMMA GraphStep ==
    ASSUME NEW o \in setting.ops, Step(o)
    PROVE  \/ UNCHANGED graphVars
           \/ RegisterNodeAtomic(o) \/ RegisterSet(o) \/ LinkWrite(o) \/ Rollback(o)
           \/ RemoveUnlink(o) \/ RemoveDelete(o) \/ MarkWrite(o)
BY DEF Step, RegisterStart, RegisterExisting, LinkRead, RemoveStart, RemoveParent, AllocateIndex,
  EnsureStatusListExists, CreateRead, CreateWrite, RevokeStart, Depth, MarkTarget, MarkBack, NodeMarked,
  UpdateRead, UpdateWrite, Descend, RevokeNext, RevokeDone, RestoreStart, RestoreUpdate, CheckStart,
  CheckNode, CheckChain

\* What setNode leaves in the graph, with a new object and with one that was read.
LEMMA StoreNewEffect ==
    ASSUME GraphShapes, NEW n \in Nodes, NEW object \in Objects, StoreNew(n, object)
    PROVE  /\ \A i \in DOMAIN heap : i \in DOMAIN heap' /\ heap'[i] = heap[i]
           /\ \A i \in DOMAIN heap' : i \in DOMAIN heap \/ heap'[i] = object
           /\ at'[n] # 0 /\ heap'[at'[n]] = object /\ \A x \in Nodes : x # n => at'[x] = at[x]
<1>1. heap \in Seq(Objects) /\ Len(heap) \in Nat /\ at \in [Nodes -> 0 .. Len(heap)]
  BY DEF GraphShapes, Objects
<1>2. heap' = Append(heap, object) /\ at' = [at EXCEPT ![n] = Len(heap) + 1]  BY DEF StoreNew
<1>3. DOMAIN heap = 1 .. Len(heap) /\ DOMAIN heap' = 1 .. Len(heap) + 1  BY ONLY <1>1, <1>2
<1>4. heap'[Len(heap) + 1] = object /\ \A i \in 1 .. Len(heap) : heap'[i] = heap[i]  BY ONLY <1>1, <1>2
<1>5. at'[n] = Len(heap) + 1 /\ \A x \in Nodes : x # n => at'[x] = at[x]  BY ONLY <1>1, <1>2
<1> QED  BY ONLY <1>1, <1>3, <1>4, <1>5

\* An object that is stored back keeps its mark.
LEMMA StoreBackEffect ==
    ASSUME GraphShapes, NEW n \in Nodes, NEW r \in 1 .. Len(heap), NEW children, StoreBack(n, r, children)
    PROVE  /\ DOMAIN heap' = DOMAIN heap
           /\ \A i \in DOMAIN heap : heap'[i].revoked = heap[i].revoked
<1>1. heap \in Seq(Objects) /\ heap[r] \in Objects  BY ObjectTypes
<1>2. heap' = [heap EXCEPT ![r] = [heap[r] EXCEPT !.children = children]]  BY DEF StoreBack
<1>3. [heap[r] EXCEPT !.children = children].revoked = heap[r].revoked  BY <1>1 DEF Objects
<1>4. DOMAIN heap' = DOMAIN heap  BY ONLY <1>1, <1>2
<1>5. \A i \in DOMAIN heap : heap'[i] = IF i = r THEN [heap[r] EXCEPT !.children = children] ELSE heap[i]
  BY ONLY <1>1, <1>2
<1> QED  BY <1>3, <1>4, <1>5

\* registerNodeAtomic adds a node without a mark, and keeps the others and their marks.
LEMMA InsertEffect ==
    ASSUME GraphShapes, NEW n \in Nodes, NEW parent, at[n] = 0,
           parent # None => parent \in Nodes /\ at[parent] # 0, InsertLinked(n, parent)
    PROVE  /\ at'[n] # 0 /\ ~heap'[at'[n]].revoked
           /\ \A x \in Nodes : at[x] # 0 => at'[x] # 0 /\ heap'[at'[x]].revoked = heap[at[x]].revoked
           /\ \A x \in Nodes : at'[x] # 0 => at[x] # 0 \/ x = n
           /\ \A i \in DOMAIN heap' :
                \/ i \in DOMAIN heap /\ heap'[i] = heap[i]
                \/ ~heap'[i].revoked
                \/ \E j \in DOMAIN heap : heap'[i].revoked = heap[j].revoked
<1>1. heap \in Seq(Objects) /\ Len(heap) \in Nat /\ at \in [Nodes -> 0 .. Len(heap)]
  BY DEF GraphShapes, Objects
<1>2. NewNode \in Objects /\ ~NewNode.revoked  BY DEF NewNode, Objects
<1>n. None \notin Nodes  BY RevocationAssumption
<1>3. CASE parent = None
  <2>1. heap' = heap \o <<NewNode>> \o <<>>  BY <1>3 DEF InsertLinked
  <2>2. /\ DOMAIN heap = 1 .. Len(heap) /\ DOMAIN heap' = 1 .. Len(heap) + 1
        /\ heap'[Len(heap) + 1] = NewNode
        /\ \A i \in 1 .. Len(heap) : heap'[i] = heap[i]
    BY ONLY <1>1, <1>2, <2>1
  <2>3. at'[n] = Len(heap) + 1 /\ \A x \in Nodes : x # n => at'[x] = at[x]  BY <1>3, <1>n DEF InsertLinked
  <2>4. at'[n] # 0 /\ ~heap'[at'[n]].revoked  BY <1>1, <1>2, <2>2, <2>3
  <2>5. \A x \in Nodes : at[x] # 0 => at[x] \in 1 .. Len(heap) /\ x # n  BY <1>1
  <2>6. \A i \in 1 .. Len(heap) + 1 : i \in 1 .. Len(heap) \/ i = Len(heap) + 1  BY ONLY <1>1
  <2> QED  BY <1>2, <2>2, <2>3, <2>4, <2>5, <2>6
<1>4. CASE parent # None
  <2> DEFINE linked == [heap[at[parent]] EXCEPT !.children = @ \cup {n}]
  <2>1. at[parent] \in 1 .. Len(heap) /\ parent \in Nodes  BY <1>1, <1>4
  <2>2. heap[at[parent]] \in Objects  BY <1>1, <2>1
  <2>3. linked \in Objects /\ linked.revoked = heap[at[parent]].revoked  BY <2>2 DEF Objects
  <2>4. heap' = heap \o <<NewNode>> \o <<linked>>  BY <1>4 DEF InsertLinked
  <2> HIDE DEF linked
  <2>5. /\ DOMAIN heap = 1 .. Len(heap) /\ DOMAIN heap' = 1 .. Len(heap) + 2
        /\ heap'[Len(heap) + 1] = NewNode /\ heap'[Len(heap) + 2] = linked
        /\ \A i \in 1 .. Len(heap) : heap'[i] = heap[i]
    BY ONLY <1>1, <1>2, <2>3, <2>4
  <2>6. parent # n  BY <1>4
  <2>7. /\ at'[n] = Len(heap) + 1 /\ at'[parent] = Len(heap) + 2
        /\ \A x \in Nodes : x # n /\ x # parent => at'[x] = at[x]
    BY <2>1, <2>6 DEF InsertLinked
  <2>8. at'[n] # 0 /\ ~heap'[at'[n]].revoked  BY <1>1, <1>2, <2>5, <2>7
  <2>9. at'[parent] # 0 /\ heap'[at'[parent]].revoked = heap[at[parent]].revoked  BY <1>1, <2>3, <2>5, <2>7
  <2>10. \A x \in Nodes : at[x] # 0 => at[x] \in 1 .. Len(heap) /\ x # n  BY <1>1
  <2>11. \A i \in 1 .. Len(heap) + 2 : i \in 1 .. Len(heap) \/ i = Len(heap) + 1 \/ i = Len(heap) + 2
    BY ONLY <1>1
  <2>12. \A x \in Nodes : at[x] # 0 => at'[x] # 0 /\ heap'[at'[x]].revoked = heap[at[x]].revoked
    BY <2>5, <2>7, <2>9, <2>10
  <2>13. \A x \in Nodes : at'[x] # 0 => at[x] # 0 \/ x = n  BY <1>4, <2>7
  <2>14. \A i \in DOMAIN heap' :
                \/ i \in DOMAIN heap /\ heap'[i] = heap[i]
                \/ ~heap'[i].revoked
                \/ \E j \in DOMAIN heap : heap'[i].revoked = heap[j].revoked
    BY <1>2, <2>1, <2>3, <2>5, <2>11
  <2> QED  BY <2>8, <2>12, <2>13, <2>14
<1> QED  BY <1>3, <1>4

\* What a path consists of.
LEMMA PathTypes ==
    ASSUME NEW n \in Nodes
    PROVE  \A k \in DOMAIN Path[n] : Path[n][k] \in Nodes
<1>1. PICK p \in Seq(Nodes) : p = Path[n]  BY ForestAssumption
<1>2. \A k \in DOMAIN p : p[k] \in Nodes  BY ONLY <1>1
<1> QED  BY <1>1, <1>2

\* setRevoked replaces the object of one node, with the mark and with the children it has read.
LEMMA MarkWriteEffect ==
    ASSUME Controlled, NEW o \in setting.ops, MarkWrite(o)
    PROVE  /\ cur[o] \in Nodes /\ at'[cur[o]] # 0
           /\ heap'[at'[cur[o]]].revoked = (Kind(o) = "revoke" /\ ~setting.dropsMark)
           /\ heap'[at'[cur[o]]].children = heap[ref[o]].children
           /\ \A x \in Nodes : x # cur[o] => at'[x] = at[x]
           /\ \A i \in DOMAIN heap : i \in DOMAIN heap' /\ heap'[i] = heap[i]
           /\ \A i \in DOMAIN heap' :
                i \in DOMAIN heap \/ heap'[i].revoked = (Kind(o) = "revoke" /\ ~setting.dropsMark)
<1>0. o \in Ops  BY SettingTypes DEF Controlled
<1>1. cur[o] \in Nodes /\ ref[o] # 0
  BY <1>0 DEF MarkWrite, Controlled, Knows, MarkPoints
<1>2. GraphShapes /\ ref[o] \in 1 .. Len(heap)
  BY <1>0, <1>1 DEF Controlled, Shapes, GraphShapes
<1>3. heap[ref[o]] \in Objects  BY <1>2, ObjectTypes
<1> DEFINE object == [heap[ref[o]] EXCEPT !.revoked = Kind(o) = "revoke" /\ ~setting.dropsMark]
<1>4. /\ object \in Objects /\ object.children = heap[ref[o]].children
      /\ object.revoked = (Kind(o) = "revoke" /\ ~setting.dropsMark)
  BY <1>3 DEF Objects
<1>5. StoreNew(cur[o], object)  BY DEF MarkWrite
<1> HIDE DEF object
<1> QED  BY <1>1, <1>2, <1>4, <1>5, StoreNewEffect

\* With registerNodeAtomic and no removal, objects are only added.
LEMMA AtomicStep ==
    ASSUME Controlled, Direct, Quiet, NEW o \in setting.ops, Step(o)
    PROVE  \/ UNCHANGED graphVars
           \/ /\ pc[o] = "insert" /\ at[Node(o)] = 0 /\ InsertLinked(Node(o), Parent[Node(o)])
              /\ Parent[Node(o)] # None => at[Parent[Node(o)]] # 0
           \/ MarkWrite(o)
<1>0. o \in Ops  BY SettingTypes DEF Controlled
<1>1. pc[o] \notin {"set", "link", "push", "rollback", "parent", "unlink", "delete"}  BY <1>0 DEF Direct
<1>2. ~RegisterSet(o) /\ ~LinkWrite(o) /\ ~Rollback(o) /\ ~RemoveUnlink(o) /\ ~RemoveDelete(o)
  BY <1>1 DEF RegisterSet, LinkWrite, Rollback, RemoveUnlink, RemoveDelete
<1> QED  BY <1>2, GraphStep DEF RegisterNodeAtomic

\* A stored node stays stored and keeps its mark, unless it is written.
LEMMA MarksStep ==
    ASSUME Controlled, Direct, Quiet, NEW o \in setting.ops, Step(o), NEW n \in Nodes, at[n] # 0
    PROVE  /\ at'[n] # 0
           /\ \/ Marked(n)' <=> Marked(n)
              \/ /\ pc[o] = "write" /\ cur[o] = n
                 /\ Marked(n)' <=> Kind(o) = "revoke" /\ ~setting.dropsMark
<1>0. o \in Ops /\ Node(o) \in Nodes /\ (Parent[Node(o)] # None => Parent[Node(o)] \in Nodes)
  BY SettingTypes, OpTypes, ParentTypes DEF Controlled
<1>g. GraphShapes  BY DEF Controlled, Shapes
<1>1. CASE UNCHANGED graphVars  BY <1>1 DEF graphVars, Marked
<1>2. CASE /\ at[Node(o)] = 0 /\ InsertLinked(Node(o), Parent[Node(o)])
           /\ Parent[Node(o)] # None => at[Parent[Node(o)]] # 0
  <2>1. at'[n] # 0 /\ heap'[at'[n]].revoked = heap[at[n]].revoked  BY <1>0, <1>2, <1>g, InsertEffect
  <2> QED  BY <2>1 DEF Marked
<1>3. CASE MarkWrite(o)
  <2>1. CASE n = cur[o]
    <3>1. pc[o] = "write" /\ at'[n] # 0 /\ heap'[at'[n]].revoked = (Kind(o) = "revoke" /\ ~setting.dropsMark)
      BY <1>3, <2>1, MarkWriteEffect DEF MarkWrite
    <3> QED  BY <2>1, <3>1 DEF Marked
  <2>2. CASE n # cur[o]
    <3>1. at[n] \in DOMAIN heap  BY <1>g DEF GraphShapes
    <3>2. at'[n] = at[n] /\ heap'[at[n]] = heap[at[n]]  BY <1>3, <2>2, <3>1, MarkWriteEffect
    <3> QED  BY <3>2 DEF Marked
  <2> QED  BY <2>1, <2>2
<1> QED  BY <1>1, <1>2, <1>3, AtomicStep

\* Without registration in parts and without removal, no operation comes to their points.
LEMMA DirectPoints ==
    ASSUME Controlled, Direct, Quiet, NEW o \in setting.ops, Step(o)
    PROVE  /\ pc'[o] \notin {"set", "link", "push", "rollback", "parent", "unlink", "delete"}
           /\ pc'[o] \in MarkPoints =>
                \/ /\ pc'[o] = "write" /\ cur'[o] \in Nodes /\ at[cur'[o]] # 0
                   /\ ref'[o] = at[cur'[o]] /\ UNCHANGED graphVars
                \/ pc'[o] # "write" /\ pc[o] \in MarkPoints /\ cur'[o] = cur[o]
<1>0. o \in Ops  BY SettingTypes DEF Controlled
<1>c. /\ Courses(o) /\ pc \in [Ops -> ControlPoints] /\ cur \in [Ops -> Nodes \cup {None}]
      /\ ref \in [Ops -> 0 .. Len(heap)] /\ Node(o) \in Nodes
  BY <1>0, OpTypes DEF Controlled, Shapes, OpShapes, GraphShapes
<1>d. /\ pc[o] \notin {"set", "link", "push", "rollback", "parent", "unlink", "delete"}
      /\ (setting.atomic \/ Kind(o) # "register") /\ Kind(o) # "remove"
  BY <1>0 DEF Direct, Quiet, Called
<1> USE DEF Courses, RegisterPoints, MarkPoints, Goto, localVars
<1>1. CASE \/ RegisterStart(o) \/ RegisterExisting(o) \/ RegisterNodeAtomic(o) \/ RegisterSet(o)
           \/ LinkRead(o) \/ LinkWrite(o) \/ Rollback(o)
  BY <1>0, <1>c, <1>d, <1>1 DEF RegisterStart, RegisterExisting, RegisterNodeAtomic, RegisterSet, LinkRead,
    LinkWrite, Rollback
<1>2. CASE RemoveStart(o) \/ RemoveParent(o) \/ RemoveUnlink(o) \/ RemoveDelete(o)
  BY <1>0, <1>c, <1>d, <1>2 DEF RemoveStart, RemoveParent, RemoveUnlink, RemoveDelete
<1>3. CASE AllocateIndex(o) \/ EnsureStatusListExists(o) \/ CreateRead(o) \/ CreateWrite(o)
  BY <1>0, <1>c, <1>d, <1>3 DEF AllocateIndex, EnsureStatusListExists, CreateRead, Allocated, CreateWrite
<1>4. CASE RevokeStart(o) \/ Depth(o) \/ MarkTarget(o) \/ MarkWrite(o) \/ MarkBack(o) \/ NodeMarked(o)
  BY <1>0, <1>c, <1>d, <1>4 DEF RevokeStart, Depth, MarkTarget, MarkRead, MarkWrite, MarkBack, NodeMarked,
    AfterMark
<1>5. CASE UpdateRead(o) \/ UpdateWrite(o)
  BY <1>0, <1>c, <1>d, <1>5 DEF UpdateRead, UpdateWrite
<1>6. CASE Descend(o) \/ RevokeDone(o)
  BY <1>0, <1>c, <1>d, <1>6 DEF Descend, RevokeDone
<1>7. CASE \E n \in Nodes : RevokeNext(o, n)
  <2>1. PICK n \in Nodes : MarkRead(o, n) /\ pc[o] = "next" /\ UNCHANGED graphVars  BY <1>7 DEF RevokeNext
  <2> QED  BY <1>0, <1>c, <1>d, <2>1 DEF MarkRead, graphVars
<1>8. CASE RestoreStart(o) \/ RestoreUpdate(o)
  BY <1>0, <1>c, <1>d, <1>8 DEF RestoreStart, RestoreUpdate
<1>9. CASE CheckStart(o) \/ CheckNode(o) \/ CheckChain(o)
  BY <1>0, <1>c, <1>d, <1>9 DEF CheckStart, CheckNode, CheckChain
<1> QED  BY <1>1, <1>2, <1>3, <1>4, <1>5, <1>6, <1>7, <1>8, <1>9 DEF Step

\* Who is stored keeps its ancestors, while nothing is removed.
LEMMA DirectStep ==
    ASSUME Controlled, Direct, NEW o \in setting.ops, Step(o), setting' = setting
    PROVE  Direct'
<1>0. o \in Ops /\ Node(o) \in Nodes /\ (Parent[Node(o)] # None => Parent[Node(o)] \in Nodes)
  BY SettingTypes, OpTypes, ParentTypes DEF Controlled
<1> SUFFICES ASSUME Quiet
             PROVE  /\ \A q \in Ops :
                         /\ pc'[q] \notin {"set", "link", "push", "rollback", "parent", "unlink", "delete"}
                         /\ pc'[q] \in MarkPoints => at'[cur'[q]] # 0
                    /\ \A n \in Nodes : at'[n] # 0 => \A k \in DOMAIN Path[n] : at'[Path[n][k]] # 0
  BY DEF Direct, Quiet, Called, Kind
<1>g. GraphShapes  BY DEF Controlled, Shapes
<1>1. \A n \in Nodes : at[n] # 0 => at'[n] # 0  BY MarksStep
<1>2. \A q \in Ops : pc[q] \in MarkPoints => cur[q] \in Nodes /\ at[cur[q]] # 0
  BY DEF Controlled, Knows, Direct
<1>3. ASSUME NEW q \in Ops
      PROVE  /\ pc'[q] \notin {"set", "link", "push", "rollback", "parent", "unlink", "delete"}
             /\ pc'[q] \in MarkPoints => at'[cur'[q]] # 0
  <2>1. CASE q # o
    <3>1. pc'[q] = pc[q] /\ cur'[q] = cur[q]  BY <1>0, <2>1, ElsewhereHolds DEF Controlled, Elsewhere
    <3> QED  BY <1>1, <1>2, <3>1 DEF Direct
  <2>2. CASE q = o
    <3>1. /\ pc'[o] \notin {"set", "link", "push", "rollback", "parent", "unlink", "delete"}
          /\ pc'[o] \in MarkPoints =>
                \/ /\ pc'[o] = "write" /\ cur'[o] \in Nodes /\ at[cur'[o]] # 0
                   /\ ref'[o] = at[cur'[o]] /\ UNCHANGED graphVars
                \/ pc'[o] # "write" /\ pc[o] \in MarkPoints /\ cur'[o] = cur[o]
      BY DirectPoints
    <3> QED  BY <1>0, <1>1, <1>2, <2>2, <3>1 DEF graphVars
  <2> QED  BY <2>1, <2>2
<1>4. \A n \in Nodes : at[n] # 0 => \A k \in DOMAIN Path[n] : Path[n][k] \in Nodes /\ at'[Path[n][k]] # 0
  <2> SUFFICES ASSUME NEW n \in Nodes, at[n] # 0, NEW k \in DOMAIN Path[n]
               PROVE  Path[n][k] \in Nodes /\ at'[Path[n][k]] # 0
    OBVIOUS
  <2>1. Path[n][k] \in Nodes  BY PathTypes
  <2>2. at[Path[n][k]] # 0  BY DEF Direct
  <2> QED  BY <1>1, <2>1, <2>2
<1>5. ASSUME NEW n \in Nodes, at'[n] # 0
      PROVE  \A k \in DOMAIN Path[n] : at'[Path[n][k]] # 0
  <2>1. CASE at[n] # 0  BY <1>4, <2>1
  <2>2. CASE at[n] = 0
    <3>1. CASE UNCHANGED graphVars  BY <1>5, <2>2, <3>1 DEF graphVars
    <3>2. CASE /\ at[Node(o)] = 0 /\ InsertLinked(Node(o), Parent[Node(o)])
               /\ Parent[Node(o)] # None => at[Parent[Node(o)]] # 0
      <4>1. n = Node(o)  BY <1>0, <1>5, <1>g, <2>2, <3>2, InsertEffect
      <4>2. CASE Parent[n] = None
        <5>1. Path[n] = <<n>>  BY <4>2, ForestAssumption
        <5> QED  BY <1>5, <5>1
      <4>3. CASE Parent[n] # None
        <5>1. Path[n] = Append(Path[Parent[n]], n) /\ Parent[n] \in Nodes  BY <1>0, <4>1, <4>3, ForestAssumption
        <5>2. PICK p \in Seq(Nodes) : p = Path[Parent[n]]  BY <5>1, ForestAssumption
        <5>3. \A k \in DOMAIN p : at'[p[k]] # 0  BY <1>4, <3>2, <4>1, <4>3, <5>1, <5>2
        <5>4. \A k \in DOMAIN Append(p, n) : Append(p, n)[k] = n \/ (k \in DOMAIN p /\ Append(p, n)[k] = p[k])
          BY ONLY <5>2
        <5> QED  BY <1>5, <5>1, <5>2, <5>3, <5>4
      <4> QED  BY <4>2, <4>3
    <3>3. CASE MarkWrite(o)
      <4>1. n = cur[o]  BY <1>5, <2>2, <3>3, MarkWriteEffect
      <4> QED  BY <1>0, <1>2, <2>2, <3>3, <4>1 DEF MarkWrite, MarkPoints
    <3> QED  BY <3>1, <3>2, <3>3, AtomicStep
  <2> QED  BY <2>1, <2>2
<1> QED  BY <1>3, <1>5

\* A storage that drops the field has no object with a mark.
LEMMA UnmarkedStep ==
    ASSUME Controlled, MarksDropped, setting.dropsMark, NEW o \in setting.ops, Step(o)
    PROVE  \A i \in DOMAIN heap' : ~heap'[i].revoked
<1>0. o \in Ops /\ Node(o) \in Nodes /\ (Parent[Node(o)] # None => Parent[Node(o)] \in Nodes)
  BY SettingTypes, OpTypes, ParentTypes DEF Controlled
<1>g. GraphShapes /\ \A i \in DOMAIN heap : ~heap[i].revoked  BY DEF Controlled, Shapes, MarksDropped
<1>b. \A n \in Nodes : \A r \in 1 .. Len(heap) : \A children :
          StoreBack(n, r, children) => \A i \in DOMAIN heap' : ~heap'[i].revoked
  BY <1>g, StoreBackEffect
<1>r. ref[o] # 0 => ref[o] \in 1 .. Len(heap)  BY <1>0, <1>g DEF GraphShapes
<1>1. CASE UNCHANGED graphVars  BY <1>1, <1>g DEF graphVars
<1>2. CASE RegisterNodeAtomic(o)
  <2>1. CASE UNCHANGED graphVars  BY <1>1, <2>1
  <2>2. CASE /\ at[Node(o)] = 0 /\ InsertLinked(Node(o), Parent[Node(o)])
             /\ Parent[Node(o)] # None => at[Parent[Node(o)]] # 0
    <3>1. \A i \in DOMAIN heap' :
                \/ i \in DOMAIN heap /\ heap'[i] = heap[i]
                \/ ~heap'[i].revoked
                \/ \E j \in DOMAIN heap : heap'[i].revoked = heap[j].revoked
      BY <1>0, <1>g, <2>2, InsertEffect
    <3> QED  BY <1>g, <3>1
  <2> QED  BY <1>2, <2>1, <2>2 DEF RegisterNodeAtomic
<1>3. CASE RegisterSet(o)
  <2>1. NewNode \in Objects /\ ~NewNode.revoked  BY DEF NewNode, Objects
  <2>2. \A i \in DOMAIN heap' : i \in DOMAIN heap \/ heap'[i] = NewNode
    BY <1>0, <1>3, <1>g, <2>1, StoreNewEffect DEF RegisterSet
  <2>3. \A i \in DOMAIN heap : heap'[i] = heap[i]
    BY <1>0, <1>3, <1>g, <2>1, StoreNewEffect DEF RegisterSet
  <2> QED  BY <1>g, <2>1, <2>2, <2>3
<1>4. CASE LinkWrite(o)
  <2>1. ref[o] # 0 /\ Parent[Node(o)] \in Nodes  BY <1>0, <1>4 DEF LinkWrite, Controlled, Knows
  <2> QED  BY <1>1, <1>4, <1>b, <1>r, <2>1 DEF LinkWrite
<1>5. CASE Rollback(o)  BY <1>5, <1>g DEF Rollback
<1>6. CASE RemoveUnlink(o)
  <2>1. ref[o] # 0 /\ Parent[Node(o)] \in Nodes  BY <1>0, <1>6 DEF RemoveUnlink, Controlled, Knows
  <2> QED  BY <1>6, <1>b, <1>r, <2>1 DEF RemoveUnlink
<1>7. CASE RemoveDelete(o)  BY <1>7, <1>g DEF RemoveDelete
<1>8. CASE MarkWrite(o)
  <2>1. \A i \in DOMAIN heap' : i \in DOMAIN heap \/ ~heap'[i].revoked  BY <1>8, MarkWriteEffect
  <2>2. \A i \in DOMAIN heap : heap'[i] = heap[i]  BY <1>8, MarkWriteEffect
  <2> QED  BY <1>g, <2>1, <2>2
<1> QED  BY <1>1, <1>2, <1>3, <1>4, <1>5, <1>6, <1>7, <1>8, GraphStep

\* How an operation comes to have read a mark back, and to be past the mark of its target.
LEMMA MarkedStep ==
    ASSUME Controlled, NEW o \in setting.ops, Step(o), Kind(o) = "revoke"
    PROVE  /\ pc'[o] = "marked" => MarkBack(o)
           /\ ThroughMark(o)' => ThroughMark(o) \/ (MarkWrite(o) /\ cur[o] = Node(o))
<1>0. o \in Ops /\ Node(o)' = Node(o)  BY SettingTypes DEF Controlled, Node
<1>c. Courses(o) /\ pc \in [Ops -> ControlPoints] /\ cur \in [Ops -> Nodes \cup {None}]
  BY <1>0 DEF Controlled, Shapes, OpShapes
<1> USE DEF ThroughMark, ThroughBit, Courses, RegisterPoints, MarkPoints, ListPoints, Goto, localVars
<1>1. CASE \/ RegisterStart(o) \/ RegisterExisting(o) \/ RegisterNodeAtomic(o) \/ RegisterSet(o)
           \/ LinkRead(o) \/ LinkWrite(o) \/ Rollback(o)
  BY <1>0, <1>c, <1>1 DEF RegisterStart, RegisterExisting, RegisterNodeAtomic, RegisterSet, LinkRead, LinkWrite,
    Rollback
<1>2. CASE RemoveStart(o) \/ RemoveParent(o) \/ RemoveUnlink(o) \/ RemoveDelete(o)
  BY <1>0, <1>c, <1>2 DEF RemoveStart, RemoveParent, RemoveUnlink, RemoveDelete
<1>3. CASE AllocateIndex(o) \/ EnsureStatusListExists(o) \/ CreateRead(o) \/ CreateWrite(o)
  BY <1>0, <1>c, <1>3 DEF AllocateIndex, EnsureStatusListExists, CreateRead, Allocated, CreateWrite
<1>4. CASE RevokeStart(o) \/ Depth(o) \/ MarkTarget(o) \/ MarkWrite(o) \/ MarkBack(o) \/ NodeMarked(o)
  BY <1>0, <1>c, <1>4 DEF RevokeStart, Depth, MarkTarget, MarkRead, MarkWrite, MarkBack, NodeMarked, AfterMark
<1>5. CASE UpdateRead(o) \/ UpdateWrite(o)
  BY <1>0, <1>c, <1>5 DEF UpdateRead, UpdateWrite
<1>6. CASE Descend(o) \/ RevokeDone(o)
  BY <1>0, <1>c, <1>6 DEF Descend, RevokeDone
<1>7. CASE \E n \in Nodes : RevokeNext(o, n)
  <2>1. pc[o] = "next" /\ pc'[o] \in {"failed", "write"}  BY <1>0, <1>c, <1>7 DEF RevokeNext, MarkRead
  <2> QED  BY <2>1
<1>8. CASE RestoreStart(o) \/ RestoreUpdate(o)
  BY <1>0, <1>c, <1>8 DEF RestoreStart, RestoreUpdate
<1>9. CASE CheckStart(o) \/ CheckNode(o) \/ CheckChain(o)
  BY <1>0, <1>c, <1>9 DEF CheckStart, CheckNode, CheckChain
<1> QED  BY <1>1, <1>2, <1>3, <1>4, <1>5, <1>6, <1>7, <1>8, <1>9 DEF Step

\* A revocation by the mark alone has seen that the storage keeps the mark.
LEMMA MarksDroppedStep ==
    ASSUME Controlled, MarksDropped, NEW o \in setting.ops, Step(o), setting' = setting
    PROVE  MarksDropped'
<1>0. o \in Ops  BY SettingTypes DEF Controlled
<1>1. ASSUME NEW q \in setting.ops, Kind(q) = "revoke"
      PROVE  /\ pc'[q] = "marked" /\ back'[q] => ~setting.dropsMark
             /\ ThroughBit(q)' /\ Node(q) \notin Listed => ~setting.dropsMark
  <2>1. q \in Ops /\ Node(q)' = Node(q)  BY SettingTypes DEF Controlled, Node
  <2>2. /\ pc[q] = "marked" /\ back[q] => ~setting.dropsMark
        /\ ThroughBit(q) /\ Node(q) \notin Listed => ~setting.dropsMark
    BY <1>1 DEF MarksDropped, Called
  <2>3. CASE q # o
    <3>1. pc'[q] = pc[q] /\ cur'[q] = cur[q] /\ back'[q] = back[q]
      BY <1>0, <2>1, <2>3, ElsewhereHolds DEF Controlled, Elsewhere
    <3> QED  BY <2>1, <2>2, <3>1 DEF ThroughBit
  <2>4. CASE q = o
    <3>1. ASSUME pc'[o] = "marked", back'[o] PROVE ~setting.dropsMark
      <4>1. MarkBack(o)  BY <1>1, <2>4, <3>1, MarkedStep
      <4>2. back'[o] = (Marked(cur[o]) = (Kind(o) = "revoke"))
        BY <1>0, <4>1 DEF MarkBack, Controlled, Shapes, OpShapes
      <4>3. Marked(cur[o])  BY <1>1, <2>4, <3>1, <4>2 DEF Marked
      <4>4. cur[o] \in Nodes  BY <1>0, <4>1 DEF MarkBack, Controlled, Knows, MarkPoints
      <4>5. at[cur[o]] \in DOMAIN heap  BY <4>3, <4>4 DEF Marked, Controlled, Shapes, GraphShapes
      <4> QED  BY <4>3, <4>5 DEF MarksDropped, Marked
    <3>2. ASSUME ThroughBit(o)', Node(o) \notin Listed PROVE ~setting.dropsMark
      <4>1. CASE ThroughBit(o)  BY <2>2, <2>4, <3>2, <4>1
      <4>2. CASE UpdateWrite(o) /\ cur[o] = Node(o)
        <5>1. cur[o] \in Listed
          BY <1>0, <1>1, <2>4, <4>2 DEF UpdateWrite, Controlled, Knows, ListPoints
        <5> QED  BY <3>2, <4>2, <5>1
      <4>3. CASE pc[o] = "marked" /\ back[o]  BY <2>2, <2>4, <4>3
      <4> QED  BY <1>1, <2>4, <3>2, <4>1, <4>2, <4>3, ThroughBitStep
    <3> QED  BY <2>4, <3>1, <3>2
  <2> QED  BY <2>3, <2>4
<1>2. setting.dropsMark => \A i \in DOMAIN heap' : ~heap'[i].revoked  BY UnmarkedStep
<1> QED  BY <1>1, <1>2 DEF MarksDropped, Called, Kind, Node

\* The mark of a revoked delegation stays until it is restored.
LEMMA TargetsMarkedStep ==
    ASSUME Controlled, Direct, TargetsMarked, NEW o \in setting.ops, Step(o), setting' = setting
    PROVE  TargetsMarked'
<1>0. o \in Ops  BY SettingTypes DEF Controlled
<1> SUFFICES ASSUME Quiet, ~setting.dropsMark, NEW q \in setting.ops, Kind(q) = "revoke",
                    ThroughMark(q)', Unrestored(Node(q))'
             PROVE  Marked(Node(q))'
  BY DEF TargetsMarked, Quiet, Called, Kind, Node
<1>1. q \in Ops /\ Node(q) \in Nodes /\ Node(q)' = Node(q)  BY SettingTypes, OpTypes DEF Controlled, Node
<1>2. Unrestored(Node(q))
  <2>1. \A n \in Nodes : Unrestored(n)' => Unrestored(n)  BY UnrestoredStep
  <2>2. \A n \in Nodes : Unrestored(n)' <=> \A r \in setting.ops :
            Kind(r) = "restore" /\ Node(r) = n => pc'[r] \in {"idle", "unpublish", "list", "publish"}
    BY DEF Unrestored, Called, Kind, Node
  <2>3. Unrestored(Node(q))' <=> \A r \in setting.ops :
            Kind(r) = "restore" /\ Node(r) = Node(q) => pc'[r] \in {"idle", "unpublish", "list", "publish"}
    BY DEF Unrestored, Called, Kind, Node
  <2> QED  BY <1>1, <2>1, <2>2, <2>3
<1>3. Marked(Node(q))' <=> at'[Node(q)] # 0 /\ heap'[at'[Node(q)]].revoked  BY <1>1 DEF Marked
<1>4. CASE ThroughMark(q)
  <2>1. Marked(Node(q))  BY <1>2, <1>4 DEF TargetsMarked, Called
  <2>2. at[Node(q)] # 0  BY <2>1 DEF Marked
  <2>3. \A n \in Nodes : at[n] # 0 =>
            \/ (at'[n] # 0 /\ heap'[at'[n]].revoked) <=> Marked(n)
            \/ /\ pc[o] = "write" /\ cur[o] = n
               /\ (at'[n] # 0 /\ heap'[at'[n]].revoked) <=> Kind(o) = "revoke" /\ ~setting.dropsMark
    BY MarksStep DEF Marked
  <2>4. pc[o] = "write" /\ cur[o] = Node(q) => Kind(o) = "revoke"
    <3> SUFFICES ASSUME pc[o] = "write", cur[o] = Node(q), Kind(o) # "revoke" PROVE FALSE  OBVIOUS
    <3>1. Kind(o) = "restore" /\ Node(o) = Node(q)
      BY <1>0 DEF Controlled, Courses, Knows, MarkPoints
    <3> QED  BY <1>2, <3>1 DEF Unrestored, Called
  <2> QED  BY <1>1, <1>3, <2>1, <2>2, <2>3, <2>4
<1>5. CASE ~ThroughMark(q)
  <2>1. q = o  BY <1>0, <1>1, <1>5, ElsewhereHolds DEF Controlled, Elsewhere, ThroughMark, ThroughBit
  <2>2. MarkWrite(o) /\ cur[o] = Node(o)  BY <1>5, <2>1, MarkedStep
  <2> QED  BY <1>3, <2>1, <2>2, MarkWriteEffect
<1> QED  BY <1>4, <1>5

\* Only a restoreDelegation clears a mark.
LEMMA MarkKeptStep ==
    ASSUME Controlled, MarksDropped, Direct, Quiet, NEW o \in setting.ops, Step(o),
           NEW n \in Nodes, Marked(n), ~Marked(n)'
    PROVE  Kind(o) = "restore" /\ Node(o) = n /\ pc[o] = "write"
<1>0. o \in Ops  BY SettingTypes DEF Controlled
<1>1. at[n] # 0  BY DEF Marked
<1>2. pc[o] = "write" /\ cur[o] = n /\ ~(Kind(o) = "revoke" /\ ~setting.dropsMark)  BY <1>1, MarksStep
<1>3. ~setting.dropsMark
  <2>1. at[n] \in DOMAIN heap  BY <1>1 DEF Controlled, Shapes, GraphShapes
  <2> QED  BY <2>1 DEF Marked, MarksDropped
<1>4. Kind(o) = "restore" /\ cur[o] = Node(o)
  BY <1>0, <1>2, <1>3 DEF Controlled, Courses, Knows, MarkPoints
<1> QED  BY <1>2, <1>4

-----------------------------------------------------------------------------
(* The cascade.                                                            *)

\* The path of a delegation ends with it, and every link of it is to the parent: the
\* shortest path with another link would be one without its end.
PathLinked(n) ==
    /\ Len(Path[n]) \in Nat /\ Len(Path[n]) # 0 /\ Path[n][Len(Path[n])] = n
    /\ \A i \in 1 .. Len(Path[n]) - 1 : Parent[Path[n][i + 1]] = Path[n][i] /\ Parent[Path[n][i + 1]] # None

\* One more link at the end of a path.
LEMMA PathUnfolds ==
    ASSUME NEW n \in Nodes, Parent[n] # None => Parent[n] \in Nodes /\ PathLinked(Parent[n])
    PROVE  PathLinked(n)
<1>1. CASE Parent[n] = None
  <2>1. Path[n] = <<n>>  BY <1>1, ForestAssumption
  <2> QED  BY <2>1 DEF PathLinked
<1>2. CASE Parent[n] # None
  <2>1. Path[n] = Append(Path[Parent[n]], n) /\ Parent[n] \in Nodes  BY <1>2, ForestAssumption
  <2>2. PICK p \in Seq(Nodes) : p = Path[Parent[n]]  BY <2>1, ForestAssumption
  <2>3. /\ Len(p) \in Nat /\ Len(p) # 0 /\ p[Len(p)] = Parent[n]
        /\ \A i \in 1 .. Len(p) - 1 : Parent[p[i + 1]] = p[i] /\ Parent[p[i + 1]] # None
    BY <1>2, <2>2 DEF PathLinked
  <2>4. PICK t : t = Append(p, n)  OBVIOUS
  <2>5. /\ Len(t) = Len(p) + 1 /\ t[Len(p) + 1] = n
        /\ \A i \in 1 .. Len(p) : t[i] = p[i]
    BY ONLY <2>2, <2>4
  <2>6. \A i \in 1 .. Len(t) - 1 : Parent[t[i + 1]] = t[i] /\ Parent[t[i + 1]] # None
    <3> SUFFICES ASSUME NEW i \in 1 .. Len(t) - 1
                 PROVE  Parent[t[i + 1]] = t[i] /\ Parent[t[i + 1]] # None
      OBVIOUS
    <3>1. i \in 1 .. Len(p)  BY <2>3, <2>5
    <3>2. CASE i = Len(p)  BY <1>2, <2>3, <2>5, <3>2, <3>1
    <3>3. CASE i # Len(p)
      <4>1. i \in 1 .. Len(p) - 1 /\ i + 1 \in 1 .. Len(p)  BY <2>3, <3>1, <3>3
      <4> QED  BY <2>3, <2>5, <3>1, <4>1
    <3> QED  BY <3>2, <3>3
  <2>7. Path[n] = t  BY <2>1, <2>2, <2>4
  <2> QED  BY <2>3, <2>5, <2>6, <2>7 DEF PathLinked
<1> QED  BY <1>1, <1>2

\* Every path is linked.
LEMMA PathLinks == \A n \in Nodes : PathLinked(n)
<1> SUFFICES ASSUME \E n \in Nodes : ~PathLinked(n) PROVE FALSE  OBVIOUS
<1> DEFINE S == {k \in Nat : \E n \in Nodes : ~PathLinked(n) /\ Len(Path[n]) = k}
<1>1. \A n \in Nodes : Len(Path[n]) \in Nat
  <2> SUFFICES ASSUME NEW n \in Nodes PROVE Len(Path[n]) \in Nat  OBVIOUS
  <2>1. PICK p \in Seq(Nodes) : p = Path[n]  BY ForestAssumption
  <2>2. Len(p) \in Nat  BY ONLY <2>1
  <2> QED  BY <2>1, <2>2
<1>2. S \subseteq Nat /\ S # {}  BY <1>1
<1>3. PICK k \in S : \A j \in S : ~ (<<j, k>> \in OpToRel(<, Nat))
  BY <1>2, NatLessThanWellFounded, WFMin
<1>4. \A j \in S : ~(j < k)  BY <1>2, <1>3 DEF OpToRel
<1>5. PICK n \in Nodes : ~PathLinked(n) /\ Len(Path[n]) = k  BY <1>3
<1>6. Parent[n] # None /\ Parent[n] \in Nodes /\ ~PathLinked(Parent[n])
  BY <1>5, PathUnfolds, ParentTypes
<1>7. Path[n] = Append(Path[Parent[n]], n)  BY <1>6, ForestAssumption
<1>8. PICK p \in Seq(Nodes) : p = Path[Parent[n]]  BY <1>6, ForestAssumption
<1>9. Len(p) \in Nat /\ Len(Append(p, n)) = Len(p) + 1  BY ONLY <1>8
<1>10. Len(p) < k  BY <1>5, <1>7, <1>8, <1>9
<1>11. Len(p) \in S  BY <1>6, <1>8, <1>9
<1> QED  BY <1>4, <1>10, <1>11

\* Who is under a delegation is among the descendants that are read, while every link
\* is in a children list.
LEMMA DescendantsFound ==
    ASSUME Shapes, NEW n \in Nodes,
           \A x \in Nodes : at[x] # 0 <=> x \in setting.registered,
           \A x \in Nodes : at[x] # 0 => heap[at[x]].children = Kids(x)
    PROVE  Under(n) \subseteq GetDescendants(n)
<1> SUFFICES ASSUME NEW d \in Under(n) PROVE d \in GetDescendants(n)  OBVIOUS
<1>1. setting \in Settings /\ d \in setting.registered /\ d \in Nodes /\ d # n
  BY SettingTypes DEF Under
<1>2. PICK k \in DOMAIN Path[d] : Path[d][k] = n  BY DEF Under
<1>3. \A i \in DOMAIN Path[d] : Path[d][i] \in setting.registered /\ Path[d][i] \in Nodes
  BY <1>1, ForestAssumption, PathTypes
<1>4. /\ Len(Path[d]) \in Nat
      /\ \A i \in 1 .. Len(Path[d]) - 1 : Parent[Path[d][i + 1]] = Path[d][i] /\ Parent[Path[d][i + 1]] # None
  BY <1>1, PathLinks DEF PathLinked
<1>5. DOMAIN Path[d] = 1 .. Len(Path[d])
  <2>1. PICK p \in Seq(Nodes) : p = Path[d]  BY <1>1, ForestAssumption
  <2>2. DOMAIN p = 1 .. Len(p)  BY ONLY <2>1
  <2> QED  BY <2>1, <2>2
<1>6. ASSUME NEW i \in k .. Len(Path[d]) - 1
      PROVE  Path[d][i + 1] \in Children(Path[d][i])
  <2>1. i \in 1 .. Len(Path[d]) - 1 /\ i \in DOMAIN Path[d] /\ i + 1 \in DOMAIN Path[d]
    BY <1>2, <1>4, <1>5
  <2>2. at[Path[d][i]] # 0 /\ at[Path[d][i + 1]] # 0 /\ Path[d][i] \in Nodes  BY <1>3, <2>1
  <2>3. Path[d][i + 1] \in Kids(Path[d][i])  BY <1>3, <1>4, <2>1 DEF Kids
  <2> QED  BY <2>2, <2>3 DEF Children
<1> QED  BY <1>1, <1>2, <1>6 DEF GetDescendants

\* A cascade, from the descendants it has read to its end.
LEMMA CascadeCourse ==
    ASSUME Controlled, NEW o \in setting.ops, Step(o), Kind(o) = "revoke",
           ThroughBit(o)', pc'[o] # "descend"
    PROVE  \/ /\ pc[o] = "descend" /\ pc'[o] = "next" /\ UNCHANGED graphVars
              /\ left'[o] = GetDescendants(Node(o))
           \/ /\ ThroughBit(o) /\ pc[o] # "descend"
              /\ \/ /\ pc[o] = "next" /\ pc'[o] = "write" /\ \A d \in left[o] : d \in left'[o] \/ d = cur'[o]
                 \/ /\ pc[o] = "next" /\ pc'[o] = "done" /\ left[o] = {}
                 \/ /\ left'[o] = left[o] /\ cur'[o] = cur[o]
                    /\ \/ MarkWrite(o) /\ pc[o] = "write" /\ pc'[o] = "back"
                       \/ /\ pc[o] \in MarkPoints \cup ListPoints /\ pc[o] # "write"
                          /\ pc'[o] \in MarkPoints \cup ListPoints /\ pc'[o] # "write"
                       \/ /\ pc[o] \in MarkPoints \cup ListPoints /\ pc[o] # "write"
                          /\ pc'[o] = "next" /\ (cur[o] \in Listed => UpdateWrite(o))
<1>0. o \in Ops /\ Node(o)' = Node(o)  BY SettingTypes DEF Controlled, Node
<1>c. /\ Courses(o) /\ pc \in [Ops -> ControlPoints] /\ cur \in [Ops -> Nodes \cup {None}]
      /\ left \in [Ops -> SUBSET Nodes]
  BY <1>0 DEF Controlled, Shapes, OpShapes
<1> USE DEF ThroughBit, Courses, RegisterPoints, MarkPoints, ListPoints, Goto, localVars
<1>1. CASE \/ RegisterStart(o) \/ RegisterExisting(o) \/ RegisterNodeAtomic(o) \/ RegisterSet(o)
           \/ LinkRead(o) \/ LinkWrite(o) \/ Rollback(o)
  BY <1>0, <1>c, <1>1 DEF RegisterStart, RegisterExisting, RegisterNodeAtomic, RegisterSet, LinkRead, LinkWrite,
    Rollback
<1>2. CASE RemoveStart(o) \/ RemoveParent(o) \/ RemoveUnlink(o) \/ RemoveDelete(o)
  BY <1>0, <1>c, <1>2 DEF RemoveStart, RemoveParent, RemoveUnlink, RemoveDelete
<1>3. CASE AllocateIndex(o) \/ EnsureStatusListExists(o) \/ CreateRead(o) \/ CreateWrite(o)
  BY <1>0, <1>c, <1>3 DEF AllocateIndex, EnsureStatusListExists, CreateRead, Allocated, CreateWrite
<1>4. CASE RevokeStart(o) \/ Depth(o) \/ MarkTarget(o) \/ MarkWrite(o) \/ MarkBack(o) \/ NodeMarked(o)
  BY <1>0, <1>c, <1>4 DEF RevokeStart, Depth, MarkTarget, MarkRead, MarkWrite, MarkBack, NodeMarked, AfterMark
<1>5. CASE UpdateRead(o) \/ UpdateWrite(o)
  BY <1>0, <1>c, <1>5 DEF UpdateRead, UpdateWrite
<1>6. CASE Descend(o) \/ RevokeDone(o)
  BY <1>0, <1>c, <1>6 DEF Descend, RevokeDone
<1>7. CASE \E n \in Nodes : RevokeNext(o, n)
  <2>1. PICK n \in Nodes : MarkRead(o, n) /\ pc[o] = "next" /\ left' = [left EXCEPT ![o] = left[o] \ {n}]
    BY <1>7 DEF RevokeNext
  <2> QED  BY <1>0, <1>c, <2>1 DEF MarkRead
<1>8. CASE RestoreStart(o) \/ RestoreUpdate(o)
  BY <1>0, <1>c, <1>8 DEF RestoreStart, RestoreUpdate
<1>9. CASE CheckStart(o) \/ CheckNode(o) \/ CheckChain(o)
  BY <1>0, <1>c, <1>9 DEF CheckStart, CheckNode, CheckChain
<1> QED  BY <1>1, <1>2, <1>3, <1>4, <1>5, <1>6, <1>7, <1>8, <1>9 DEF Step

\* While the delegations stay, the graph is that of the beginning, with marks.
LEMMA UndisturbedStep ==
    ASSUME Controlled, Direct, Undisturbed, NEW o \in setting.ops, Step(o)
    PROVE  Quiet /\ Kind(o) \in {"allocate", "revoke", "check"} /\ (UNCHANGED graphVars \/ MarkWrite(o))
<1>0. o \in Ops /\ Kind(o) \in Kinds  BY SettingTypes, OpTypes DEF Controlled
<1>1. Quiet  BY DEF Undisturbed, Quiet, Called
<1>2. Kind(o) \notin {"register", "remove", "restore"}  BY DEF Undisturbed, Called
<1>3. pc[o] # "insert"  BY <1>0, <1>2 DEF Controlled, Courses, RegisterPoints
<1> QED  BY <1>0, <1>1, <1>2, <1>3, AtomicStep DEF Kinds

\* A delegation that the cascade has reached stays so.
LEMMA ReachedStep ==
    ASSUME Controlled, Queued, Allotted, ReadCurrent, Direct, Undisturbed, NEW o \in setting.ops, Step(o),
           setting' = setting, NEW d \in Nodes
    PROVE  /\ Marked(d) => Marked(d)'
           /\ Reached(d) => Reached(d)'
<1>1. Quiet /\ Kind(o) \in {"allocate", "revoke", "check"}  BY UndisturbedStep
<1>2. Marked(d) => Marked(d)'
  <2> SUFFICES ASSUME Marked(d) PROVE Marked(d)'  OBVIOUS
  <2>1. at[d] # 0  BY DEF Marked
  <2>2. CASE Marked(d)' <=> Marked(d)  BY <2>2
  <2>3. CASE pc[o] = "write" /\ (Marked(d)' <=> Kind(o) = "revoke" /\ ~setting.dropsMark)
    <3>1. o \in Ops  BY SettingTypes DEF Controlled
    <3>2. Kind(o) \in {"revoke", "restore"}  BY <2>3, <3>1 DEF Controlled, Courses, MarkPoints
    <3> QED  BY <1>1, <2>3, <3>2 DEF Undisturbed
  <2> QED  BY <1>1, <2>1, <2>2, <2>3, MarksStep
<1>3. OneManager /\ BitSet(d) => BitSet(d)'  BY <1>1, BitsStep
<1>4. OneManager' <=> OneManager  BY DEF OneManager
<1> QED  BY <1>2, <1>3, <1>4 DEF Reached

\* The first three parts of Cascading.
LEMMA CascadeGraphStep ==
    ASSUME Controlled, Direct, Cascading, Undisturbed, NEW o \in setting.ops, Step(o)
    PROVE  /\ \A n \in Nodes : at'[n] # 0 <=> n \in setting.registered
           /\ \A n \in Nodes : at'[n] # 0 => heap'[at'[n]].children = Kids(n)
           /\ \A q \in Ops : pc'[q] = "write" => heap'[ref'[q]].children = Kids(cur'[q])
<1>0. o \in Ops  BY SettingTypes DEF Controlled
<1>g. GraphShapes  BY DEF Controlled, Shapes
<1>1. /\ \A n \in Nodes : at[n] # 0 <=> n \in setting.registered
      /\ \A n \in Nodes : at[n] # 0 => heap[at[n]].children = Kids(n)
      /\ \A q \in Ops : pc[q] = "write" => heap[ref[q]].children = Kids(cur[q])
  BY DEF Cascading
<1>2. Quiet /\ (UNCHANGED graphVars \/ MarkWrite(o))  BY UndisturbedStep
<1>3. \A i \in DOMAIN heap : heap'[i] = heap[i]  BY <1>2, MarkWriteEffect DEF graphVars
<1>4. ASSUME NEW q \in Ops, pc'[q] = "write"
      PROVE  heap'[ref'[q]].children = Kids(cur'[q])
  <2>1. CASE q # o
    <3>1. pc[q] = "write" /\ ref'[q] = ref[q] /\ cur'[q] = cur[q]
      BY <1>0, <1>4, <2>1, ElsewhereHolds DEF Controlled, Elsewhere
    <3>2. ref[q] \in DOMAIN heap  BY <1>g, <3>1 DEF Controlled, Knows, GraphShapes
    <3> QED  BY <1>1, <1>3, <3>1, <3>2
  <2>2. CASE q = o
    <3>1. cur'[o] \in Nodes /\ at[cur'[o]] # 0 /\ ref'[o] = at[cur'[o]] /\ UNCHANGED graphVars
      BY <1>2, <1>4, <2>2, DirectPoints DEF MarkPoints
    <3> QED  BY <1>1, <2>2, <3>1 DEF graphVars
  <2> QED  BY <2>1, <2>2
<1>5. CASE UNCHANGED graphVars  BY <1>1, <1>4, <1>5 DEF graphVars
<1>6. CASE MarkWrite(o)
  <2>1. /\ cur[o] \in Nodes /\ at'[cur[o]] # 0 /\ heap'[at'[cur[o]]].children = heap[ref[o]].children
        /\ \A x \in Nodes : x # cur[o] => at'[x] = at[x]
    BY <1>6, MarkWriteEffect
  <2>2. pc[o] = "write" /\ at[cur[o]] # 0  BY <1>0, <1>2, <1>6 DEF MarkWrite, Direct, MarkPoints
  <2>3. heap'[at'[cur[o]]].children = Kids(cur[o])  BY <1>0, <1>1, <2>1, <2>2
  <2>4. ASSUME NEW n \in Nodes, at'[n] # 0 PROVE heap'[at'[n]].children = Kids(n)
    <3>1. CASE n = cur[o]  BY <2>3, <3>1
    <3>2. CASE n # cur[o]
      <4>1. at'[n] = at[n] /\ at[n] \in DOMAIN heap  BY <1>g, <2>1, <2>4, <3>2 DEF GraphShapes
      <4> QED  BY <1>1, <1>3, <2>4, <4>1
    <3> QED  BY <3>1, <3>2
  <2> QED  BY <1>1, <1>4, <2>1, <2>2, <2>4
<1> QED  BY <1>2, <1>5, <1>6

\* The cascade: every descendant is still to be visited, under way, or reached.
LEMMA CascadingStep ==
    ASSUME Controlled, Queued, Allotted, ReadCurrent, Direct, Cascading,
           NEW o \in setting.ops, Step(o), setting' = setting
    PROVE  Cascading'
<1>0. o \in Ops  BY SettingTypes DEF Controlled
<1>k. Undisturbed' <=> Undisturbed  BY DEF Undisturbed, Called, Kind
<1> SUFFICES ASSUME Undisturbed PROVE Cascading'  BY <1>k DEF Cascading
<1>1. /\ \A n \in Nodes : at'[n] # 0 <=> n \in setting.registered
      /\ \A n \in Nodes : at'[n] # 0 => heap'[at'[n]].children = Kids(n)
      /\ \A q \in Ops : pc'[q] = "write" => heap'[ref'[q]].children = Kids(cur'[q])
  BY CascadeGraphStep
<1>2. \A d \in Nodes : (Marked(d) => Marked(d)') /\ (Reached(d) => Reached(d)')  BY ReachedStep
<1>3. ASSUME NEW q \in setting.ops, Kind(q) = "revoke", ThroughBit(q)', pc'[q] # "descend",
             NEW d \in Under(Node(q))
      PROVE  \/ d \in left'[q] /\ pc'[q] # "done"
             \/ pc'[q] \in MarkPoints \cup ListPoints /\ d = cur'[q] /\ (pc'[q] = "write" \/ Marked(d)')
             \/ Reached(d)'
  <2>0. q \in Ops /\ Node(q) \in Nodes /\ d \in Nodes /\ Node(q)' = Node(q)
    BY SettingTypes, OpTypes DEF Controlled, Under, Node
  <2>1. ThroughBit(q) /\ pc[q] # "descend" =>
            \/ d \in left[q] /\ pc[q] # "done"
            \/ pc[q] \in MarkPoints \cup ListPoints /\ d = cur[q] /\ (pc[q] = "write" \/ Marked(d))
            \/ Reached(d)
    BY <1>3 DEF Cascading, Called
  <2>2. CASE q # o
    <3>1. pc'[q] = pc[q] /\ cur'[q] = cur[q] /\ left'[q] = left[q]
      BY <1>0, <2>0, <2>2, ElsewhereHolds DEF Controlled, Elsewhere
    <3>2. ThroughBit(q) /\ pc[q] # "descend"  BY <1>3, <2>0, <3>1 DEF ThroughBit
    <3> QED  BY <1>2, <2>0, <2>1, <3>1, <3>2
  <2>3. CASE q = o
    <3> USE <2>3
    <3>1. CASE pc[o] = "descend" /\ pc'[o] = "next" /\ left'[o] = GetDescendants(Node(o))
      <4>1. Under(Node(o)) \subseteq GetDescendants(Node(o))
        BY <2>0, DescendantsFound DEF Controlled, Cascading
      <4> QED  BY <3>1, <4>1
    <3>2. CASE /\ ThroughBit(o) /\ pc[o] # "descend" /\ pc[o] = "next" /\ pc'[o] = "write"
               /\ \A x \in left[o] : x \in left'[o] \/ x = cur'[o]
      BY <1>2, <2>0, <2>1, <3>2 DEF MarkPoints, ListPoints
    <3>3. CASE ThroughBit(o) /\ pc[o] # "descend" /\ pc[o] = "next" /\ pc'[o] = "done" /\ left[o] = {}
      BY <1>2, <2>0, <2>1, <3>3 DEF MarkPoints, ListPoints
    <3>4. CASE /\ ThroughBit(o) /\ pc[o] # "descend" /\ left'[o] = left[o] /\ cur'[o] = cur[o]
               /\ MarkWrite(o) /\ pc[o] = "write" /\ pc'[o] = "back"
      <4>1. heap'[at'[cur[o]]].revoked /\ at'[cur[o]] # 0
        BY <1>3, <3>4, MarkWriteEffect DEF Undisturbed
      <4>2. d = cur[o] => Marked(d)'  BY <4>1 DEF Marked
      <4> QED  BY <1>2, <2>0, <2>1, <3>4, <4>2 DEF MarkPoints, ListPoints
    <3>5. CASE /\ ThroughBit(o) /\ pc[o] # "descend" /\ left'[o] = left[o] /\ cur'[o] = cur[o]
               /\ pc[o] \in MarkPoints \cup ListPoints /\ pc[o] # "write"
               /\ pc'[o] \in MarkPoints \cup ListPoints /\ pc'[o] # "write"
      BY <1>2, <2>0, <2>1, <3>5 DEF MarkPoints, ListPoints
    <3>6. CASE /\ ThroughBit(o) /\ pc[o] # "descend" /\ left'[o] = left[o] /\ cur'[o] = cur[o]
               /\ pc[o] \in MarkPoints \cup ListPoints /\ pc[o] # "write"
               /\ pc'[o] = "next" /\ (cur[o] \in Listed => UpdateWrite(o))
      <4>1. cur[o] \in Listed => BitSet(cur[o])'  BY <1>3, <3>6, BitPublished
      <4>2. ASSUME d = cur[o], Marked(d) PROVE Reached(d)'
        <5>1. Marked(d)' /\ (d \in Listed => BitSet(d)')  BY <1>2, <2>0, <3>6, <4>1, <4>2 DEF BitSet
        <5> QED  BY <5>1 DEF Reached
      <4> QED  BY <1>2, <2>0, <2>1, <3>6, <4>2
    <3> QED  BY <1>3, <3>1, <3>2, <3>3, <3>4, <3>5, <3>6, CascadeCourse
  <2> QED  BY <2>2, <2>3
<1>4. /\ \A n \in Nodes : Kids(n)' = Kids(n) /\ Under(n)' = Under(n)
      /\ \A q \in Ops : Node(q)' = Node(q) /\ Kind(q)' = Kind(q)
      /\ Called({"revoke"})' = Called({"revoke"})
  BY DEF Kids, Under, Node, Kind, Called
<1>5. \A q \in Called({"revoke"}) : q \in Ops /\ q \in setting.ops /\ Kind(q) = "revoke" /\ Node(q) \in Nodes
  BY SettingTypes, OpTypes DEF Called, Controlled
<1>6. \A q \in Called({"revoke"}) :
         ThroughBit(q)' /\ pc'[q] # "descend" => \A d \in Under(Node(q)) :
                \/ d \in left'[q] /\ pc'[q] # "done"
                \/ pc'[q] \in MarkPoints \cup ListPoints /\ d = cur'[q] /\ (pc'[q] = "write" \/ Marked(d)')
                \/ Reached(d)'
  BY <1>3, <1>5
<1>7. /\ \A q \in Ops : Kids(cur[q])' = Kids(cur'[q])
      /\ \A q \in Ops : Under(Node(q))' = Under(Node(q))
  BY DEF Kids, Under, Node
<1> QED  BY <1>1, <1>4, <1>5, <1>6, <1>7 DEF Cascading

-----------------------------------------------------------------------------
(* The checks.                                                             *)

\* Where checks begin and go on; who has ended takes no step.
LEMMA CheckCourse ==
    ASSUME Controlled, NEW o \in setting.ops, Step(o)
    PROVE  /\ pc[o] \notin {"done", "failed", "revoked", "unknown", "valid"}
           /\ pc[o] = "walk" => CheckNode(o) \/ CheckChain(o)
           /\ due' = due \/ CheckStart(o)
<1>0. o \in Ops  BY SettingTypes DEF Controlled
<1>c. Courses(o)  BY <1>0 DEF Controlled
<1> USE DEF Courses, localVars
<1>1. CASE \/ RegisterStart(o) \/ RegisterExisting(o) \/ RegisterNodeAtomic(o) \/ RegisterSet(o)
           \/ LinkRead(o) \/ LinkWrite(o) \/ Rollback(o)
  BY <1>c, <1>1 DEF RegisterStart, RegisterExisting, RegisterNodeAtomic, RegisterSet, LinkRead, LinkWrite, Rollback
<1>2. CASE RemoveStart(o) \/ RemoveParent(o) \/ RemoveUnlink(o) \/ RemoveDelete(o)
  BY <1>c, <1>2 DEF RemoveStart, RemoveParent, RemoveUnlink, RemoveDelete
<1>3. CASE AllocateIndex(o) \/ EnsureStatusListExists(o) \/ CreateRead(o) \/ CreateWrite(o)
  BY <1>c, <1>3 DEF AllocateIndex, EnsureStatusListExists, CreateRead, CreateWrite
<1>4. CASE RevokeStart(o) \/ Depth(o) \/ MarkTarget(o) \/ MarkWrite(o) \/ MarkBack(o) \/ NodeMarked(o)
  BY <1>c, <1>4 DEF RevokeStart, Depth, MarkTarget, MarkWrite, MarkBack, NodeMarked
<1>5. CASE UpdateRead(o) \/ UpdateWrite(o)
  BY <1>c, <1>5 DEF UpdateRead, UpdateWrite
<1>6. CASE Descend(o) \/ (\E n \in Nodes : RevokeNext(o, n)) \/ RevokeDone(o)
  BY <1>c, <1>6 DEF Descend, RevokeNext, RevokeDone
<1>7. CASE RestoreStart(o) \/ RestoreUpdate(o)
  BY <1>c, <1>7 DEF RestoreStart, RestoreUpdate
<1>8. CASE CheckStart(o) \/ CheckNode(o) \/ CheckChain(o)
  BY <1>c, <1>8 DEF CheckStart, CheckNode, CheckChain
<1> QED  BY <1>1, <1>2, <1>3, <1>4, <1>5, <1>6, <1>7, <1>8 DEF Step

Items == [node: Nodes, marked: BOOLEAN]

\* An item that a check will not pass stays one.
LEMMA DoomedStep ==
    ASSUME Controlled, Queued, Allotted, ReadCurrent, NEW o \in setting.ops, Step(o), setting' = setting,
           NEW x \in Items, Doomed(x)
    PROVE  Doomed(x)'
<1>1. x.node \in Nodes  BY DEF Items
<1>2. CASE x.marked  BY <1>2 DEF Doomed
<1>3. CASE OneManager /\ BitSet(x.node) /\ \A r \in Called({"restore"}) : Node(r) # x.node
  <2>1. ~(Kind(o) = "restore" /\ Node(o) = x.node)  BY <1>3 DEF Called
  <2>2. BitSet(x.node)'  BY <1>1, <1>3, <2>1, BitsStep
  <2>3. OneManager' /\ \A r \in Called({"restore"})' : Node(r)' # x.node
    BY <1>3 DEF OneManager, Called, Kind, Node
  <2> QED  BY <2>2, <2>3 DEF Doomed
<1> QED  BY <1>2, <1>3 DEF Doomed

\* A check that begins below a complete revocation has read an item that it will not pass:
\* the whole chain is stored, and the revoked ancestor is marked, or its bit is set.
LEMMA DueReads ==
    ASSUME Controlled, TargetsPublished, MarksDropped, TargetsMarked, Direct,
           NoStaleCopies, OneManager \/ ~setting.dropsMark,
           NEW n \in Nodes, at[n] # 0, RevokedAbove(n)
    PROVE  \E k \in DOMAIN ReadChain(n) : Doomed(ReadChain(n)[k])
<1>q. Quiet  BY DEF NoStaleCopies, Quiet
<1>1. GetChain(n) = Path[n]
  <2>1. \A k \in DOMAIN Path[n] : at[Path[n][k]] # 0  BY <1>q DEF Direct
  <2>2. {k \in DOMAIN Path[n] : at[Path[n][k]] = 0} = {}  BY <2>1
  <2> QED  BY <2>2 DEF GetChain
<1>2. PICK k \in DOMAIN Path[n], r \in setting.ops :
         /\ Kind(r) = "revoke" /\ pc[r] = "done" /\ Node(r) = Path[n][k]
         /\ \A q \in setting.ops : Kind(q) = "restore" => Node(q) # Path[n][k]
  BY DEF RevokedAbove
<1>3. Unrestored(Node(r)) /\ r \in Called({"revoke"}) /\ ThroughBit(r) /\ ThroughMark(r)
  BY <1>2 DEF Unrestored, Called, ThroughBit, ThroughMark
<1>4. k \in DOMAIN ReadChain(n) /\ ReadChain(n)[k] = [node |-> Path[n][k], marked |-> Marked(Path[n][k])]
  BY <1>1, <1>2 DEF ReadChain
<1>5. CASE ~setting.dropsMark
  <2>1. Marked(Path[n][k])  BY <1>2, <1>3, <1>5, <1>q DEF TargetsMarked
  <2> QED  BY <1>4, <2>1 DEF Doomed
<1>6. CASE setting.dropsMark
  <2>1. OneManager /\ Node(r) \in Listed  BY <1>3, <1>6 DEF MarksDropped
  <2>2. BitSet(Path[n][k])  BY <1>2, <1>3, <2>1 DEF TargetsPublished
  <2>3. \A q \in Called({"restore"}) : Node(q) # Path[n][k]  BY <1>2 DEF Called
  <2> QED  BY <1>4, <2>1, <2>2, <2>3 DEF Doomed
<1> QED  BY <1>5, <1>6

\* A check below a complete revocation has yet to come to an item that it will not pass.
LEMMA CheckingStep ==
    ASSUME Controlled, Queued, Allotted, ReadCurrent, TargetsPublished, MarksDropped, TargetsMarked, Direct,
           ChecksDue, NEW o \in setting.ops, Step(o), setting' = setting
    PROVE  ChecksDue'
<1>0. o \in Ops /\ Node(o) \in Nodes  BY SettingTypes, OpTypes DEF Controlled
<1>k. /\ (NoStaleCopies /\ (OneManager \/ ~setting.dropsMark))' <=>
             NoStaleCopies /\ (OneManager \/ ~setting.dropsMark)
  BY DEF NoStaleCopies, OneManager, Called, Kind
<1> SUFFICES ASSUME NoStaleCopies, OneManager \/ ~setting.dropsMark, NEW q \in due'
             PROVE  \/ pc'[q] \in {"revoked", "failed"}
                    \/ pc'[q] = "walk" /\ \E k \in DOMAIN chain'[q] : Doomed(chain[q][k])'
  BY <1>k DEF ChecksDue
<1>t. /\ pc \in [Ops -> ControlPoints] /\ due \subseteq Ops
      /\ chain \in [Ops -> Seq(Items)]
  BY DEF Controlled, Shapes, OpShapes, Items
<1>1. q \in due => \/ pc[q] \in {"revoked", "failed"}
                   \/ pc[q] = "walk" /\ \E k \in DOMAIN chain[q] : Doomed(chain[q][k])
  BY DEF ChecksDue
<1>2. \A x \in Items : Doomed(x) => Doomed(x)'  BY DoomedStep
<1>e. \A x \in Items : \A k : x = chain'[q][k] => (Doomed(x)' <=> Doomed(chain[q][k])')
  BY DEF Doomed, BitSet, Called, Node, Kind
<1>3. CASE q \in due /\ q # o
  <2>1. q \in Ops /\ pc'[q] = pc[q] /\ chain'[q] = chain[q]
    BY <1>0, <1>t, <1>3, ElsewhereHolds DEF Controlled, Elsewhere
  <2>2. \A k \in DOMAIN chain[q] : chain[q][k] \in Items
    <3>1. PICK s \in Seq(Items) : s = chain[q]  BY <1>t, <2>1
    <3>2. \A k \in DOMAIN s : s[k] \in Items  BY ONLY <3>1
    <3> QED  BY <3>1, <3>2
  <2> QED  BY <1>1, <1>2, <1>e, <1>3, <2>1, <2>2
<1>4. CASE q \in due /\ q = o
  <2>1. pc[o] = "walk" /\ (CheckNode(o) \/ CheckChain(o))  BY <1>1, <1>4, CheckCourse
  <2>2. PICK s \in Seq(Items) : s = chain[o]  BY <1>0, <1>t
  <2>3. PICK k \in DOMAIN s : Doomed(s[k])  BY <1>1, <1>4, <2>1, <2>2
  <2>4. s # <<>> /\ k \in 1 .. Len(s) /\ Len(s) \in Nat  BY ONLY <2>2, <2>3
  <2>5. CheckNode(o)  BY <2>1, <2>2, <2>4 DEF CheckChain
  <2>6. /\ chain'[o] = Tail(s)
        /\ pc'[o] = CASE Head(s).marked \/ BitSet(Head(s).node) -> "revoked"
                      [] ~Head(s).marked /\ Head(s).node \in Listed /\ list = {} -> "failed"
                      [] OTHER -> "walk"
    BY <1>0, <1>t, <2>2, <2>5 DEF CheckNode, Goto
  <2>7. CASE k = 1
    <3>1. Head(s).marked \/ BitSet(Head(s).node)  BY <2>3, <2>4, <2>7 DEF Doomed
    <3> QED  BY <1>4, <2>6, <3>1
  <2>8. CASE k # 1
    <3>1. k - 1 \in DOMAIN Tail(s) /\ Tail(s)[k - 1] = s[k] /\ s[k] \in Items
      <4>1. /\ k - 1 \in 1 .. Len(s) - 1 /\ (k - 1) + 1 = k  BY ONLY <2>4, <2>8
      <4>2. Len(Tail(s)) = Len(s) - 1 /\ \A i \in 1 .. Len(s) - 1 : i \in DOMAIN Tail(s) /\ Tail(s)[i] = s[i + 1]
        BY ONLY <2>2, <2>4
      <4>3. s[k] \in Items  BY ONLY <2>2, <2>4
      <4> QED  BY <4>1, <4>2, <4>3
    <3>2. pc'[o] \in {"revoked", "failed", "walk"}  BY <2>6
    <3> QED  BY <1>2, <1>e, <1>4, <2>3, <2>6, <3>1, <3>2
  <2> QED  BY <2>7, <2>8
<1>5. CASE q \notin due
  <2>1. CheckStart(o)  BY <1>5, CheckCourse
  <2>2. q = o /\ at[Node(o)] # 0 /\ RevokedAbove(Node(o))  BY <1>5, <2>1 DEF CheckStart
  <2>3. pc'[o] = "walk" /\ chain'[o] = ReadChain(Node(o))
    BY <1>0, <1>t, <2>1 DEF CheckStart, Goto
  <2>4. PICK k \in DOMAIN ReadChain(Node(o)) : Doomed(ReadChain(Node(o))[k])  BY <1>0, <2>2, DueReads
  <2>5. ReadChain(Node(o))[k] \in Items
    <3>1. PICK p \in Seq(Nodes) : p = GetChain(Node(o))  BY <1>0, ChainTypes
    <3>2. \A j \in DOMAIN p : p[j] \in Nodes  BY ONLY <3>1
    <3>3. k \in DOMAIN p /\ ReadChain(Node(o))[k] = [node |-> p[k], marked |-> Marked(p[k])]
      BY <3>1 DEF ReadChain
    <3>4. Marked(p[k]) \in BOOLEAN
      <4>1. at[p[k]] # 0 => heap[at[p[k]]] \in Objects
        BY <3>2, <3>3, ObjectTypes DEF Controlled, Shapes, GraphShapes
      <4> QED  BY <4>1 DEF Marked, Objects
    <3> QED  BY <3>2, <3>3, <3>4 DEF Items
  <2> QED  BY <1>2, <1>e, <2>2, <2>3, <2>4, <2>5
<1> QED  BY <1>3, <1>4, <1>5

-----------------------------------------------------------------------------
(* The beginning.                                                          *)

\* Cardinalities of what is below an element in an order without ties.
LEMMA RanksDiffer ==
    ASSUME NEW M, IsFiniteSet(M), NEW f, \A x \in M : f[x] \in Nat,
           \A x, y \in M : f[x] = f[y] => x = y,
           NEW a \in M, NEW b \in M
    PROVE  LET rank(x) == Cardinality({m \in M : f[m] < f[x]})
           IN  /\ rank(a) \in Nat /\ rank(a) < Cardinality(M)
               /\ rank(a) = rank(b) => a = b
<1> DEFINE below(x) == {m \in M : f[m] < f[x]}
<1>1. \A x \in M : IsFiniteSet(below(x)) /\ Cardinality(below(x)) \in Nat
  <2> SUFFICES ASSUME NEW x \in M PROVE IsFiniteSet(below(x)) /\ Cardinality(below(x)) \in Nat  OBVIOUS
  <2>1. below(x) \in SUBSET M  OBVIOUS
  <2>2. IsFiniteSet(below(x))
    <3> HIDE DEF below
    <3> QED  BY <2>1, FS_Subset
  <2> QED  BY <2>2, FS_CardinalityType
<1>2. Cardinality(M) \in Nat /\ M # {}  BY FS_CardinalityType
\* A set without one of its elements is smaller.
<1>3. \A S, T : \A x \in S : IsFiniteSet(S) /\ T \subseteq S \ {x} => Cardinality(T) < Cardinality(S)
  <2> SUFFICES ASSUME NEW S, NEW T, NEW x \in S, IsFiniteSet(S), T \subseteq S \ {x}
               PROVE  Cardinality(T) < Cardinality(S)
    OBVIOUS
  <2>1. IsFiniteSet(S \ {x}) /\ Cardinality(S \ {x}) = Cardinality(S) - 1  BY FS_RemoveElement
  <2>2. Cardinality(S) \in Nat  BY FS_CardinalityType
  <2>3. IsFiniteSet(T) /\ Cardinality(T) <= Cardinality(S \ {x})  BY <2>1, FS_Subset
  <2>4. Cardinality(T) \in Nat  BY <2>3, FS_CardinalityType
  <2> QED  BY <2>1, <2>2, <2>3, <2>4
<1>4. below(a) \subseteq M \ {a}  OBVIOUS
<1>5. Cardinality(below(a)) < Cardinality(M)  BY <1>3, <1>4
<1>6. \A x, y \in M : f[x] < f[y] => Cardinality(below(x)) < Cardinality(below(y))
  <2> SUFFICES ASSUME NEW x \in M, NEW y \in M, f[x] < f[y]
               PROVE  Cardinality(below(x)) < Cardinality(below(y))
    OBVIOUS
  <2>1. x \in below(y) /\ below(x) \subseteq below(y) \ {x}  OBVIOUS
  <2>2. IsFiniteSet(below(y))  BY <1>1
  <2> HIDE DEF below
  <2> QED  BY <1>3, <2>1, <2>2
<1>7. a # b => f[a] < f[b] \/ f[b] < f[a]  OBVIOUS
<1>8. Cardinality(below(a)) = Cardinality(below(b)) => a = b
  <2> HIDE DEF below
  <2> QED  BY <1>1, <1>6, <1>7
<1> QED  BY <1>1, <1>5, <1>8

\* The objects of the beginning, and the entries: an injection, and ranks by it.
LEMMA InitFacts ==
    ASSUME RevocationInit
    PROVE  \E f \in [Nodes -> 1 .. Cardinality(Nodes)] :
              /\ \A x, y \in Nodes : f[x] = f[y] => x = y
              /\ heap = [i \in 1 .. Cardinality(Nodes) |->
                            [children |-> {c \in setting.registered : Parent[c] # None /\ f[Parent[c]] = i},
                             revoked |-> FALSE]]
              /\ at = [n \in Nodes |-> IF n \in setting.registered THEN f[n] ELSE 0]
              /\ entry = [n \in Nodes |-> IF n \in setting.registered \cap Listed
                    THEN Cardinality({m \in setting.registered \cap Listed : f[m] < f[n]}) ELSE None]
              /\ counter = Cardinality(setting.registered \cap Listed)
              /\ list = IF setting.registered \cap Listed = {} THEN {} ELSE {{}}
<1> DEFINE index == CHOOSE f \in [Nodes -> 1 .. Cardinality(Nodes)] : \A x, y \in Nodes : f[x] = f[y] => x = y
<1>1. \E f \in [Nodes -> 1 .. Cardinality(Nodes)] : \A x, y \in Nodes : f[x] = f[y] => x = y
  <2>1. ExistsBijection(1 .. Cardinality(Nodes), Nodes)  BY RevocationAssumption, FS_CardinalityType
  <2>2. ExistsInjection(Nodes, 1 .. Cardinality(Nodes))
    <3>1. ExistsBijection(Nodes, 1 .. Cardinality(Nodes))  BY <2>1, Fun_ExistsBijSymmetric
    <3> QED  BY <3>1 DEF ExistsBijection, ExistsInjection, Bijection
  <2>3. PICK f \in Injection(Nodes, 1 .. Cardinality(Nodes)) : TRUE  BY <2>2 DEF ExistsInjection
  <2> QED  BY <2>3 DEF Injection, IsInjective
<1>2. index \in [Nodes -> 1 .. Cardinality(Nodes)] /\ \A x, y \in Nodes : index[x] = index[y] => x = y
  BY <1>1
<1> QED  BY <1>2 DEF RevocationInit

\* The registered delegations at the beginning, with their objects and entries.
LEMMA InitShapes ==
    ASSUME RevocationInit
    PROVE  Shapes /\ Allotted /\ StoredHaveEntries
<1>1. PICK f \in [Nodes -> 1 .. Cardinality(Nodes)] :
         /\ \A x, y \in Nodes : f[x] = f[y] => x = y
         /\ heap = [i \in 1 .. Cardinality(Nodes) |->
                       [children |-> {c \in setting.registered : Parent[c] # None /\ f[Parent[c]] = i},
                        revoked |-> FALSE]]
         /\ at = [n \in Nodes |-> IF n \in setting.registered THEN f[n] ELSE 0]
         /\ entry = [n \in Nodes |-> IF n \in setting.registered \cap Listed
               THEN Cardinality({m \in setting.registered \cap Listed : f[m] < f[n]}) ELSE None]
         /\ counter = Cardinality(setting.registered \cap Listed)
         /\ list = IF setting.registered \cap Listed = {} THEN {} ELSE {{}}
  BY InitFacts
<1> DEFINE minted == setting.registered \cap Listed
           rank(n) == Cardinality({m \in minted : f[m] < f[n]})
<1>2. /\ setting \in Settings /\ setting.registered \subseteq Nodes /\ setting.capacity \in Nat
      /\ Cardinality(minted) <= setting.capacity
  BY RevocationAssumption DEF RevocationInit, SettingType
<1>3. minted \in SUBSET Nodes /\ IsFiniteSet(minted) /\ Cardinality(minted) \in Nat
  <2>1. minted \in SUBSET Nodes  BY <1>2
  <2>2. IsFiniteSet(minted)
    <3> HIDE DEF minted
    <3> QED  BY <2>1, RevocationAssumption, FS_Subset
  <2> QED  BY <2>1, <2>2, FS_CardinalityType
<1>n. None \notin Nodes /\ None \notin Nat  BY RevocationAssumption
<1>4. \A a, b \in minted : rank(a) \in Nat /\ rank(a) < Cardinality(minted) /\ (rank(a) = rank(b) => a = b)
  <2>1. \A x \in minted : f[x] \in Nat  BY <1>3
  <2>2. \A x, y \in minted : f[x] = f[y] => x = y  BY <1>1, <1>3
  <2> HIDE DEF minted
  <2> QED  BY <1>3, <2>1, <2>2, RanksDiffer
<1>5. \A n \in Nodes : entry[n] = IF n \in minted THEN rank(n) ELSE None  BY <1>1
<1>6. GraphShapes
  <2>0. Cardinality(Nodes) \in Nat  BY RevocationAssumption, FS_CardinalityType
  <2>1. heap \in [1 .. Cardinality(Nodes) -> Objects]  BY <1>1, <1>2 DEF Objects
  <2>2. heap \in Seq(Objects) /\ Len(heap) = Cardinality(Nodes)  BY ONLY <2>0, <2>1, SeqDef
  <2>3. at \in [Nodes -> 0 .. Cardinality(Nodes)]
    <3>1. \A n \in Nodes : f[n] \in 0 .. Cardinality(Nodes)  BY <2>0
    <3> QED  BY <1>1, <2>0, <3>1
  <2>4. ref = [o \in Ops |-> 0]  BY DEF RevocationInit
  <2>5. ref \in [Ops -> 0 .. Cardinality(Nodes)]  BY <2>0, <2>4
  <2> QED  BY <2>2, <2>3, <2>5 DEF GraphShapes, Objects
<1>7. ListShapes
  <2>1. entry \in [Nodes -> Nat \cup {None}]
    <3>1. entry = [n \in Nodes |-> entry[n]]  BY <1>1
    <3>2. \A n \in Nodes : entry[n] \in Nat \cup {None}  BY <1>4, <1>5
    <3> QED  BY ONLY <3>1, <3>2
  <2>2. list \subseteq SUBSET Nat /\ (\A a, b \in list : a = b) /\ counter \in Nat  BY <1>1, <1>3
  <2>3. queue = [m \in Managers |-> <<>>] /\ copy = [o \in Ops |-> {}]  BY DEF RevocationInit
  <2>4. queue \in [Managers -> Seq(Ops)] /\ copy \in [Ops -> SUBSET Nat]  BY <2>3
  <2> QED  BY <2>1, <2>2, <2>4 DEF ListShapes
<1>8. OpShapes
  <2>1. /\ pc = [o \in Ops |-> "idle"] /\ cur = [o \in Ops |-> None] /\ back = [o \in Ops |-> FALSE]
        /\ left = [o \in Ops |-> {}] /\ chain = [o \in Ops |-> <<>>] /\ due = {}
    BY DEF RevocationInit
  <2>2. pc \in [Ops -> ControlPoints]  BY <2>1 DEF ControlPoints
  <2>3. chain \in [Ops -> Seq([node: Nodes, marked: BOOLEAN])]  BY <2>1
  <2> QED  BY <1>2, <2>1, <2>2, <2>3 DEF OpShapes
<1>9. Allotted
  <2>1. EntriesUsable
    <3> SUFFICES ASSUME NEW n \in Nodes, entry[n] # None
                 PROVE  entry[n] < setting.capacity /\ \A m \in Nodes : entry[m] = entry[n] => m = n
      BY DEF EntriesUsable
    <3>1. n \in minted /\ entry[n] = rank(n)  BY <1>5
    <3>2. rank(n) \in Nat /\ rank(n) < Cardinality(minted)  BY <1>4, <3>1
    <3>3. entry[n] < setting.capacity
      <4> HIDE DEF minted, rank
      <4> QED  BY <1>2, <1>3, <3>1, <3>2
    <3>4. \A m \in Nodes : entry[m] = entry[n] => m \in minted /\ entry[m] = rank(m)  BY <1>5, <3>1, <3>2, <1>n
    <3> QED  BY <1>4, <3>1, <3>3, <3>4
  <2>2. \A n \in Nodes : entry[n] # None => entry[n] < counter  BY <1>1, <1>4, <1>5
  <2>3. \A o \in Ops : ~Allocating(o)  BY DEF RevocationInit, Allocating
  <2> QED  BY <2>1, <2>2, <2>3 DEF Allotted
<1>10. StoredHaveEntries
  <2> SUFFICES ASSUME NEW n \in Nodes, at[n] # 0, n \in Listed PROVE entry[n] # None
    BY DEF StoredHaveEntries, HasEntry
  <2>1. n \in minted  BY <1>1
  <2>2. rank(n) \in Nat /\ entry[n] = rank(n)  BY <1>4, <1>5, <2>1
  <2> QED  BY <1>n, <2>2
<1> QED  BY <1>6, <1>7, <1>8, <1>9, <1>10 DEF Shapes

\* The invariant holds at the beginning.
LEMMA InitHolds == RevocationInit => RevocationInv
<1> SUFFICES ASSUME RevocationInit PROVE RevocationInv  OBVIOUS
<1>1. PICK f \in [Nodes -> 1 .. Cardinality(Nodes)] :
         /\ \A x, y \in Nodes : f[x] = f[y] => x = y
         /\ heap = [i \in 1 .. Cardinality(Nodes) |->
                       [children |-> {c \in setting.registered : Parent[c] # None /\ f[Parent[c]] = i},
                        revoked |-> FALSE]]
         /\ at = [n \in Nodes |-> IF n \in setting.registered THEN f[n] ELSE 0]
  BY InitFacts
<1>2. setting \in Settings /\ setting.registered \subseteq Nodes
  BY RevocationAssumption DEF RevocationInit, SettingType
<1>3. \A o \in Ops : pc[o] = "idle" /\ left[o] = {}  BY DEF RevocationInit
<1>4. Shapes /\ Allotted /\ StoredHaveEntries  BY InitShapes
<1>5. \A o \in Ops : Courses(o) /\ Knows(o)
  BY <1>3 DEF Courses, Knows, RegisterPoints, MarkPoints, ListPoints
<1>6. Controlled  BY <1>4, <1>5 DEF Controlled
<1>7. Queued
  <2>1. \A m \in Managers : DOMAIN queue[m] = {}  BY DEF RevocationInit
  <2> QED  BY <1>3, <2>1 DEF Queued
<1>8. \A o \in Called({"revoke"}) : o \in Ops /\ ~ThroughBit(o) /\ ~ThroughMark(o)
  BY <1>2, <1>3, RevocationAssumption DEF SettingType, Called, ThroughBit, ThroughMark, MarkPoints, ListPoints
<1>9. ReadCurrent /\ TargetsPublished /\ TargetsMarked
  BY <1>3, <1>8 DEF ReadCurrent, TargetsPublished, TargetsMarked
<1>10. MarksDropped  BY <1>1, <1>3, <1>8 DEF MarksDropped
<1>11. \A n \in Nodes : (at[n] # 0 <=> n \in setting.registered) /\ (at[n] # 0 => at[n] = f[n])
  <2>1. \A n \in Nodes : f[n] # 0  OBVIOUS
  <2> QED  BY <1>1, <2>1
<1>12. Direct
  <2>1. ASSUME NEW n \in Nodes, at[n] # 0, NEW k \in DOMAIN Path[n] PROVE at[Path[n][k]] # 0
    <3>1. Path[n][k] \in setting.registered  BY <1>2, <1>11, <2>1, ForestAssumption
    <3> QED  BY <1>2, <1>11, <3>1
  <2> QED  BY <1>3, <2>1 DEF Direct, MarkPoints
<1>13. Cascading
  <2>1. ASSUME NEW n \in Nodes, at[n] # 0 PROVE heap[at[n]].children = Kids(n)
    <3>1. heap[at[n]].children = {c \in setting.registered : Parent[c] # None /\ f[Parent[c]] = f[n]}
      BY <1>1, <1>11, <2>1
    <3>2. \A c \in setting.registered : Parent[c] # None => Parent[c] \in Nodes  BY <1>2, ParentTypes
    <3>3. None \notin Nodes  BY RevocationAssumption
    <3>4. \A c \in setting.registered : (Parent[c] # None /\ f[Parent[c]] = f[n]) <=> Parent[c] = n
      BY <1>1, <3>2, <3>3
    <3> QED  BY <3>1, <3>4 DEF Kids
  <2> QED  BY <1>3, <1>8, <1>11, <2>1 DEF Cascading
<1>14. ChecksDue  BY DEF RevocationInit, ChecksDue
<1> QED  BY <1>4, <1>6, <1>7, <1>9, <1>10, <1>12, <1>13, <1>14 DEF RevocationInv

\* Every step keeps the invariant.
LEMMA InvStep == RevocationInv /\ [RevocationNext]_revocationVars => RevocationInv'
<1> SUFFICES ASSUME RevocationInv, [RevocationNext]_revocationVars PROVE RevocationInv'  OBVIOUS
<1>0. /\ Controlled /\ Queued /\ Allotted /\ ReadCurrent /\ TargetsPublished
      /\ MarksDropped /\ Direct /\ TargetsMarked /\ Cascading /\ ChecksDue
  BY DEF RevocationInv
<1>1. CASE RevocationNext
  <2>1. PICK o \in setting.ops : Step(o) /\ setting' = setting  BY <1>1 DEF RevocationNext
  <2>2. Controlled' /\ Queued' /\ Allotted'  BY <1>0, <2>1, ControlledStep, QueuedStep, AllottedStep
  <2>3. ReadCurrent' /\ TargetsPublished'  BY <1>0, <2>1, ReadCurrentStep, TargetsPublishedStep
  <2>4. MarksDropped' /\ Direct' /\ TargetsMarked'
    BY <1>0, <2>1, MarksDroppedStep, DirectStep, TargetsMarkedStep
  <2>5. Cascading' /\ ChecksDue'  BY <1>0, <2>1, CascadingStep, CheckingStep
  <2> QED  BY <2>2, <2>3, <2>4, <2>5 DEF RevocationInv
<1>2. CASE UNCHANGED revocationVars
  <2> USE <1>0, <1>2 DEF revocationVars, graphVars, listVars, localVars
  <2>1. Shapes' /\ StoredHaveEntries'
    BY DEF Controlled, Shapes, GraphShapes, ListShapes, OpShapes, StoredHaveEntries, HasEntry
  <2>2. \A o \in Ops : Courses(o)' /\ Knows(o)'
    BY DEF Controlled, Courses, Knows, HasEntry, Node, Kind
  <2>3. Controlled'  BY <2>1, <2>2 DEF Controlled
  <2>4. Queued' /\ Allotted' /\ ReadCurrent'
    BY DEF Queued, Holds, Allotted, EntriesUsable, Allocating, ReadCurrent, OneManager, Node, Kind
  <2>5. TargetsPublished'
    BY DEF TargetsPublished, OneManager, Called, Unrestored, ThroughBit, BitSet, Node, Kind
  <2>6. MarksDropped' /\ Direct'
    BY DEF MarksDropped, Called, ThroughBit, Direct, Quiet, Node, Kind
  <2>7. TargetsMarked'
    BY DEF TargetsMarked, Quiet, Called, Unrestored, ThroughBit, ThroughMark, Marked, Node, Kind
  <2>8. Cascading'
    BY DEF Cascading, Undisturbed, Called, ThroughBit, Kids, Under, Reached, Marked, BitSet, OneManager, Node, Kind
  <2>9. ChecksDue'
    BY DEF ChecksDue, NoStaleCopies, OneManager, Called, Doomed, BitSet, Node, Kind
  <2> QED  BY <2>3, <2>4, <2>5, <2>6, <2>7, <2>8, <2>9 DEF RevocationInv
<1> QED  BY <1>1, <1>2

-----------------------------------------------------------------------------
(* The theorems.                                                           *)

\* The invariant holds in every behaviour.
LEMMA RevocationInvariant == RevocationSpec => []RevocationInv
<1>1. RevocationInit => RevocationInv  BY InitHolds
<1>2. RevocationInv /\ [RevocationNext]_revocationVars => RevocationInv'  BY InvStep
<1> QED  BY <1>1, <1>2, PTL DEF RevocationSpec

\* Allocation, creation and updates of the status list (statuslist-manager.ts): with its
\* lock, no update of a list is lost, and every credential has a bit of its own.
THEOREM BitsAreKept == RevocationSpec => []BitsKept
<1>1. RevocationInv => BitsKept
  <2> SUFFICES ASSUME RevocationInv PROVE BitsKept  OBVIOUS
  <2>1. TypeOK  BY DEF RevocationInv, Controlled, Queued, TypeOK, ListPoints
  <2>2. EntriesUsable  BY DEF RevocationInv, Allotted
  <2>3. ASSUME OneManager, NEW o \in Called({"revoke"}), pc[o] = "done", Node(o) \in Listed,
               \A r \in Called({"restore"}) : Node(r) # Node(o)
        PROVE  BitSet(Node(o))
    BY <2>3 DEF RevocationInv, TargetsPublished, ThroughBit, Unrestored
  <2> QED  BY <2>1, <2>2, <2>3 DEF BitsKept
<1> QED  BY <1>1, RevocationInvariant, PTL

\* revokeDelegation, validateDelegation and isRevoked: a revocation that succeeded is seen
\* at the delegation, at its descendants and by every check below it.
THEOREM RevocationsHold == RevocationSpec => []RevocationHolds
<1>1. RevocationInv => RevocationHolds
  <2> SUFFICES ASSUME RevocationInv PROVE RevocationHolds  OBVIOUS
  <2>0. /\ Controlled /\ TargetsPublished /\ MarksDropped /\ TargetsMarked /\ Cascading /\ ChecksDue
    BY DEF RevocationInv
  <2>1. StillRevoked
    <3> SUFFICES ASSUME NEW o \in Called({"revoke"}), pc[o] = "done",
                        \/ Node(o) \in Listed /\ OneManager
                        \/ NoStaleCopies /\ (Node(o) \notin Listed \/ ~setting.dropsMark),
                        Unrestored(Node(o))
                 PROVE  Marked(Node(o)) \/ BitSet(Node(o))
      BY DEF StillRevoked, Unrestored
    <3>1. ThroughBit(o) /\ ThroughMark(o)  BY DEF ThroughBit, ThroughMark
    <3>2. CASE Node(o) \in Listed /\ OneManager  BY <2>0, <3>1, <3>2 DEF TargetsPublished
    <3>3. CASE NoStaleCopies /\ (Node(o) \notin Listed \/ ~setting.dropsMark)
      <4>1. ~setting.dropsMark  BY <2>0, <3>1, <3>3 DEF MarksDropped
      <4>2. Quiet  BY <3>3 DEF NoStaleCopies, Quiet
      <4> QED  BY <2>0, <3>1, <4>1, <4>2 DEF TargetsMarked
    <3> QED  BY <3>2, <3>3
  <2>2. CascadeComplete
    <3> SUFFICES ASSUME ~setting.dropsMark, Called({"register", "remove", "restore"}) = {},
                        NEW o \in Called({"revoke"}), pc[o] = "done",
                        NEW d \in Nodes, NEW k \in DOMAIN Path[d], at[d] # 0, Path[d][k] = Node(o)
                 PROVE  Marked(d) /\ (OneManager /\ d \in Listed => BitSet(d))
      BY DEF CascadeComplete
    <3>1. Undisturbed /\ Quiet /\ Unrestored(Node(o))  BY DEF Undisturbed, Quiet, Unrestored, Called
    <3>2. ThroughBit(o) /\ ThroughMark(o)  BY DEF ThroughBit, ThroughMark
    <3>3. CASE d = Node(o)  BY <2>0, <3>1, <3>2, <3>3 DEF TargetsMarked, TargetsPublished
    <3>4. CASE d # Node(o)
      <4>1. d \in Under(Node(o))  BY <2>0, <3>1, <3>4 DEF Cascading, Under
      <4>2. Reached(d)  BY <2>0, <3>1, <3>2, <4>1 DEF Cascading, MarkPoints, ListPoints
      <4> QED  BY <4>2 DEF Reached
    <3> QED  BY <3>3, <3>4
  <2>3. CheckedRevoked
    <3> SUFFICES ASSUME NoStaleCopies, OneManager \/ ~setting.dropsMark, NEW o \in due
                 PROVE  pc[o] # "valid"
      BY DEF CheckedRevoked
    <3> QED  BY <2>0 DEF ChecksDue
  <2> QED  BY <2>1, <2>2, <2>3 DEF RevocationHolds
<1> QED  BY <1>1, RevocationInvariant, PTL

\* setRevoked: no registration and no revocation clears the mark of a delegation.
THEOREM MarksAreKept == RevocationSpec => MarkKept
<1>1. ASSUME RevocationInv, [RevocationNext]_revocationVars
      PROVE  [NoStaleCopies =>
                \A n \in Nodes : Marked(n) /\ ~Marked(n)' =>
                   \E o \in Called({"restore"}) : Node(o) = n /\ pc[o] = "write"]_revocationVars
  <2> SUFFICES ASSUME RevocationNext, NoStaleCopies, NEW n \in Nodes, Marked(n), ~Marked(n)'
               PROVE  \E o \in Called({"restore"}) : Node(o) = n /\ pc[o] = "write"
    BY <1>1
  <2>1. PICK o \in setting.ops : Step(o)  BY DEF RevocationNext
  <2>2. Controlled /\ MarksDropped /\ Direct /\ Quiet  BY <1>1 DEF RevocationInv, NoStaleCopies, Quiet
  <2>3. Kind(o) = "restore" /\ Node(o) = n /\ pc[o] = "write"  BY <2>1, <2>2, MarkKeptStep
  <2> QED  BY <2>3 DEF Called
<1> QED  BY <1>1, RevocationInvariant, PTL DEF RevocationSpec, MarkKept

-----------------------------------------------------------------------------
(* The ledger: what is read from it and written to it.                     *)

CallFields == {"stage", "noCache", "reply", "since", "list", "floor", "read", "body",
               "requests", "result", "at"}
CheckStages == {"listAsked", "listServed"}
ReadStages == {"docAsked", "docServed"}
WriteStages == {"post", "sign", "submit"}
Unwritten == {"request failed", "sign failed", "invalid", "unchanged", "unresolved"}

\* How old what a request, a cached document and a cached list say may be.
DocumentAge == UpstreamAge + MaxFlight + DocCacheTtl
ListAge == UpstreamAge + 2 * MaxFlight + ListCacheTtl
SignatureAge == DocumentAge + ListCacheTtl

\* A chronicle: at least one version, in the order of their times.
Chronicle(h) ==
    /\ h \in Seq({h[i] : i \in DOMAIN h}) /\ h # <<>>
    /\ \A i \in DOMAIN h : h[i].at \in Nat /\ h[i].at <= ctime
    /\ \A i, k \in DOMAIN h : i <= k => h[i].at <= h[k].at

IssuerDocument(d) ==
    /\ DOMAIN d = DocumentFields
    /\ \E e \in IssuedDocuments(cheqd) : d.methods = e.methods

Histories ==
    /\ Chronicle(docs) /\ Chronicle(lists)
    /\ \A i \in DOMAIN docs : IssuerDocument(docs[i].value)

\* A version with this value, current within the age; a document with the key of the
\* list; a version with this value that is no older than the k-th.
ListStood(l, t, age) == \E i \in DOMAIN lists : lists[i].value = l /\ CurrentWithin(lists, i, t, age)
DocStood(d, t, age) == \E i \in DOMAIN docs : docs[i].value = d /\ CurrentWithin(docs, i, t, age)
Vouched(l, t, age) == \E i \in DOMAIN docs : SignedBy(l, docs[i].value) /\ CurrentWithin(docs, i, t, age)

Steady == UpstreamAge <= ListCacheTtl
Seen(l, k) == Steady => \E i \in k .. Len(lists) : lists[i].value = l

DocCacheSound ==
    /\ \A e, f \in docCache : e = f
    /\ \A e \in docCache :
        /\ e.until \in Nat /\ e.until <= ctime + DocCacheTtl
        /\ AcceptedDocument(e.doc) /\ DocStood(e.doc, e.until, DocumentAge)

ListCacheSound ==
    \A e \in listCache :
        /\ e.until \in Nat /\ e.until <= ctime + ListCacheTtl
        /\ ListStood(e.list, e.until, ListAge) /\ Vouched(e.list, e.until, SignatureAge)
        /\ Seen(e.list, floor)

\* No version older than the floor is served any more.
Overdue == floor = 1 \/ lists[floor].at + UpstreamAge <= ctime

FloorSound ==
    /\ floor \in 1..Len(lists)
    /\ Steady /\ ~ bust => Overdue \/ \E e \in listCache : lists[floor].at + ListCacheTtl <= e.until

\* The shape of a call: what comes to a stage, and when.
CallShaped(c) ==
    /\ DOMAIN call[c] = CallFields /\ call[c].noCache \in BOOLEAN
    /\ call[c].since \in Nat /\ call[c].since <= ctime
    /\ call[c].read \in Nat /\ call[c].read <= ctime
    /\ call[c].at \in Nat /\ call[c].at <= ctime
    /\ call[c].floor \in 0..Len(lists)
    /\ call[c].stage \in {"idle", "done"} \cup CheckStages \cup ReadStages \cup WriteStages
    /\ call[c].stage \in {"listServed"} \cup ReadStages => ctime <= call[c].since + MaxFlight
    /\ call[c].stage \in CheckStages => Work(c).kind = "check"
    /\ call[c].stage \in ReadStages => Work(c).kind \in {"check", "link"}
    /\ call[c].stage \in WriteStages => Work(c).kind \in {"publish", "create", "update", "link"}
    /\ call[c].stage # "done" => call[c].result = "none"

Origin(c, l, t, age) == l \in Others(OtherBodies) \/ (ListStood(l, t, age) /\ Seen(l, call[c].floor))

\* A check under way.
CheckSound(c) ==
    /\ c \in Checking => call[c].floor = floor
    /\ call[c].stage = "listAsked" /\ ~ call[c].noCache /\ Steady => Overdue
    /\ call[c].stage = "listServed" =>
         \E l \in call[c].reply : call[c].reply = {l} /\ Origin(c, l, call[c].since, UpstreamAge)
    /\ call[c].stage \in ReadStages /\ Work(c).kind = "check" =>
         \E l \in call[c].list : /\ call[c].list = {l} /\ ShapeAndIssuer(l)
                                 /\ Origin(c, l, call[c].since, UpstreamAge + MaxFlight)

\* A document on its way.
ReplySound(c) == call[c].stage = "docServed" =>
    /\ \A d, e \in call[c].reply : d = e
    /\ \A d \in call[c].reply : d \in Others(OtherDocuments) \/ DocStood(d, call[c].since, UpstreamAge)

AnswerSound(c) == call[c].result \in {"clear", "revoked"} =>
    \E held \in call[c].list :
        /\ call[c].list = {held}
        /\ ListStood(held, call[c].at, ListAge) /\ Vouched(held, call[c].at, SignatureAge)
        /\ call[c].floor # 0 /\ Seen(held, call[c].floor)
        /\ held.purpose = {Work(c).entry.purpose}
        /\ (call[c].result = "revoked") = (Work(c).entry.index \subseteq held.revoked)

\* A link verifies, and keeps the names of a document that stood when it was read.
LinkSound(c) ==
    /\ verifyDidLinkage(ListIssuer, Work(c).name, call[c].body, {Work(c).page}, TRUE)
    /\ \E i \in DOMAIN docs :
         /\ docs[i].by # c /\ \A d \in call[c].body : docs[i].value.aka \subseteq d.aka
         /\ CurrentWithin(docs, i, call[c].read, DocumentAge)

WriteSound(c) ==
    /\ call[c].stage \in WriteStages =>
         /\ \A x, y \in call[c].body : x = y
         /\ IF Work(c).kind = "publish" THEN prepared(Work(c).artifact)
            ELSE \A d \in call[c].body : IssuerDocument(d)
    /\ Work(c).kind = "link" /\ call[c].body # {} => LinkSound(c)
    /\ call[c].stage # "done" \/ call[c].result \in Unwritten => Written(c) = {}
    /\ \A i, k \in Written(c) : i = k
    /\ call[c].result = "complete" => \E i \in DOMAIN History(c) : {History(c)[i].value} = call[c].body
    /\ Work(c).kind = "publish" /\ Written(c) # {} => prepared(Work(c).artifact)
    /\ Work(c).kind = "link" /\ Written(c) # {} => call[c].body # {}

CallSound(c) == CallShaped(c) /\ CheckSound(c) /\ ReplySound(c) /\ AnswerSound(c) /\ WriteSound(c)

CheqdInv ==
    /\ cheqd \in CheqdSettings /\ ctime \in Nat /\ bust \in BOOLEAN
    /\ DOMAIN call = CheqdCalls
    /\ Histories /\ DocCacheSound /\ ListCacheSound /\ FloorSound
    /\ \A c \in Active : CallSound(c)

-----------------------------------------------------------------------------
(* Histories: what is appended to one takes nothing back.                  *)

LEMMA ChronicleShape ==
    ASSUME NEW h, Chronicle(h)
    PROVE  Len(h) \in Nat \ {0} /\ DOMAIN h = 1..Len(h)
<1>1. /\ h \in Seq({h[i] : i \in DOMAIN h}) /\ h # <<>>  BY DEF Chronicle
<1>2. Len(h) \in Nat /\ DOMAIN h = 1..Len(h)  BY <1>1, LenProperties
<1>3. Len(h) # 0
  BY <1>1, EmptySeq
<1> QED  BY <1>2, <1>3

\* g continues h: nothing is taken back, and what is new is of now.
Continues(h, g) ==
    /\ Len(g) \in Nat /\ DOMAIN g = 1..Len(g) /\ Len(h) <= Len(g)
    /\ \A i \in DOMAIN h : g[i] = h[i]
    /\ \A i \in DOMAIN g \ DOMAIN h : g[i].at = ctime

\* The history with a version more.
Published(h, v, w) == Append(h, [value |-> v, at |-> ctime, by |-> w])

LEMMA AppendContinues ==
    ASSUME NEW h, Chronicle(h), ctime \in Nat, NEW v, NEW w, NEW g, g = Published(h, v, w)
    PROVE  /\ Chronicle(g) /\ Continues(h, g) /\ Len(g) = Len(h) + 1
           /\ g[Len(g)] = [value |-> v, at |-> ctime, by |-> w]
<1> DEFINE e == [value |-> v, at |-> ctime, by |-> w]
           S == {h[i] : i \in DOMAIN h}
<1> PICK n \in Nat : n = Len(h)  BY ChronicleShape
<1>1. n # 0 /\ DOMAIN h = 1..n  BY ChronicleShape
<1>2. h \in Seq(S \cup {e})
  <2>1. h \in Seq(S)  BY DEF Chronicle
  <2> QED  BY <2>1, SeqDef, <1>1, LenProperties
<1>3. /\ g \in Seq(S \cup {e}) /\ Len(g) = n + 1
      /\ \A i \in 1..n : g[i] = h[i]
      /\ g[n + 1] = e
  BY <1>2, AppendProperties DEF Published
<1>4. DOMAIN g = 1..(n + 1)  BY <1>3, LenProperties
<1>5. g \in Seq({g[i] : i \in DOMAIN g})
  <2>1. g \in [1..(n + 1) -> {g[i] : i \in DOMAIN g}]
    <3>1. g \in [1..(n + 1) -> S \cup {e}]  BY <1>3, LenProperties
    <3> QED  BY <3>1, <1>4
  <2> HIDE DEF e, S
  <2>2. DEFINE T == {g[i] : i \in DOMAIN g}
  <2>3. g \in [1..(n + 1) -> T] => g \in Seq(T)
    <3> PICK m \in Nat : m = n + 1  OBVIOUS
    <3> HIDE DEF T
    <3> QED  BY SeqDef
  <2> QED  BY <2>1, <2>3
<1>6. e.at = ctime  OBVIOUS
<1>7. \A i \in DOMAIN g : i \in DOMAIN h \/ g[i].at = ctime
  BY <1>1, <1>3, <1>4, <1>6
<1>8. Continues(h, g)
  BY <1>1, <1>3, <1>4, <1>7 DEF Continues
<1>9. \A i \in DOMAIN g : g[i].at \in Nat /\ g[i].at <= ctime
  BY <1>1, <1>3, <1>4, <1>6 DEF Chronicle
<1>10. \A i, k \in DOMAIN g : i <= k => g[i].at <= g[k].at
  <2> SUFFICES ASSUME NEW i \in 1..(n + 1), NEW k \in 1..(n + 1), i <= k  PROVE g[i].at <= g[k].at
    BY <1>4
  <2>1. CASE k \in 1..n
    <3>1. i \in DOMAIN h /\ k \in DOMAIN h  BY <2>1, <1>1
    <3>2. g[i] = h[i] /\ g[k] = h[k]  BY <3>1, <1>1, <1>3
    <3> QED  BY <3>1, <3>2 DEF Chronicle
  <2>2. CASE k = n + 1   BY <2>2, <1>3, <1>4, <1>6, <1>9
  <2> QED  BY <2>1, <2>2
<1>11. g # <<>>  BY <1>3, EmptySeq
<1>12. Chronicle(g)  BY <1>5, <1>9, <1>10, <1>11 DEF Chronicle
<1> QED  BY <1>3, <1>8, <1>12

LEMMA SameContinues ==
    ASSUME NEW h, Chronicle(h)
    PROVE  Continues(h, h)
BY ChronicleShape DEF Continues

LEMMA StillCurrent ==
    ASSUME NEW h, Chronicle(h), NEW g, Continues(h, g), ctime \in Nat,
           NEW i \in DOMAIN h, NEW t \in Nat, NEW age \in Nat, t < ctime + age,
           CurrentWithin(h, i, t, age)
    PROVE  i \in DOMAIN g /\ g[i] = h[i] /\ CurrentWithin(g, i, t, age)
<1> PICK n \in Nat : n = Len(h)  BY ChronicleShape
<1>1. n # 0 /\ DOMAIN h = 1..n  BY ChronicleShape
<1>2. i \in DOMAIN g /\ g[i] = h[i]  BY <1>1 DEF Continues
<1>3. CASE i = n
  <2>1. CASE Len(g) = n  BY <2>1, <1>2, <1>3 DEF CurrentWithin
  <2>2. CASE Len(g) # n
    <3>0. PICK m \in Nat : m = Len(g) /\ DOMAIN g = 1..m /\ n <= m  BY DEF Continues
    <3>1. n + 1 \in DOMAIN g \ DOMAIN h  BY <2>2, <1>1, <3>0
    <3>2. g[n + 1].at = ctime  BY <3>1 DEF Continues
    <3> QED  BY <1>2, <1>3, <3>2 DEF CurrentWithin
  <2> QED  BY <2>1, <2>2
<1>4. CASE i # n
  <2>1. i + 1 \in DOMAIN h  BY <1>1, <1>4
  <2>2. g[i + 1] = h[i + 1]  BY <2>1 DEF Continues
  <2> QED  BY <1>2, <1>4, <2>2 DEF CurrentWithin
<1> QED  BY <1>3, <1>4

LEMMA CurrentLater ==
    ASSUME NEW h, Chronicle(h), NEW i \in DOMAIN h, NEW t \in Nat, NEW age \in Nat,
           NEW u \in Nat, NEW old \in Nat, u + age <= t + old,
           CurrentWithin(h, i, t, age)
    PROVE  CurrentWithin(h, i, u, old)
<1> PICK n \in Nat : n = Len(h)  BY ChronicleShape
<1>1. n # 0 /\ DOMAIN h = 1..n  BY ChronicleShape
<1>2. CASE i = n  BY <1>2 DEF CurrentWithin
<1>3. CASE i # n
  <2>1. i + 1 \in DOMAIN h  BY <1>1, <1>3
  <2>2. PICK a \in Nat : a = h[i + 1].at  BY <2>1 DEF Chronicle
  <2>3. a + age > t  BY <1>3, <2>2 DEF CurrentWithin
  <2>4. a + old > u  BY <2>3
  <2> QED  BY <2>2, <2>4 DEF CurrentWithin
<1> QED  BY <1>2, <1>3

-----------------------------------------------------------------------------
(* What stays true while the histories grow and the clock runs.            *)

Onward ==
    /\ cheqd' = cheqd /\ ctime \in Nat /\ ctime' \in Nat /\ ctime <= ctime'
    /\ Chronicle(docs) /\ Chronicle(lists) /\ Chronicle(docs)' /\ Chronicle(lists)'
    /\ Continues(docs, docs') /\ Continues(lists, lists')

LEMMA Ages ==
    /\ UpstreamAge \in Nat \ {0} /\ MaxFlight \in Nat /\ ListCacheTtl \in Nat /\ DocCacheTtl \in Nat
    /\ DocumentAge \in Nat \ {0} /\ ListAge \in Nat \ {0} /\ SignatureAge \in Nat \ {0}
    /\ UpstreamAge + MaxFlight \in Nat \ {0}
    /\ DocumentAge = UpstreamAge + MaxFlight + DocCacheTtl
    /\ ListAge = UpstreamAge + 2 * MaxFlight + ListCacheTtl
    /\ SignatureAge = DocumentAge + ListCacheTtl
BY CheqdAssumption DEF DocumentAge, ListAge, SignatureAge

LEMMA StoodStays ==
    ASSUME Onward, NEW t \in Nat, NEW age \in Nat, t < ctime + age
    PROVE  /\ \A l : ListStood(l, t, age) => ListStood(l, t, age)'
           /\ \A d : DocStood(d, t, age) => DocStood(d, t, age)'
           /\ \A l : Vouched(l, t, age) => Vouched(l, t, age)'
<1>0. /\ ctime \in Nat /\ Chronicle(docs) /\ Chronicle(lists)
      /\ Continues(docs, docs') /\ Continues(lists, lists')
  BY DEF Onward
<1>1. ASSUME NEW i \in DOMAIN lists, CurrentWithin(lists, i, t, age)
      PROVE  i \in DOMAIN lists' /\ lists'[i] = lists[i] /\ CurrentWithin(lists', i, t, age)
  BY <1>0, <1>1, StillCurrent
<1>2. ASSUME NEW i \in DOMAIN docs, CurrentWithin(docs, i, t, age)
      PROVE  i \in DOMAIN docs' /\ docs'[i] = docs[i] /\ CurrentWithin(docs', i, t, age)
  BY <1>0, <1>2, StillCurrent
<1>3. ASSUME NEW l, ListStood(l, t, age)  PROVE ListStood(l, t, age)'
  BY <1>1, <1>3 DEF ListStood
<1>4. ASSUME NEW d, DocStood(d, t, age)  PROVE DocStood(d, t, age)'
  BY <1>2, <1>4 DEF DocStood
<1>5. ASSUME NEW l, Vouched(l, t, age)  PROVE Vouched(l, t, age)'
  BY <1>2, <1>5 DEF Vouched
<1> QED  BY <1>3, <1>4, <1>5

LEMMA StoodLater ==
    ASSUME Chronicle(docs), Chronicle(lists), NEW t \in Nat, NEW age \in Nat,
           NEW u \in Nat, NEW old \in Nat, u + age <= t + old
    PROVE  /\ \A l : ListStood(l, t, age) => ListStood(l, u, old)
           /\ \A d : DocStood(d, t, age) => DocStood(d, u, old)
           /\ \A l : Vouched(l, t, age) => Vouched(l, u, old)
<1>1. ASSUME NEW i \in DOMAIN lists, CurrentWithin(lists, i, t, age)
      PROVE  CurrentWithin(lists, i, u, old)
  BY <1>1, CurrentLater
<1>2. ASSUME NEW i \in DOMAIN docs, CurrentWithin(docs, i, t, age)
      PROVE  CurrentWithin(docs, i, u, old)
  BY <1>2, CurrentLater
<1> QED  BY <1>1, <1>2 DEF ListStood, DocStood, Vouched

LEMMA SeenStays ==
    ASSUME Onward, NEW k \in Nat \ {0}, NEW l, Seen(l, k)
    PROVE  Seen(l, k)'
<1> SUFFICES ASSUME Steady  PROVE \E i \in k .. Len(lists') : lists'[i].value = l
  BY DEF Seen, Steady
<1>1. PICK i \in k .. Len(lists) : lists[i].value = l  BY DEF Seen
<1> PICK n \in Nat : n = Len(lists) /\ DOMAIN lists = 1..n  BY ChronicleShape DEF Onward
<1> PICK m \in Nat : m = Len(lists') /\ n <= m  BY DEF Onward, Continues
<1>2. i \in DOMAIN lists /\ i \in k..m  BY <1>1
<1>3. lists'[i] = lists[i]  BY <1>2 DEF Onward, Continues
<1> QED  BY <1>1, <1>2, <1>3

LEMMA LinkStays ==
    ASSUME Onward, NEW c, call[c].read \in Nat, call[c].read <= ctime, LinkSound(c),
           call'[c].body = call[c].body, call'[c].read = call[c].read
    PROVE  LinkSound(c)'
<1>1. verifyDidLinkage(ListIssuer, Work(c).name, call[c].body, {Work(c).page}, TRUE)'
  BY DEF LinkSound, Onward, Work, verifyDidLinkage, isDidDocument
<1>2. PICK i \in DOMAIN docs : /\ docs[i].by # c /\ \A d \in call[c].body : docs[i].value.aka \subseteq d.aka
                              /\ CurrentWithin(docs, i, call[c].read, DocumentAge)
  BY DEF LinkSound
<1> PICK r \in Nat : r = call[c].read  OBVIOUS
<1>3. r < ctime + DocumentAge  BY Ages DEF Onward
<1>4. i \in DOMAIN docs' /\ docs'[i] = docs[i] /\ CurrentWithin(docs', i, r, DocumentAge)
  BY <1>2, <1>3, StillCurrent, Ages DEF Onward
<1>5. CurrentWithin(docs, i, call[c].read, DocumentAge)'  BY <1>4
<1> QED  BY <1>1, <1>2, <1>4, <1>5 DEF LinkSound

LEMMA HistoryStays ==
    ASSUME Onward, NEW c, call'[c].body = call[c].body,
           \E i \in DOMAIN History(c) : {History(c)[i].value} = call[c].body
    PROVE  (\E i \in DOMAIN History(c) : {History(c)[i].value} = call[c].body)'
<1>1. CASE Work(c).kind = "publish"
  <2>1. History(c) = lists /\ History(c)' = lists'  BY <1>1 DEF History, Work, Onward
  <2>2. PICK i \in DOMAIN lists : {lists[i].value} = call[c].body  BY <2>1
  <2>3. i \in DOMAIN lists' /\ lists'[i] = lists[i]  BY ChronicleShape DEF Onward, Continues
  <2> QED  BY <2>1, <2>2, <2>3
<1>2. CASE Work(c).kind # "publish"
  <2>1. History(c) = docs /\ History(c)' = docs'  BY <1>2 DEF History, Work, Onward
  <2>2. PICK i \in DOMAIN docs : {docs[i].value} = call[c].body  BY <2>1
  <2>3. i \in DOMAIN docs' /\ docs'[i] = docs[i]  BY ChronicleShape DEF Onward, Continues
  <2> QED  BY <2>1, <2>2, <2>3
<1> QED  BY <1>1, <1>2

-----------------------------------------------------------------------------
(* A call that does not move.                                              *)

\* What a step may do around a call.
Beside(x) ==
    /\ Onward /\ call'[x] = call[x]
    /\ x \in Checking => floor' = floor
    /\ Written(x)' = Written(x)
    /\ call[x].stage \in {"listServed"} \cup ReadStages => ctime' <= call[x].since + MaxFlight

LEMMA ShapedBeside ==
    ASSUME NEW x, CallShaped(x), Beside(x)
    PROVE  CallShaped(x)'
<1>1. call[x].floor \in 0..Len(lists')
  <2>1. Len(lists) \in Nat /\ Len(lists') \in Nat /\ Len(lists) <= Len(lists')
    BY ChronicleShape DEF Beside, Onward, Continues
  <2> QED  BY <2>1 DEF CallShaped
<1>2. /\ call'[x] = call[x] /\ Work(x)' = Work(x) /\ ctime \in Nat /\ ctime' \in Nat /\ ctime <= ctime'
      /\ call[x].stage \in {"listServed"} \cup ReadStages => ctime' <= call[x].since + MaxFlight
  BY DEF Beside, Onward, Work
<1> QED  BY <1>1, <1>2 DEF CallShaped

LEMMA CheckBeside ==
    ASSUME NEW x \in Active, CallShaped(x), CheckSound(x), Beside(x), FloorSound
    PROVE  CheckSound(x)'
<1>0. /\ call'[x] = call[x] /\ Work(x)' = Work(x) /\ ctime \in Nat /\ ctime' \in Nat /\ ctime <= ctime'
      /\ Active' = Active /\ Onward /\ cheqd' = cheqd
  BY DEF Beside, Onward, Work, Active
<1>1. x \in Checking' => x \in Checking  BY <1>0 DEF Checking
<1>2. x \in Checking => floor' = floor /\ call[x].floor = floor /\ floor \in Nat \ {0}
  BY ChronicleShape DEF Beside, CheckSound, FloorSound, Onward
<1>3. ASSUME call[x].stage \in CheckStages \/ (call[x].stage \in ReadStages /\ Work(x).kind = "check")
      PROVE  x \in Checking
  BY <1>3 DEF Checking, CallShaped, CheckStages, ReadStages
<1>4. (x \in Checking => call[x].floor = floor)'  BY <1>0, <1>1, <1>2
<1>5. (call[x].stage = "listAsked" /\ ~ call[x].noCache /\ Steady => Overdue)'
  <2> SUFFICES ASSUME call[x].stage = "listAsked", ~ call[x].noCache, Steady  PROVE Overdue'
    BY <1>0 DEF Steady
  <2>1. floor' = floor /\ Overdue  BY <1>2, <1>3 DEF CheckSound, CheckStages
  <2>2. floor \in DOMAIN lists /\ lists[floor].at \in Nat
    <3>1. Chronicle(lists)  BY <1>0 DEF Onward
    <3>2. floor \in DOMAIN lists  BY <3>1, ChronicleShape DEF FloorSound
    <3> QED  BY <3>1, <3>2 DEF Chronicle
  <2>3. lists'[floor] = lists[floor]  BY <2>2, <1>0 DEF Onward, Continues
  <2> QED  BY <2>1, <2>2, <2>3, <1>0, Ages DEF Overdue
<1>6. ASSUME NEW l, NEW t \in Nat, NEW age \in Nat, t < ctime + age, Origin(x, l, t, age), x \in Checking
      PROVE  Origin(x, l, t, age)'
  <2>1. CASE l \in Others(OtherBodies)  BY <2>1, <1>0 DEF Origin, Others
  <2>2. CASE ListStood(l, t, age) /\ Seen(l, call[x].floor)
    <3>1. ListStood(l, t, age)'  BY <2>2, <1>0, <1>6, StoodStays
    <3>2. PICK k \in Nat \ {0} : k = call[x].floor  BY <1>2, <1>6
    <3>3. Seen(l, k)'  BY <2>2, <1>0, <3>2, SeenStays
    <3>4. Seen(l, call[x].floor)'  BY <3>2, <3>3, <1>0
    <3> QED  BY <3>1, <3>4 DEF Origin
  <2> QED  BY <2>1, <2>2, <1>6 DEF Origin
<1> PICK t \in Nat : t = call[x].since  BY DEF CallShaped
<1>7. t < ctime + UpstreamAge /\ t < ctime + (UpstreamAge + MaxFlight)
  BY <1>0, Ages DEF CallShaped
<1>8. (call[x].stage = "listServed" =>
         \E l \in call[x].reply : call[x].reply = {l} /\ Origin(x, l, call[x].since, UpstreamAge))'
  <2> SUFFICES ASSUME call[x].stage = "listServed"
               PROVE  (\E l \in call[x].reply : call[x].reply = {l} /\ Origin(x, l, call[x].since, UpstreamAge))'
    BY <1>0
  <2>1. PICK l \in call[x].reply : call[x].reply = {l} /\ Origin(x, l, t, UpstreamAge)
    BY DEF CheckSound
  <2>2. x \in Checking  BY <1>3 DEF CheckStages
  <2>3. Origin(x, l, t, UpstreamAge)'  BY <2>1, <2>2, <1>6, <1>7, Ages
  <2>4. Origin(x, l, call[x].since, UpstreamAge)'  BY <2>3, <1>0
  <2> QED  BY <2>1, <2>4, <1>0
<1>9. (call[x].stage \in ReadStages /\ Work(x).kind = "check" =>
         \E l \in call[x].list : /\ call[x].list = {l} /\ ShapeAndIssuer(l)
                                 /\ Origin(x, l, call[x].since, UpstreamAge + MaxFlight))'
  <2> SUFFICES ASSUME call[x].stage \in ReadStages, Work(x).kind = "check"
               PROVE  (\E l \in call[x].list : /\ call[x].list = {l} /\ ShapeAndIssuer(l)
                                 /\ Origin(x, l, call[x].since, UpstreamAge + MaxFlight))'
    BY <1>0
  <2>1. PICK l \in call[x].list : /\ call[x].list = {l} /\ ShapeAndIssuer(l)
                                 /\ Origin(x, l, t, UpstreamAge + MaxFlight)
    BY DEF CheckSound
  <2>2. x \in Checking  BY <1>3
  <2>3. Origin(x, l, t, UpstreamAge + MaxFlight)'  BY <2>1, <2>2, <1>6, <1>7, Ages
  <2>4. Origin(x, l, call[x].since, UpstreamAge + MaxFlight)'  BY <2>3, <1>0
  <2> QED  BY <2>1, <2>4, <1>0
<1> QED  BY <1>4, <1>5, <1>8, <1>9 DEF CheckSound

LEMMA AnswerBeside ==
    ASSUME NEW x, CallShaped(x), AnswerSound(x), Beside(x)
    PROVE  AnswerSound(x)'
<1>0. call'[x] = call[x] /\ Work(x)' = Work(x) /\ Onward /\ ctime \in Nat
  BY DEF Beside, Onward, Work
<1> SUFFICES ASSUME call[x].result \in {"clear", "revoked"}  PROVE AnswerSound(x)'
  BY <1>0 DEF AnswerSound
<1>1. PICK held \in call[x].list :
        /\ call[x].list = {held}
        /\ ListStood(held, call[x].at, ListAge) /\ Vouched(held, call[x].at, SignatureAge)
        /\ call[x].floor # 0 /\ Seen(held, call[x].floor)
        /\ held.purpose = {Work(x).entry.purpose}
        /\ (call[x].result = "revoked") = (Work(x).entry.index \subseteq held.revoked)
  BY DEF AnswerSound
<1> PICK t \in Nat : t = call[x].at  BY DEF CallShaped
<1> PICK k \in Nat \ {0} : k = call[x].floor
  BY <1>1, <1>0, ChronicleShape DEF CallShaped, Onward
<1>2. t < ctime + ListAge /\ t < ctime + SignatureAge
  <2>1. t <= ctime  BY DEF CallShaped
  <2> QED  BY <1>0, <2>1, Ages
<1>3. ListStood(held, t, ListAge)' /\ Vouched(held, t, SignatureAge)'
  BY <1>0, <1>1, <1>2, StoodStays, Ages
<1>4. Seen(held, k)'  BY <1>0, <1>1, SeenStays
<1>5. /\ ListStood(held, call[x].at, ListAge)' /\ Vouched(held, call[x].at, SignatureAge)'
      /\ Seen(held, call[x].floor)'
  BY <1>0, <1>3, <1>4
<1>6. \E l \in call'[x].list :
        /\ call'[x].list = {l}
        /\ ListStood(l, call[x].at, ListAge)' /\ Vouched(l, call[x].at, SignatureAge)'
        /\ call'[x].floor # 0 /\ Seen(l, call[x].floor)'
        /\ l.purpose = {Work(x)'.entry.purpose}
        /\ (call'[x].result = "revoked") = (Work(x)'.entry.index \subseteq l.revoked)
  BY <1>0, <1>1, <1>5
<1> QED  BY <1>6 DEF AnswerSound

LEMMA ReplyBeside ==
    ASSUME NEW x, CallShaped(x), ReplySound(x), Beside(x)
    PROVE  ReplySound(x)'
<1>0. call'[x] = call[x] /\ cheqd' = cheqd /\ Onward /\ ctime \in Nat
  BY DEF Beside, Onward
<1> SUFFICES ASSUME call[x].stage = "docServed"  PROVE ReplySound(x)'
  BY <1>0 DEF ReplySound
<1> PICK t \in Nat : t = call[x].since  BY DEF CallShaped
<1>1. t < ctime + UpstreamAge
  <2>1. t <= ctime  BY DEF CallShaped
  <2> QED  BY <1>0, <2>1, Ages
<1>2. ASSUME NEW d \in call[x].reply, d \notin Others(OtherDocuments)  PROVE DocStood(d, call[x].since, UpstreamAge)'
  <2>1. DocStood(d, t, UpstreamAge)  BY <1>2 DEF ReplySound
  <2>2. DocStood(d, t, UpstreamAge)'  BY <1>0, <1>1, <2>1, StoodStays, Ages
  <2> QED  BY <2>2, <1>0
<1>3. Others(OtherDocuments)' = Others(OtherDocuments)  BY <1>0 DEF Others
<1> QED  BY <1>0, <1>2, <1>3 DEF ReplySound

LEMMA WriteBeside ==
    ASSUME NEW x, CallShaped(x), WriteSound(x), Onward, Written(x)' = Written(x),
           call'[x].body = call[x].body, call'[x].read = call[x].read,
           call'[x].result = call[x].result,
           call'[x].stage \in WriteStages => call[x].stage \in WriteStages,
           call'[x].stage # "done" => call[x].stage # "done"
    PROVE  WriteSound(x)'
<1>0. Work(x)' = Work(x) /\ cheqd' = cheqd  BY DEF Onward, Work
<1>1. (Work(x).kind = "link" /\ call[x].body # {} => LinkSound(x))'
  BY <1>0, LinkStays DEF WriteSound, CallShaped
<1>2. (call[x].result = "complete" => \E i \in DOMAIN History(x) : {History(x)[i].value} = call[x].body)'
  BY HistoryStays DEF WriteSound
<1>3. (call[x].stage \in WriteStages =>
         /\ \A d, e \in call[x].body : d = e
         /\ IF Work(x).kind = "publish" THEN prepared(Work(x).artifact)
            ELSE \A d \in call[x].body : IssuerDocument(d))'
  BY <1>0 DEF WriteSound, IssuerDocument
<1>4. (/\ call[x].stage # "done" \/ call[x].result \in Unwritten => Written(x) = {}
       /\ \A i, k \in Written(x) : i = k
       /\ Work(x).kind = "publish" /\ Written(x) # {} => prepared(Work(x).artifact)
       /\ Work(x).kind = "link" /\ Written(x) # {} => call[x].body # {})'
  BY <1>0 DEF WriteSound
<1> QED  BY <1>1, <1>2, <1>3, <1>4 DEF WriteSound

LEMMA SoundBeside ==
    ASSUME NEW x \in Active, CallSound(x), Beside(x), FloorSound
    PROVE  CallSound(x)'
BY ShapedBeside, CheckBeside, ReplyBeside, AnswerBeside, WriteBeside DEF CallSound, Beside

-----------------------------------------------------------------------------
(* A call that moves.                                                      *)

Still == cheqd' = cheqd /\ ctime' = ctime /\ docs' = docs /\ lists' = lists /\ floor' = floor

LEMMA StillOnward ==
    ASSUME Histories, ctime \in Nat, Still
    PROVE  Onward /\ Histories' /\ \A c : Written(c)' = Written(c) /\ History(c)' = History(c)
<1>1. Chronicle(docs)' /\ Chronicle(lists)'  BY DEF Histories, Still, Chronicle
<1>2. Onward  BY <1>1, SameContinues DEF Still, Histories, Onward
<1>3. Histories'  BY <1>1 DEF Histories, Still, IssuerDocument
<1> QED  BY <1>2, <1>3 DEF Still, Written, History, Work

LEMMA OthersSound ==
    ASSUME CheqdInv, Still, NEW c, \A x \in Active : x # c => call'[x] = call[x]
    PROVE  \A x \in Active : x # c => CallSound(x)'
<1> SUFFICES ASSUME NEW x \in Active, x # c  PROVE CallSound(x)'
  OBVIOUS
<1>1. Onward /\ Written(x)' = Written(x)  BY StillOnward DEF CheqdInv
<1>2. Beside(x)  BY <1>1 DEF Beside, Still, CheqdInv, CallSound, CallShaped
<1> QED  BY <1>2, SoundBeside DEF CheqdInv

LEMMA EndedFields ==
    ASSUME NEW c \in CheqdCalls, DOMAIN call = CheqdCalls, NEW r, End(c, r)
    PROVE  /\ DOMAIN call' = CheqdCalls /\ \A x \in CheqdCalls : x # c => call'[x] = call[x]
           /\ DOMAIN call'[c] = CallFields /\ call'[c].noCache = FALSE /\ call'[c].since = 0
           /\ call'[c].read = call[c].read /\ call'[c].at = ctime /\ call'[c].floor = 0
           /\ call'[c].stage = "done" /\ call'[c].result = r /\ call'[c].body = call[c].body
BY DEF End, Ended, NotStarted, CallFields

LEMMA AnsweredFields ==
    ASSUME NEW c \in CheqdCalls, DOMAIN call = CheqdCalls, NEW l, Answer(c, l)
    PROVE  /\ DOMAIN call' = CheqdCalls /\ \A x \in CheqdCalls : x # c => call'[x] = call[x]
           /\ DOMAIN call'[c] = CallFields /\ call'[c].noCache = FALSE /\ call'[c].since = 0
           /\ call'[c].read = call[c].read /\ call'[c].at = ctime
           /\ call'[c].floor = IF call[c].stage = "idle" THEN floor ELSE call[c].floor
           /\ call'[c].list = {l} /\ call'[c].result = ReadBit(l, Work(c).entry)
           /\ call'[c].stage = "done" /\ call'[c].body = call[c].body
BY DEF Answer, Ended, NotStarted, CallFields

\* A call that is over and answered nothing.
LEMMA EndSound ==
    ASSUME NEW c \in Active, c \in CheqdCalls, DOMAIN call = CheqdCalls, CallSound(c), Onward, ctime' = ctime,
           NEW r, r \notin {"clear", "revoked"}, End(c, r),
           r \in Unwritten => Written(c)' = {},
           \A i, k \in Written(c)' : i = k,
           Written(c)' # {} => call[c].stage \in WriteStages /\ call[c].body # {},
           r = "complete" => \E i \in DOMAIN History(c)' : {History(c)'[i].value} = call[c].body
    PROVE  CallSound(c)'
<1>1. /\ DOMAIN call'[c] = CallFields /\ call'[c].noCache = FALSE /\ call'[c].since = 0
      /\ call'[c].read = call[c].read /\ call'[c].at = ctime /\ call'[c].floor = 0
      /\ call'[c].stage = "done" /\ call'[c].result = r /\ call'[c].body = call[c].body
  BY EndedFields
<1>2. /\ ctime \in Nat /\ Work(c)' = Work(c) /\ call[c].read \in Nat /\ call[c].read <= ctime
      /\ 0 \in 0..Len(lists')
  BY ChronicleShape DEF Onward, Work, CallSound, CallShaped
<1>3. CallShaped(c)'
  <2>1. call'[c].noCache \in BOOLEAN  BY <1>1, Zenon
  <2>2. call'[c].stage \notin {"idle", "listServed"} \cup CheckStages \cup ReadStages \cup WriteStages
    BY <1>1 DEF CheckStages, ReadStages, WriteStages
  <2> QED  BY <1>1, <1>2, <2>1, <2>2 DEF CallShaped
<1>4. CheckSound(c)' /\ ReplySound(c)' /\ AnswerSound(c)'
  BY <1>1 DEF CheckSound, Checking, ReplySound, AnswerSound, ReadStages
<1>5. (Work(c).kind = "link" /\ call[c].body # {} => LinkSound(c))'
  BY <1>1, <1>2, LinkStays DEF CallSound, WriteSound
<1>6. WriteSound(c)'
  BY <1>1, <1>2, <1>5 DEF CallSound, WriteSound, WriteStages
<1> QED  BY <1>3, <1>4, <1>6 DEF CallSound

LEMMA AnswerFound ==
    ASSUME NEW c \in Active, c \in CheqdCalls, DOMAIN call = CheqdCalls, CallSound(c), FloorSound,
           Histories, ctime \in Nat, Still,
           call[c].stage # "done", Work(c).kind = "check", NEW l, Answer(c, l),
           ListStood(l, ctime, ListAge), Vouched(l, ctime, SignatureAge), Seen(l, floor)
    PROVE  CallSound(c)'
<1>0. Onward /\ Written(c)' = Written(c)  BY StillOnward
<1>1. /\ DOMAIN call'[c] = CallFields /\ call'[c].noCache = FALSE /\ call'[c].since = 0
      /\ call'[c].read = call[c].read /\ call'[c].at = ctime
      /\ call'[c].floor = IF call[c].stage = "idle" THEN floor ELSE call[c].floor
      /\ call'[c].list = {l} /\ call'[c].result = ReadBit(l, Work(c).entry)
      /\ call'[c].stage = "done" /\ call'[c].body = call[c].body
  BY AnsweredFields
<1>2. call'[c].floor = floor
  BY <1>1 DEF CallSound, CheckSound, Checking
<1>3. floor \in 1..Len(lists) /\ floor # 0  BY <1>0, ChronicleShape DEF FloorSound, Onward
<1>4. /\ Work(c)' = Work(c) /\ call[c].read \in Nat /\ call[c].read <= ctime /\ lists' = lists /\ docs' = docs
      /\ ctime' = ctime
  BY DEF Still, Work, CallSound, CallShaped
<1>5. CallShaped(c)'
  <2>1. call'[c].floor \in 0..Len(lists')  BY <1>2, <1>3, <1>4
  <2>2. call'[c].noCache \in BOOLEAN  BY <1>1, Zenon
  <2>3. call'[c].stage \notin {"idle", "listServed"} \cup CheckStages \cup ReadStages \cup WriteStages
    BY <1>1 DEF CheckStages, ReadStages, WriteStages
  <2> QED  BY <1>1, <1>4, <2>1, <2>2, <2>3 DEF CallShaped
<1>6. CheckSound(c)' /\ ReplySound(c)'
  BY <1>1 DEF CheckSound, Checking, ReplySound, ReadStages
<1>7. AnswerSound(c)'
  <2> SUFFICES ASSUME call'[c].result \in {"clear", "revoked"}  PROVE AnswerSound(c)'
    BY DEF AnswerSound
  <2>1. /\ l.purpose = {Work(c).entry.purpose}
        /\ (call'[c].result = "revoked") = (Work(c).entry.index \subseteq l.revoked)
    BY <1>1 DEF ReadBit
  <2>2. ListStood(l, ctime, ListAge)' /\ Vouched(l, ctime, SignatureAge)' /\ Seen(l, floor)'
    BY DEF Still, ListStood, Vouched, Seen
  <2>3. ListStood(l, call[c].at, ListAge)' /\ Vouched(l, call[c].at, SignatureAge)' /\ Seen(l, call[c].floor)'
    BY <2>2, <1>1, <1>2, <1>4 DEF Still
  <2>4. \E k \in call'[c].list :
        /\ call'[c].list = {k}
        /\ ListStood(k, call[c].at, ListAge)' /\ Vouched(k, call[c].at, SignatureAge)'
        /\ call'[c].floor # 0 /\ Seen(k, call[c].floor)'
        /\ k.purpose = {Work(c)'.entry.purpose}
        /\ (call'[c].result = "revoked") = (Work(c)'.entry.index \subseteq k.revoked)
    BY <2>1, <2>3, <1>1, <1>2, <1>3, <1>4
  <2> QED  BY <2>4 DEF AnswerSound
<1>8. (Work(c).kind = "link" /\ call[c].body # {} => LinkSound(c))'
  BY <1>4
<1>9. call'[c].result \notin Unwritten \cup {"complete"}
  BY <1>1 DEF ReadBit, Unwritten
<1>10. WriteSound(c)'
  BY <1>0, <1>1, <1>4, <1>8, <1>9 DEF CallSound, WriteSound, WriteStages
<1> QED  BY <1>5, <1>6, <1>7, <1>10 DEF CallSound

-----------------------------------------------------------------------------
(* The steps of a check.                                                   *)

LEMMA CachesStill ==
    ASSUME CheqdInv, Still
    PROVE  /\ docCache' = docCache => DocCacheSound'
           /\ listCache' = listCache => ListCacheSound'
           /\ listCache' = listCache /\ bust' = bust => FloorSound'
<1>1. ASSUME docCache' = docCache  PROVE DocCacheSound'
  BY <1>1 DEF CheqdInv, DocCacheSound, DocStood, Still
<1>2. ASSUME listCache' = listCache  PROVE ListCacheSound'
  BY <1>2 DEF CheqdInv, ListCacheSound, ListStood, Vouched, Seen, Still
<1>3. ASSUME listCache' = listCache, bust' = bust  PROVE FloorSound'
  BY <1>3 DEF CheqdInv, FloorSound, Overdue, Still
<1> QED  BY <1>1, <1>2, <1>3

LEMMA InvAfter ==
    ASSUME CheqdInv, Still, NEW c \in Active, DOMAIN call' = CheqdCalls,
           \A x \in CheqdCalls : x # c => call'[x] = call[x],
           CallSound(c)', bust' \in BOOLEAN, DocCacheSound', ListCacheSound', FloorSound'
    PROVE  CheqdInv'
<1>1. \A x \in Active : x \in CheqdCalls  BY CheqdAssumption DEF CheqdInv, Active
<1>2. \A x \in Active : x # c => CallSound(x)'  BY <1>1, OthersSound
<1>3. Histories'  BY StillOnward DEF CheqdInv
<1>4. Active' = Active  BY DEF Still, Active
<1> QED  BY <1>2, <1>3, <1>4 DEF CheqdInv, Still

\* A call that ends without an answer, and leaves the caches alone.
LEMMA EndInv ==
    ASSUME CheqdInv, Still, NEW c \in Active, NEW r, r \notin {"clear", "revoked", "complete"}, End(c, r),
           call[c].stage # "done", bust' = bust, docCache' = docCache, listCache' = listCache
    PROVE  CheqdInv'
<1>1. c \in CheqdCalls /\ DOMAIN call = CheqdCalls /\ CallSound(c)
  BY CheqdAssumption DEF CheqdInv, Active
<1>2. Onward /\ Written(c)' = Written(c)  BY StillOnward DEF CheqdInv
<1>3. Written(c) = {}  BY <1>1 DEF CallSound, WriteSound
<1>4. CallSound(c)'
  BY <1>1, <1>2, <1>3, EndSound DEF Still
<1>5. DOMAIN call' = CheqdCalls /\ \A x \in CheqdCalls : x # c => call'[x] = call[x]
  BY <1>1, EndedFields
<1> QED  BY <1>4, <1>5, CachesStill, InvAfter DEF CheqdInv

LEMMA LiveSound ==
    ASSUME CheqdInv, Still, listCache' = LiveLists, bust' = bust
    PROVE  /\ ListCacheSound' /\ FloorSound'
           /\ LiveLists = {} /\ Steady /\ ~ bust => Overdue
           /\ \A e \in LiveLists : /\ ListStood(e.list, ctime, ListAge) /\ Vouched(e.list, ctime, SignatureAge)
                                   /\ Seen(e.list, floor)
<1>0. LiveLists \subseteq listCache /\ ctime \in Nat /\ Chronicle(docs) /\ Chronicle(lists)
  BY DEF LiveLists, CheqdInv, Histories
<1>1. ListCacheSound'
  BY <1>0 DEF CheqdInv, ListCacheSound, ListStood, Vouched, Seen, Still
<1>2. ASSUME NEW e \in listCache, e \notin LiveLists, lists[floor].at + ListCacheTtl <= e.until, Steady
      PROVE  Overdue
  <2>1. PICK u \in Nat : u = e.until  BY DEF CheqdInv, ListCacheSound
  <2>2. u < ctime  BY <1>0, <1>2, <2>1 DEF LiveLists
  <2>3. floor \in DOMAIN lists  BY <1>0, ChronicleShape DEF CheqdInv, FloorSound
  <2>4. PICK a \in Nat : a = lists[floor].at  BY <1>0, <2>3 DEF Chronicle
  <2>5. a + UpstreamAge <= ctime  BY <1>0, <1>2, <2>1, <2>2, <2>4, Ages DEF Steady
  <2> QED  BY <2>4, <2>5 DEF Overdue
<1>3. Steady /\ ~ bust => Overdue \/ \E e \in LiveLists : lists[floor].at + ListCacheTtl <= e.until
  BY <1>2 DEF CheqdInv, FloorSound
<1>4. FloorSound'
  BY <1>3 DEF CheqdInv, FloorSound, Still, Overdue, Steady
<1>5. ASSUME NEW e \in LiveLists
      PROVE  /\ ListStood(e.list, ctime, ListAge) /\ Vouched(e.list, ctime, SignatureAge)
             /\ Seen(e.list, floor)
  <2>1. PICK u \in Nat : u = e.until  BY <1>0 DEF CheqdInv, ListCacheSound
  <2>2. ctime <= u  BY <2>1 DEF LiveLists
  <2>3. ListStood(e.list, u, ListAge) /\ Vouched(e.list, u, SignatureAge) /\ Seen(e.list, floor)
    BY <1>0, <2>1 DEF CheqdInv, ListCacheSound
  <2> QED  BY <1>0, <2>2, <2>3, StoodLater, Ages
<1> QED  BY <1>1, <1>3, <1>4, <1>5

LEMMA CheckStatusStep ==
    ASSUME CheqdInv, NEW c \in Active, CheckStatus(c)
    PROVE  CheqdInv'
<1>0. Still /\ bust' = bust /\ docCache' = docCache  BY DEF CheckStatus, Still
<1>1. c \in CheqdCalls /\ DOMAIN call = CheqdCalls /\ CallSound(c) /\ FloorSound /\ Histories
      /\ ctime \in Nat /\ call[c].stage = "idle" /\ Work(c).kind = "check"
  BY CheqdAssumption DEF CheqdInv, Active, CheckStatus
<1>2. CASE End(c, "error") /\ UNCHANGED listCache
  BY <1>0, <1>1, <1>2, EndInv
<1>3. ASSUME listCache' = LiveLists, NEW e \in LiveLists, Answer(c, e.list)  PROVE CheqdInv'
  <2>1. /\ ListCacheSound' /\ FloorSound'
        /\ ListStood(e.list, ctime, ListAge) /\ Vouched(e.list, ctime, SignatureAge) /\ Seen(e.list, floor)
    BY <1>0, <1>3, LiveSound
  <2>2. CallSound(c)'  BY <1>0, <1>1, <1>3, <2>1, AnswerFound
  <2>3. DOMAIN call' = CheqdCalls /\ \A x \in CheqdCalls : x # c => call'[x] = call[x]
    BY <1>1, <1>3, AnsweredFields
  <2> QED  BY <1>0, <2>1, <2>2, <2>3, CachesStill, InvAfter DEF CheqdInv
<1>4. ASSUME listCache' = LiveLists, LiveLists = {},
             call' = [call EXCEPT ![c].stage = "listAsked", ![c].noCache = bust, ![c].floor = floor]
      PROVE  CheqdInv'
  <2>1. ListCacheSound' /\ FloorSound' /\ (Steady /\ ~ bust => Overdue)
    BY <1>0, <1>4, LiveSound
  <2>2. /\ DOMAIN call' = CheqdCalls /\ \A x \in CheqdCalls : x # c => call'[x] = call[x]
        /\ DOMAIN call'[c] = CallFields /\ call'[c].stage = "listAsked" /\ call'[c].noCache = bust
        /\ call'[c].floor = floor /\ call'[c].since = call[c].since /\ call'[c].read = call[c].read
        /\ call'[c].at = call[c].at /\ call'[c].result = call[c].result /\ call'[c].body = call[c].body
    BY <1>1, <1>4 DEF CallSound, CallShaped, CallFields
  <2>3. Onward /\ Written(c)' = Written(c) /\ Work(c)' = Work(c) /\ lists' = lists /\ ctime' = ctime /\ floor' = floor
    BY <1>0, StillOnward DEF CheqdInv, Still, Work
  <2>4. call'[c].floor \in 0..Len(lists')  BY <1>1, <2>2, <2>3, ChronicleShape DEF FloorSound, Onward
  <2>5. call'[c].noCache \in BOOLEAN  BY <2>2, Zenon DEF CheqdInv
  <2>6. CallShaped(c)'
    BY <1>1, <2>2, <2>3, <2>4, <2>5 DEF CallSound, CallShaped, CheckStages, ReadStages, WriteStages
  <2>7. Overdue' = Overdue /\ Steady' = Steady  BY <2>3 DEF Overdue, Steady
  <2>8. CheckSound(c)' /\ ReplySound(c)'
    BY <2>1, <2>2, <2>3, <2>7 DEF CheckSound, ReplySound, ReadStages
  <2>9. AnswerSound(c)'
    BY <1>1, <2>2 DEF AnswerSound, CallSound, CallShaped
  <2>10. WriteSound(c)'
    BY <1>1, <2>2, <2>3, WriteBeside DEF CallSound, WriteStages
  <2>11. CallSound(c)'  BY <2>6, <2>8, <2>9, <2>10 DEF CallSound
  <2> QED  BY <1>0, <2>1, <2>2, <2>11, CachesStill, InvAfter DEF CheqdInv
<1> QED  BY <1>2, <1>3, <1>4 DEF CheckStatus

LEMMA ServedStood ==
    ASSUME CheqdInv, NEW c \in Active, call[c].stage = "listAsked",
           NEW l \in Servable(lists, call[c].noCache)
    PROVE  ListStood(l, ctime, UpstreamAge) /\ Seen(l, floor)
<1>0. Chronicle(lists) /\ ctime \in Nat /\ floor \in 1..Len(lists)
  BY DEF CheqdInv, Histories, FloorSound
<1> PICK n \in Nat : n = Len(lists) /\ DOMAIN lists = 1..n  BY <1>0, ChronicleShape
<1>1. PICK i \in 1..n : /\ lists[i].value = l
                        /\ i = n \/ (~ call[c].noCache /\ lists[i + 1].at + UpstreamAge > ctime)
  BY DEF Servable
<1>2. CurrentWithin(lists, i, ctime, UpstreamAge)  BY <1>1 DEF CurrentWithin
<1>3. ASSUME Steady, i < floor  PROVE FALSE
  <2>1. ~ call[c].noCache /\ lists[i + 1].at + UpstreamAge > ctime  BY <1>0, <1>1, <1>3
  <2>2. lists[floor].at + UpstreamAge <= ctime
    BY <1>0, <1>3, <2>1 DEF CheqdInv, CallSound, CheckSound, Overdue
  <2>3. i + 1 \in DOMAIN lists /\ floor \in DOMAIN lists /\ i + 1 <= floor  BY <1>0, <1>3
  <2>4. lists[i + 1].at <= lists[floor].at /\ lists[i + 1].at \in Nat /\ lists[floor].at \in Nat
    BY <1>0, <2>3 DEF Chronicle
  <2> QED  BY <1>0, <2>1, <2>2, <2>4, Ages
<1>4. Seen(l, floor)  BY <1>0, <1>1, <1>3 DEF Seen
<1> QED  BY <1>1, <1>2, <1>4 DEF ListStood

LEMMA ServeListStep ==
    ASSUME CheqdInv, NEW c \in Active, ServeList(c)
    PROVE  CheqdInv'
<1>0. Still /\ docCache' = docCache /\ listCache' = listCache  BY DEF ServeList, Still
<1>1. c \in CheqdCalls /\ DOMAIN call = CheqdCalls /\ CallSound(c) /\ FloorSound /\ Histories
      /\ ctime \in Nat /\ call[c].stage = "listAsked" /\ Work(c).kind = "check" /\ call[c].floor = floor
  BY CheqdAssumption DEF CheqdInv, Active, ServeList, CallSound, CallShaped, CheckSound, CheckStages, Checking
<1>2. CASE Unprovable(c)
  BY <1>0, <1>1, <1>2, EndInv DEF Unprovable
<1>3. ASSUME NEW l \in Servable(lists, call[c].noCache) \cup Others(OtherBodies), UNCHANGED bust,
             call' = [call EXCEPT ![c].stage = "listServed", ![c].reply = {l}, ![c].since = ctime]
      PROVE  CheqdInv'
  <2>1. l \in Others(OtherBodies) \/ (ListStood(l, ctime, UpstreamAge) /\ Seen(l, floor))
    BY <1>1, <1>3, ServedStood
  <2>2. /\ DOMAIN call' = CheqdCalls /\ \A x \in CheqdCalls : x # c => call'[x] = call[x]
        /\ DOMAIN call'[c] = CallFields /\ call'[c].stage = "listServed" /\ call'[c].noCache = call[c].noCache
        /\ call'[c].reply = {l} /\ call'[c].since = ctime
        /\ call'[c].floor = call[c].floor /\ call'[c].read = call[c].read
        /\ call'[c].at = call[c].at /\ call'[c].result = call[c].result /\ call'[c].body = call[c].body
    BY <1>1, <1>3 DEF CallSound, CallShaped, CallFields
  <2>3. Onward /\ Written(c)' = Written(c) /\ Work(c)' = Work(c) /\ lists' = lists /\ ctime' = ctime /\ floor' = floor
        /\ cheqd' = cheqd
    BY <1>0, StillOnward DEF CheqdInv, Still, Work
  <2>4. call'[c].noCache \in BOOLEAN  BY <1>1, <2>2, Zenon DEF CallSound, CallShaped
  <2>5. ctime <= ctime + MaxFlight  BY <1>1, Ages
  <2>6. CallShaped(c)'
    BY <1>1, <2>2, <2>3, <2>4, <2>5 DEF CallSound, CallShaped, CheckStages, ReadStages, WriteStages
  <2>7. Origin(c, l, call[c].since, UpstreamAge)'
    BY <1>1, <2>1, <2>2, <2>3 DEF Origin, Others, ListStood, Seen
  <2>8. CheckSound(c)' /\ ReplySound(c)'
    BY <1>1, <2>2, <2>3, <2>7 DEF CheckSound, ReplySound, ReadStages
  <2>9. AnswerSound(c)'
    BY <1>1, <2>2 DEF AnswerSound, CallSound, CallShaped
  <2>10. WriteSound(c)'
    BY <1>1, <2>2, <2>3, WriteBeside DEF CallSound, WriteStages
  <2>11. CallSound(c)'  BY <2>6, <2>8, <2>9, <2>10 DEF CallSound
  <2> QED  BY <1>0, <1>3, <2>2, <2>11, CachesStill, InvAfter DEF CheqdInv
<1> QED  BY <1>2, <1>3 DEF ServeList

\* A list that a document of the issuer vouches for is one the issuer published.
LEMMA VerifiedPublished ==
    ASSUME CheqdInv, NEW c, NEW l, ShapeAndIssuer(l), NEW t \in Nat, NEW age \in Nat, Origin(c, l, t, age),
           NEW i \in DOMAIN docs, SignedBy(l, docs[i].value)
    PROVE  ListStood(l, t, age) /\ Seen(l, call[c].floor)
<1> SUFFICES ASSUME l \in Others(OtherBodies)  PROVE FALSE
  BY DEF Origin
<1>1. PICK d \in IssuedDocuments(cheqd) : docs[i].value.methods = d.methods
  BY DEF CheqdInv, Histories, IssuerDocument
<1>2. SignedWithKeyOf(l, d)  BY <1>1 DEF SignedBy, SignedWithKeyOf
<1> QED  BY <1>1, <1>2, CheqdAssumption DEF Others, CheqdInv

\* What a check knows of its list and of the document it verifies it with.
LEMMA VerifyStep ==
    ASSUME CheqdInv, Still, docCache' = docCache \/ DocCacheSound', NEW c \in Active,
           call[c].stage \in {"listServed", "docServed"}, Work(c).kind = "check",
           NEW l, ShapeAndIssuer(l), Origin(c, l, ctime, UpstreamAge + 2 * MaxFlight),
           NEW doc, \A d \in doc : DocStood(d, ctime, DocumentAge),
           CheckSignature(c, l, doc)
    PROVE  CheqdInv'
<1>1. c \in CheqdCalls /\ DOMAIN call = CheqdCalls /\ CallSound(c) /\ FloorSound /\ Histories
      /\ ctime \in Nat /\ c \in Checking /\ call[c].floor = floor
  BY CheqdAssumption DEF CheqdInv, Active, CallSound, CheckSound, Checking
<1>2. Onward /\ Written(c)' = Written(c)  BY <1>1, StillOnward
<1>3. DocCacheSound'  BY CachesStill
<1>4. CASE Unprovable(c) /\ UNCHANGED listCache
  <2>1. Written(c) = {}  BY <1>1 DEF CallSound, WriteSound
  <2>2. End(c, "error")  BY <1>4 DEF Unprovable
  <2>3. CallSound(c)'  BY <1>1, <1>2, <2>1, <2>2, EndSound DEF Still, Unwritten
  <2>4. DOMAIN call' = CheqdCalls /\ \A x \in CheqdCalls : x # c => call'[x] = call[x]
    BY <1>1, <2>2, EndedFields
  <2>5. bust' = bust /\ listCache' = listCache  BY <1>4 DEF Unprovable
  <2>6. bust' \in BOOLEAN  BY <2>5 DEF CheqdInv
  <2> QED  BY <1>3, <2>3, <2>4, <2>5, <2>6, CachesStill, InvAfter
<1>5. ASSUME NEW d \in doc, SignedBy(l, d), bust' = FALSE, Answer(c, l),
             listCache' = IF ListCacheTtl = 0 THEN {} ELSE {[list |-> l, until |-> ctime + ListCacheTtl]}
      PROVE  CheqdInv'
  <2>1. PICK i \in DOMAIN docs : docs[i].value = d /\ CurrentWithin(docs, i, ctime, DocumentAge)
    BY DEF DocStood
  <2>2. SignedBy(l, docs[i].value)  BY <1>5, <2>1
  <2> PICK a \in Nat : a = UpstreamAge + 2 * MaxFlight  BY Ages
  <2>3. ListStood(l, ctime, a) /\ Seen(l, floor)  BY <1>1, <2>2, VerifiedPublished
  <2>4. Vouched(l, ctime, DocumentAge)  BY <2>1, <2>2 DEF Vouched
  <2> PICK u \in Nat : u = ctime + ListCacheTtl  BY <1>1, Ages
  <2>5. Chronicle(docs) /\ Chronicle(lists)  BY <1>1 DEF Histories
  <2>6. a \in Nat /\ ctime + a <= ctime + ListAge /\ ctime + DocumentAge <= ctime + SignatureAge
        /\ u + a <= ctime + ListAge /\ u + DocumentAge <= ctime + SignatureAge
    BY <1>1, Ages
  <2>7. /\ ListStood(l, ctime, ListAge) /\ Vouched(l, ctime, SignatureAge)
        /\ ListStood(l, u, ListAge) /\ Vouched(l, u, SignatureAge)
    BY <1>1, <2>3, <2>4, <2>5, <2>6, StoodLater, Ages
  <2>8. CallSound(c)'  BY <1>1, <1>5, <2>3, <2>7, AnswerFound
  <2>9. DOMAIN call' = CheqdCalls /\ \A x \in CheqdCalls : x # c => call'[x] = call[x]
    BY <1>1, <1>5, AnsweredFields
  <2>10. ListCacheSound'
    <3> SUFFICES ASSUME NEW e \in listCache'
                 PROVE  /\ e.until \in Nat /\ e.until <= ctime' + ListCacheTtl
                        /\ ListStood(e.list, e.until, ListAge)' /\ Vouched(e.list, e.until, SignatureAge)'
                        /\ Seen(e.list, floor)'
      BY DEF ListCacheSound
    <3>1. e.list = l /\ e.until = u  BY <1>5
    <3>2. ListStood(l, u, ListAge)' /\ Vouched(l, u, SignatureAge)' /\ Seen(l, floor)'
      BY <2>3, <2>7 DEF ListStood, Vouched, Seen, Still
    <3> QED  BY <3>1, <3>2 DEF Still
  <2>11. FloorSound'
    <3>1. floor \in 1..Len(lists)  BY <1>1 DEF FloorSound
    <3> SUFFICES ASSUME Steady  PROVE \E e \in listCache' : lists[floor].at + ListCacheTtl <= e.until
      BY <3>1 DEF FloorSound, Still, Steady
    <3>2. ListCacheTtl # 0  BY Ages DEF Steady
    <3>3. floor \in DOMAIN lists  BY <2>5, <3>1, ChronicleShape
    <3>4. PICK b \in Nat : b = lists[floor].at /\ b <= ctime  BY <2>5, <3>3 DEF Chronicle
    <3>5. b + ListCacheTtl <= u  BY <3>4, <1>1, Ages
    <3> QED  BY <1>5, <3>2, <3>4, <3>5
  <2> QED  BY <1>3, <1>5, <2>8, <2>9, <2>10, <2>11, InvAfter
<1> QED  BY <1>4, <1>5 DEF CheckSignature

-----------------------------------------------------------------------------
(* Links, and the documents they read.                                     *)

LEMMA CachedStood ==
    ASSUME CheqdInv
    PROVE  /\ \A d \in CachedDocument : DocStood(d, ctime, DocumentAge)
           /\ \A d, e \in CachedDocument : d = e
<1>1. ASSUME NEW x \in docCache, ctime < x.until  PROVE DocStood(x.doc, ctime, DocumentAge)
  <2> PICK u \in Nat : u = x.until  BY DEF CheqdInv, DocCacheSound
  <2>1. DocStood(x.doc, u, DocumentAge)  BY DEF CheqdInv, DocCacheSound
  <2> QED  BY <1>1, <2>1, StoodLater, Ages DEF CheqdInv, Histories
<1> QED  BY <1>1 DEF CachedDocument, CheqdInv, DocCacheSound

LEMMA NormalTwice ==
    ASSUME NEW did
    PROVE  normalizeDid(normalizeDid(did)) = normalizeDid(did)
BY DEF normalizeDid

LEMMA LinkedVerifies ==
    ASSUME CheqdInv, NEW c \in Active, Work(c).kind = "link",
           NEW i \in DOMAIN docs, NEW d, d = docs[i].value, normalizeDid(d.id) = normalizeDid(ListIssuer),
           NEW did, did = normalizeDid(Work(c).name)
    PROVE  /\ IssuerDocument(Linked(d, did)) /\ d.aka \subseteq Linked(d, did).aka
           /\ verifyDidLinkage(ListIssuer, Work(c).name, {Linked(d, did)}, {Work(c).page}, TRUE)
<1>1. IssuerDocument(d)  BY DEF CheqdInv, Histories
<1>2. DOMAIN d = DocumentFields  BY <1>1 DEF IssuerDocument
<1>3. /\ DOMAIN Linked(d, did) = DocumentFields /\ Linked(d, did).methods = d.methods
      /\ Linked(d, did).id = d.id /\ Linked(d, did).aka = d.aka \cup {did}
  BY <1>2 DEF Linked, DocumentFields
<1>4. IssuerDocument(Linked(d, did))  BY <1>1, <1>3 DEF IssuerDocument
<1>5. hasAlsoKnownAs(Linked(d, did), normalizeDid(Work(c).name))
  BY <1>3, NormalTwice DEF hasAlsoKnownAs
<1>6. /\ normalizeDid(Work(c).page.id) = normalizeDid(Work(c).name)
      /\ hasAlsoKnownAs(Work(c).page, normalizeDid(ListIssuer))
  BY CheqdAssumption DEF CheqdInv, Active, Work
<1>7. verifyDidLinkage(ListIssuer, Work(c).name, {Linked(d, did)}, {Work(c).page}, TRUE)
  <2>1. isDidDocument({Linked(d, did)}) /\ isDidDocument({Work(c).page})  BY DEF isDidDocument
  <2> QED  BY <2>1, <1>3, <1>5, <1>6 DEF verifyDidLinkage
<1> QED  BY <1>3, <1>4, <1>7

\* updateCheqdAlsoKnownAs with the document it read.
LEMMA LinkStep ==
    ASSUME CheqdInv, Still, docCache' = docCache \/ DocCacheSound', bust' = bust, listCache' = listCache,
           NEW c \in Active, call[c].stage \in {"idle", "docServed"}, Work(c).kind = "link",
           NEW doc, \A d \in doc : DocStood(d, ctime, DocumentAge), \A d, e \in doc : d = e,
           Link(c, doc)
    PROVE  CheqdInv'
<1>1. c \in CheqdCalls /\ DOMAIN call = CheqdCalls /\ CallSound(c) /\ FloorSound /\ Histories
      /\ ctime \in Nat /\ Written(c) = {}
  BY CheqdAssumption DEF CheqdInv, Active, CallSound, WriteSound
<1>2. Onward /\ Written(c)' = Written(c)  BY <1>1, StillOnward
<1>3. DocCacheSound' /\ ListCacheSound' /\ FloorSound' /\ bust' \in BOOLEAN  BY CachesStill DEF CheqdInv
<1>4. ASSUME NEW r, r \in {"unresolved", "unchanged"}, End(c, r)  PROVE CheqdInv'
  <2>1. CallSound(c)'  BY <1>1, <1>2, <1>4, EndSound DEF Still
  <2>2. DOMAIN call' = CheqdCalls /\ \A x \in CheqdCalls : x # c => call'[x] = call[x]
    BY <1>1, <1>4, EndedFields
  <2> QED  BY <1>3, <2>1, <2>2, InvAfter
<1>5. ASSUME NEW did, did = normalizeDid(Work(c).name), NEW d \in doc,
             normalizeDid(d.id) = normalizeDid(ListIssuer),
             call' = [call EXCEPT ![c].stage = "post", ![c].reply = {}, ![c].read = ctime,
                                  ![c].body = {Linked(e, did) : e \in doc}]
      PROVE  CheqdInv'
  <2>0. doc = {d}  OBVIOUS
  <2>1. /\ DOMAIN call' = CheqdCalls /\ \A x \in CheqdCalls : x # c => call'[x] = call[x]
        /\ DOMAIN call'[c] = CallFields /\ call'[c].stage = "post" /\ call'[c].noCache = call[c].noCache
        /\ call'[c].since = call[c].since /\ call'[c].read = ctime
        /\ call'[c].floor = call[c].floor /\ call'[c].at = call[c].at /\ call'[c].result = call[c].result
        /\ call'[c].body = {Linked(e, did) : e \in doc}
    BY <1>1, <1>5 DEF CallSound, CallShaped, CallFields
  <2>2. call'[c].body = {Linked(d, did)}  BY <2>0, <2>1
  <2>3. PICK i \in DOMAIN docs : docs[i].value = d /\ CurrentWithin(docs, i, ctime, DocumentAge)
    BY DEF DocStood
  <2>4. docs[i].by # c  BY <1>1 DEF Written
  <2>5. /\ IssuerDocument(Linked(d, did)) /\ d.aka \subseteq Linked(d, did).aka
        /\ verifyDidLinkage(ListIssuer, Work(c).name, {Linked(d, did)}, {Work(c).page}, TRUE)
    BY <1>5, <2>3, LinkedVerifies
  <2>6. Work(c)' = Work(c) /\ docs' = docs /\ lists' = lists /\ ctime' = ctime /\ cheqd' = cheqd
    BY DEF Still, Work
  <2>7. LinkSound(c)'
    <3>1. verifyDidLinkage(ListIssuer, Work(c).name, call[c].body, {Work(c).page}, TRUE)'
      BY <2>2, <2>5, <2>6 DEF verifyDidLinkage, isDidDocument
    <3>2. CurrentWithin(docs, i, call[c].read, DocumentAge)'  BY <2>1, <2>3, <2>6
    <3> QED  BY <2>2, <2>3, <2>4, <2>5, <2>6, <3>1, <3>2 DEF LinkSound
  <2>8. call'[c].noCache \in BOOLEAN  BY <1>1, <2>1, Zenon DEF CallSound, CallShaped
  <2>9. CallShaped(c)'
    BY <1>1, <2>1, <2>6, <2>8 DEF CallSound, CallShaped, CheckStages, ReadStages, WriteStages
  <2>10. CheckSound(c)' /\ ReplySound(c)'
    BY <2>1, <2>6 DEF CheckSound, Checking, ReplySound, ReadStages
  <2>11. AnswerSound(c)'
    BY <1>1, <2>1 DEF AnswerSound, CallSound, CallShaped
  <2>12. WriteSound(c)'
    <3>1. call'[c].result = "none"  BY <1>1, <2>1 DEF CallSound, CallShaped
    <3>2. IssuerDocument(Linked(d, did))'  BY <2>5, <2>6 DEF IssuerDocument
    <3> QED  BY <1>1, <1>2, <2>1, <2>2, <2>6, <2>7, <3>1, <3>2 DEF WriteSound, Unwritten
  <2>13. CallSound(c)'  BY <2>9, <2>10, <2>11, <2>12 DEF CallSound
  <2> QED  BY <1>3, <2>1, <2>13, InvAfter
<1>6. CASE ~ isDidDocument(doc) \/ \E d \in doc : normalizeDid(d.id) # normalizeDid(ListIssuer)
  BY <1>4, <1>6 DEF Link
<1>7. CASE ~ (~ isDidDocument(doc) \/ \E d \in doc : normalizeDid(d.id) # normalizeDid(ListIssuer))
  <2>1. PICK d \in doc : normalizeDid(d.id) = normalizeDid(ListIssuer)  BY <1>7 DEF isDidDocument
  <2>2. CASE \E e \in doc : hasAlsoKnownAs(e, normalizeDid(Work(c).name))
    BY <1>4, <1>7, <2>2 DEF Link
  <2>3. CASE ~ \E e \in doc : hasAlsoKnownAs(e, normalizeDid(Work(c).name))
    <3> DEFINE did == normalizeDid(Work(c).name)
    <3>1. call' = [call EXCEPT ![c].stage = "post", ![c].reply = {}, ![c].read = ctime,
                               ![c].body = {Linked(e, did) : e \in doc}]
      BY <1>7, <2>3 DEF Link
    <3> QED  BY <1>5, <2>1, <3>1
  <2> QED  BY <2>2, <2>3
<1> QED  BY <1>6, <1>7

LEMMA OriginLater ==
    ASSUME CheqdInv, NEW c, NEW l, NEW t \in Nat, NEW age \in Nat, NEW u \in Nat, NEW old \in Nat,
           u + age <= t + old, Origin(c, l, t, age)
    PROVE  Origin(c, l, u, old)
BY StoodLater DEF Origin, CheqdInv, Histories

\* A document is asked for.
LEMMA AskStep ==
    ASSUME CheqdInv, Still, docCache' = docCache, listCache' = listCache, bust' = bust,
           NEW c \in Active, call[c].stage \in {"idle", "listServed"}, Work(c).kind \in {"check", "link"},
           NEW held, Work(c).kind = "check" =>
             /\ call[c].floor = floor
             /\ \E l \in held : held = {l} /\ ShapeAndIssuer(l) /\ Origin(c, l, ctime, UpstreamAge + MaxFlight),
           call' = [call EXCEPT ![c].stage = "docAsked", ![c].reply = {}, ![c].list = held, ![c].since = ctime]
    PROVE  CheqdInv'
<1>1. c \in CheqdCalls /\ DOMAIN call = CheqdCalls /\ CallSound(c) /\ ctime \in Nat
  BY CheqdAssumption DEF CheqdInv, Active
<1>2. Onward /\ Written(c)' = Written(c)  BY StillOnward DEF CheqdInv
<1>3. /\ DOMAIN call' = CheqdCalls /\ \A x \in CheqdCalls : x # c => call'[x] = call[x]
      /\ DOMAIN call'[c] = CallFields /\ call'[c].stage = "docAsked" /\ call'[c].noCache = call[c].noCache
      /\ call'[c].since = ctime /\ call'[c].read = call[c].read /\ call'[c].list = held
      /\ call'[c].floor = call[c].floor /\ call'[c].at = call[c].at /\ call'[c].result = call[c].result
      /\ call'[c].body = call[c].body
  BY <1>1 DEF CallSound, CallShaped, CallFields
<1>4. Work(c)' = Work(c) /\ lists' = lists /\ ctime' = ctime /\ floor' = floor /\ cheqd' = cheqd
  BY DEF Still, Work
<1>5. call'[c].noCache \in BOOLEAN  BY <1>1, <1>3, Zenon DEF CallSound, CallShaped
<1>6. ctime <= ctime + MaxFlight  BY <1>1, Ages
<1>7. CallShaped(c)'
  BY <1>1, <1>3, <1>4, <1>5, <1>6 DEF CallSound, CallShaped, CheckStages, ReadStages, WriteStages
<1>8. CheckSound(c)'
  <2>1. ASSUME Work(c).kind = "check"
        PROVE  \E l \in call'[c].list : /\ call'[c].list = {l} /\ ShapeAndIssuer(l)
                                       /\ Origin(c, l, call[c].since, UpstreamAge + MaxFlight)'
    <3>1. PICK l \in held : held = {l} /\ ShapeAndIssuer(l) /\ Origin(c, l, ctime, UpstreamAge + MaxFlight)
      BY <2>1
    <3>2. Origin(c, l, call[c].since, UpstreamAge + MaxFlight)'
      BY <1>3, <1>4, <3>1 DEF Origin, Others, ListStood, Seen
    <3> QED  BY <3>1, <3>2, <1>3
  <2> QED  BY <1>3, <1>4, <2>1 DEF CheckSound, Checking, Active, ReadStages
<1>9. ReplySound(c)'  BY <1>3 DEF ReplySound
<1>10. AnswerSound(c)'  BY <1>1, <1>3 DEF AnswerSound, CallSound, CallShaped
<1>11. WriteSound(c)'  BY <1>1, <1>2, <1>3, WriteBeside DEF CallSound, WriteStages
<1>12. CallSound(c)'  BY <1>7, <1>8, <1>9, <1>10, <1>11 DEF CallSound
<1> QED  BY <1>3, <1>12, CachesStill, InvAfter DEF CheqdInv

LEMMA ListArrivesStep ==
    ASSUME CheqdInv, NEW c \in Active, ListArrives(c)
    PROVE  CheqdInv'
<1>0. Still /\ docCache' = docCache  BY DEF ListArrives, Still
<1>1. CallSound(c) /\ ctime \in Nat /\ call[c].stage = "listServed" /\ Work(c).kind = "check" /\ call[c].floor = floor
  BY DEF CheqdInv, Active, ListArrives, CallSound, CallShaped, CheckSound, CheckStages, Checking
<1>2. CASE Unprovable(c) /\ UNCHANGED listCache
  BY <1>0, <1>1, <1>2, EndInv DEF Unprovable, Unwritten
<1> PICK t \in Nat : t = call[c].since /\ t <= ctime /\ ctime <= t + MaxFlight
  BY <1>1 DEF CallSound, CallShaped
<1>3. PICK l \in call[c].reply : call[c].reply = {l} /\ Origin(c, l, t, UpstreamAge)
  BY <1>1 DEF CallSound, CheckSound
<1>4. Origin(c, l, ctime, UpstreamAge + MaxFlight) /\ Origin(c, l, ctime, UpstreamAge + 2 * MaxFlight)
  <2>1. /\ ctime + UpstreamAge <= t + (UpstreamAge + MaxFlight)
        /\ ctime + UpstreamAge <= t + (UpstreamAge + 2 * MaxFlight)
        /\ UpstreamAge + MaxFlight \in Nat /\ UpstreamAge + 2 * MaxFlight \in Nat /\ UpstreamAge \in Nat
    BY <1>1, Ages
  <2> QED  BY <1>1, <1>3, <2>1, OriginLater
<1>5. ASSUME ShapeAndIssuer(l), Resolve(c, call[c].reply)  PROVE CheqdInv'
  <2>1. CASE CachedDocument # {}
    <3>1. CheckSignature(c, l, CachedDocument)  BY <1>1, <1>3, <1>5, <2>1 DEF Resolve, GoOn
    <3> QED  BY <1>0, <1>1, <1>4, <1>5, <3>1, CachedStood, VerifyStep
  <2>2. CASE CachedDocument = {}
    <3>1. call' = [call EXCEPT ![c].stage = "docAsked", ![c].reply = {}, ![c].list = call[c].reply,
                               ![c].since = ctime]
      BY <1>5, <2>2 DEF Resolve
    <3>2. listCache' = listCache /\ bust' = bust  BY <1>5, <2>2 DEF Resolve
    <3>3. \E k \in call[c].reply : /\ call[c].reply = {k} /\ ShapeAndIssuer(k)
                                   /\ Origin(c, k, ctime, UpstreamAge + MaxFlight)
      BY <1>3, <1>4, <1>5
    <3> QED  BY <1>0, <1>1, <3>1, <3>2, <3>3, AskStep
  <2> QED  BY <2>1, <2>2
<1> QED  BY <1>2, <1>3, <1>5 DEF ListArrives

LEMMA StartLinkStep ==
    ASSUME CheqdInv, NEW c \in Active, StartLink(c)
    PROVE  CheqdInv'
<1>0. Still /\ docCache' = docCache /\ call[c].stage = "idle" /\ Work(c).kind = "link" /\ Resolve(c, {})
  BY DEF StartLink, Still
<1>1. CASE CachedDocument # {}
  <2>1. Link(c, CachedDocument) /\ bust' = bust /\ listCache' = listCache
    BY <1>0, <1>1 DEF Resolve, GoOn
  <2> QED  BY <1>0, <2>1, CachedStood, LinkStep
<1>2. CASE CachedDocument = {}
  <2>1. /\ call' = [call EXCEPT ![c].stage = "docAsked", ![c].reply = {}, ![c].list = {}, ![c].since = ctime]
        /\ listCache' = listCache /\ bust' = bust
    BY <1>0, <1>2 DEF Resolve
  <2> QED  BY <1>0, <2>1, AskStep
<1> QED  BY <1>1, <1>2

LEMMA ServeDocumentStep ==
    ASSUME CheqdInv, NEW c \in Active, ServeDocument(c)
    PROVE  CheqdInv'
<1>0. Still /\ docCache' = docCache /\ listCache' = listCache /\ bust' = bust /\ call[c].stage = "docAsked"
  BY DEF ServeDocument, Still
<1>1. c \in CheqdCalls /\ DOMAIN call = CheqdCalls /\ CallSound(c) /\ ctime \in Nat
  BY CheqdAssumption DEF CheqdInv, Active
<1>2. Onward /\ Written(c)' = Written(c)  BY <1>0, StillOnward DEF CheqdInv
<1>3. PICK reply \in {{d} : d \in Servable(docs, FALSE) \cup Others(OtherDocuments)} \cup Others({{}}) :
        call' = [call EXCEPT ![c].stage = "docServed", ![c].reply = reply]
  BY DEF ServeDocument
<1>4. /\ DOMAIN call' = CheqdCalls /\ \A x \in CheqdCalls : x # c => call'[x] = call[x]
      /\ DOMAIN call'[c] = CallFields /\ call'[c].stage = "docServed" /\ call'[c].noCache = call[c].noCache
      /\ call'[c].since = call[c].since /\ call'[c].read = call[c].read /\ call'[c].list = call[c].list
      /\ call'[c].floor = call[c].floor /\ call'[c].at = call[c].at /\ call'[c].result = call[c].result
      /\ call'[c].body = call[c].body /\ call'[c].reply = reply
  BY <1>1, <1>3 DEF CallSound, CallShaped, CallFields
<1>5. Work(c)' = Work(c) /\ lists' = lists /\ docs' = docs /\ ctime' = ctime /\ floor' = floor /\ cheqd' = cheqd
  BY <1>0 DEF Still, Work
<1>6. call'[c].noCache \in BOOLEAN  BY <1>1, <1>4, Zenon DEF CallSound, CallShaped
<1>7. CallShaped(c)'
  BY <1>0, <1>1, <1>4, <1>5, <1>6 DEF CallSound, CallShaped, CheckStages, ReadStages, WriteStages
<1>8. CheckSound(c)'
  <2>1. ASSUME Work(c).kind = "check"
        PROVE  /\ call[c].floor = floor
               /\ \E l \in call'[c].list : /\ call'[c].list = {l} /\ ShapeAndIssuer(l)
                                       /\ Origin(c, l, call[c].since, UpstreamAge + MaxFlight)'
    <3>1. PICK l \in call[c].list : /\ call[c].list = {l} /\ ShapeAndIssuer(l)
                                    /\ Origin(c, l, call[c].since, UpstreamAge + MaxFlight)
      BY <1>0, <1>1, <2>1 DEF CallSound, CheckSound, ReadStages
    <3>2. Origin(c, l, call[c].since, UpstreamAge + MaxFlight)'
      BY <1>4, <1>5, <3>1 DEF Origin, Others, ListStood, Seen
    <3>3. call[c].floor = floor  BY <1>0, <1>1, <2>1 DEF CallSound, CheckSound, Checking
    <3> QED  BY <3>1, <3>2, <3>3, <1>4
  <2> QED  BY <1>4, <1>5, <2>1 DEF CheckSound, Checking, Active, ReadStages
<1>9. ReplySound(c)'
  <2>1. \A d, e \in reply : d = e  BY <1>3 DEF Others
  <2> PICK t \in Nat : t = call[c].since /\ t <= ctime  BY <1>1 DEF CallSound, CallShaped
  <2>2. ASSUME NEW d \in Servable(docs, FALSE)  PROVE DocStood(d, t, UpstreamAge)
    <3>1. DocStood(d, ctime, UpstreamAge)
      <4>1. Chronicle(docs)  BY DEF CheqdInv, Histories
      <4> QED  BY <4>1, ChronicleShape DEF Servable, DocStood, CurrentWithin
    <3>2. t + UpstreamAge <= ctime + UpstreamAge  BY <1>1, Ages
    <3> QED  BY <1>1, <3>1, <3>2, StoodLater, Ages DEF CheqdInv, Histories
  <2>3. \A d \in reply : d \in Others(OtherDocuments) \/ DocStood(d, t, UpstreamAge)
    BY <1>3, <2>2 DEF Others
  <2> QED  BY <1>4, <1>5, <2>1, <2>3 DEF ReplySound, Others, DocStood
<1>10. AnswerSound(c)'  BY <1>0, <1>1, <1>4 DEF AnswerSound, CallSound, CallShaped
<1>11. WriteSound(c)'  BY <1>0, <1>1, <1>2, <1>4, WriteBeside DEF CallSound, WriteStages
<1>12. CallSound(c)'  BY <1>7, <1>8, <1>9, <1>10, <1>11 DEF CallSound
<1> QED  BY <1>0, <1>4, <1>12, CachesStill, InvAfter DEF CheqdInv

LEMMA DocumentArrivesStep ==
    ASSUME CheqdInv, NEW c \in Active, DocumentArrives(c)
    PROVE  CheqdInv'
<1> DEFINE doc == {d \in call[c].reply : AcceptedDocument(d)}
<1>0. /\ Still /\ call[c].stage = "docServed" /\ GoOn(c, call[c].list, doc)
      /\ docCache' = IF doc = {} THEN docCache ELSE {[doc |-> d, until |-> ctime + DocCacheTtl] : d \in doc}
  BY DEF DocumentArrives, Still
<1>1. CallSound(c) /\ ctime \in Nat /\ Work(c).kind \in {"check", "link"}
  BY <1>0 DEF CheqdInv, CallSound, CallShaped, ReadStages
<1> PICK t \in Nat : t = call[c].since /\ t <= ctime /\ ctime <= t + MaxFlight
  BY <1>0, <1>1 DEF CallSound, CallShaped, ReadStages
<1>2. \A d, e \in doc : d = e  BY <1>0, <1>1 DEF CallSound, ReplySound
<1>3. ASSUME NEW d \in doc
      PROVE  AcceptedDocument(d) /\ DocStood(d, ctime, DocumentAge) /\ DocStood(d, ctime + DocCacheTtl, DocumentAge)
  <2>1. AcceptedDocument(d)  OBVIOUS
  <2>2. d \notin Others(OtherDocuments)  BY <2>1, CheqdAssumption DEF Others, CheqdInv
  <2>3. DocStood(d, t, UpstreamAge)  BY <1>0, <1>1, <2>2 DEF CallSound, ReplySound
  <2>4. /\ ctime + UpstreamAge <= t + DocumentAge /\ (ctime + DocCacheTtl) + UpstreamAge <= t + DocumentAge
        /\ ctime + DocCacheTtl \in Nat
    BY <1>1, Ages
  <2>5. Chronicle(docs) /\ Chronicle(lists)  BY DEF CheqdInv, Histories
  <2>6. UpstreamAge \in Nat /\ DocumentAge \in Nat  BY Ages
  <2> PICK u \in Nat : u = ctime + DocCacheTtl  BY <2>4
  <2>7. DocStood(d, ctime, DocumentAge)  BY <1>1, <2>3, <2>4, <2>5, <2>6, StoodLater
  <2>8. DocStood(d, u, DocumentAge)  BY <2>3, <2>4, <2>5, <2>6, StoodLater
  <2> QED  BY <2>1, <2>7, <2>8
<1>4. docCache' = docCache \/ DocCacheSound'
  <2> SUFFICES ASSUME docCache' = {[doc |-> d, until |-> ctime + DocCacheTtl] : d \in doc}  PROVE DocCacheSound'
    BY <1>0
  <2> HIDE DEF doc
  <2>1. \A e, f \in docCache' : e = f  BY <1>2
  <2>2. ASSUME NEW e \in docCache'
        PROVE  /\ e.until \in Nat /\ e.until <= ctime' + DocCacheTtl
               /\ AcceptedDocument(e.doc) /\ DocStood(e.doc, e.until, DocumentAge)'
    <3>1. PICK d \in doc : e = [doc |-> d, until |-> ctime + DocCacheTtl]  OBVIOUS
    <3>2. e.doc = d /\ e.until = ctime + DocCacheTtl  BY <3>1
    <3>3. DocStood(d, ctime + DocCacheTtl, DocumentAge)'  BY <1>0, <1>3 DEF Still, DocStood
    <3>4. ctime + DocCacheTtl \in Nat /\ ctime' = ctime  BY <1>0, <1>1, Ages DEF Still
    <3>5. DocStood(e.doc, e.until, DocumentAge)'  BY <3>2, <3>3, <3>4, <1>0 DEF DocStood, Still
    <3> QED  BY <1>3, <3>2, <3>4, <3>5
  <2> QED  BY <2>1, <2>2 DEF DocCacheSound
<1>5. CASE Work(c).kind = "check"
  <2>1. PICK l \in call[c].list : /\ call[c].list = {l} /\ ShapeAndIssuer(l)
                                  /\ Origin(c, l, t, UpstreamAge + MaxFlight)
    BY <1>0, <1>1, <1>5 DEF CallSound, CheckSound, ReadStages
  <2>2. Origin(c, l, ctime, UpstreamAge + 2 * MaxFlight)
    <3>1. /\ ctime + (UpstreamAge + MaxFlight) <= t + (UpstreamAge + 2 * MaxFlight)
          /\ UpstreamAge + MaxFlight \in Nat /\ UpstreamAge + 2 * MaxFlight \in Nat
      BY <1>1, Ages
    <3> QED  BY <1>1, <2>1, <3>1, OriginLater
  <2>3. CheckSignature(c, l, doc)  BY <1>0, <1>5, <2>1 DEF GoOn
  <2> HIDE DEF doc
  <2> QED  BY <1>0, <1>3, <1>4, <1>5, <2>1, <2>2, <2>3, VerifyStep
<1>6. CASE Work(c).kind = "link"
  <2>1. Link(c, doc) /\ bust' = bust /\ listCache' = listCache  BY <1>0, <1>6 DEF GoOn
  <2> HIDE DEF doc
  <2> QED  BY <1>0, <1>2, <1>3, <1>4, <1>6, <2>1, LinkStep
<1> QED  BY <1>1, <1>5, <1>6

-----------------------------------------------------------------------------
(* The steps of a write.                                                   *)

\* A call that goes on with its write.
LEMMA ProceedStep ==
    ASSUME CheqdInv, Still, bust' = bust, docCache' = docCache, listCache' = listCache, NEW c \in Active,
           DOMAIN call' = CheqdCalls, \A x \in CheqdCalls : x # c => call'[x] = call[x],
           DOMAIN call'[c] = CallFields, call'[c].stage \in WriteStages, call'[c].noCache = call[c].noCache,
           call'[c].since = call[c].since, call'[c].read = call[c].read, call'[c].floor = call[c].floor,
           call'[c].at = call[c].at, call'[c].result = call[c].result,
           call[c].stage # "done", Work(c).kind \in {"publish", "create", "update", "link"},
           Work(c).kind = "link" => call'[c].body = call[c].body,
           \A x, y \in call'[c].body : x = y,
           IF Work(c).kind = "publish" THEN prepared(Work(c).artifact)
           ELSE \A d \in call'[c].body : IssuerDocument(d)
    PROVE  CheqdInv'
<1>1. c \in CheqdCalls /\ CallSound(c) /\ ctime \in Nat
  BY CheqdAssumption DEF CheqdInv, Active
<1>2. Onward /\ Written(c)' = Written(c)  BY StillOnward DEF CheqdInv
<1>3. Work(c)' = Work(c) /\ lists' = lists /\ docs' = docs /\ ctime' = ctime /\ cheqd' = cheqd
  BY DEF Still, Work
<1>4. call'[c].noCache \in BOOLEAN  BY <1>1, Zenon DEF CallSound, CallShaped
<1>5. CallShaped(c)'
  <2>1. call'[c].stage \notin {"idle", "done", "listServed"} \cup CheckStages \cup ReadStages
    BY DEF CheckStages, ReadStages, WriteStages
  <2> QED  BY <1>1, <1>3, <1>4, <2>1 DEF CallSound, CallShaped
<1>6. CheckSound(c)' /\ ReplySound(c)'
  BY <1>3 DEF CheckSound, Checking, ReplySound, ReadStages, WriteStages
<1>7. call'[c].result = "none"  BY <1>1 DEF CallSound, CallShaped
<1>8. AnswerSound(c)'  BY <1>7 DEF AnswerSound
<1>9. (Work(c).kind = "link" /\ call[c].body # {} => LinkSound(c))'
  BY <1>1, <1>2, <1>3, LinkStays DEF CallSound, WriteSound, CallShaped
<1>10. (IF Work(c).kind = "publish" THEN prepared(Work(c).artifact)
        ELSE \A d \in call[c].body : IssuerDocument(d))'
  BY <1>3 DEF IssuerDocument
<1>11. WriteSound(c)'
  <2>1. Written(c)' = {}  BY <1>1, <1>2 DEF CallSound, WriteSound
  <2> QED  BY <1>3, <1>7, <1>9, <1>10, <2>1 DEF WriteSound
<1>12. CallSound(c)'  BY <1>5, <1>6, <1>8, <1>11 DEF CallSound
<1> QED  BY <1>12, CachesStill, InvAfter DEF CheqdInv

LEMMA StartWriteStep ==
    ASSUME CheqdInv, NEW c \in Active, StartWrite(c)
    PROVE  CheqdInv'
<1>0. /\ Still /\ docCache' = docCache /\ listCache' = listCache /\ bust' = bust /\ call[c].stage = "idle"
      /\ Work(c).kind \in {"publish", "create", "update"}
  BY DEF StartWrite, Still
<1>1. c \in CheqdCalls /\ DOMAIN call = CheqdCalls /\ CallSound(c)
  BY CheqdAssumption DEF CheqdInv, Active
<1>2. CASE End(c, "invalid")  BY <1>0, <1>2, EndInv
<1>3. ASSUME Work(c).kind = "publish" => prepared(Work(c).artifact),
             NEW b, b = (IF Work(c).kind = "publish" THEN Work(c).artifact.content ELSE {Work(c).document}),
             call' = [call EXCEPT ![c].stage = "post", ![c].body = b]
      PROVE  CheqdInv'
  <2>1. /\ DOMAIN call' = CheqdCalls /\ \A x \in CheqdCalls : x # c => call'[x] = call[x]
        /\ DOMAIN call'[c] = CallFields /\ call'[c].stage = "post" /\ call'[c].noCache = call[c].noCache
        /\ call'[c].since = call[c].since /\ call'[c].read = call[c].read
        /\ call'[c].floor = call[c].floor /\ call'[c].at = call[c].at /\ call'[c].result = call[c].result
        /\ call'[c].body = b
    BY <1>1, <1>3 DEF CallSound, CallShaped, CallFields
  <2>2. \A x, y \in b : x = y
    <3>1. Work(c).kind = "publish" => \A x, y \in Work(c).artifact.content : x = y
      BY CheqdAssumption DEF CheqdInv, Active, Work
    <3> QED  BY <1>3, <3>1
  <2>3. IssuerDocument(Work(c).document)
    <3>1. Work(c).document \in IssuedDocuments(cheqd)  BY DEF IssuedDocuments, Work, Active
    <3>2. DOMAIN Work(c).document = DocumentFields  BY <3>1, CheqdAssumption DEF CheqdInv
    <3> QED  BY <3>1, <3>2 DEF IssuerDocument
  <2>4. Work(c).kind # "publish" => \A d \in b : IssuerDocument(d)  BY <1>3, <2>3
  <2>5. call'[c].stage \in WriteStages  BY <2>1 DEF WriteStages
  <2>6. /\ \A x, y \in call'[c].body : x = y
        /\ IF Work(c).kind = "publish" THEN prepared(Work(c).artifact)
           ELSE \A d \in call'[c].body : IssuerDocument(d)
    BY <1>3, <2>1, <2>2, <2>4
  <2>7. Work(c).kind # "link" /\ Work(c).kind \in {"publish", "create", "update", "link"}  BY <1>0
  <2> QED  BY <1>0, <2>1, <2>5, <2>6, <2>7, ProceedStep
<1> QED  BY <1>2, <1>3 DEF StartWrite

LEMMA CompleteEnd ==
    ASSUME CheqdInv, Still, bust' = bust, docCache' = docCache, listCache' = listCache, NEW c \in Active,
           call[c].stage = "post", History(c)[Len(History(c))].value \in call[c].body, End(c, "complete")
    PROVE  CheqdInv'
<1>1. c \in CheqdCalls /\ DOMAIN call = CheqdCalls /\ CallSound(c)
  BY CheqdAssumption DEF CheqdInv, Active
<1>2. Onward /\ Written(c)' = Written(c) /\ History(c)' = History(c)  BY StillOnward DEF CheqdInv
<1>3. Written(c) = {}  BY <1>1 DEF CallSound, WriteSound
<1>4. Chronicle(History(c))  BY DEF CheqdInv, Histories, History
<1>5. Len(History(c)) \in DOMAIN History(c)  BY <1>4, ChronicleShape
<1>6. \A x, y \in call[c].body : x = y  BY <1>1 DEF CallSound, WriteSound, WriteStages
<1>7. {History(c)[Len(History(c))].value} = call[c].body  BY <1>6
<1>8. CallSound(c)'  BY <1>1, <1>2, <1>3, <1>5, <1>7, EndSound DEF Still, Unwritten
<1>9. DOMAIN call' = CheqdCalls /\ \A x \in CheqdCalls : x # c => call'[x] = call[x]
  BY <1>1, EndedFields
<1> QED  BY <1>8, <1>9, CachesStill, InvAfter DEF CheqdInv

LEMMA PostStep ==
    ASSUME CheqdInv, NEW c \in Active, Post(c)
    PROVE  CheqdInv'
<1>0. Still /\ docCache' = docCache /\ listCache' = listCache /\ bust' = bust /\ call[c].stage = "post"
  BY DEF Post, Still
<1>1. c \in CheqdCalls /\ DOMAIN call = CheqdCalls /\ CallSound(c)
      /\ Work(c).kind \in {"publish", "create", "update", "link"}
  BY <1>0, CheqdAssumption DEF CheqdInv, Active, CallSound, CallShaped, WriteStages
<1>2. CASE End(c, "request failed")  BY <1>0, <1>2, EndInv
<1>3. ASSUME NEW reply \in Replies(c), reply.finished, End(c, "complete")  PROVE CheqdInv'
  <2>1. History(c)[Len(History(c))].value \in call[c].body  BY <1>3 DEF Replies
  <2> QED  BY <1>0, <1>3, <2>1, CompleteEnd
<1>4. ASSUME NEW a, NEW q,
             call' = [call EXCEPT ![c].stage = "sign", ![c].reply = a, ![c].requests = q]
      PROVE  CheqdInv'
  <2>1. /\ DOMAIN call' = CheqdCalls /\ \A x \in CheqdCalls : x # c => call'[x] = call[x]
        /\ DOMAIN call'[c] = CallFields /\ call'[c].stage = "sign" /\ call'[c].noCache = call[c].noCache
        /\ call'[c].since = call[c].since /\ call'[c].read = call[c].read
        /\ call'[c].floor = call[c].floor /\ call'[c].at = call[c].at /\ call'[c].result = call[c].result
        /\ call'[c].body = call[c].body
    BY <1>1, <1>4 DEF CallSound, CallShaped, CallFields
  <2>2. call'[c].stage \in WriteStages  BY <2>1 DEF WriteStages
  <2>3. /\ \A x, y \in call[c].body : x = y
        /\ IF Work(c).kind = "publish" THEN prepared(Work(c).artifact)
           ELSE \A d \in call[c].body : IssuerDocument(d)
    BY <1>0, <1>1 DEF CallSound, WriteSound, WriteStages
  <2> QED  BY <1>0, <1>1, <2>1, <2>2, <2>3, ProceedStep
<1> QED  BY <1>2, <1>3, <1>4 DEF Post

LEMMA SignStep ==
    ASSUME CheqdInv, NEW c \in Active, Sign(c)
    PROVE  CheqdInv'
<1>0. Still /\ docCache' = docCache /\ listCache' = listCache /\ bust' = bust /\ call[c].stage = "sign"
  BY DEF Sign, Still
<1>1. c \in CheqdCalls /\ DOMAIN call = CheqdCalls /\ CallSound(c)
      /\ Work(c).kind \in {"publish", "create", "update", "link"}
  BY <1>0, CheqdAssumption DEF CheqdInv, Active, CallSound, CallShaped, WriteStages
<1>2. CASE End(c, "sign failed")  BY <1>0, <1>2, EndInv
<1>3. CASE call' = [call EXCEPT ![c].stage = "submit"]
  <2>1. /\ DOMAIN call' = CheqdCalls /\ \A x \in CheqdCalls : x # c => call'[x] = call[x]
        /\ DOMAIN call'[c] = CallFields /\ call'[c].stage = "submit" /\ call'[c].noCache = call[c].noCache
        /\ call'[c].since = call[c].since /\ call'[c].read = call[c].read
        /\ call'[c].floor = call[c].floor /\ call'[c].at = call[c].at /\ call'[c].result = call[c].result
        /\ call'[c].body = call[c].body
    BY <1>1, <1>3 DEF CallSound, CallShaped, CallFields
  <2>2. call'[c].stage \in WriteStages  BY <2>1 DEF WriteStages
  <2>3. /\ \A x, y \in call[c].body : x = y
        /\ IF Work(c).kind = "publish" THEN prepared(Work(c).artifact)
           ELSE \A d \in call[c].body : IssuerDocument(d)
    BY <1>0, <1>1 DEF CallSound, WriteSound, WriteStages
  <2> QED  BY <1>0, <1>1, <2>1, <2>2, <2>3, ProceedStep
<1> QED  BY <1>2, <1>3 DEF Sign

\* The caches while a version is published or the clock runs.
LEMMA CachesOnward ==
    ASSUME CheqdInv, Onward, floor' = floor, bust' = bust, docCache' = docCache, listCache' = listCache
    PROVE  DocCacheSound' /\ ListCacheSound' /\ FloorSound'
<1>0. ctime \in Nat /\ ctime' \in Nat /\ ctime <= ctime' /\ Chronicle(lists) /\ Chronicle(lists)' /\ floor \in 1..Len(lists)
  BY DEF Onward, CheqdInv, FloorSound
<1>1. ASSUME NEW e \in docCache
      PROVE  /\ e.until \in Nat /\ e.until <= ctime' + DocCacheTtl
             /\ AcceptedDocument(e.doc) /\ DocStood(e.doc, e.until, DocumentAge)'
  <2> PICK u \in Nat : u = e.until /\ u <= ctime + DocCacheTtl  BY DEF CheqdInv, DocCacheSound
  <2>1. AcceptedDocument(e.doc) /\ DocStood(e.doc, u, DocumentAge)  BY DEF CheqdInv, DocCacheSound
  <2>2. u < ctime + DocumentAge /\ u <= ctime' + DocCacheTtl  BY <1>0, Ages
  <2>3. DocStood(e.doc, u, DocumentAge)'  BY <2>1, <2>2, StoodStays, Ages
  <2> QED  BY <2>1, <2>2, <2>3
<1>2. ASSUME NEW e \in listCache
      PROVE  /\ e.until \in Nat /\ e.until <= ctime' + ListCacheTtl
             /\ ListStood(e.list, e.until, ListAge)' /\ Vouched(e.list, e.until, SignatureAge)'
             /\ Seen(e.list, floor)'
  <2> PICK u \in Nat : u = e.until /\ u <= ctime + ListCacheTtl  BY DEF CheqdInv, ListCacheSound
  <2>1. ListStood(e.list, u, ListAge) /\ Vouched(e.list, u, SignatureAge) /\ Seen(e.list, floor)
    BY DEF CheqdInv, ListCacheSound
  <2>2. u < ctime + ListAge /\ u < ctime + SignatureAge /\ u <= ctime' + ListCacheTtl  BY <1>0, Ages
  <2>3. ListStood(e.list, u, ListAge)' /\ Vouched(e.list, u, SignatureAge)'
    BY <2>1, <2>2, StoodStays, Ages
  <2>4. PICK k \in Nat \ {0} : k = floor  BY <1>0, ChronicleShape
  <2>5. Seen(e.list, k)'  BY <2>1, <2>4, SeenStays
  <2> QED  BY <2>2, <2>3, <2>4, <2>5
<1>3. DocCacheSound'  BY <1>1 DEF CheqdInv, DocCacheSound
<1>4. ListCacheSound'  BY <1>2 DEF ListCacheSound
<1>5. FloorSound'
  <2>1. floor \in DOMAIN lists /\ floor \in 1..Len(lists')
    BY <1>0, ChronicleShape DEF Onward, Continues
  <2>2. lists'[floor] = lists[floor] /\ lists[floor].at \in Nat
    BY <2>1, <1>0 DEF Onward, Continues, Chronicle
  <2> PICK a \in Nat : a = lists[floor].at  BY <2>2
  <2>3. Overdue => Overdue'
    <3>1. a + UpstreamAge <= ctime => a + UpstreamAge <= ctime'  BY <1>0, Ages
    <3> QED  BY <2>2, <3>1 DEF Overdue
  <2> QED  BY <2>1, <2>2, <2>3 DEF CheqdInv, FloorSound, Steady
<1> QED  BY <1>3, <1>4, <1>5

\* The versions of a history that a call wrote.
By(h, w) == {i \in DOMAIN h : h[i].by = w}

LEMMA AppendedBy ==
    ASSUME NEW h, Chronicle(h), ctime \in Nat, NEW v, NEW w, NEW g, g = Published(h, v, w)
    PROVE  /\ \A x : x # w => By(g, x) = By(h, x)
           /\ By(g, w) = By(h, w) \cup {Len(g)}
           /\ Len(g) \in DOMAIN g /\ g[Len(g)].value = v
<1>1. Continues(h, g) /\ Len(g) = Len(h) + 1 /\ g[Len(g)] = [value |-> v, at |-> ctime, by |-> w]
  BY AppendContinues
<1> PICK n \in Nat : n = Len(h) /\ DOMAIN h = 1..n  BY ChronicleShape
<1>2. Len(g) = n + 1 /\ DOMAIN g = 1..(n + 1) /\ \A i \in 1..n : g[i] = h[i]  BY <1>1 DEF Continues
<1>3. g[n + 1].by = w /\ g[n + 1].value = v  BY <1>1, <1>2
<1>4. \A i \in DOMAIN g : i \in DOMAIN h \/ i = n + 1  BY <1>2
<1>5. DOMAIN h \subseteq DOMAIN g /\ n + 1 \in DOMAIN g  BY <1>2
<1> QED  BY ONLY <1>2, <1>3, <1>4, <1>5, DOMAIN h = 1..n DEF By

\* The second request reached the ledger.
LEMMA PublishedStep ==
    ASSUME CheqdInv, NEW c \in Active, call[c].stage = "submit", Write(c),
           NEW r, r \in {"complete", "submit failed"}, End(c, r),
           UNCHANGED <<cheqd, ctime, docCache, listCache, bust, floor>>
    PROVE  CheqdInv'
<1>0. /\ c \in CheqdCalls /\ DOMAIN call = CheqdCalls /\ CallSound(c) /\ ctime \in Nat
      /\ Chronicle(docs) /\ Chronicle(lists) /\ Work(c)' = Work(c) /\ Active' = Active
  BY CheqdAssumption DEF CheqdInv, Active, Histories, Work
<1>9. cheqd' = cheqd /\ ctime' = ctime  OBVIOUS
<1>1. Written(c) = {} /\ \A x, y \in call[c].body : x = y
  BY <1>0 DEF CallSound, WriteSound, WriteStages
<1>2. PICK v \in call[c].body :
        IF Work(c).kind = "publish"
        THEN lists' = Published(lists, v, c) /\ docs' = docs
        ELSE docs' = Published(docs, v, c) /\ lists' = lists
  BY DEF Write, Version, Published
<1>3. call[c].body = {v}  BY <1>1
<1>4. /\ Onward /\ (\A x : x # c => Written(x)' = Written(x)) /\ \A i, k \in Written(c)' : i = k
      /\ \E i \in DOMAIN History(c)' : History(c)'[i].value = v
      /\ (\A i \in DOMAIN docs : IssuerDocument(docs[i].value))'
  <2>1. CASE Work(c).kind = "publish"
    <3>1. lists' = Published(lists, v, c) /\ docs' = docs  BY <1>2, <2>1
    <3>2. /\ Chronicle(lists)' /\ Continues(lists, lists')
          /\ \A x : x # c => By(lists', x) = By(lists, x)
          /\ By(lists', c) = By(lists, c) \cup {Len(lists')}
          /\ Len(lists') \in DOMAIN lists' /\ lists'[Len(lists')].value = v
      <4>5. PICK g : g = lists'  OBVIOUS
      <4>1. g = Published(lists, v, c)  BY <3>1, <4>5
      <4>0. Chronicle(lists) /\ ctime \in Nat  BY <1>0
      <4>2. Chronicle(g) /\ Continues(lists, g) /\ Len(g) = Len(lists) + 1
        BY ONLY <4>0, <4>1, AppendContinues
      <4>3. /\ \A x : x # c => By(g, x) = By(lists, x)
            /\ By(g, c) = By(lists, c) \cup {Len(g)}
            /\ Len(g) \in DOMAIN g /\ g[Len(g)].value = v
        BY ONLY <4>0, <4>1, AppendedBy
      <4>4. Chronicle(lists)'  BY <1>9, <4>2, <4>5 DEF Chronicle
      <4> QED  BY ONLY <4>2, <4>3, <4>4, <4>5
    <3>3. Chronicle(docs)' /\ Chronicle(lists)' /\ Continues(docs, docs')
      BY <1>0, <1>9, <3>1, <3>2, SameContinues DEF Chronicle
    <3>4. Onward
      <4>0. ctime \in Nat  BY <1>0
      <4>1. ctime \in Nat /\ ctime' \in Nat /\ ctime <= ctime'  BY ONLY <1>9, <4>0
      <4>2. Chronicle(docs) /\ Chronicle(lists)  BY <1>0
      <4> QED  BY ONLY <1>9, <3>2, <3>3, <4>1, <4>2, Zenon DEF Onward
    <3>5. (\A x : x # c => Written(x)' = Written(x)) /\ Written(c)' = Written(c) \cup {Len(lists')}
      BY <3>1, <3>2 DEF Written, By
    <3>6. History(c)' = lists'  BY <1>0, <2>1 DEF History
    <3>7. (\A i \in DOMAIN docs : IssuerDocument(docs[i].value))'
      BY <3>1 DEF CheqdInv, Histories, IssuerDocument
    <3> QED  BY <1>1, <3>2, <3>4, <3>5, <3>6, <3>7
  <2>2. CASE Work(c).kind # "publish"
    <3>1. docs' = Published(docs, v, c) /\ lists' = lists  BY <1>2, <2>2
    <3>2. /\ Chronicle(docs)' /\ Continues(docs, docs')
          /\ \A x : x # c => By(docs', x) = By(docs, x)
          /\ By(docs', c) = By(docs, c) \cup {Len(docs')}
          /\ Len(docs') \in DOMAIN docs' /\ docs'[Len(docs')].value = v
          /\ Len(docs') = Len(docs) + 1
      <4>5. PICK g : g = docs'  OBVIOUS
      <4>1. g = Published(docs, v, c)  BY <3>1, <4>5
      <4>0. Chronicle(docs) /\ ctime \in Nat  BY <1>0
      <4>2. Chronicle(g) /\ Continues(docs, g) /\ Len(g) = Len(docs) + 1
        BY ONLY <4>0, <4>1, AppendContinues
      <4>3. /\ \A x : x # c => By(g, x) = By(docs, x)
            /\ By(g, c) = By(docs, c) \cup {Len(g)}
            /\ Len(g) \in DOMAIN g /\ g[Len(g)].value = v
        BY ONLY <4>0, <4>1, AppendedBy
      <4>4. Chronicle(docs)'  BY <1>9, <4>2, <4>5 DEF Chronicle
      <4> QED  BY ONLY <4>2, <4>3, <4>4, <4>5
    <3>3. Chronicle(docs)' /\ Chronicle(lists)' /\ Continues(lists, lists')
      BY <1>0, <1>9, <3>1, <3>2, SameContinues DEF Chronicle
    <3>4. Onward
      <4>0. ctime \in Nat  BY <1>0
      <4>1. ctime \in Nat /\ ctime' \in Nat /\ ctime <= ctime'  BY ONLY <1>9, <4>0
      <4>2. Chronicle(docs) /\ Chronicle(lists)  BY <1>0
      <4> QED  BY ONLY <1>9, <3>2, <3>3, <4>1, <4>2, Zenon DEF Onward
    <3>5. (\A x : x # c => Written(x)' = Written(x)) /\ Written(c)' = Written(c) \cup {Len(docs')}
      BY <3>1, <3>2 DEF Written, By
    <3>6. History(c)' = docs'  BY <1>0, <2>2 DEF History
    <3>7. (\A i \in DOMAIN docs : IssuerDocument(docs[i].value))'
      <4> SUFFICES ASSUME NEW i \in DOMAIN docs'  PROVE IssuerDocument(docs'[i].value)
        BY <1>9 DEF IssuerDocument
      <4> PICK n \in Nat : n = Len(docs) /\ DOMAIN docs = 1..n  BY <1>0, ChronicleShape
      <4>1. DOMAIN docs' = 1..(n + 1)  BY <3>2 DEF Continues
      <4>2. CASE i \in DOMAIN docs
        <5>1. docs'[i] = docs[i]  BY <3>2, <4>2 DEF Continues
        <5> QED  BY <4>2, <5>1 DEF CheqdInv, Histories
      <4>3. CASE i \notin DOMAIN docs
        <5>0. Len(docs') = n + 1 /\ i \in 1..(n + 1) /\ i \notin 1..n  BY <3>2, <4>1, <4>3
        <5>1. i = Len(docs')  BY ONLY <5>0, n \in Nat
        <5>2. IssuerDocument(v)  BY <1>0, <2>2 DEF CallSound, WriteSound, WriteStages
        <5> QED  BY <3>2, <5>1, <5>2
      <4> QED  BY <4>2, <4>3
    <3> QED  BY <1>1, <3>2, <3>4, <3>5, <3>6, <3>7
  <2> QED  BY <2>1, <2>2
<1>5. Histories'  BY <1>4, Zenon DEF Onward, Histories
<1>6. DocCacheSound' /\ ListCacheSound' /\ FloorSound'  BY <1>4, CachesOnward
<1>7. DOMAIN call' = CheqdCalls /\ \A x \in CheqdCalls : x # c => call'[x] = call[x]
  BY <1>0, EndedFields
<1>8. CallSound(c)'
  <2>1. call[c].stage \in WriteStages /\ call[c].body # {} /\ r \notin Unwritten /\ r \notin {"clear", "revoked"}
    BY <1>3 DEF WriteStages, Unwritten
  <2>2. \E i \in DOMAIN History(c)' : {History(c)'[i].value} = call[c].body  BY <1>3, <1>4
  <2> QED  BY <1>0, <1>4, <2>1, <2>2, EndSound
<1>10. ASSUME NEW x \in Active, x # c  PROVE CallSound(x)'
  <2>1. x \in CheqdCalls  BY CheqdAssumption DEF CheqdInv, Active
  <2>2. CallSound(x) /\ FloorSound  BY DEF CheqdInv
  <2>3. Beside(x)
    BY <1>4, <1>7, <1>10, <2>1, <2>2 DEF Beside, CallSound, CallShaped
  <2> QED  BY <2>2, <2>3, SoundBeside
<1> QED  BY <1>0, <1>5, <1>6, <1>7, <1>8, <1>9, <1>10 DEF CheqdInv

LEMMA SubmitStep ==
    ASSUME CheqdInv, NEW c \in Active, Submit(c)
    PROVE  CheqdInv'
<1>0. call[c].stage = "submit" /\ UNCHANGED <<cheqd, ctime, docCache, listCache, bust, floor>>
  BY DEF Submit
<1>1. ASSUME NEW ok, Write(c), End(c, Submitted(TRUE, ok))  PROVE CheqdInv'
  <2>1. Submitted(TRUE, ok) \in {"complete", "submit failed"}  BY DEF Submitted
  <2> QED  BY <1>0, <1>1, <2>1, PublishedStep
<1>2. ASSUME NEW ok, End(c, Submitted(FALSE, ok)), UNCHANGED <<docs, lists>>  PROVE CheqdInv'
  <2>1. Submitted(FALSE, ok) = "submit failed"  BY DEF Submitted
  <2> QED  BY <1>0, <1>2, <2>1, EndInv DEF Still
<1> QED  BY <1>1, <1>2 DEF Submit

-----------------------------------------------------------------------------
(* What moves without a call.                                              *)

LEMMA ClearDocumentsStep ==
    ASSUME CheqdInv, ClearDocuments
    PROVE  CheqdInv'
<1>0. Still /\ call' = call /\ bust' = bust /\ listCache' = listCache /\ docCache' = {}  BY DEF ClearDocuments, Still
<1>1. Onward /\ Histories' /\ \A c : Written(c)' = Written(c)  BY <1>0, StillOnward DEF CheqdInv
<1>2. \A c \in Active : CallSound(c)'
  <2> SUFFICES ASSUME NEW c \in Active  PROVE CallSound(c)'
    OBVIOUS
  <2>1. CallSound(c) /\ FloorSound  BY DEF CheqdInv
  <2>2. Beside(c)  BY <1>0, <1>1, <2>1 DEF Beside, Still, CallSound, CallShaped
  <2> QED  BY <2>1, <2>2, SoundBeside
<1>3. DocCacheSound' /\ ListCacheSound' /\ FloorSound'
  BY <1>0, CachesStill DEF DocCacheSound
<1> QED  BY <1>0, <1>1, <1>2, <1>3 DEF CheqdInv, Still, Active

LEMMA InvalidateCacheStep ==
    ASSUME CheqdInv, InvalidateCache
    PROVE  CheqdInv'
<1>0. /\ cheqd' = cheqd /\ ctime' = ctime /\ docs' = docs /\ lists' = lists /\ docCache' = docCache
      /\ call' = call /\ listCache' = {} /\ bust' = TRUE
      /\ floor' = IF Checking = {} THEN Len(lists) ELSE floor
  BY DEF InvalidateCache
<1>1. /\ ctime \in Nat /\ Chronicle(docs) /\ Chronicle(lists) /\ Chronicle(docs)' /\ Chronicle(lists)'
  BY <1>0 DEF CheqdInv, Histories, Chronicle
<1>2. Onward  BY <1>0, <1>1, SameContinues DEF Onward
<1>3. Histories'  BY <1>0, <1>1 DEF CheqdInv, Histories, IssuerDocument
<1>4. ASSUME NEW c \in Active  PROVE CallSound(c)'
  <2>1. CallSound(c) /\ FloorSound  BY DEF CheqdInv
  <2>2. Written(c)' = Written(c)  BY <1>0 DEF Written
  <2>3. Beside(c)  BY <1>0, <1>2, <2>1, <2>2 DEF Beside, CallSound, CallShaped
  <2> QED  BY <2>1, <2>3, SoundBeside
<1>5. DocCacheSound'  BY <1>0 DEF CheqdInv, DocCacheSound, DocStood
<1>6. ListCacheSound'  BY <1>0 DEF ListCacheSound
<1>7. FloorSound'
  <2>1. Len(lists) \in 1..Len(lists)  BY <1>1, ChronicleShape
  <2> QED  BY <1>0, <2>1 DEF CheqdInv, FloorSound
<1>8. bust' \in BOOLEAN  BY <1>0, Zenon
<1> QED  BY <1>0, <1>3, <1>4, <1>5, <1>6, <1>7, <1>8 DEF CheqdInv, Active

LEMMA TickStep ==
    ASSUME CheqdInv, CheqdTick
    PROVE  CheqdInv'
<1>0. /\ cheqd' = cheqd /\ docs' = docs /\ lists' = lists /\ docCache' = docCache /\ listCache' = listCache
      /\ call' = call /\ bust' = bust /\ floor' = floor /\ ctime' = ctime + 1
  BY DEF CheqdTick
<1>1. ctime \in Nat /\ ctime' \in Nat /\ ctime <= ctime' /\ Chronicle(docs) /\ Chronicle(lists)
  BY <1>0 DEF CheqdInv, Histories
<1>2. Chronicle(docs)' /\ Chronicle(lists)'
  <2>1. \A h : Chronicle(h) => /\ h \in Seq({h[i] : i \in DOMAIN h}) /\ h # <<>>
                               /\ \A i \in DOMAIN h : h[i].at \in Nat /\ h[i].at <= ctime'
                               /\ \A i, k \in DOMAIN h : i <= k => h[i].at <= h[k].at
    BY <1>0, <1>1 DEF Chronicle
  <2> QED  BY <1>0, <1>1, <2>1 DEF Chronicle
<1>3. Onward  BY <1>0, <1>1, <1>2, SameContinues DEF Onward
<1>4. Histories'  BY <1>0, <1>2 DEF CheqdInv, Histories, IssuerDocument
<1>5. ASSUME NEW c \in Active  PROVE CallSound(c)'
  <2>1. CallSound(c) /\ FloorSound  BY DEF CheqdInv
  <2>2. Written(c)' = Written(c)  BY <1>0 DEF Written
  <2>3. call[c].stage \in {"listServed"} \cup ReadStages => ctime' <= call[c].since + MaxFlight
    <3> SUFFICES ASSUME call[c].stage \in {"listServed", "docAsked", "docServed"}  PROVE ctime' <= call[c].since + MaxFlight
      BY DEF ReadStages
    <3>1. ctime < call[c].since + MaxFlight  BY DEF CheqdTick
    <3>2. call[c].since \in Nat  BY <2>1 DEF CallSound, CallShaped
    <3> QED  BY <1>0, <1>1, <3>1, <3>2, Ages
  <2>4. Beside(c)  BY <1>0, <1>3, <2>2, <2>3 DEF Beside
  <2> QED  BY <2>1, <2>4, SoundBeside
<1>6. DocCacheSound' /\ ListCacheSound' /\ FloorSound'  BY <1>0, <1>3, CachesOnward
<1> QED  BY <1>0, <1>1, <1>4, <1>5, <1>6 DEF CheqdInv, Active

-----------------------------------------------------------------------------
(* The theorem.                                                            *)

LEMMA CheqdStep ==
    ASSUME CheqdInv, [CheqdNext]_cheqdVars
    PROVE  CheqdInv'
<1>1. CASE CheqdNext
  BY <1>1, CheckStatusStep, ServeListStep, ListArrivesStep, ServeDocumentStep, DocumentArrivesStep,
     StartLinkStep, StartWriteStep, PostStep, SignStep, SubmitStep,
     ClearDocumentsStep, InvalidateCacheStep, TickStep
     DEF CheqdNext
<1>2. CASE UNCHANGED cheqdVars
  <2>1. /\ cheqd' = cheqd /\ ctime' = ctime /\ docs' = docs /\ lists' = lists /\ docCache' = docCache
        /\ listCache' = listCache /\ bust' = bust /\ floor' = floor /\ call' = call
    BY <1>2 DEF cheqdVars
  <2>2. Still  BY <2>1 DEF Still
  <2>3. Onward /\ Histories' /\ \A c : Written(c)' = Written(c)  BY <2>2, StillOnward DEF CheqdInv
  <2>4. ASSUME NEW c \in Active  PROVE CallSound(c)'
    <3>1. CallSound(c) /\ FloorSound  BY DEF CheqdInv
    <3>2. Beside(c)  BY <2>1, <2>3, <3>1 DEF Beside, CallSound, CallShaped
    <3> QED  BY <3>1, <3>2, SoundBeside
  <2> QED  BY <2>1, <2>2, <2>3, <2>4, CachesStill DEF CheqdInv, Active
<1> QED  BY <1>1, <1>2

LEMMA CheqdStart ==
    ASSUME CheqdInit
    PROVE  CheqdInv
<1>0. /\ cheqd \in CheqdSettings /\ ctime = 0 /\ docCache = {} /\ listCache = {} /\ bust = FALSE /\ floor = 1
      /\ docs = <<[value |-> FirstDocument, at |-> 0, by |-> "genesis"]>>
      /\ lists = <<[value |-> FirstList, at |-> 0, by |-> "genesis"]>>
      /\ call = [c \in CheqdCalls |-> NotStarted]
  BY DEF CheqdInit
<1>1. ASSUME NEW v, NEW h, h = <<[value |-> v, at |-> 0, by |-> "genesis"]>>
      PROVE  Chronicle(h) /\ Len(h) = 1 /\ DOMAIN h = {1} /\ h[1] = [value |-> v, at |-> 0, by |-> "genesis"]
  <2>1. Len(h) = 1 /\ DOMAIN h = {1} /\ h[1] = [value |-> v, at |-> 0, by |-> "genesis"] /\ h # <<>>
    BY <1>1
  <2>2. h \in Seq({h[i] : i \in DOMAIN h})
    <3>1. {h[i] : i \in DOMAIN h} = {[value |-> v, at |-> 0, by |-> "genesis"]}  BY <2>1
    <3> QED  BY <1>1, <3>1
  <2> QED  BY <1>0, <2>1, <2>2 DEF Chronicle
<1>2. /\ Chronicle(docs) /\ Len(docs) = 1 /\ DOMAIN docs = {1}
      /\ docs[1] = [value |-> FirstDocument, at |-> 0, by |-> "genesis"]
      /\ Chronicle(lists) /\ Len(lists) = 1 /\ DOMAIN lists = {1}
      /\ lists[1] = [value |-> FirstList, at |-> 0, by |-> "genesis"]
  BY <1>0, <1>1
<1>3. IssuerDocument(FirstDocument)
  <2>1. FirstDocument \in IssuedDocuments(cheqd)  BY DEF IssuedDocuments
  <2>2. DOMAIN FirstDocument = DocumentFields  BY <1>0, <2>1, CheqdAssumption
  <2> QED  BY <2>1, <2>2 DEF IssuerDocument
<1>4. Histories  BY <1>2, <1>3 DEF Histories
<1>5. DocCacheSound /\ ListCacheSound /\ FloorSound
  BY <1>0, <1>2 DEF DocCacheSound, ListCacheSound, FloorSound, Overdue
<1>6. ASSUME NEW c \in Active  PROVE CallSound(c)
  <2>0. c \in CheqdCalls /\ c # "genesis"  BY <1>0, CheqdAssumption DEF Active
  <2>1. /\ DOMAIN call[c] = CallFields /\ call[c].noCache = FALSE /\ call[c].since = 0
        /\ call[c].read = 0 /\ call[c].at = 0 /\ call[c].floor = 0 /\ call[c].stage = "idle"
        /\ call[c].result = "none" /\ call[c].body = {}
    BY <1>0, <2>0 DEF NotStarted, CallFields
  <2>2. call[c].noCache \in BOOLEAN  BY <2>1, Zenon
  <2>3. CallShaped(c)
    BY <1>0, <1>2, <2>1, <2>2 DEF CallShaped, CheckStages, ReadStages, WriteStages
  <2>4. CheckSound(c) /\ ReplySound(c) /\ AnswerSound(c)
    BY <2>1 DEF CheckSound, Checking, ReplySound, AnswerSound, ReadStages
  <2>5. Written(c) = {}
    <3>1. docs[1].by = "genesis" /\ lists[1].by = "genesis"  BY <1>2
    <3> QED  BY <1>2, <2>0, <3>1 DEF Written
  <2>6. WriteSound(c)  BY <2>1, <2>5 DEF WriteSound, WriteStages, Unwritten
  <2> QED  BY <2>3, <2>4, <2>6 DEF CallSound
<1>7. bust \in BOOLEAN  BY <1>0, Zenon
<1> QED  BY <1>0, <1>4, <1>5, <1>6, <1>7 DEF CheqdInv

LEMMA LedgerFollows ==
    ASSUME CheqdInv
    PROVE  LedgerSound
<1>1. StatusFromLedger
  <2> SUFFICES ASSUME NEW c \in Active, call[c].result \in {"clear", "revoked"}
               PROVE  \E held \in call[c].list :
        /\ \E i \in DOMAIN lists :
             /\ lists[i].value = held
             /\ CurrentWithin(lists, i, call[c].at, UpstreamAge + 2 * MaxFlight + ListCacheTtl)
        /\ held.purpose = {Work(c).entry.purpose}
        /\ (call[c].result = "revoked") = (Work(c).entry.index \subseteq held.revoked)
        /\ \E i \in DOMAIN docs :
             /\ SignedBy(held, docs[i].value)
             /\ CurrentWithin(docs, i, call[c].at, UpstreamAge + MaxFlight + DocCacheTtl + ListCacheTtl)
    BY DEF StatusFromLedger, Answered
  <2>1. PICK held \in call[c].list :
        /\ call[c].list = {held}
        /\ ListStood(held, call[c].at, ListAge) /\ Vouched(held, call[c].at, SignatureAge)
        /\ held.purpose = {Work(c).entry.purpose}
        /\ (call[c].result = "revoked") = (Work(c).entry.index \subseteq held.revoked)
    BY DEF CheqdInv, CallSound, AnswerSound
  <2>2. ListAge = UpstreamAge + 2 * MaxFlight + ListCacheTtl
        /\ SignatureAge = UpstreamAge + MaxFlight + DocCacheTtl + ListCacheTtl
    BY DEF ListAge, SignatureAge, DocumentAge
  <2> QED  BY <2>1, <2>2 DEF ListStood, Vouched
<1>2. InvalidationSeen
  <2> SUFFICES ASSUME Steady, NEW c \in Active, call[c].result \in {"clear", "revoked"}
               PROVE  \E i \in call[c].floor .. Len(lists) : {lists[i].value} = call[c].list
    BY DEF InvalidationSeen, Answered, Steady
  <2>1. PICK held \in call[c].list : call[c].list = {held} /\ Seen(held, call[c].floor)
    BY DEF CheqdInv, CallSound, AnswerSound
  <2> QED  BY <2>1 DEF Seen
<1>3. WritesAsReported
  <2> SUFFICES ASSUME NEW c \in Active
               PROVE
        /\ Cardinality(Written(c)) <= 1
        /\ call[c].result = "complete" => \E i \in DOMAIN History(c) : {History(c)[i].value} = call[c].body
        /\ call[c].result \in {"request failed", "sign failed", "invalid", "unchanged", "unresolved"} => Written(c) = {}
        /\ Work(c).kind = "publish" /\ Written(c) # {} => Work(c).artifact.hash \in {"absent", "matches"}
        /\ Work(c).kind = "link" /\ Written(c) # {} =>
             /\ verifyDidLinkage(ListIssuer, Work(c).name, call[c].body, {Work(c).page}, TRUE)
             /\ \E i \in DOMAIN docs :
                  /\ docs[i].by # c /\ \A d \in call[c].body : docs[i].value.aka \subseteq d.aka
                  /\ CurrentWithin(docs, i, call[c].read, UpstreamAge + MaxFlight + DocCacheTtl)
    BY DEF WritesAsReported
  <2>0. WriteSound(c)  BY DEF CheqdInv, CallSound
  <2>1. Cardinality(Written(c)) <= 1
    <3>1. CASE Written(c) = {}  BY <3>1, FS_EmptySet
    <3>2. CASE Written(c) # {}
      <4>1. PICK i : i \in Written(c)  BY <3>2
      <4>2. \A k \in Written(c) : k = i  BY <2>0, <4>1 DEF WriteSound
      <4>3. Written(c) = {i}  BY <4>1, <4>2
      <4>4. Cardinality({i}) = 1  BY FS_Singleton
      <4> QED  BY <4>3, <4>4
    <3> QED  BY <3>1, <3>2
  <2>2. Work(c).kind = "publish" /\ Written(c) # {} => Work(c).artifact.hash \in {"absent", "matches"}
    BY <2>0 DEF WriteSound, prepared, validArtifact
  <2>3. Work(c).kind = "link" /\ Written(c) # {} => LinkSound(c)  BY <2>0 DEF WriteSound
  <2> QED  BY <2>0, <2>1, <2>2, <2>3 DEF WriteSound, LinkSound, Unwritten, DocumentAge
<1> QED  BY <1>1, <1>2, <1>3 DEF LedgerSound

\* What is answered from the ledger was there, for that purpose and signed by the
\* issuer, no longer ago than responses and caches are old; a write is reported as
\* what became of it (checkStatus, resolve, runClientManagedSecretFlow).
THEOREM LedgerIsSound == CheqdSpec => []LedgerSound
<1>1. CheqdInit => CheqdInv  BY CheqdStart
<1>2. CheqdInv /\ [CheqdNext]_cheqdVars => CheqdInv'  BY CheqdStep
<1>3. CheqdInv => LedgerSound  BY LedgerFollows
<1> QED  BY <1>1, <1>2, <1>3, PTL DEF CheqdSpec

-----------------------------------------------------------------------------
(* Obtaining authority: handshakes, pending flows and resume tokens.       *)

\* A set of numbers that is not empty has a smallest one.
LEMMA SmallestNat ==
    ASSUME NEW S \in SUBSET Nat, S # {}
    PROVE  \E i \in S : \A j \in S : i <= j
<1>1. PICK i \in S : \A j \in S : ~ (<<j, i>> \in OpToRel(<, Nat))
  BY NatLessThanWellFounded, WFMin
<1>2. \A j \in S : ~ (j < i)
  BY <1>1 DEF OpToRel
<1> QED BY <1>2

\* The record of a handshake.
HandshakeType ==
    [stage: {"idle", "reputation", "delegation", "create", "tell", "done"}, score: SUBSET Nat,
     token: Nat, told: Nat, exact: BOOLEAN, result: {"none", "authorized", "needs_authorization"},
     worthy: BOOLEAN, delegated: BOOLEAN]

Token == [token: Nat, expiresAt: Nat]

\* The resume token store, and every token it created.
StoresTyped ==
    /\ resumes \in Seq(Token)
    /\ created \in [tokens: SUBSET Token, swept: Nat, fulfilled: SUBSET Nat]
    /\ IsFiniteSet(created.tokens)

\* Handshakes, what the services say, and the store.
HandshakesTyped ==
    /\ aset \in AuthSettings /\ authTime \in Nat
    /\ standing \in [score: SUBSET Nat, delegated: BOOLEAN]
    /\ handshake \in [Handshakes -> HandshakeType]
    /\ StoresTyped

\* A handshake that is under way has noted what the agent was since it began, and one that
\* passed the reputation gate deserved to.
MeritNoted ==
    \A h \in Handshakes :
        /\ handshake[h].stage \notin {"idle", "done"} =>
              (Worthy(standing) => handshake[h].worthy) /\ (standing.delegated => handshake[h].delegated)
        /\ handshake[h].stage = "reputation" => aset.service /\ aset.minScore # {}
        /\ handshake[h].stage = "delegation" => handshake[h].worthy
        /\ handshake[h].result = "authorized" =>
              handshake[h].stage = "done" /\ handshake[h].worthy /\ handshake[h].delegated

HandshakeInv == HandshakesTyped /\ MeritNoted

\* What a sweep leaves is a tail of the store, and what it drops had expired.
LEMMA SweepFacts ==
    ASSUME resumes \in Seq(Token), authTime \in Nat,
           NEW g, g = sweepExpired(resumes, authTime)
    PROVE  /\ g \in Seq(Token)
           /\ \E m \in 0..Len(resumes) :
                /\ Len(g) = Len(resumes) - m
                /\ \A i \in 1..Len(g) : g[i] = resumes[i + m]
                /\ \A i \in 1..m : resumes[i].expiresAt < authTime
                /\ m < Len(resumes) => authTime <= resumes[m + 1].expiresAt
<1> DEFINE live == {i \in DOMAIN resumes : authTime <= resumes[i].expiresAt}
           first == CHOOSE i \in live : \A j \in live : i <= j
<1>1. PICK n \in Nat : n = Len(resumes) /\ DOMAIN resumes = 1..n
  OBVIOUS
<1>2. \A i \in 1..n : resumes[i] \in Token /\ resumes[i].expiresAt \in Nat
  <2>1. \A i \in 1..n : resumes[i] \in Token
    BY <1>1
  <2> QED BY <2>1 DEF Token
<1>3. CASE live = {}
  <2>1. g = <<>>
    BY <1>3 DEF sweepExpired
  <2>2. \A i \in 1..n : resumes[i].expiresAt < authTime
    BY <1>1, <1>2, <1>3
  <2> QED BY <1>1, <2>1, <2>2
<1>4. CASE live # {}
  <2>1. \E i \in live : \A j \in live : i <= j
    <3>1. live \in SUBSET Nat /\ live # {}
      BY <1>1, <1>4
    <3> HIDE DEF live
    <3> QED BY <3>1, SmallestNat
  <2>2. first \in live /\ \A j \in live : first <= j
    BY <2>1
  <2>3. g = SubSeq(resumes, first, n)
    BY <1>1, <1>4 DEF sweepExpired
  <2> HIDE DEF first
  <2>4. first \in 1..n
    BY <1>1, <2>2
  <2>5. g \in Seq(Token) /\ Len(g) = n - (first - 1) /\ \A i \in 1..Len(g) : g[i] = resumes[i + (first - 1)]
    BY <1>1, <2>3, <2>4, SubSeqProperties
  <2>6. \A i \in 1..(first - 1) : resumes[i].expiresAt < authTime
    BY <1>1, <1>2, <2>2, <2>4
  <2>7. authTime <= resumes[(first - 1) + 1].expiresAt
    BY <2>2, <2>4
  <2>8. first - 1 \in 0..n
    BY <2>4
  <2> QED BY <1>1, <2>5, <2>6, <2>7, <2>8
<1> QED BY <1>3, <1>4

\* A deletion keeps the other tokens, in their order.
LEMMA DropFacts ==
    ASSUME resumes \in Seq(Token), NEW token, \E i \in DOMAIN resumes : resumes[i].token = token,
           NEW g, g = WithoutToken(token)
    PROVE  /\ g \in Seq(Token)
           /\ \E k \in DOMAIN resumes :
                /\ resumes[k].token = token
                /\ Len(g) = Len(resumes) - 1
                /\ \A i \in 1..Len(g) : g[i] = resumes[IF i < k THEN i ELSE i + 1]
<1> DEFINE k == CHOOSE i \in DOMAIN resumes : resumes[i].token = token
<1>1. PICK n \in Nat : n = Len(resumes) /\ DOMAIN resumes = 1..n
  OBVIOUS
<1>2. k \in 1..n /\ resumes[k].token = token
  BY <1>1
<1>3. g = [i \in 1..(n - 1) |-> resumes[IF i < k THEN i ELSE i + 1]]
  BY <1>1 DEF WithoutToken
<1> HIDE DEF k
<1>4. n - 1 \in Nat /\ \A i \in 1..(n - 1) : (IF i < k THEN i ELSE i + 1) \in 1..n
  BY <1>2
<1>5. g \in [1..(n - 1) -> Token]
  BY <1>1, <1>3, <1>4
<1>6. g \in Seq(Token) /\ Len(g) = n - 1
  BY <1>4, <1>5
<1> QED BY <1>1, <1>2, <1>3, <1>6

\* No handshake has begun.
LEMMA HandshakeInit == AuthInit => HandshakeInv
<1> SUFFICES ASSUME AuthInit PROVE HandshakeInv
  OBVIOUS
<1>1. StoresTyped
  BY FS_EmptySet DEF AuthInit, StoresTyped
<1>2. IdleHandshake \in HandshakeType
  BY DEF HandshakeType, IdleHandshake
<1>3. HandshakesTyped
  BY <1>1, <1>2 DEF AuthInit, HandshakesTyped
<1>4. MeritNoted
  BY DEF AuthInit, MeritNoted, IdleHandshake
<1> QED BY <1>3, <1>4 DEF HandshakeInv

\* What a setting may ask for, by the assumption on the constants.
LEMMA SettingTyped ==
    ASSUME HandshakesTyped
    PROVE  /\ aset.handshakes \subseteq Handshakes /\ aset.minScore \subseteq Nat
           /\ aset.standings \subseteq [score: SUBSET Nat, delegated: BOOLEAN]
BY AuthAssumption DEF HandshakesTyped

\* What the service answers is never more than the agent's standing: who passes deserves it.
LEMMA PassedOnMerit ==
    ASSUME HandshakesTyped, NEW answer, ReputationPasses(fetchAgentReputation(answer)),
           aset.service, aset.minScore # {}
    PROVE  Worthy(standing) \/ (aset.policy = "allow" /\ fetchAgentReputation(answer) = {})
<1> DEFINE score == fetchAgentReputation(answer)
<1>1. standing.score \subseteq Nat /\ aset.minScore \subseteq Nat
  BY SettingTyped DEF HandshakesTyped
<1>2. CASE score = {}
  BY <1>2 DEF ReputationPasses
<1>3. CASE score # {}
  <2>1. \A s \in score, min \in aset.minScore : s >= min
    BY <1>3 DEF ReputationPasses
  <2>2. CASE answer = "no score" /\ standing.score # {}
    <3>1. score = {0}
      BY <2>2 DEF fetchAgentReputation
    <3>2. PICK x : x \in standing.score
      BY <2>2
    <3>3. \A min \in aset.minScore : 0 >= min
      BY <2>1, <3>1
    <3>4. \A min \in aset.minScore : x >= min
      BY <1>1, <3>2, <3>3
    <3> QED BY <3>2, <3>4 DEF Worthy
  <2>3. CASE ~ (answer = "no score" /\ standing.score # {})
    <3>1. score = standing.score
      BY <1>3, <2>3 DEF fetchAgentReputation
    <3>2. PICK x : x \in standing.score
      BY <1>3, <3>1
    <3>3. \A min \in aset.minScore : x >= min
      BY <2>1, <3>1, <3>2
    <3> QED BY <3>2, <3>3 DEF Worthy
  <2> QED BY <2>2, <2>3
<1> QED BY <1>2, <1>3

\* A step of a handshake leaves the others alone.
LEMMA HandshakeMoves ==
    ASSUME HandshakeInv, NEW h \in Handshakes, NEW r \in HandshakeType,
           handshake' = [handshake EXCEPT ![h] = r], UNCHANGED <<standing, aset, authTime>>,
           StoresTyped',
           r.stage \notin {"idle", "done"} => (Worthy(standing) => r.worthy) /\ (standing.delegated => r.delegated),
           r.stage = "reputation" => aset.service /\ aset.minScore # {},
           r.stage = "delegation" => r.worthy,
           r.result = "authorized" => r.stage = "done" /\ r.worthy /\ r.delegated
    PROVE  HandshakeInv'
<1>1. HandshakesTyped'
  BY DEF HandshakeInv, HandshakesTyped
<1>2. \A q \in Handshakes : handshake'[q] = IF q = h THEN r ELSE handshake[q]
  BY DEF HandshakeInv, HandshakesTyped
<1>3. Worthy(standing)' = Worthy(standing)
  BY DEF Worthy
<1>4. MeritNoted'
  BY <1>2, <1>3 DEF HandshakeInv, MeritNoted
<1> QED BY <1>1, <1>4 DEF HandshakeInv

\* The store keeps tokens only, whatever is swept or deleted.
LEMMA CreateTyped ==
    ASSUME HandshakesTyped, NEW h \in Handshakes, CreateToken(h)
    PROVE  StoresTyped'
<1> DEFINE minted == [token |-> Cardinality(created.tokens) + 1, expiresAt |-> authTime + StoreTtl]
<1>1. minted \in Token
  BY FS_CardinalityType, AuthAssumption DEF HandshakesTyped, StoresTyped, Token
<1>2. sweepExpired(resumes, authTime) \in Seq(Token)
  BY SweepFacts DEF HandshakesTyped, StoresTyped
<1>3. resumes' = Append(sweepExpired(resumes, authTime), minted)
      /\ created' = [created EXCEPT !.tokens = @ \cup {minted}, !.swept = authTime]
  BY DEF CreateToken
<1> HIDE DEF minted
<1>4. resumes' \in Seq(Token)
  BY <1>1, <1>2, <1>3
<1>5. created'.tokens = created.tokens \cup {minted}
      /\ created' \in [tokens: SUBSET Token, swept: Nat, fulfilled: SUBSET Nat]
  BY <1>1, <1>3 DEF HandshakesTyped, StoresTyped
<1>6. IsFiniteSet(created.tokens)
  BY DEF HandshakesTyped, StoresTyped
<1>7. IsFiniteSet(created.tokens \cup {minted})
  BY <1>6, FS_AddElement
<1> QED BY <1>4, <1>5, <1>7 DEF StoresTyped

\* A deletion leaves the store typed.
LEMMA DropTyped ==
    ASSUME HandshakesTyped, NEW e \in created.tokens, ResumeGet(e.token) \/ fulfill(e.token)
    PROVE  StoresTyped'
<1>1. e.token \in Nat
  BY DEF HandshakesTyped, StoresTyped, Token
<1>2. (\E i \in DOMAIN resumes : resumes[i].token = e.token) => WithoutToken(e.token) \in Seq(Token)
  BY DropFacts DEF HandshakesTyped, StoresTyped
<1>3. resumes' \in Seq(Token)
  BY <1>2 DEF ResumeGet, fulfill, HandshakesTyped, StoresTyped
<1>4. created' = created \/ created' = [created EXCEPT !.fulfilled = @ \cup {e.token}]
  BY DEF ResumeGet, fulfill
<1>5. created'.tokens = created.tokens /\ created' \in [tokens: SUBSET Token, swept: Nat, fulfilled: SUBSET Nat]
  BY <1>1, <1>4 DEF HandshakesTyped, StoresTyped
<1> QED BY <1>3, <1>5 DEF HandshakesTyped, StoresTyped

\* Every step of a handshake, of the services and of the clock keeps it so.
LEMMA HandshakeStep ==
    ASSUME HandshakeInv, [AuthNext]_authVars
    PROVE  HandshakeInv'
<1> USE DEF HandshakeInv
<1>1. CASE UNCHANGED <<handshake, standing, authTime, aset, resumes, created>>
  BY <1>1 DEF HandshakesTyped, StoresTyped, MeritNoted, Worthy
<1>2. ASSUME NEW h \in aset.handshakes, Ask(h), UNCHANGED aset
      PROVE  HandshakeInv'
  <2>1. h \in Handshakes
    BY SettingTyped
  <2>2. /\ handshake[h] \in HandshakeType /\ standing \in [score: SUBSET Nat, delegated: BOOLEAN]
        /\ Worthy(standing) \in BOOLEAN
    BY <2>1 DEF HandshakesTyped, Worthy
  <2>3. PICK r : /\ handshake' = [handshake EXCEPT ![h] = r]
                 /\ r = Observe([handshake[h] EXCEPT
                      !.stage = IF aset.service /\ aset.minScore # {} THEN "reputation" ELSE "delegation"], standing)
    BY <1>2 DEF Ask
  <2>4. /\ r \in HandshakeType /\ r.result = handshake[h].result
        /\ r.stage = IF aset.service /\ aset.minScore # {} THEN "reputation" ELSE "delegation"
        /\ r.worthy = (handshake[h].worthy \/ Worthy(standing))
        /\ r.delegated = (handshake[h].delegated \/ standing.delegated)
    BY <2>2, <2>3 DEF Observe, HandshakeType
  <2>5. handshake[h].result # "authorized"
    BY <1>2, <2>1 DEF Ask, MeritNoted
  <2>6. r.stage = "delegation" => r.worthy
    BY <2>4 DEF Worthy
  <2> QED BY <1>2, <2>1, <2>3, <2>4, <2>5, <2>6, HandshakeMoves DEF Ask, HandshakesTyped, StoresTyped
<1>3. ASSUME NEW h \in Handshakes, NEW answer, FetchReputation(h, answer), UNCHANGED aset
      PROVE  HandshakeInv'
  <2> DEFINE score == fetchAgentReputation(answer)
             r == Judge(handshake[h], score)
  <2>1. handshake[h] \in HandshakeType /\ standing.score \in SUBSET Nat
    BY DEF HandshakesTyped
  <2>2. score \in SUBSET Nat
    <3>1. score = {} \/ score = {0} \/ score = standing.score
      BY DEF fetchAgentReputation
    <3> HIDE DEF score
    <3> QED BY <2>1, <3>1
  <2>3. handshake' = [handshake EXCEPT ![h] = r]
    BY <1>3 DEF FetchReputation
  <2>4. /\ r \in HandshakeType /\ r.result = handshake[h].result /\ r.delegated = handshake[h].delegated
        /\ r.stage = IF ReputationPasses(score) THEN "delegation" ELSE "create"
        /\ r.worthy = (handshake[h].worthy \/ (aset.policy = "allow" /\ score = {}))
    <3> HIDE DEF score
    <3> QED BY <2>1, <2>2 DEF HandshakeType, Judge
  <2>5. handshake[h].stage = "reputation" /\ handshake[h].result # "authorized"
    BY <1>3 DEF FetchReputation, MeritNoted
  <2>6. aset.service /\ aset.minScore # {} /\ (Worthy(standing) => handshake[h].worthy)
        /\ (standing.delegated => handshake[h].delegated)
    BY <2>5 DEF MeritNoted
  <2>7. r.stage = "delegation" => r.worthy
    BY <2>4, <2>6, PassedOnMerit
  <2> HIDE DEF r, score
  <2> QED BY <1>3, <2>3, <2>4, <2>5, <2>6, <2>7, HandshakeMoves DEF FetchReputation, HandshakesTyped, StoresTyped
<1>4. ASSUME NEW h \in Handshakes, NEW answer, VerifyDelegation(h, answer), UNCHANGED aset
      PROVE  HandshakeInv'
  <2> DEFINE ok == answer = "answers" /\ standing.delegated
             r == IF ok THEN [handshake[h] EXCEPT !.stage = "done", !.result = "authorized"]
                  ELSE [handshake[h] EXCEPT !.stage = "create"]
  <2>1. handshake[h] \in HandshakeType
    BY DEF HandshakesTyped
  <2>2. handshake' = [handshake EXCEPT ![h] = r]
    BY <1>4 DEF VerifyDelegation
  <2>3. /\ r \in HandshakeType /\ r.worthy = handshake[h].worthy /\ r.delegated = handshake[h].delegated
        /\ ok => r.stage = "done"
        /\ ~ ok => r.stage = "create" /\ r.result = handshake[h].result
    BY <2>1 DEF HandshakeType
  <2>4. /\ handshake[h].result # "authorized" /\ handshake[h].worthy
        /\ standing.delegated => handshake[h].delegated
    BY <1>4 DEF VerifyDelegation, MeritNoted
  <2> HIDE DEF r
  <2> QED BY <1>4, <2>2, <2>3, <2>4, HandshakeMoves DEF VerifyDelegation, HandshakesTyped, StoresTyped
<1>5. ASSUME NEW h \in Handshakes, NEW answer, TellToken(h, answer), UNCHANGED aset
      PROVE  HandshakeInv'
  <2> DEFINE expiry == storedExpiry(handshake[h].token, answer)
             instant == IF expiry = {} THEN authTime + AdvertisedTtl ELSE CHOOSE e \in expiry : TRUE
             exact == (answer = "answers" /\ \E e \in created.tokens :
                         e.token = handshake[h].token /\ e.expiresAt > authTime)
             r == [handshake[h] EXCEPT !.stage = "done", !.result = "needs_authorization",
                      !.told = instant \div TicksPerSecond, !.exact = exact]
  <2>1. handshake[h] \in HandshakeType
    BY DEF HandshakesTyped
  <2>2. expiry \subseteq Nat
    <3>1. \A i \in DOMAIN resumes : resumes[i] \in Token
      BY DEF HandshakesTyped, StoresTyped
    <3> QED BY <3>1 DEF storedExpiry, LiveToken, Token
  <2>3. instant \in Nat
    BY <2>2, AuthAssumption DEF HandshakesTyped
  <2>4. instant \div TicksPerSecond \in Nat
    BY <2>3, AuthAssumption
  <2>5. handshake' = [handshake EXCEPT ![h] = r]
    BY <1>5 DEF TellToken
  <2>6. exact \in BOOLEAN
    OBVIOUS
  <2> HIDE DEF instant, exact
  <2>7. r \in HandshakeType /\ r.stage = "done" /\ r.result = "needs_authorization"
    BY <2>1, <2>4, <2>6 DEF HandshakeType
  <2>8. UNCHANGED <<resumes, created, standing, aset, authTime>>
    BY <1>5 DEF TellToken
  <2> HIDE DEF r
  <2> QED BY <2>5, <2>7, <2>8, HandshakeMoves DEF HandshakesTyped, StoresTyped
<1>6. ASSUME NEW h \in Handshakes, CreateToken(h), UNCHANGED aset
      PROVE  HandshakeInv'
  <2> DEFINE n == Cardinality(created.tokens) + 1
             r == [handshake[h] EXCEPT !.stage = "tell", !.token = n]
  <2>1. handshake[h] \in HandshakeType /\ handshake[h].stage = "create" /\ handshake[h].result # "authorized"
    BY <1>6 DEF HandshakesTyped, MeritNoted, CreateToken
  <2>2. n \in Nat
    BY FS_CardinalityType DEF HandshakesTyped, StoresTyped
  <2>3. handshake' = [handshake EXCEPT ![h] = r]
    BY <1>6 DEF CreateToken
  <2>4. /\ r \in HandshakeType /\ r.stage = "tell" /\ r.result = handshake[h].result
        /\ r.worthy = handshake[h].worthy /\ r.delegated = handshake[h].delegated
    BY <2>1, <2>2 DEF HandshakeType
  <2>5. (Worthy(standing) => r.worthy) /\ (standing.delegated => r.delegated)
    BY <2>1, <2>4 DEF MeritNoted
  <2>6. UNCHANGED <<standing, aset, authTime>>
    BY <1>6 DEF CreateToken
  <2>7. StoresTyped'
    BY <1>6, CreateTyped
  <2> HIDE DEF r, n
  <2> QED BY <2>1, <2>3, <2>4, <2>5, <2>6, <2>7, HandshakeMoves
<1>7. ASSUME NEW s \in aset.standings, StandingChanges(s), UNCHANGED aset
      PROVE  HandshakeInv'
  <2>1. s \in [score: SUBSET Nat, delegated: BOOLEAN]
    BY SettingTyped
  <2>2. \A h \in Handshakes :
          /\ handshake'[h] \in HandshakeType /\ handshake'[h].stage = handshake[h].stage
          /\ handshake'[h].result = handshake[h].result
          /\ handshake[h].worthy => handshake'[h].worthy
          /\ handshake[h].delegated => handshake'[h].delegated
          /\ handshake[h].stage \notin {"idle", "done"} =>
                (Worthy(s) => handshake'[h].worthy) /\ (s.delegated => handshake'[h].delegated)
    <3> SUFFICES ASSUME NEW h \in Handshakes
                 PROVE  /\ handshake'[h] \in HandshakeType /\ handshake'[h].stage = handshake[h].stage
                        /\ handshake'[h].result = handshake[h].result
                        /\ handshake[h].worthy => handshake'[h].worthy
                        /\ handshake[h].delegated => handshake'[h].delegated
                        /\ handshake[h].stage \notin {"idle", "done"} =>
                              (Worthy(s) => handshake'[h].worthy) /\ (s.delegated => handshake'[h].delegated)
      OBVIOUS
    <3>1. handshake[h] \in HandshakeType /\ Worthy(s) \in BOOLEAN
      BY DEF HandshakesTyped, Worthy
    <3>2. handshake'[h] = IF handshake[h].stage \in {"idle", "done"} THEN handshake[h] ELSE Observe(handshake[h], s)
      BY <1>7 DEF StandingChanges
    <3> QED BY <2>1, <3>1, <3>2 DEF Observe, HandshakeType
  <2>3. standing' = s /\ UNCHANGED <<resumes, created, aset, authTime>>
    BY <1>7 DEF StandingChanges
  <2>4. handshake' \in [Handshakes -> HandshakeType]
    BY <1>7, <2>2 DEF StandingChanges
  <2>5. HandshakesTyped'
    BY <2>1, <2>3, <2>4 DEF HandshakesTyped, StoresTyped
  <2>6. Worthy(standing)' = Worthy(s)
    BY <2>3 DEF Worthy
  <2>7. MeritNoted'
    BY <2>2, <2>3, <2>6 DEF MeritNoted
  <2> QED BY <2>5, <2>7
<1>8. CASE AuthTick /\ UNCHANGED aset
  BY <1>8 DEF AuthTick, HandshakesTyped, StoresTyped, MeritNoted, Worthy
<1>9. ASSUME NEW e \in created.tokens, ResumeGet(e.token) \/ fulfill(e.token), UNCHANGED aset
      PROVE  HandshakeInv'
  <2>1. StoresTyped'
    BY <1>9, DropTyped
  <2>2. UNCHANGED <<handshake, standing, aset, authTime>>
    BY <1>9 DEF ResumeGet, fulfill
  <2> QED BY <2>1, <2>2 DEF HandshakesTyped, MeritNoted, Worthy
<1> QED
  BY <1>1, <1>2, <1>3, <1>4, <1>5, <1>6, <1>7, <1>8, <1>9
     DEF AuthNext, authVars, InitiateFlow, Consent, ReceiveCallback, ExchangeCode, PeekFlow, CleanupFlows

-----------------------------------------------------------------------------
(* The flows of the OIDC adapter.                                          *)

\* The fields of a callback, whatever it holds.
CallbackFields == DOMAIN IdleCallback

\* A flow is known by its token, and keeps its expiry and its challenge.
FlowsSound ==
    /\ authTime \in Nat /\ IsFiniteSet(initiated)
    /\ \A f \in initiated :
          /\ f.flow.token \in 1..Cardinality(initiated)
          /\ f.url.challenge = computeS256Challenge(f.flow.verifier)
          /\ f.expires \in Nat /\ f.told = f.expires \div TicksPerSecond
    /\ \A f, g \in initiated : f.flow.token = g.flow.token => f = g

\* What is pending is a flow that was initiated, with the expiry advertised; and one that is not
\* pending any more expired, or a callback took it.
FlowsStored ==
    /\ \A t \in DOMAIN pending : \E f \in initiated :
          f.flow.token = t /\ pending[t] = [flow |-> f.flow, expiresAt |-> f.expires]
    /\ \A f \in initiated :
          \/ f.flow.token \in DOMAIN pending
          \/ authTime >= f.expires
          \/ \E c \in Callbacks : callback[c].token = f.flow.token

\* The callback c holds the flow of its token, which no other can get.
Holding(c) ==
    /\ callback[c].token \notin DOMAIN pending
    /\ \E f \in initiated : f.flow = callback[c].flow /\ f.flow.token = callback[c].token
                              /\ callback[c].at < f.expires

\* Flow f was redeemed by callback c.
Redeemed(c) ==
    \E f \in initiated, k \in codes :
       /\ f.flow.token = callback[c].token /\ callback[c].at < f.expires
       /\ k.challenge = f.url.challenge /\ k.redeemed /\ callback[c].agent = f.flow.agent
       /\ callback[c].scopes = IF k.scope = {} THEN f.flow.scopes ELSE UNION k.scope

\* The callback c was told that its flow is unknown, and why.
Unknown(c) ==
    \E f \in initiated :
       /\ f.flow.token = callback[c].token
       /\ \/ callback[c].at >= f.expires
          \/ \E d \in Callbacks \ {c} : callback[d].token = callback[c].token

\* What a callback holds it took, and how it ended says why.
CallbacksSound ==
    /\ callback = [c \in Callbacks |-> callback[c]]
    /\ \A c \in Callbacks :
          /\ DOMAIN callback[c] = CallbackFields /\ callback[c].at \in Nat
          /\ callback[c].stage = "idle" => callback[c] = IdleCallback
          /\ callback[c].stage = "exchange" => callback[c].flow # NoFlow /\ callback[c].result = "none"
          /\ callback[c].flow # NoFlow => Holding(c)
          /\ callback[c].result = "valid" => Redeemed(c)
          /\ callback[c].result = "unknown" => Unknown(c)
    /\ \A c, d \in Callbacks :
          c # d /\ callback[c].flow # NoFlow /\ callback[d].flow # NoFlow => callback[c].token # callback[d].token

\* The fields of a code.
CodeFields == {"code", "challenge", "redirect", "scope", "redeemed"}
CodesSound == \A k \in codes : DOMAIN k = CodeFields

FlowInv == FlowsSound /\ FlowsStored /\ CodesSound /\ CallbacksSound

\* There are no flows yet.
LEMMA FlowInit == AuthInit => FlowInv
<1> SUFFICES ASSUME AuthInit PROVE FlowInv
  OBVIOUS
<1>1. FlowsSound
  BY FS_EmptySet DEF AuthInit, FlowsSound
<1>2. DOMAIN pending = {}
  BY DEF AuthInit
<1>3. FlowsStored
  BY <1>2 DEF AuthInit, FlowsStored
<1>4. CallbacksSound
  BY DEF AuthInit, CallbacksSound, IdleCallback, CallbackFields
<1>5. CodesSound
  BY DEF AuthInit, CodesSound
<1> QED BY <1>1, <1>3, <1>4, <1>5 DEF FlowInv

\* A step that changes neither flows nor callbacks, and only adds to the codes and the time.
LEMMA FlowsLeft ==
    ASSUME FlowInv, UNCHANGED <<initiated, callback>>, authTime' \in Nat, authTime' >= authTime,
           \A k \in codes : k.redeemed => k \in codes', CodesSound',
           \A t \in DOMAIN pending' : t \in DOMAIN pending /\ pending'[t] = pending[t],
           \A t \in DOMAIN pending : t \in DOMAIN pending' \/ pending[t].expiresAt <= authTime
    PROVE  FlowInv'
<1> USE DEF FlowInv
<1>1. FlowsSound'
  BY DEF FlowsSound
<1>2. FlowsStored'
  <2>1. \A t \in DOMAIN pending' : \E f \in initiated' :
          f.flow.token = t /\ pending'[t] = [flow |-> f.flow, expiresAt |-> f.expires]
    BY DEF FlowsStored
  <2>2. ASSUME NEW f \in initiated
        PROVE  \/ f.flow.token \in DOMAIN pending'
               \/ authTime' >= f.expires
               \/ \E c \in Callbacks : callback'[c].token = f.flow.token
    <3>1. f.expires \in Nat /\ authTime \in Nat
      BY DEF FlowsSound
    <3>2. CASE f.flow.token \in DOMAIN pending
      <4>1. pending[f.flow.token].expiresAt = f.expires
        <5>1. PICK g \in initiated : g.flow.token = f.flow.token
                 /\ pending[f.flow.token] = [flow |-> g.flow, expiresAt |-> g.expires]
          BY <3>2 DEF FlowsStored
        <5>2. g = f
          BY <5>1 DEF FlowsSound
        <5> QED BY <5>1, <5>2
      <4> QED BY <3>1, <3>2, <4>1
    <3>3. CASE authTime >= f.expires
      BY <3>1, <3>3
    <3> QED BY <3>2, <3>3 DEF FlowsStored
  <2> QED BY <2>1, <2>2 DEF FlowsStored
<1>3. CallbacksSound'
  <2>1. \A c \in Callbacks : Holding(c) => Holding(c)'
    BY DEF Holding
  <2>2. \A c \in Callbacks : Redeemed(c) => Redeemed(c)'
    BY DEF Redeemed
  <2>3. \A c \in Callbacks : Unknown(c) => Unknown(c)'
    BY DEF Unknown
  <2> QED BY <2>1, <2>2, <2>3 DEF CallbacksSound
<1> QED BY <1>1, <1>2, <1>3

\* A step that concerns neither flows nor callbacks.
LEMMA FlowsUntouched ==
    ASSUME FlowInv, UNCHANGED <<initiated, callback, codes, pending>>, authTime' \in Nat, authTime' >= authTime
    PROVE  FlowInv'
<1>1. CodesSound'
  BY DEF FlowInv, CodesSound
<1> QED BY <1>1, FlowsLeft

\* Eviction removes what expired, and nothing else.
LEMMA EvictionFacts ==
    ASSUME NEW flows, NEW now
    PROVE  /\ \A t : t \in DOMAIN evictExpired(flows, now) <=> t \in DOMAIN flows /\ flows[t].expiresAt > now
           /\ \A t \in DOMAIN evictExpired(flows, now) : evictExpired(flows, now)[t] = flows[t]
BY DEF evictExpired

\* What is pending has an expiry.
LEMMA PendingTyped ==
    ASSUME FlowInv, NEW t \in DOMAIN pending
    PROVE  pending[t].expiresAt \in Nat
<1>1. PICK f \in initiated : f.flow.token = t /\ pending[t] = [flow |-> f.flow, expiresAt |-> f.expires]
  BY DEF FlowInv, FlowsStored
<1>2. f.expires \in Nat
  BY DEF FlowInv, FlowsSound
<1> QED BY <1>1, <1>2

\* A cleanup removes flows that expired.
LEMMA CleanupStep ==
    ASSUME FlowInv, CleanupFlows
    PROVE  FlowInv'
<1>1. pending' = evictExpired(pending, authTime) /\ UNCHANGED <<initiated, callback, codes, authTime>>
  BY DEF CleanupFlows
<1>2. authTime \in Nat /\ \A t \in DOMAIN pending : pending[t].expiresAt \in Nat
  BY PendingTyped DEF FlowInv, FlowsSound
<1>3. \A t \in DOMAIN pending' : t \in DOMAIN pending /\ pending'[t] = pending[t]
  BY <1>1, EvictionFacts
<1>4. \A t \in DOMAIN pending : t \in DOMAIN pending' \/ pending[t].expiresAt <= authTime
  BY <1>1, <1>2, EvictionFacts
<1>5. CodesSound'
  BY <1>1 DEF FlowInv, CodesSound
<1> QED BY <1>1, <1>2, <1>3, <1>4, <1>5, FlowsLeft

\* A removal takes one token and leaves the others as they were.
LEMMA RemoveFacts ==
    ASSUME NEW token
    PROVE  /\ DOMAIN Remove(token) = DOMAIN pending \ {token}
           /\ \A t \in DOMAIN pending \ {token} : Remove(token)[t] = pending[t]
BY DEF Remove

\* A look at a flow removes it if it expired.
LEMMA PeekStep ==
    ASSUME FlowInv, NEW t \in DOMAIN pending, PeekFlow(t)
    PROVE  FlowInv'
<1>1. UNCHANGED <<initiated, callback, codes, authTime>>
  BY DEF PeekFlow
<1>2. authTime \in Nat /\ pending[t].expiresAt \in Nat
  BY PendingTyped DEF FlowInv, FlowsSound
<1>3. CASE Live(t, authTime) = {}
  <2>1. pending' = Remove(t)
    BY <1>3 DEF PeekFlow
  <2>2. ~ (pending[t].expiresAt > authTime)
    BY <1>3 DEF Live
  <2>3. \A u \in DOMAIN pending' : u \in DOMAIN pending /\ pending'[u] = pending[u]
    BY <2>1, RemoveFacts
  <2>4. \A u \in DOMAIN pending : u \in DOMAIN pending' \/ pending[u].expiresAt <= authTime
    <3>1. pending[t].expiresAt <= authTime
      BY <1>2, <2>2
    <3> QED BY <2>1, <3>1, RemoveFacts
  <2>5. CodesSound'
    BY <1>1 DEF FlowInv, CodesSound
  <2> QED BY <1>1, <1>2, <2>3, <2>4, <2>5, FlowsLeft
<1>4. CASE Live(t, authTime) # {}
  <2>1. UNCHANGED pending
    BY <1>4 DEF PeekFlow
  <2> QED BY <1>1, <1>2, <2>1, FlowsUntouched
<1> QED BY <1>3, <1>4

\* A consent adds a code.
LEMMA ConsentStep ==
    ASSUME FlowInv, NEW f, NEW s, Consent(f, s)
    PROVE  FlowInv'
<1>1. UNCHANGED <<pending, initiated, callback, authTime>> /\ codes \subseteq codes'
  BY DEF Consent
<1>2. authTime \in Nat
  BY DEF FlowInv, FlowsSound
<1>3. CodesSound'
  BY DEF Consent, FlowInv, CodesSound, CodeFields
<1> QED BY <1>1, <1>2, <1>3, FlowsLeft

\* A new flow gets a token no other flow has or had.
LEMMA InitiateStep ==
    ASSUME FlowInv, NEW p, InitiateFlow(p)
    PROVE  FlowInv'
<1> USE DEF FlowInv
<1> DEFINE n == Cardinality(initiated)
           token == n + 1
           flow == [token |-> token, agent |-> p.agent,
                    scopes |-> AdapterScopes \cup UNION p.protection.requiredScopes, state |-> p.state,
                    verifier |-> token, redirect |-> p.redirect]
           new == [flow |-> flow, url |-> buildAuthorizeUrl(flow), expires |-> authTime + FlowTtl,
                   told |-> (authTime + FlowTtl) \div TicksPerSecond]
           inserted == [t \in DOMAIN pending \cup {token} |->
                          IF t = token THEN [flow |-> flow, expiresAt |-> authTime + FlowTtl] ELSE pending[t]]
<1>1. /\ initiated' = initiated \cup {new} /\ UNCHANGED <<codes, callback, authTime>>
      /\ pending' = inserted \/ pending' = evictExpired(inserted, authTime)
  BY DEF InitiateFlow, Put
<1>2. /\ n \in Nat /\ token \in Nat /\ authTime \in Nat /\ FlowTtl \in Nat /\ authTime + FlowTtl \in Nat
      /\ \A f \in initiated : f.flow.token \in 1..n
  BY FS_CardinalityType, AuthAssumption DEF FlowsSound
<1>3. /\ new.flow = flow /\ flow.token = token /\ new.expires = authTime + FlowTtl
      /\ new.told = new.expires \div TicksPerSecond
      /\ new.url.challenge = computeS256Challenge(flow.verifier)
  BY DEF buildAuthorizeUrl
<1>4. /\ DOMAIN inserted = DOMAIN pending \cup {token} /\ inserted[token] = [flow |-> flow, expiresAt |-> new.expires]
      /\ \A t \in DOMAIN pending \ {token} : inserted[t] = pending[t]
  BY <1>3
<1> HIDE DEF n, flow, new, inserted
<1>5. token \notin {f.flow.token : f \in initiated} /\ new \notin initiated
  BY <1>2, <1>3
<1>6. IsFiniteSet(initiated') /\ Cardinality(initiated') = n + 1
  BY <1>1, <1>5, FS_AddElement DEF n, FlowsSound
<1>7. FlowsSound'
  <2>1. \A f \in initiated' :
          /\ f.flow.token \in 1..Cardinality(initiated')
          /\ f.url.challenge = computeS256Challenge(f.flow.verifier)
          /\ f.expires \in Nat /\ f.told = f.expires \div TicksPerSecond
    <3> SUFFICES ASSUME NEW f \in initiated'
                 PROVE  /\ f.flow.token \in 1..Cardinality(initiated')
                        /\ f.url.challenge = computeS256Challenge(f.flow.verifier)
                        /\ f.expires \in Nat /\ f.told = f.expires \div TicksPerSecond
      OBVIOUS
    <3>1. CASE f = new
      BY <1>2, <1>3, <1>6, <3>1
    <3>2. CASE f \in initiated
      BY <1>2, <1>6, <3>2 DEF FlowsSound
    <3> QED BY <1>1, <3>1, <3>2
  <2>2. \A f, g \in initiated' : f.flow.token = g.flow.token => f = g
    BY <1>1, <1>3, <1>5 DEF FlowsSound
  <2> QED BY <1>1, <1>2, <1>6, <2>1, <2>2 DEF FlowsSound
<1>8. \A t \in DOMAIN pending' : t \in DOMAIN pending \cup {token} /\ pending'[t] = inserted[t]
  BY <1>1, <1>4, EvictionFacts
<1>9. \A t \in DOMAIN pending \cup {token} : t \in DOMAIN pending' \/ ~ (inserted[t].expiresAt > authTime)
  BY <1>1, <1>4, EvictionFacts
<1>10. FlowsStored'
  <2>1. ASSUME NEW t \in DOMAIN pending'
        PROVE  \E f \in initiated' : f.flow.token = t /\ pending'[t] = [flow |-> f.flow, expiresAt |-> f.expires]
    <3>1. CASE t = token
      BY <1>1, <1>3, <1>4, <1>8, <3>1
    <3>2. CASE t # token
      <4>1. t \in DOMAIN pending /\ pending'[t] = pending[t]
        BY <1>4, <1>8, <3>2
      <4> QED BY <1>1, <4>1 DEF FlowsStored
    <3> QED BY <3>1, <3>2
  <2>2. ASSUME NEW f \in initiated'
        PROVE  \/ f.flow.token \in DOMAIN pending'
               \/ authTime' >= f.expires
               \/ \E c \in Callbacks : callback'[c].token = f.flow.token
    <3>1. CASE f = new
      <4>1. inserted[token].expiresAt = f.expires /\ f.flow.token = token /\ f.expires \in Nat
        BY <1>2, <1>3, <1>4, <3>1
      <4> QED BY <1>1, <1>2, <1>9, <4>1
    <3>2. CASE f \in initiated /\ f.flow.token \in DOMAIN pending
      <4>1. f.flow.token # token /\ f.expires \in Nat
        BY <1>5, <3>2 DEF FlowsSound
      <4>2. pending[f.flow.token].expiresAt = f.expires
        <5>1. PICK g \in initiated : g.flow.token = f.flow.token
                 /\ pending[f.flow.token] = [flow |-> g.flow, expiresAt |-> g.expires]
          BY <3>2 DEF FlowsStored
        <5>2. g = f
          BY <3>2, <5>1 DEF FlowsSound
        <5> QED BY <5>1, <5>2
      <4> QED BY <1>1, <1>2, <1>4, <1>9, <3>2, <4>1, <4>2
    <3>3. CASE f \in initiated /\ f.flow.token \notin DOMAIN pending
      BY <1>1, <3>3 DEF FlowsStored
    <3> QED BY <1>1, <3>1, <3>2, <3>3
  <2> QED BY <2>1, <2>2 DEF FlowsStored
<1>11. CallbacksSound'
  <2>1. \A c \in Callbacks : Holding(c) => Holding(c)'
    <3> SUFFICES ASSUME NEW c \in Callbacks, Holding(c) PROVE Holding(c)'
      OBVIOUS
    <3>1. PICK f \in initiated : f.flow = callback[c].flow /\ f.flow.token = callback[c].token
                                 /\ callback[c].at < f.expires
      BY DEF Holding
    <3>2. callback[c].token \notin DOMAIN pending'
      BY <1>4, <1>5, <1>8, <3>1 DEF Holding
    <3> QED BY <1>1, <3>1, <3>2 DEF Holding
  <2>2. \A c \in Callbacks : Redeemed(c) => Redeemed(c)'
    BY <1>1 DEF Redeemed
  <2>3. \A c \in Callbacks : Unknown(c) => Unknown(c)'
    BY <1>1 DEF Unknown
  <2> QED BY <1>1, <2>1, <2>2, <2>3 DEF CallbacksSound
<1>12. CodesSound'
  BY <1>1 DEF CodesSound
<1> QED BY <1>7, <1>10, <1>11, <1>12

\* The flow a live token stands for is the one that was initiated, and its expiry is to come.
LEMMA LiveIsInitiated ==
    ASSUME FlowInv, NEW token, NEW flow \in Live(token, authTime)
    PROVE  /\ token \in DOMAIN pending /\ flow # NoFlow
           /\ \E f \in initiated : f.flow = flow /\ f.flow.token = token /\ authTime < f.expires
<1>1. token \in DOMAIN pending /\ flow = pending[token].flow /\ pending[token].expiresAt > authTime
  BY DEF Live
<1>2. PICK f \in initiated : f.flow.token = token /\ pending[token] = [flow |-> f.flow, expiresAt |-> f.expires]
  BY <1>1 DEF FlowInv, FlowsStored
<1>3. f.flow = flow /\ f.expires > authTime /\ f.expires \in Nat /\ authTime \in Nat /\ f.flow.token >= 1
  BY <1>1, <1>2 DEF FlowInv, FlowsSound
<1>4. flow # NoFlow
  <2>1. NoFlow.token = 0
    BY DEF NoFlow
  <2> QED BY <1>3, <2>1
<1> QED BY <1>1, <1>2, <1>3, <1>4

\* A token of a flow that is not live expired, or some callback took it.
LEMMA NotLive ==
    ASSUME FlowInv, NEW f \in initiated, Live(f.flow.token, authTime) = {}
    PROVE  authTime >= f.expires \/ \E d \in Callbacks : callback[d].token = f.flow.token
<1>1. f.expires \in Nat /\ authTime \in Nat
  BY DEF FlowInv, FlowsSound
<1>2. CASE f.flow.token \in DOMAIN pending
  <2>1. PICK g \in initiated : g.flow.token = f.flow.token
           /\ pending[f.flow.token] = [flow |-> g.flow, expiresAt |-> g.expires]
    BY <1>2 DEF FlowInv, FlowsStored
  <2>2. g = f
    BY <2>1 DEF FlowInv, FlowsSound
  <2>3. ~ (pending[f.flow.token].expiresAt > authTime)
    BY <1>2 DEF Live
  <2> QED BY <1>1, <2>1, <2>2, <2>3
<1>3. CASE f.flow.token \notin DOMAIN pending
  BY <1>3 DEF FlowInv, FlowsStored
<1> QED BY <1>2, <1>3

\* A callback takes the token, whether it gets on or not; what the others hold stays theirs.
LEMMA ReceiveStep ==
    ASSUME FlowInv, NEW c \in Callbacks, NEW f0 \in initiated, NEW code, NEW state,
           ReceiveCallback(c, f0.flow.token, code, state)
    PROVE  FlowInv'
<1> USE DEF FlowInv
<1> DEFINE token == f0.flow.token
           found == Live(token, authTime)
           r == [IdleCallback EXCEPT !.token = token, !.code = code, !.at = authTime]
           flow == CHOOSE x \in found : TRUE
           next == IF found = {} THEN Refuse(r, "unknown")
                   ELSE IF code = 0 THEN Refuse(r, "missing code")
                   ELSE IF \A x \in found : x.state # state THEN Refuse(r, "state mismatch")
                   ELSE [r EXCEPT !.stage = "exchange", !.flow = flow]
<1>1. /\ callback[c].stage = "idle" /\ pending' = Remove(token)
      /\ callback' = [callback EXCEPT ![c] = next] /\ UNCHANGED <<initiated, codes, authTime>>
  BY DEF ReceiveCallback, Consumed
<1>2. /\ DOMAIN next = CallbackFields /\ next.token = token /\ next.at = authTime
      /\ \/ found = {} /\ next.flow = NoFlow /\ next.stage = "done" /\ next.result = "unknown"
         \/ next.flow = NoFlow /\ next.stage = "done" /\ next.result \in {"missing code", "state mismatch"}
         \/ found # {} /\ next.flow = flow /\ next.stage = "exchange" /\ next.result = "none"
  <2> HIDE DEF found, flow, token
  <2>1. /\ r.token = token /\ r.at = authTime /\ r.flow = NoFlow /\ r.result = "none" /\ DOMAIN r = CallbackFields
    BY DEF IdleCallback, CallbackFields
  <2>2. \A reason : /\ Refuse(r, reason).token = token /\ Refuse(r, reason).at = authTime
                    /\ Refuse(r, reason).flow = NoFlow /\ Refuse(r, reason).result = reason
                    /\ Refuse(r, reason).stage = "done" /\ DOMAIN Refuse(r, reason) = CallbackFields
    BY <2>1 DEF Refuse, IdleCallback, CallbackFields
  <2>3. \A x : /\ [r EXCEPT !.stage = "exchange", !.flow = x].token = token
               /\ [r EXCEPT !.stage = "exchange", !.flow = x].at = authTime
               /\ [r EXCEPT !.stage = "exchange", !.flow = x].flow = x
               /\ [r EXCEPT !.stage = "exchange", !.flow = x].result = "none"
               /\ [r EXCEPT !.stage = "exchange", !.flow = x].stage = "exchange"
               /\ DOMAIN [r EXCEPT !.stage = "exchange", !.flow = x] = CallbackFields
    BY <2>1 DEF IdleCallback, CallbackFields
  <2> HIDE DEF r
  <2> QED BY <2>2, <2>3
<1>3. /\ callback' = [q \in Callbacks |-> callback'[q]] /\ callback'[c] = next
      /\ \A q \in Callbacks \ {c} : callback'[q] = callback[q]
  BY <1>1 DEF CallbacksSound
<1>4. /\ callback[c].token = 0 /\ callback[c].flow = NoFlow
  <2>1. callback[c] = IdleCallback
    BY <1>1 DEF CallbacksSound
  <2>2. IdleCallback.token = 0 /\ IdleCallback.flow = NoFlow
    BY ONLY TRUE DEF IdleCallback
  <2> QED BY ONLY <2>1, <2>2
<1>5. token >= 1 /\ authTime \in Nat /\ token # 0
  BY DEF FlowsSound
<1>6. next.flow # NoFlow =>
        /\ token \in DOMAIN pending
        /\ \E f \in initiated : f.flow = next.flow /\ f.flow.token = token /\ authTime < f.expires
  <2>1. found # {} => flow \in found
    OBVIOUS
  <2>2. ASSUME NEW x \in found
        PROVE  /\ token \in DOMAIN pending
               /\ \E f \in initiated : f.flow = x /\ f.flow.token = token /\ authTime < f.expires
    BY LiveIsInitiated
  <2> HIDE DEF flow, next, found, token
  <2> QED BY <1>2, <2>1, <2>2
<1>7. DOMAIN pending' = DOMAIN pending \ {token} /\ \A t \in DOMAIN pending \ {token} : pending'[t] = pending[t]
  BY <1>1, RemoveFacts
<1>8. found = {} => authTime >= f0.expires \/ \E d \in Callbacks : callback[d].token = token
  BY NotLive
<1> HIDE DEF next, found, flow, r, token
<1>9. FlowsSound'
  BY <1>1 DEF FlowsSound
<1>10. FlowsStored'
  <2>1. \A t \in DOMAIN pending' : \E f \in initiated' :
          f.flow.token = t /\ pending'[t] = [flow |-> f.flow, expiresAt |-> f.expires]
    BY <1>1, <1>7 DEF FlowsStored
  <2>2. ASSUME NEW f \in initiated
        PROVE  \/ f.flow.token \in DOMAIN pending'
               \/ authTime' >= f.expires
               \/ \E q \in Callbacks : callback'[q].token = f.flow.token
    <3>1. CASE f.flow.token = token
      BY <1>2, <1>3, <3>1
    <3>2. CASE f.flow.token # token
      <4>1. f.flow.token # 0
        BY DEF FlowsSound
      <4>2. \A q \in Callbacks : callback[q].token = f.flow.token => callback'[q].token = f.flow.token
        BY <1>3, <1>4, <4>1
      <4> QED BY <1>1, <1>7, <3>2, <4>2 DEF FlowsStored
    <3> QED BY <3>1, <3>2
  <2> QED BY <1>1, <2>1, <2>2 DEF FlowsStored
<1>11. ASSUME NEW q \in Callbacks
       PROVE  /\ DOMAIN callback'[q] = CallbackFields /\ callback'[q].at \in Nat
              /\ callback'[q].stage = "idle" => callback'[q] = IdleCallback
              /\ callback'[q].stage = "exchange" => callback'[q].flow # NoFlow /\ callback'[q].result = "none"
              /\ callback'[q].flow # NoFlow => Holding(q)'
              /\ callback'[q].result = "valid" => Redeemed(q)'
              /\ callback'[q].result = "unknown" => Unknown(q)'
  <2>1. CASE q = c
    <3>1. next.flow # NoFlow => Holding(q)'
      BY <1>1, <1>2, <1>3, <1>6, <1>7, <2>1 DEF Holding
    <3>2. next.result = "unknown" => Unknown(q)'
      <4> SUFFICES ASSUME next.result = "unknown" PROVE Unknown(q)'
        OBVIOUS
      <4>1. authTime >= f0.expires \/ \E d \in Callbacks : callback[d].token = token
        BY <1>2, <1>8
      <4>2. authTime >= f0.expires \/ \E d \in Callbacks \ {c} : callback'[d].token = token
        BY <1>3, <1>4, <1>5, <4>1
      <4>3. f0.flow.token = token
        BY DEF token
      <4> QED BY <1>1, <1>2, <1>3, <2>1, <4>2, <4>3 DEF Unknown
    <3>3. next.stage = "exchange" => next.flow # NoFlow
      <4>1. found # {} => flow \in found /\ flow # NoFlow
        <5>1. found # {} => flow \in found
          BY DEF flow
        <5> QED BY <5>1, LiveIsInitiated DEF found
      <4> QED BY <1>2, <4>1
    <3> QED BY <1>2, <1>3, <1>5, <2>1, <3>1, <3>2, <3>3
  <2>2. CASE q # c
    <3>1. callback'[q] = callback[q]
      BY <1>3, <2>2
    <3>2. Holding(q) => Holding(q)'
      BY <1>1, <1>7, <3>1 DEF Holding
    <3>3. Redeemed(q) => Redeemed(q)'
      BY <1>1, <3>1 DEF Redeemed
    <3>4. Unknown(q) => Unknown(q)'
      <4> SUFFICES ASSUME Unknown(q) PROVE Unknown(q)'
        OBVIOUS
      <4>1. PICK f \in initiated : f.flow.token = callback[q].token
               /\ (callback[q].at >= f.expires \/ \E d \in Callbacks \ {q} : callback[d].token = callback[q].token)
        BY DEF Unknown
      <4>2. f.flow.token # 0
        BY DEF FlowsSound
      <4>3. \A d \in Callbacks : callback[d].token = callback[q].token => callback'[d].token = callback[d].token
        BY <1>3, <1>4, <4>1, <4>2
      <4> QED BY <1>1, <3>1, <4>1, <4>3 DEF Unknown
    <3> QED BY <3>1, <3>2, <3>3, <3>4 DEF CallbacksSound
  <2> QED BY <2>1, <2>2
<1>12. ASSUME NEW p \in Callbacks, NEW q \in Callbacks, p # q,
              callback'[p].flow # NoFlow, callback'[q].flow # NoFlow
       PROVE  callback'[p].token # callback'[q].token
  <2>1. \A x \in Callbacks \ {c} : callback[x].flow # NoFlow => callback[x].token \notin DOMAIN pending
    BY DEF CallbacksSound, Holding
  <2>2. CASE p = c
    BY <1>2, <1>3, <1>6, <1>12, <2>1, <2>2
  <2>3. CASE q = c
    BY <1>2, <1>3, <1>6, <1>12, <2>1, <2>3
  <2>4. CASE p # c /\ q # c
    BY <1>3, <1>12, <2>4 DEF CallbacksSound
  <2> QED BY <2>2, <2>3, <2>4
<1>13. CallbacksSound'
  BY <1>3, <1>11, <1>12 DEF CallbacksSound
<1>14. CodesSound'
  BY <1>1 DEF CodesSound
<1> QED BY <1>9, <1>10, <1>13, <1>14

\* A code is redeemed for the flow whose challenge it carries.
LEMMA ExchangeStep ==
    ASSUME FlowInv, NEW c \in Callbacks, NEW answer, ExchangeCode(c, answer)
    PROVE  FlowInv'
<1> USE DEF FlowInv
<1> DEFINE r == callback[c]
           redeemed == {k \in codes : Redeemable(k, r)}
           one == CHOOSE k \in redeemed : TRUE
           failed == Refuse(r, "exchange failed")
           valid == [Refuse(r, "valid") EXCEPT !.agent = r.flow.agent, !.scopes = grantedScopesOf(one.scope, r.flow.scopes)]
           next == IF answer # "arrives" \/ redeemed = {} THEN failed ELSE valid
<1>1. /\ r.stage = "exchange" /\ callback' = [callback EXCEPT ![c] = next]
      /\ codes' = IF answer = "refused" THEN codes
                  ELSE (codes \ redeemed) \cup {[k EXCEPT !.redeemed = TRUE] : k \in redeemed}
      /\ UNCHANGED <<pending, initiated, authTime>>
  BY DEF ExchangeCode
<1>2. r.flow # NoFlow /\ Holding(c) /\ DOMAIN r = CallbackFields
  BY <1>1 DEF CallbacksSound
<1>3. \A k \in codes : k.redeemed => k \in codes'
  BY <1>1 DEF Redeemable
<1>4. /\ failed.flow = r.flow /\ failed.token = r.token /\ failed.at = r.at /\ failed.stage = "done"
      /\ failed.result = "exchange failed" /\ DOMAIN failed = CallbackFields
  BY <1>2 DEF Refuse, CallbackFields, IdleCallback
<1>5. /\ valid.flow = r.flow /\ valid.token = r.token /\ valid.at = r.at /\ valid.stage = "done"
      /\ valid.result = "valid" /\ DOMAIN valid = CallbackFields /\ valid.agent = r.flow.agent
      /\ valid.scopes = grantedScopesOf(one.scope, r.flow.scopes)
  <2> HIDE DEF one
  <2> QED BY <1>2 DEF Refuse, CallbackFields, IdleCallback
<1> HIDE DEF failed, valid
<1>6. /\ next.flow = r.flow /\ next.token = r.token /\ next.at = r.at /\ next.stage = "done"
      /\ next.result \in {"exchange failed", "valid"} /\ DOMAIN next = CallbackFields
  BY <1>4, <1>5
<1>7. /\ callback' = [q \in Callbacks |-> callback'[q]] /\ callback'[c] = next
      /\ \A q \in Callbacks \ {c} : callback'[q] = callback[q]
  BY <1>1 DEF CallbacksSound
<1>8. next.result = "valid" => Redeemed(c)'
  <2> SUFFICES ASSUME next.result = "valid" PROVE Redeemed(c)'
    OBVIOUS
  <2>1. answer = "arrives" /\ redeemed # {} /\ next = valid
    BY <1>4
  <2>2. one \in redeemed
    BY <2>1
  <2> DEFINE used == [one EXCEPT !.redeemed = TRUE]
  <2>3. used \in codes'
    <3>1. codes' = (codes \ redeemed) \cup {[k EXCEPT !.redeemed = TRUE] : k \in redeemed}
      BY <1>1, <2>1
    <3> HIDE DEF redeemed, one
    <3> QED BY <2>2, <3>1
  <2>4. PICK f \in initiated : f.flow = r.flow /\ f.flow.token = r.token /\ r.at < f.expires
    BY <1>2 DEF Holding
  <2>5. one.challenge = f.url.challenge
    BY <2>2, <2>4 DEF Redeemable, verifyS256Challenge, FlowsSound
  <2>6. used.challenge = one.challenge /\ used.scope = one.scope /\ used.redeemed
    BY <2>2 DEF CodesSound, CodeFields
  <2> HIDE DEF used, one
  <2>7. next.scopes = IF used.scope = {} THEN f.flow.scopes ELSE UNION used.scope
    BY <1>5, <2>1, <2>4, <2>6 DEF grantedScopesOf
  <2>8. callback'[c] = next /\ next.token = r.token /\ next.at = r.at /\ next.agent = f.flow.agent
    BY <1>5, <1>7, <2>1, <2>4
  <2>9. f \in initiated' /\ used.challenge = f.url.challenge
    BY <1>1, <2>5, <2>6
  <2> HIDE DEF next, r
  <2> QED BY <2>3, <2>4, <2>6, <2>7, <2>8, <2>9 DEF Redeemed
<1>14. CodesSound'
  <2>1. \A k \in redeemed : DOMAIN [k EXCEPT !.redeemed = TRUE] = DOMAIN k /\ k \in codes
    OBVIOUS
  <2>2. \A k \in codes' : k \in codes \/ \E x \in redeemed : k = [x EXCEPT !.redeemed = TRUE]
    BY <1>1
  <2> HIDE DEF redeemed
  <2> QED BY <2>1, <2>2 DEF CodesSound
<1> HIDE DEF next, redeemed, one
<1>9. \A q \in Callbacks : callback'[q].flow = callback[q].flow /\ callback'[q].token = callback[q].token
                           /\ callback'[q].at = callback[q].at
  BY <1>6, <1>7
<1>10. FlowsSound' /\ FlowsStored'
  BY <1>1, <1>9 DEF FlowsSound, FlowsStored
<1>11. \A q \in Callbacks : /\ Holding(q) => Holding(q)'
                            /\ Unknown(q) => Unknown(q)'
  BY <1>1, <1>9 DEF Holding, Unknown
<1>12. \A q \in Callbacks \ {c} : Redeemed(q) => Redeemed(q)'
  <2> SUFFICES ASSUME NEW q \in Callbacks \ {c}, Redeemed(q) PROVE Redeemed(q)'
    OBVIOUS
  <2>1. callback'[q] = callback[q]
    BY <1>7
  <2> QED BY <1>1, <1>3, <2>1 DEF Redeemed
<1>13. CallbacksSound'
  <2>1. ASSUME NEW q \in Callbacks
        PROVE  /\ DOMAIN callback'[q] = CallbackFields /\ callback'[q].at \in Nat
               /\ callback'[q].stage = "idle" => callback'[q] = IdleCallback
               /\ callback'[q].stage = "exchange" => callback'[q].flow # NoFlow /\ callback'[q].result = "none"
               /\ callback'[q].flow # NoFlow => Holding(q)'
               /\ callback'[q].result = "valid" => Redeemed(q)'
               /\ callback'[q].result = "unknown" => Unknown(q)'
    <3>1. CASE q = c
      BY <1>2, <1>6, <1>7, <1>8, <1>9, <1>11, <3>1 DEF CallbacksSound
    <3>2. CASE q # c
      <4>1. callback'[q] = callback[q]
        BY <1>7, <3>2
      <4> QED BY <1>11, <1>12, <3>2, <4>1 DEF CallbacksSound
    <3> QED BY <3>1, <3>2
  <2> QED BY <1>7, <1>9, <2>1 DEF CallbacksSound
<1> QED BY <1>10, <1>13, <1>14

-----------------------------------------------------------------------------
(* Resume tokens.                                                          *)

\* In the store the order is that of the expiries, and nothing had expired when it was swept.
StoreOrdered ==
    /\ created.swept <= authTime
    /\ \A i \in DOMAIN resumes : /\ resumes[i] \in created.tokens
                               /\ created.swept <= resumes[i].expiresAt
                               /\ resumes[i].expiresAt <= authTime + StoreTtl
    /\ \A i, k \in DOMAIN resumes : i <= k => resumes[i].expiresAt <= resumes[k].expiresAt

\* A token is given out once, and is in the store until it is fulfilled or expires.
TokensKept ==
    /\ \A e \in created.tokens : e.token \in 1..Cardinality(created.tokens)
    /\ \A e, f \in created.tokens : e.token = f.token => e = f
    /\ \A e \in created.tokens :
          \/ e.token \in created.fulfilled
          \/ authTime > e.expiresAt
          \/ \E i \in DOMAIN resumes : resumes[i] = e

\* What a handshake was told does not outlast its token.
ToldRightly(r) ==
    /\ r.told # 0 => r.stage = "done"
    /\ r.told # 0 /\ r.exact =>
          \E e \in created.tokens :
             e.token = r.token /\ (e.token \in created.fulfilled \/ r.told * TicksPerSecond <= e.expiresAt)

TokenInv == StoreOrdered /\ TokensKept /\ \A h \in Handshakes : ToldRightly(handshake[h])

\* There are no tokens yet.
LEMMA TokenInit == AuthInit => TokenInv
<1> SUFFICES ASSUME AuthInit PROVE TokenInv
  OBVIOUS
<1>1. DOMAIN resumes = {} /\ created.tokens = {} /\ created.swept = 0 /\ authTime = 0
  BY DEF AuthInit
<1>2. StoreOrdered /\ TokensKept
  BY <1>1 DEF StoreOrdered, TokensKept
<1>3. \A h \in Handshakes : handshake[h].told = 0
  BY DEF AuthInit, IdleHandshake
<1> QED BY <1>2, <1>3 DEF TokenInv, ToldRightly

\* Whole seconds, rounded down, do not outlast what they were made of.
LEMMA WholeSeconds ==
    ASSUME NEW t \in Nat
    PROVE  /\ t \div TicksPerSecond \in Nat /\ t * TicksPerSecond \in Nat
           /\ (t \div TicksPerSecond) * TicksPerSecond \in Nat /\ (t \div TicksPerSecond) * TicksPerSecond <= t
<1> DEFINE d == t \div TicksPerSecond
<1>1. TicksPerSecond \in Int /\ TicksPerSecond > 0
  BY AuthAssumption
<1>2. d \in Int /\ d >= 0 /\ TicksPerSecond * d <= t
  BY <1>1
<1>3. d * TicksPerSecond = TicksPerSecond * d
  BY <1>1, <1>2
<1>4. \A x \in Int : x >= 0 => x * TicksPerSecond \in Int /\ x * TicksPerSecond >= 0
  BY <1>1
<1> QED BY <1>2, <1>3, <1>4

\* The times and tokens of the store are natural numbers.
LEMMA TokensTyped ==
    ASSUME HandshakesTyped
    PROVE  /\ \A e \in created.tokens : e.token \in Nat /\ e.expiresAt \in Nat
           /\ \A i \in DOMAIN resumes : resumes[i] \in Token /\ resumes[i].token \in Nat /\ resumes[i].expiresAt \in Nat
           /\ created.swept \in Nat /\ authTime \in Nat /\ StoreTtl \in Nat /\ AdvertisedTtl \in Nat
<1>1. \A i \in DOMAIN resumes : resumes[i] \in Token
  BY DEF HandshakesTyped, StoresTyped
<1> QED BY <1>1, AuthAssumption DEF HandshakesTyped, StoresTyped, Token

\* What was told stays right while tokens and fulfilments only grow.
LEMMA ToldStays ==
    ASSUME NEW r, ToldRightly(r), created.tokens \subseteq created'.tokens, created.fulfilled \subseteq created'.fulfilled,
           NEW q, q.told = r.told, q.exact = r.exact, r.told # 0 => q.token = r.token, r.stage = "done" => q.stage = "done"
    PROVE  /\ q.told # 0 => q.stage = "done"
           /\ q.told # 0 /\ q.exact =>
                \E e \in created'.tokens : e.token = q.token
                                          /\ (e.token \in created'.fulfilled \/ q.told * TicksPerSecond <= e.expiresAt)
BY DEF ToldRightly

\* The steps of a handshake and of the services that leave the store alone.
LEMMA HandshakesAside ==
    ASSUME HandshakesTyped, TokenInv, UNCHANGED <<resumes, created, authTime>>,
           \A h \in Handshakes :
              /\ handshake'[h].told = handshake[h].told /\ handshake'[h].exact = handshake[h].exact
              /\ handshake'[h].token = handshake[h].token
              /\ handshake[h].stage = "done" => handshake'[h].stage = "done"
    PROVE  TokenInv'
<1>1. StoreOrdered' /\ TokensKept'
  BY DEF TokenInv, StoreOrdered, TokensKept
<1>2. \A h \in Handshakes : ToldRightly(handshake[h])'
  BY ToldStays DEF TokenInv, ToldRightly
<1> QED BY <1>1, <1>2 DEF TokenInv

\* Time may expire a token, which its premise allows.
LEMMA TickKeeps ==
    ASSUME HandshakesTyped, TokenInv, AuthTick
    PROVE  TokenInv'
<1>1. authTime' = authTime + 1 /\ UNCHANGED <<resumes, created, handshake>>
  BY DEF AuthTick
<1>2. StoreOrdered'
  BY <1>1, TokensTyped DEF TokenInv, StoreOrdered
<1>3. TokensKept'
  BY <1>1, TokensTyped DEF TokenInv, TokensKept
<1> QED BY <1>1, <1>2, <1>3 DEF TokenInv, ToldRightly

\* A deletion of a token that is fulfilled, or that has expired.
LEMMA DropKeeps ==
    ASSUME HandshakesTyped, TokenInv, NEW e \in created.tokens, \E i \in DOMAIN resumes : resumes[i].token = e.token,
           resumes' = WithoutToken(e.token), UNCHANGED <<handshake, authTime>>,
           created'.tokens = created.tokens, created'.swept = created.swept, created.fulfilled \subseteq created'.fulfilled,
           e.token \in created'.fulfilled \/ authTime > e.expiresAt
    PROVE  TokenInv'
<1> USE DEF TokenInv
<1>1. resumes \in Seq(Token)
  BY DEF HandshakesTyped, StoresTyped
<1>2. PICK k \in DOMAIN resumes : /\ resumes[k].token = e.token /\ resumes' \in Seq(Token)
                                 /\ Len(resumes') = Len(resumes) - 1
                                 /\ \A i \in 1..Len(resumes') : resumes'[i] = resumes[IF i < k THEN i ELSE i + 1]
  BY <1>1, DropFacts
<1>3. PICK n \in Nat : n = Len(resumes) /\ DOMAIN resumes = 1..n
  BY <1>1
<1>4. DOMAIN resumes' = 1..(n - 1) /\ k \in 1..n
  BY <1>2, <1>3
<1>5. \A i \in 1..(n - 1) : \E j \in 1..n : resumes'[i] = resumes[j] /\ j = IF i < k THEN i ELSE i + 1
  BY <1>2, <1>3, <1>4
<1>6. \A j \in 1..n \ {k} : \E i \in 1..(n - 1) : resumes'[i] = resumes[j]
  <2> SUFFICES ASSUME NEW j \in 1..n \ {k} PROVE \E i \in 1..(n - 1) : resumes'[i] = resumes[j]
    OBVIOUS
  <2>1. CASE j < k
    <3>1. j \in 1..(n - 1) /\ resumes'[j] = resumes[j]
      BY <1>2, <1>3, <1>4, <2>1
    <3> QED BY <3>1
  <2>2. CASE j > k
    <3>1. j - 1 \in 1..(n - 1) /\ ~ (j - 1 < k) /\ (j - 1) + 1 = j
      BY <1>3, <1>4, <2>2
    <3>2. resumes'[j - 1] = resumes[j]
      BY <1>2, <1>3, <1>4, <3>1
    <3> QED BY <3>1, <3>2
  <2> QED BY <1>4, <2>1, <2>2
<1>7. StoreOrdered'
  <2>1. \A i \in DOMAIN resumes' : /\ resumes'[i] \in created'.tokens
                                 /\ created'.swept <= resumes'[i].expiresAt
                                 /\ resumes'[i].expiresAt <= authTime' + StoreTtl
    <3>1. \A i \in DOMAIN resumes' : \E j \in DOMAIN resumes : resumes'[i] = resumes[j]
      BY <1>3, <1>4, <1>5
    <3> QED BY <3>1 DEF StoreOrdered
  <2>2. ASSUME NEW i \in DOMAIN resumes', NEW j \in DOMAIN resumes', i <= j
        PROVE  resumes'[i].expiresAt <= resumes'[j].expiresAt
    <3>1. PICK a \in 1..n : resumes'[i] = resumes[a] /\ a = IF i < k THEN i ELSE i + 1
      BY <1>4, <1>5
    <3>2. PICK b \in 1..n : resumes'[j] = resumes[b] /\ b = IF j < k THEN j ELSE j + 1
      BY <1>4, <1>5
    <3>3. a <= b
      BY <1>4, <2>2, <3>1, <3>2
    <3> QED BY <1>3, <3>1, <3>2, <3>3 DEF StoreOrdered
  <2>3. created'.swept <= authTime'
    BY DEF StoreOrdered
  <2> QED BY <2>1, <2>2, <2>3 DEF StoreOrdered
<1>8. resumes[k] = e
  BY <1>2 DEF StoreOrdered, TokensKept
<1>9. TokensKept'
  <2>1. ASSUME NEW x \in created'.tokens
        PROVE  \/ x.token \in created'.fulfilled
               \/ authTime' > x.expiresAt
               \/ \E i \in DOMAIN resumes' : resumes'[i] = x
    <3>1. CASE x = e
      BY <3>1
    <3>2. CASE x # e
      <4>1. \A i \in DOMAIN resumes : resumes[i] = x => i # k
        BY <1>8, <3>2
      <4>2. CASE \E j \in DOMAIN resumes : resumes[j] = x
        <5>1. PICK j \in 1..n \ {k} : resumes[j] = x
          BY <1>3, <4>1, <4>2
        <5>2. PICK i \in 1..(n - 1) : resumes'[i] = resumes[j]
          BY <1>6
        <5> QED BY <1>4, <5>1, <5>2
      <4>3. CASE ~ \E j \in DOMAIN resumes : resumes[j] = x
        BY <4>3 DEF TokensKept
      <4> QED BY <4>2, <4>3
    <3> QED BY <3>1, <3>2
  <2> QED BY <2>1 DEF TokensKept
<1>10. \A h \in Handshakes : ToldRightly(handshake[h])'
  BY ToldStays DEF ToldRightly
<1> QED BY <1>7, <1>9, <1>10

\* A read drops a token only if it expired.
LEMMA ResumeGetKeeps ==
    ASSUME HandshakesTyped, TokenInv, NEW e \in created.tokens, ResumeGet(e.token)
    PROVE  TokenInv'
<1>1. UNCHANGED <<created, handshake, authTime>> /\ \E i \in DOMAIN resumes : resumes[i].token = e.token
  BY DEF ResumeGet
<1>2. CASE LiveToken(e.token) = {}
  <2>1. PICK i \in DOMAIN resumes : resumes[i].token = e.token
    BY <1>1
  <2>2. resumes[i] = e
    BY <2>1 DEF TokenInv, StoreOrdered, TokensKept
  <2>3. authTime > e.expiresAt
    BY <1>2, <2>1, <2>2, TokensTyped DEF LiveToken
  <2>4. resumes' = WithoutToken(e.token)
    BY <1>2 DEF ResumeGet
  <2> QED BY <1>1, <2>3, <2>4, DropKeeps
<1>3. CASE LiveToken(e.token) # {}
  <2>1. UNCHANGED resumes
    BY <1>3 DEF ResumeGet
  <2> QED BY <1>1, <2>1, HandshakesAside
<1> QED BY <1>2, <1>3

\* A fulfilled token is dropped, and remembered as fulfilled.
LEMMA FulfillKeeps ==
    ASSUME HandshakesTyped, TokenInv, NEW e \in created.tokens, fulfill(e.token)
    PROVE  TokenInv'
<1>1. /\ created'.tokens = created.tokens /\ created'.swept = created.swept
      /\ created'.fulfilled = created.fulfilled \cup {e.token}
  BY DEF fulfill, HandshakesTyped, StoresTyped
<1> QED BY <1>1, DropKeeps DEF fulfill

\* A new token goes to the end of what the sweep leaves.
LEMMA CreateKeeps ==
    ASSUME HandshakesTyped, TokenInv, NEW h \in Handshakes, CreateToken(h)
    PROVE  TokenInv'
<1> USE DEF TokenInv
<1> DEFINE c == Cardinality(created.tokens)
           minted == [token |-> c + 1, expiresAt |-> authTime + StoreTtl]
           g == sweepExpired(resumes, authTime)
           r == [handshake[h] EXCEPT !.stage = "tell", !.token = minted.token]
<1>1. /\ resumes' = Append(g, minted) /\ handshake[h].stage = "create" /\ handshake' = [handshake EXCEPT ![h] = r]
      /\ created' = [created EXCEPT !.tokens = @ \cup {minted}, !.swept = authTime] /\ UNCHANGED authTime
  BY DEF CreateToken
<1>2. /\ created'.tokens = created.tokens \cup {minted} /\ created'.swept = authTime
      /\ created'.fulfilled = created.fulfilled
  BY <1>1 DEF HandshakesTyped, StoresTyped
<1>3. c \in Nat /\ IsFiniteSet(created.tokens) /\ resumes \in Seq(Token)
  BY FS_CardinalityType DEF HandshakesTyped, StoresTyped
<1>4. \A e \in created.tokens : e.token \in 1..c
  BY DEF TokensKept
<1>5. minted.token = c + 1 /\ minted.expiresAt = authTime + StoreTtl /\ minted \notin created.tokens
      /\ \A e \in created.tokens : e.token # c + 1
  BY <1>3, <1>4
<1>6. /\ handshake[h] \in HandshakeType /\ r.told = handshake[h].told /\ r.exact = handshake[h].exact
  BY DEF HandshakesTyped, HandshakeType
<1> HIDE DEF minted, r
<1>7. Cardinality(created'.tokens) = c + 1
  BY <1>2, <1>3, <1>5, FS_AddElement
<1> HIDE DEF c
<1>8. PICK m \in 0..Len(resumes) :
                /\ g \in Seq(Token) /\ Len(g) = Len(resumes) - m
                /\ \A i \in 1..Len(g) : g[i] = resumes[i + m]
                /\ \A i \in 1..m : resumes[i].expiresAt < authTime
                /\ m < Len(resumes) => authTime <= resumes[m + 1].expiresAt
  BY <1>3, SweepFacts, TokensTyped
<1> HIDE DEF g
<1>9. PICK n \in Nat : n = Len(resumes) /\ DOMAIN resumes = 1..n
  BY <1>3
<1>10. PICK l \in Nat : l = n - m /\ Len(g) = l /\ DOMAIN resumes' = 1..(l + 1) /\ resumes'[l + 1] = minted
                       /\ \A i \in 1..l : resumes'[i] = resumes[i + m] /\ i + m \in 1..n
  BY <1>1, <1>8, <1>9
<1>11. \A i \in 1..l : /\ resumes'[i] = resumes[i + m] /\ resumes[i + m] \in created.tokens
                       /\ resumes[m + 1].expiresAt <= resumes[i + m].expiresAt
                       /\ resumes[i + m].expiresAt <= authTime + StoreTtl
                       /\ authTime <= resumes[i + m].expiresAt
  <2> SUFFICES ASSUME NEW i \in 1..l
               PROVE  /\ resumes'[i] = resumes[i + m] /\ resumes[i + m] \in created.tokens
                      /\ resumes[m + 1].expiresAt <= resumes[i + m].expiresAt
                      /\ resumes[i + m].expiresAt <= authTime + StoreTtl
                      /\ authTime <= resumes[i + m].expiresAt
    OBVIOUS
  <2>1. i + m \in 1..n /\ m + 1 \in 1..n /\ m + 1 <= i + m /\ m < Len(resumes)
    BY <1>8, <1>9, <1>10
  <2>2. /\ resumes[i + m] \in created.tokens /\ resumes[i + m].expiresAt <= authTime + StoreTtl
        /\ resumes[m + 1].expiresAt <= resumes[i + m].expiresAt
    BY <1>9, <2>1 DEF StoreOrdered
  <2>3. resumes[m + 1].expiresAt \in Nat /\ resumes[i + m].expiresAt \in Nat /\ authTime \in Nat
    BY <1>9, <2>1, TokensTyped
  <2>4. authTime <= resumes[m + 1].expiresAt
    BY <1>8, <2>1
  <2>5. authTime <= resumes[i + m].expiresAt
    BY ONLY <2>2, <2>3, <2>4
  <2>6. resumes'[i] = resumes[i + m]
    BY <1>10
  <2> QED BY ONLY <2>2, <2>5, <2>6
<1>12. StoreOrdered'
  <2>1. authTime \in Nat /\ StoreTtl \in Nat
    BY TokensTyped
  <2>2. ASSUME NEW i \in 1..(l + 1)
        PROVE  /\ resumes'[i] \in created'.tokens /\ authTime <= resumes'[i].expiresAt
               /\ resumes'[i].expiresAt <= authTime + StoreTtl
    <3>1. CASE i = l + 1
      BY <1>2, <1>5, <1>10, <2>1, <3>1
    <3>2. CASE i \in 1..l
      BY <1>2, <1>11, <3>2
    <3> QED BY <3>1, <3>2
  <2>3. ASSUME NEW i \in 1..(l + 1), NEW k \in 1..(l + 1), i <= k
        PROVE  resumes'[i].expiresAt <= resumes'[k].expiresAt
    <3>1. CASE k = l + 1
      BY <1>5, <1>10, <2>1, <2>2, <3>1
    <3>2. CASE k \in 1..l
      <4>1. i \in 1..l /\ i + m \in DOMAIN resumes /\ k + m \in DOMAIN resumes /\ i + m <= k + m
        BY <1>9, <1>10, <2>3, <3>2
      <4> QED BY <1>11, <3>2, <4>1 DEF StoreOrdered
    <3> QED BY <3>1, <3>2
  <2> QED BY <1>1, <1>2, <1>10, <2>1, <2>2, <2>3 DEF StoreOrdered
<1>13. TokensKept'
  <2>1. \A e \in created'.tokens : e.token \in 1..Cardinality(created'.tokens)
    BY <1>2, <1>3, <1>4, <1>5, <1>7
  <2>2. \A e, f \in created'.tokens : e.token = f.token => e = f
    BY <1>2, <1>5 DEF TokensKept
  <2>3. ASSUME NEW e \in created'.tokens
        PROVE  \/ e.token \in created'.fulfilled
               \/ authTime' > e.expiresAt
               \/ \E i \in DOMAIN resumes' : resumes'[i] = e
    <3>1. CASE e = minted
      BY <1>10, <3>1
    <3>2. CASE e \in created.tokens /\ \E j \in DOMAIN resumes : resumes[j] = e
      <4>1. PICK j \in 1..n : resumes[j] = e
        BY <1>9, <3>2
      <4>2. CASE j <= m
        <5>1. resumes[j].expiresAt < authTime
          BY <1>8, <4>2
        <5> QED BY <1>1, <3>2, <4>1, <5>1, TokensTyped
      <4>3. CASE j > m
        <5>1. j - m \in 1..l /\ (j - m) + m = j
          BY <1>8, <1>9, <1>10, <4>3
        <5>2. resumes'[j - m] = e /\ j - m \in DOMAIN resumes'
          BY <1>10, <4>1, <5>1
        <5> QED BY <5>2
      <4> QED BY <1>8, <4>2, <4>3
    <3>3. CASE e \in created.tokens /\ ~ \E j \in DOMAIN resumes : resumes[j] = e
      BY <1>1, <1>2, <3>3 DEF TokensKept
    <3> QED BY <1>2, <3>1, <3>2, <3>3
  <2> QED BY <2>1, <2>2, <2>3 DEF TokensKept
<1>14. \A q \in Handshakes : ToldRightly(handshake[q])'
  <2> SUFFICES ASSUME NEW q \in Handshakes PROVE ToldRightly(handshake[q])'
    OBVIOUS
  <2>1. CASE q = h
    <3>1. handshake[h].told = 0
      BY <1>1 DEF ToldRightly
    <3>2. handshake'[q].told = 0
      BY <1>1, <1>6, <2>1, <3>1 DEF HandshakesTyped
    <3> QED BY <3>2 DEF ToldRightly
  <2>2. CASE q # h
    <3>1. handshake'[q] = handshake[q]
      BY <1>1, <2>2 DEF HandshakesTyped
    <3> QED BY <1>2, <3>1, ToldStays DEF ToldRightly
  <2> QED BY <2>1, <2>2
<1> QED BY <1>12, <1>13, <1>14

\* The expiry told is that of the token, where the store could be asked.
LEMMA TellKeeps ==
    ASSUME HandshakesTyped, TokenInv, NEW h \in Handshakes, NEW answer, TellToken(h, answer)
    PROVE  TokenInv'
<1> USE DEF TokenInv
<1> DEFINE token == handshake[h].token
           expiry == storedExpiry(token, answer)
           instant == IF expiry = {} THEN authTime + AdvertisedTtl ELSE CHOOSE e \in expiry : TRUE
           exact == (answer = "answers" /\ \E e \in created.tokens : e.token = token /\ e.expiresAt > authTime)
           r == [handshake[h] EXCEPT !.stage = "done", !.result = "needs_authorization",
                    !.told = instant \div TicksPerSecond, !.exact = exact]
<1>1. handshake' = [handshake EXCEPT ![h] = r] /\ UNCHANGED <<resumes, created, authTime>>
  BY DEF TellToken
<1>2. /\ r.stage = "done" /\ r.told = instant \div TicksPerSecond /\ r.exact = exact /\ r.token = token
  <2>1. handshake[h] \in HandshakeType
    BY DEF HandshakesTyped
  <2> HIDE DEF instant, exact
  <2> QED BY <2>1 DEF HandshakeType
<1>3. ASSUME exact
      PROVE  \E e \in created.tokens :
                e.token = token /\ (e.token \in created.fulfilled \/ r.told * TicksPerSecond <= e.expiresAt)
  <2>1. PICK e \in created.tokens : e.token = token /\ e.expiresAt > authTime
    BY <1>3
  <2>2. e.expiresAt \in Nat /\ authTime \in Nat
    BY TokensTyped
  <2>3. CASE e.token \in created.fulfilled
    BY <2>1, <2>3
  <2>4. CASE e.token \notin created.fulfilled
    <3>1. PICK i \in DOMAIN resumes : resumes[i] = e
      BY <2>1, <2>2, <2>4 DEF TokensKept
    <3>2. expiry = {resumes[j].expiresAt : j \in {k \in LiveToken(token) : resumes[k].expiresAt > authTime}}
      BY <1>3 DEF storedExpiry
    <3>3. i \in LiveToken(token)
      BY <2>1, <2>2, <3>1 DEF LiveToken
    <3>4. \A x \in expiry : x = e.expiresAt
      <4>1. \A j \in LiveToken(token) : resumes[j] = e
        BY <2>1 DEF LiveToken, StoreOrdered, TokensKept
      <4> QED BY <3>2, <4>1
    <3>5. e.expiresAt \in expiry
      BY <2>1, <3>1, <3>2, <3>3
    <3> HIDE DEF expiry
    <3>6. instant = e.expiresAt
      BY <3>4, <3>5
    <3> QED BY <1>2, <2>1, <2>2, <3>6, WholeSeconds
  <2> QED BY <2>3, <2>4
<1> HIDE DEF r, exact, instant, expiry
<1>4. StoreOrdered' /\ TokensKept'
  BY <1>1 DEF StoreOrdered, TokensKept
<1>5. \A q \in Handshakes : ToldRightly(handshake[q])'
  <2> SUFFICES ASSUME NEW q \in Handshakes PROVE ToldRightly(handshake[q])'
    OBVIOUS
  <2>1. CASE q = h
    <3>1. handshake'[q] = r
      BY <1>1, <2>1 DEF HandshakesTyped
    <3> QED BY <1>1, <1>2, <1>3, <3>1 DEF ToldRightly
  <2>2. CASE q # h
    <3>1. handshake'[q] = handshake[q]
      BY <1>1, <2>2 DEF HandshakesTyped
    <3> QED BY <1>1, <3>1, ToldStays DEF ToldRightly
  <2> QED BY <2>1, <2>2
<1> QED BY <1>4, <1>5

-----------------------------------------------------------------------------
(* The theorems.                                                           *)

\* Every action keeps what is known of flows and callbacks.
LEMMA FlowStep ==
    ASSUME FlowInv, [AuthNext]_authVars
    PROVE  FlowInv'
<1>1. authTime \in Nat
  BY DEF FlowInv, FlowsSound
<1>2. CASE UNCHANGED authVars
  BY <1>1, <1>2, FlowsUntouched DEF authVars
<1>3. ASSUME NEW p \in aset.flows, InitiateFlow(p)  PROVE FlowInv'
  BY <1>3, InitiateStep
<1>4. ASSUME NEW f \in initiated, NEW s \in aset.scopes, Consent(f, s)  PROVE FlowInv'
  BY <1>4, ConsentStep
<1>5. ASSUME NEW c \in Callbacks, NEW f \in initiated, NEW k, NEW s, ReceiveCallback(c, f.flow.token, k, s)
      PROVE  FlowInv'
  BY <1>5, ReceiveStep
<1>6. ASSUME NEW c \in Callbacks, NEW a, ExchangeCode(c, a)  PROVE FlowInv'
  BY <1>6, ExchangeStep
<1>7. ASSUME NEW t \in DOMAIN pending, PeekFlow(t)  PROVE FlowInv'
  BY <1>7, PeekStep
<1>8. CASE CleanupFlows
  BY <1>8, CleanupStep
<1>9. ASSUME UNCHANGED <<pending, initiated, codes, callback, authTime>>  PROVE FlowInv'
  BY <1>1, <1>9, FlowsUntouched
<1>10. CASE AuthTick
  <2>1. authTime' \in Nat /\ authTime' >= authTime /\ UNCHANGED <<pending, initiated, codes, callback>>
    BY <1>1, <1>10 DEF AuthTick
  <2> QED BY <2>1, FlowsUntouched
<1> QED
  BY <1>2, <1>3, <1>4, <1>5, <1>6, <1>7, <1>8, <1>9, <1>10
     DEF AuthNext, Ask, FetchReputation, VerifyDelegation, TellToken, CreateToken, ResumeGet, fulfill, StandingChanges

\* What a step of a handshake leaves of the record, where it neither creates a token nor tells it.
LEMMA AsideFacts ==
    ASSUME HandshakesTyped, NEW h \in Handshakes, NEW r,
           r.told = handshake[h].told, r.exact = handshake[h].exact, r.token = handshake[h].token,
           handshake[h].stage # "done", handshake' = [handshake EXCEPT ![h] = r]
    PROVE  \A q \in Handshakes :
              /\ handshake'[q].told = handshake[q].told /\ handshake'[q].exact = handshake[q].exact
              /\ handshake'[q].token = handshake[q].token
              /\ handshake[q].stage = "done" => handshake'[q].stage = "done"
BY DEF HandshakesTyped

\* Every action keeps what is known of tokens, and what was told of them.
LEMMA TokenStep ==
    ASSUME HandshakeInv, TokenInv, [AuthNext]_authVars
    PROVE  TokenInv'
<1> USE DEF HandshakeInv
<1>1. ASSUME UNCHANGED <<resumes, created, authTime, handshake>>  PROVE TokenInv'
  BY <1>1, HandshakesAside
<1>2. ASSUME NEW h \in aset.handshakes, Ask(h)  PROVE TokenInv'
  <2>1. h \in Handshakes /\ handshake[h] \in HandshakeType
    BY SettingTyped DEF HandshakesTyped
  <2>2. PICK r : /\ handshake' = [handshake EXCEPT ![h] = r]
                 /\ r = Observe([handshake[h] EXCEPT
                      !.stage = IF aset.service /\ aset.minScore # {} THEN "reputation" ELSE "delegation"], standing)
    BY <1>2 DEF Ask
  <2>3. r.told = handshake[h].told /\ r.exact = handshake[h].exact /\ r.token = handshake[h].token
    BY <2>1, <2>2 DEF Observe, HandshakeType
  <2> QED BY <1>2, <2>1, <2>2, <2>3, AsideFacts, HandshakesAside DEF Ask
<1>3. ASSUME NEW h \in Handshakes, NEW a, FetchReputation(h, a)  PROVE TokenInv'
  <2> DEFINE r == Judge(handshake[h], fetchAgentReputation(a))
  <2>1. handshake[h] \in HandshakeType
    BY DEF HandshakesTyped
  <2>2. r.told = handshake[h].told /\ r.exact = handshake[h].exact /\ r.token = handshake[h].token
    BY <2>1 DEF Judge, HandshakeType
  <2>3. handshake' = [handshake EXCEPT ![h] = r]
    BY <1>3 DEF FetchReputation
  <2> HIDE DEF r
  <2> QED BY <1>3, <2>2, <2>3, AsideFacts, HandshakesAside DEF FetchReputation
<1>4. ASSUME NEW h \in Handshakes, NEW a, VerifyDelegation(h, a)  PROVE TokenInv'
  <2> DEFINE r == IF a = "answers" /\ standing.delegated
                  THEN [handshake[h] EXCEPT !.stage = "done", !.result = "authorized"]
                  ELSE [handshake[h] EXCEPT !.stage = "create"]
  <2>1. handshake[h] \in HandshakeType
    BY DEF HandshakesTyped
  <2>2. r.told = handshake[h].told /\ r.exact = handshake[h].exact /\ r.token = handshake[h].token
    BY <2>1 DEF HandshakeType
  <2>3. handshake' = [handshake EXCEPT ![h] = r]
    BY <1>4 DEF VerifyDelegation
  <2> HIDE DEF r
  <2> QED BY <1>4, <2>2, <2>3, AsideFacts, HandshakesAside DEF VerifyDelegation
<1>5. ASSUME NEW s, StandingChanges(s)  PROVE TokenInv'
  <2>1. \A q \in Handshakes :
              /\ handshake'[q].told = handshake[q].told /\ handshake'[q].exact = handshake[q].exact
              /\ handshake'[q].token = handshake[q].token
              /\ handshake[q].stage = "done" => handshake'[q].stage = "done"
    <3> SUFFICES ASSUME NEW q \in Handshakes
                 PROVE  /\ handshake'[q].told = handshake[q].told /\ handshake'[q].exact = handshake[q].exact
                        /\ handshake'[q].token = handshake[q].token
                        /\ handshake[q].stage = "done" => handshake'[q].stage = "done"
      OBVIOUS
    <3>1. handshake[q] \in HandshakeType
      BY DEF HandshakesTyped
    <3>2. handshake'[q] = IF handshake[q].stage \in {"idle", "done"} THEN handshake[q] ELSE Observe(handshake[q], s)
      BY <1>5 DEF StandingChanges
    <3> QED BY <3>1, <3>2 DEF Observe, HandshakeType
  <2> QED BY <1>5, <2>1, HandshakesAside DEF StandingChanges
<1>6. ASSUME NEW h \in Handshakes, CreateToken(h)  PROVE TokenInv'
  BY <1>6, CreateKeeps
<1>7. ASSUME NEW h \in Handshakes, NEW a, TellToken(h, a)  PROVE TokenInv'
  BY <1>7, TellKeeps
<1>8. ASSUME NEW e \in created.tokens, ResumeGet(e.token) \/ fulfill(e.token)  PROVE TokenInv'
  BY <1>8, ResumeGetKeeps, FulfillKeeps
<1>9. CASE AuthTick
  BY <1>9, TickKeeps
<1>10. CASE UNCHANGED authVars
  BY <1>1, <1>10 DEF authVars
<1> QED
  BY <1>1, <1>2, <1>3, <1>4, <1>5, <1>6, <1>7, <1>8, <1>9, <1>10
     DEF AuthNext, InitiateFlow, Consent, ReceiveCallback, ExchangeCode, PeekFlow, CleanupFlows

AuthInv == HandshakeInv /\ FlowInv /\ TokenInv

\* The three parts, of handshakes, flows and tokens, hold together.
THEOREM AuthInvariant == AuthSpec => []AuthInv
<1>1. AuthInit => AuthInv
  BY HandshakeInit, FlowInit, TokenInit DEF AuthInv
<1>2. AuthInv /\ [AuthNext]_authVars => AuthInv'
  BY HandshakeStep, FlowStep, TokenStep DEF AuthInv
<1> QED BY <1>1, <1>2, PTL DEF AuthSpec

\* Whoever is authorised earned it: however callbacks and handshakes interleave, services fail and
\* the agent's standing changes, a flow is redeemed by one callback at most, for the agent that
\* began it and with what the provider granted, and a handshake ends well only on merit.
THEOREM AuthorityIsEarned == AuthSpec => []AuthorizationEarned
<1>1. AuthInv => FlowRedeemedOnce
  <2> SUFFICES ASSUME AuthInv PROVE FlowRedeemedOnce
    OBVIOUS
  <2>1. CallbacksSound
    BY DEF AuthInv, FlowInv
  <2> QED BY <2>1 DEF CallbacksSound, Redeemed, FlowRedeemedOnce
<1>2. AuthInv => AuthorizedOnMerit
  BY DEF AuthInv, HandshakeInv, MeritNoted, AuthorizedOnMerit
<1> QED BY <1>1, <1>2, AuthInvariant, PTL DEF AuthorizationEarned

\* No pending flow and no resume token is lost before the end it was advertised with, and the sweep
\* that stops at the first live token leaves none that had expired.
THEOREM AdvertisementsAreKept == AuthSpec => []KeptAsAdvertised
<1>1. AuthInv => KeptAsAdvertised
  <2> SUFFICES ASSUME AuthInv PROVE KeptAsAdvertised
    OBVIOUS
  <2>1. HandshakesTyped /\ FlowsSound /\ CallbacksSound /\ TokenInv
    BY DEF AuthInv, FlowInv, HandshakeInv
  <2>2. ASSUME NEW c \in Callbacks, callback[c].result = "unknown"
        PROVE  \E f \in initiated : /\ f.flow.token = callback[c].token
                                    /\ \/ callback[c].at >= f.told * TicksPerSecond
                                       \/ \E d \in Callbacks \ {c} : callback[d].token = callback[c].token
    <3>1. PICK f \in initiated :
             /\ f.flow.token = callback[c].token
             /\ \/ callback[c].at >= f.expires
                \/ \E d \in Callbacks \ {c} : callback[d].token = callback[c].token
      BY <2>1, <2>2 DEF CallbacksSound, Unknown
    <3>2. f.expires \in Nat /\ f.told = f.expires \div TicksPerSecond /\ callback[c].at \in Nat
      BY <2>1 DEF FlowsSound, CallbacksSound
    <3>3. f.told * TicksPerSecond <= f.expires /\ f.told * TicksPerSecond \in Nat
      BY <3>2, WholeSeconds
    <3> QED BY <3>1, <3>2, <3>3
  <2>3. ASSUME NEW h \in Handshakes, handshake[h].told # 0, handshake[h].exact,
               authTime < handshake[h].told * TicksPerSecond, handshake[h].token \notin created.fulfilled
        PROVE  LiveToken(handshake[h].token) # {}
    <3>1. PICK e \in created.tokens : e.token = handshake[h].token /\ handshake[h].told * TicksPerSecond <= e.expiresAt
      BY <2>1, <2>3 DEF TokenInv, ToldRightly
    <3>2. authTime \in Nat /\ e.expiresAt \in Nat /\ handshake[h].told * TicksPerSecond \in Nat
      <4>1. handshake[h].told \in Nat
        BY <2>1 DEF HandshakesTyped, HandshakeType
      <4> QED BY <2>1, <4>1, TokensTyped, WholeSeconds
    <3>3. ~ (authTime > e.expiresAt) /\ authTime <= e.expiresAt
      BY <2>3, <3>1, <3>2
    <3>4. PICK i \in DOMAIN resumes : resumes[i] = e
      BY <2>1, <2>3, <3>1, <3>3 DEF TokenInv, TokensKept
    <3>5. i \in LiveToken(handshake[h].token)
      BY <3>1, <3>3, <3>4 DEF LiveToken
    <3> QED BY <3>5
  <2>4. \A i \in DOMAIN resumes : created.swept <= resumes[i].expiresAt
    BY <2>1 DEF TokenInv, StoreOrdered
  <2> QED BY <2>2, <2>3, <2>4 DEF KeptAsAdvertised
<1> QED BY <1>1, AuthInvariant, PTL
=============================================================================
