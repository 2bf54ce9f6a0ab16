----------------------------- MODULE Revocation -----------------------------
(***************************************************************************)
(* Revocation of delegations: the delegation graph (delegation-graph.ts,   *)
(* over MemoryDelegationGraphStorage), the published status list           *)
(* (statuslist-manager.ts, over MemoryStatusListStorage) and the cascade   *)
(* that marks the one and flips bits of the other                          *)
(* (cascading-revocation.ts).                                              *)
(*                                                                         *)
(* An operation is suspended at every await, so actions are single calls   *)
(* of a storage provider.  The graph storage hands out the stored objects  *)
(* themselves: heap holds them, at says which one is stored for a node.    *)
(* One status list is modelled; its bits are the indices that are set.     *)
(***************************************************************************)
EXTENDS Naturals, Sequences, FiniteSets, FiniteSetsExt

CONSTANTS
    Nodes, Ops, Managers, None,
    Parent,         \* Parent[n]: the delegation n was issued under, or None
    Listed,         \* nodes whose credential has a status list entry
    Op,             \* Op[o]: [kind, node, manager]
    MaxDepth,       \* maxDepth of revokeDelegation
    Settings        \* what a behaviour may start from: see SettingType

Kinds == {"allocate", "register", "revoke", "restore", "remove", "check"}

\* The operations that are called, the delegations registered and linked before,
\* the capacity of the list, whether the graph storage has registerNodeAtomic,
\* whether it drops the revoked field, and whether publishing a list may fail.
SettingType ==
    [ops: SUBSET Ops, registered: SUBSET Nodes, capacity: Nat, atomic: BOOLEAN,
     dropsMark: BOOLEAN, mayFail: BOOLEAN]

\* A credential names the entry that one allocation returned; the entries given out
\* before fit in the list.
ASSUME RevocationAssumption ==
    /\ IsFiniteSet(Nodes) /\ None \notin Nodes \cup Nat
    /\ Parent \in [Nodes -> Nodes \cup {None}] /\ Listed \subseteq Nodes
    /\ Op \in [Ops -> [kind: Kinds, node: Nodes, manager: Managers]]
    /\ \A o, q \in Ops : {Op[o].kind, Op[q].kind} = {"allocate"} /\ Op[o].node = Op[q].node => o = q
    /\ MaxDepth \in Nat /\ Settings \subseteq SettingType
    /\ \A s \in Settings : Cardinality(s.registered \cap Listed) <= s.capacity

VARIABLES
    heap,       \* node objects: [children, revoked]
    at,         \* at[n]: the object stored for n, 0 if none
    list,       \* the published list: {} before its creation, {bits} after
    counter,    \* indexCounters
    entry,      \* entry[n]: the index in the credential of n, or None
    queue,      \* queue[m]: operations in the list lock of manager m
    pc,
    cur,        \* cur[o]: the node a revocation works on
    ref,        \* ref[o]: the object an operation has read
    back,       \* back[o]: the mark was read back as it was set
    left,       \* left[o]: descendants a cascade has still to revoke
    copy,       \* copy[o]: the list an operation has read, or an allocated index
    chain,      \* chain[o]: what is left of the chain a check has read
    due,        \* checks of a stored node that began after an ancestor was revoked
    setting     \* the setting of this behaviour; it never changes

graphVars == <<heap, at>>
listVars == <<list, counter, entry, queue>>
localVars == <<cur, ref, back, left, copy, chain, due>>
revocationVars == <<graphVars, listVars, pc, localVars, setting>>

Node(o) == Op[o].node
Kind(o) == Op[o].kind

Goto(o, point) == pc' = [pc EXCEPT ![o] = point]

-----------------------------------------------------------------------------
(* The graph.                                                              *)

\* Path[n]: n and its ancestors, root first, whether stored or not.
Path[n \in Nodes] == IF Parent[n] = None THEN <<n>> ELSE Append(Path[Parent[n]], n)

\* A delegation is issued under one that exists, so there are no cycles; and what is
\* registered before, was registered under a stored parent.
ASSUME ForestAssumption ==
    /\ \A n \in Nodes :
         /\ Path[n] \in Seq(Nodes)
         /\ Path[n] = IF Parent[n] = None THEN <<n>> ELSE Append(Path[Parent[n]], n)
    /\ \A s \in Settings : \A n \in s.registered : \A k \in DOMAIN Path[n] : Path[n][k] \in s.registered

\* getChain: from n up to the root or to the first node that is not stored.
GetChain(n) ==
    LET gaps == {k \in DOMAIN Path[n] : at[Path[n][k]] = 0}
    IN IF gaps = {} THEN Path[n] ELSE SubSeq(Path[n], Max(gaps) + 1, Len(Path[n]))

Children(n) == IF at[n] = 0 THEN {} ELSE {c \in heap[at[n]].children : at[c] # 0}

\* Mutant of GetDescendants: only the children.
GetChildren(n) == Children(n)

\* getDescendants: every link on the way down from n is in a children list.
GetDescendants(n) ==
    {d \in Nodes \ {n} :
        \E k \in DOMAIN Path[d] :
            /\ Path[d][k] = n
            /\ \A i \in k .. Len(Path[d]) - 1 : Path[d][i + 1] \in Children(Path[d][i])}

Marked(n) == at[n] # 0 /\ heap[at[n]].revoked

BitSet(n) == entry[n] # None /\ \E bits \in list : entry[n] \in bits

\* setNode with an object of its own.
StoreNew(n, object) ==
    /\ heap' = Append(heap, object)
    /\ at' = [at EXCEPT ![n] = Len(heap) + 1]

\* setNode with an object that was read from the storage, changed in place.
StoreBack(n, r, children) ==
    /\ heap' = [heap EXCEPT ![r].children = children]
    /\ at' = [at EXCEPT ![n] = r]

NewNode == [children |-> {}, revoked |-> FALSE]

-----------------------------------------------------------------------------
(* registerDelegation.                                                     *)

RegisterStart(o) ==
    /\ Kind(o) = "register" /\ pc[o] = "idle"
    /\ Node(o) \in Listed => entry[Node(o)] # None
    /\ LET parent == Parent[Node(o)] IN
       Goto(o, IF parent # None /\ at[parent] = 0 THEN "failed" ELSE "existing")
    /\ UNCHANGED <<graphVars, listVars, localVars>>

\* A repeat of the same registration is a no-op.
RegisterExisting(o) ==
    /\ pc[o] = "existing"
    /\ Goto(o, IF at[Node(o)] # 0 THEN "done"
               ELSE IF setting.atomic THEN "insert" ELSE "set")
    /\ UNCHANGED <<graphVars, listVars, localVars>>

\* The node and its linked parent, both as new objects.
InsertLinked(n, parent) ==
    /\ heap' = heap \o <<NewNode>> \o
               (IF parent = None THEN <<>> ELSE <<[heap[at[parent]] EXCEPT !.children = @ \cup {n}]>>)
    /\ at' = [x \in Nodes |-> CASE x = n -> Len(heap) + 1
                                [] x = parent -> Len(heap) + 2
                                [] OTHER -> at[x]]

\* Mutant of RegisterNodeAtomic: the id is not looked up again.
RegisterAgain(o) ==
    LET parent == Parent[Node(o)] IN
    /\ pc[o] = "insert" /\ (parent # None => at[parent] # 0)
    /\ Goto(o, "done") /\ InsertLinked(Node(o), parent)
    /\ UNCHANGED <<listVars, localVars>>

RegisterNodeAtomic(o) ==
    LET n == Node(o)
        parent == Parent[n] IN
    /\ pc[o] = "insert"
    /\ CASE at[n] # 0 -> Goto(o, "done") /\ UNCHANGED graphVars
         [] at[n] = 0 /\ parent # None /\ at[parent] = 0 -> Goto(o, "failed") /\ UNCHANGED graphVars
         [] OTHER -> Goto(o, "done") /\ InsertLinked(n, parent)
    /\ UNCHANGED <<listVars, localVars>>

\* Without registerNodeAtomic: the node, then addChildToParent.
RegisterSet(o) ==
    /\ pc[o] = "set"
    /\ StoreNew(Node(o), NewNode)
    /\ Goto(o, IF Parent[Node(o)] = None THEN "done" ELSE "link")
    /\ UNCHANGED <<listVars, localVars>>

LinkRead(o) ==
    LET parent == Parent[Node(o)] IN
    /\ pc[o] = "link"
    /\ ref' = [ref EXCEPT ![o] = at[parent]]
    /\ Goto(o, IF at[parent] = 0 THEN "rollback" ELSE "push")
    /\ UNCHANGED <<graphVars, listVars, cur, back, left, copy, chain, due>>

LinkWrite(o) ==
    LET n == Node(o) IN
    /\ pc[o] = "push"
    /\ IF n \in heap[ref[o]].children THEN UNCHANGED graphVars
       ELSE StoreBack(Parent[n], ref[o], heap[ref[o]].children \cup {n})
    /\ Goto(o, "done")
    /\ UNCHANGED <<listVars, localVars>>

Rollback(o) ==
    /\ pc[o] = "rollback"
    /\ at' = [at EXCEPT ![Node(o)] = 0]
    /\ Goto(o, "failed")
    /\ UNCHANGED <<heap, listVars, localVars>>

-----------------------------------------------------------------------------
(* removeDelegation.                                                       *)

RemoveStart(o) ==
    /\ Kind(o) = "remove" /\ pc[o] = "idle"
    /\ Goto(o, CASE at[Node(o)] = 0 -> "done"
                 [] at[Node(o)] # 0 /\ Parent[Node(o)] = None -> "delete"
                 [] OTHER -> "parent")
    /\ UNCHANGED <<graphVars, listVars, localVars>>

RemoveParent(o) ==
    LET parent == Parent[Node(o)] IN
    /\ pc[o] = "parent"
    /\ ref' = [ref EXCEPT ![o] = at[parent]]
    /\ Goto(o, IF at[parent] = 0 THEN "delete" ELSE "unlink")
    /\ UNCHANGED <<graphVars, listVars, cur, back, left, copy, chain, due>>

RemoveUnlink(o) ==
    /\ pc[o] = "unlink"
    /\ StoreBack(Parent[Node(o)], ref[o], heap[ref[o]].children \ {Node(o)})
    /\ Goto(o, "delete")
    /\ UNCHANGED <<listVars, localVars>>

RemoveDelete(o) ==
    /\ pc[o] = "delete"
    /\ at' = [at EXCEPT ![Node(o)] = 0]
    /\ Goto(o, "done")
    /\ UNCHANGED <<heap, listVars, localVars>>

-----------------------------------------------------------------------------
(* setRevoked: read, write, read back.                                     *)

MarkRead(o, n) ==
    /\ cur' = [cur EXCEPT ![o] = n]
    /\ ref' = [ref EXCEPT ![o] = at[n]]
    /\ Goto(o, IF at[n] = 0 THEN "failed" ELSE "write")

MarkWrite(o) ==
    /\ pc[o] = "write"
    /\ StoreNew(cur[o], [heap[ref[o]] EXCEPT
                            !.revoked = Kind(o) = "revoke" /\ ~setting.dropsMark])
    /\ Goto(o, "back")
    /\ UNCHANGED <<listVars, localVars>>

MarkBack(o) ==
    /\ pc[o] = "back"
    /\ back' = [back EXCEPT ![o] = Marked(cur[o]) = (Kind(o) = "revoke")]
    /\ Goto(o, "marked")
    /\ UNCHANGED <<graphVars, listVars, cur, ref, left, copy, chain, due>>

-----------------------------------------------------------------------------
(* The list: withListLock around read and write.                           *)

Enter(o) == queue' = [queue EXCEPT ![Op[o].manager] = Append(@, o)]
Release(o) == queue' = [queue EXCEPT ![Op[o].manager] = Tail(@)]

Holds(o) == queue[Op[o].manager] # <<>> /\ Head(queue[Op[o].manager]) = o

AllocateIndex(o) ==
    /\ Kind(o) = "allocate" /\ pc[o] = "idle" /\ entry[Node(o)] = None
    /\ counter' = counter + 1
    /\ copy' = [copy EXCEPT ![o] = {counter}]
    /\ Goto(o, "ensure")
    /\ UNCHANGED <<graphVars, list, entry, queue, cur, ref, back, left, chain, due>>

EnsureStatusListExists(o) ==
    /\ pc[o] = "ensure"
    /\ Enter(o)
    /\ Goto(o, "list")
    /\ UNCHANGED <<graphVars, list, counter, entry, localVars>>

\* An index past the end of the list is refused.
Fits(index) == index < setting.capacity

\* allocateStatusEntry returns: the credential names the index.
Allocated(o) ==
    LET index == CHOOSE i \in copy[o] : TRUE IN
    IF Fits(index)
    THEN Goto(o, "done") /\ entry' = [entry EXCEPT ![Node(o)] = index]
    ELSE Goto(o, "failed") /\ UNCHANGED entry

\* Mutant of CreateRead: the list was looked for before the lock, not inside it.
CreateUnread(o) ==
    /\ Kind(o) = "allocate" /\ pc[o] = "list" /\ Holds(o)
    /\ Goto(o, "create")
    /\ UNCHANGED <<graphVars, listVars, localVars>>

\* createStatusListIfMissing: the list is read inside the lock.
CreateRead(o) ==
    /\ Kind(o) = "allocate" /\ pc[o] = "list" /\ Holds(o)
    /\ IF list # {} THEN Allocated(o) /\ Release(o)
       ELSE Goto(o, "create") /\ UNCHANGED <<entry, queue>>
    /\ UNCHANGED <<graphVars, list, counter, localVars>>

\* Encoding and signing come before the list is stored, and may fail.
CreateWrite(o) ==
    /\ pc[o] = "create"
    /\ Release(o)
    /\ \/ list' = {{}} /\ Allocated(o)
       \/ setting.mayFail /\ Goto(o, "failed") /\ UNCHANGED <<list, entry>>
    /\ UNCHANGED <<graphVars, counter, localVars>>

\* doUpdateStatus.
UpdateRead(o) ==
    /\ Kind(o) \in {"revoke", "restore"} /\ pc[o] = "list" /\ Holds(o)
    /\ IF list = {} THEN Goto(o, "failed") /\ Release(o) /\ UNCHANGED copy
       ELSE /\ copy' = [copy EXCEPT ![o] = UNION list]
            /\ Goto(o, "publish") /\ UNCHANGED queue
    /\ UNCHANGED <<graphVars, list, counter, entry, cur, ref, back, left, chain, due>>

UpdateWrite(o) ==
    LET i == entry[cur[o]] IN
    /\ pc[o] = "publish"
    /\ Release(o)
    /\ \/ /\ list' = {IF Kind(o) = "revoke" THEN copy[o] \cup {i} ELSE copy[o] \ {i}}
          /\ Goto(o, CASE Kind(o) = "restore" -> "unmark"
                       [] Kind(o) = "revoke" /\ cur[o] = Node(o) -> "descend"
                       [] OTHER -> "next")
       \/ setting.mayFail /\ Goto(o, "failed") /\ UNCHANGED list
    /\ UNCHANGED <<graphVars, counter, entry, localVars>>

-----------------------------------------------------------------------------
(* revokeDelegation and restoreDelegation.                                 *)

RevokeStart(o) ==
    /\ Kind(o) = "revoke" /\ pc[o] = "idle"
    /\ Goto(o, IF at[Node(o)] = 0 THEN "failed" ELSE "depth")
    /\ UNCHANGED <<graphVars, listVars, localVars>>

Depth(o) ==
    /\ pc[o] = "depth"
    /\ Goto(o, IF Len(GetChain(Node(o))) > MaxDepth + 1 THEN "failed" ELSE "mark")
    /\ UNCHANGED <<graphVars, listVars, localVars>>

\* revokeNode of the target, and setRevoked at the end of restoreDelegation.
MarkTarget(o) ==
    /\ pc[o] \in {"mark", "unmark"}
    /\ MarkRead(o, Node(o))
    /\ UNCHANGED <<graphVars, listVars, back, left, copy, chain, due>>

\* Mutant of AfterMark: a mark the storage dropped goes unnoticed.
AfterMarkUnchecked(o) ==
    IF cur[o] \in Listed THEN "list"
    ELSE IF cur[o] = Node(o) THEN "descend" ELSE "next"

\* The rest of revokeNode: the bit, or the mark as the only record.
AfterMark(o) ==
    CASE cur[o] \in Listed -> "list"
      [] cur[o] \notin Listed /\ ~back[o] -> "failed"
      [] OTHER -> IF cur[o] = Node(o) THEN "descend" ELSE "next"

NodeMarked(o) ==
    /\ pc[o] = "marked"
    /\ IF Kind(o) = "restore" THEN Goto(o, "done") /\ UNCHANGED queue
       ELSE /\ Goto(o, AfterMark(o))
            /\ IF AfterMark(o) = "list" THEN Enter(o) ELSE UNCHANGED queue
    /\ UNCHANGED <<graphVars, list, counter, entry, localVars>>

Descend(o) ==
    /\ pc[o] = "descend"
    /\ left' = [left EXCEPT ![o] = GetDescendants(Node(o))]
    /\ Goto(o, "next")
    /\ UNCHANGED <<graphVars, listVars, cur, ref, back, copy, chain, due>>

\* Breadth first; siblings in any order.
RevokeNext(o, n) ==
    /\ pc[o] = "next" /\ n \in left[o]
    /\ \A d \in left[o] : Len(Path[n]) <= Len(Path[d])
    /\ MarkRead(o, n)
    /\ left' = [left EXCEPT ![o] = @ \ {n}]
    /\ UNCHANGED <<graphVars, listVars, back, copy, chain, due>>

RevokeDone(o) ==
    /\ pc[o] = "next" /\ left[o] = {}
    /\ Goto(o, "done")
    /\ UNCHANGED <<graphVars, listVars, localVars>>

RestoreStart(o) ==
    /\ Kind(o) = "restore" /\ pc[o] = "idle"
    /\ cur' = [cur EXCEPT ![o] = Node(o)]
    /\ Goto(o, CASE at[Node(o)] = 0 -> "failed"
                 [] at[Node(o)] # 0 /\ Node(o) \in Listed -> "unpublish"
                 [] OTHER -> "unmark")
    /\ UNCHANGED <<graphVars, listVars, ref, back, left, copy, chain, due>>

RestoreUpdate(o) ==
    /\ pc[o] = "unpublish"
    /\ Enter(o)
    /\ Goto(o, "list")
    /\ UNCHANGED <<graphVars, list, counter, entry, localVars>>

-----------------------------------------------------------------------------
(* validateDelegation: isRevoked, then validateChain.                      *)

\* n is under a delegation whose revocation is complete and was never undone.
RevokedAbove(n) ==
    \E k \in DOMAIN Path[n], o \in setting.ops :
        /\ Kind(o) = "revoke" /\ pc[o] = "done" /\ Node(o) = Path[n][k]
        /\ \A r \in setting.ops : Kind(r) = "restore" => Node(r) # Path[n][k]

\* Mutant of ReadChain: the delegation is checked without its ancestors.
ReadSelf(n) == IF at[n] = 0 THEN <<>> ELSE <<[node |-> n, marked |-> Marked(n)]>>

\* The objects of the chain, as they are when it is read.
ReadChain(n) == [k \in DOMAIN GetChain(n) |->
                    [node |-> GetChain(n)[k], marked |-> Marked(GetChain(n)[k])]]

CheckStart(o) ==
    /\ Kind(o) = "check" /\ pc[o] = "idle"
    /\ chain' = [chain EXCEPT ![o] = ReadChain(Node(o))]
    /\ due' = IF at[Node(o)] # 0 /\ RevokedAbove(Node(o)) THEN due \cup {o} ELSE due
    /\ Goto(o, "walk")
    /\ UNCHANGED <<graphVars, listVars, cur, ref, back, left, copy>>

\* One node of the chain; an unreadable list throws.
CheckNode(o) ==
    /\ pc[o] = "walk" /\ chain[o] # <<>>
    /\ LET x == Head(chain[o]) IN
       Goto(o, CASE x.marked \/ BitSet(x.node) -> "revoked"
                 [] ~x.marked /\ x.node \in Listed /\ list = {} -> "failed"
                 [] OTHER -> "walk")
    /\ chain' = [chain EXCEPT ![o] = Tail(@)]
    /\ UNCHANGED <<graphVars, listVars, cur, ref, back, left, copy, due>>

CheckChain(o) ==
    /\ pc[o] = "walk" /\ chain[o] = <<>>
    /\ Goto(o, IF at[Node(o)] = 0 THEN "unknown" ELSE "valid")
    /\ UNCHANGED <<graphVars, listVars, localVars>>

-----------------------------------------------------------------------------

\* The registered delegations in some order; listed ones have their entries.
RevocationInit ==
    /\ setting \in Settings
    /\ LET index == CHOOSE f \in [Nodes -> 1 .. Cardinality(Nodes)] :
                        \A x, y \in Nodes : f[x] = f[y] => x = y
           minted == setting.registered \cap Listed
       IN /\ heap = [i \in 1 .. Cardinality(Nodes) |->
                        [children |-> {c \in setting.registered :
                                          Parent[c] # None /\ index[Parent[c]] = i},
                         revoked |-> FALSE]]
          /\ at = [n \in Nodes |-> IF n \in setting.registered THEN index[n] ELSE 0]
          /\ entry = [n \in Nodes |-> IF n \in minted
                        THEN Cardinality({m \in minted : index[m] < index[n]}) ELSE None]
          /\ counter = Cardinality(minted)
          /\ list = IF minted = {} THEN {} ELSE {{}}
    /\ queue = [m \in Managers |-> <<>>]
    /\ pc = [o \in Ops |-> "idle"] /\ cur = [o \in Ops |-> None]
    /\ ref = [o \in Ops |-> 0] /\ back = [o \in Ops |-> FALSE]
    /\ left = [o \in Ops |-> {}] /\ copy = [o \in Ops |-> {}]
    /\ chain = [o \in Ops |-> <<>>] /\ due = {}

Step(o) ==
    \/ RegisterStart(o) \/ RegisterExisting(o) \/ RegisterNodeAtomic(o)
    \/ RegisterSet(o) \/ LinkRead(o) \/ LinkWrite(o) \/ Rollback(o)
    \/ RemoveStart(o) \/ RemoveParent(o) \/ RemoveUnlink(o) \/ RemoveDelete(o)
    \/ AllocateIndex(o) \/ EnsureStatusListExists(o) \/ CreateRead(o) \/ CreateWrite(o)
    \/ RevokeStart(o) \/ Depth(o) \/ MarkTarget(o) \/ MarkWrite(o) \/ MarkBack(o)
    \/ NodeMarked(o) \/ UpdateRead(o) \/ UpdateWrite(o)
    \/ Descend(o) \/ (\E n \in Nodes : RevokeNext(o, n)) \/ RevokeDone(o)
    \/ RestoreStart(o) \/ RestoreUpdate(o)
    \/ CheckStart(o) \/ CheckNode(o) \/ CheckChain(o)

RevocationNext == UNCHANGED setting /\ \E o \in setting.ops : Step(o)

RevocationSpec == RevocationInit /\ [][RevocationNext]_revocationVars

-----------------------------------------------------------------------------
(* Properties.                                                             *)

ControlPoints ==
    {"idle", "existing", "insert", "set", "link", "push", "rollback", "parent", "unlink", "delete", "ensure", "list",
     "create", "publish", "depth", "mark", "unmark", "unpublish", "write", "back", "marked", "descend", "next", "walk",
     "done", "failed", "revoked", "unknown", "valid"}

\* A stored node has an object.
GraphShapes ==
    /\ heap \in Seq([children: SUBSET Nodes, revoked: BOOLEAN])
    /\ at \in [Nodes -> 0 .. Len(heap)] /\ ref \in [Ops -> 0 .. Len(heap)]

\* There is one list at most.
ListShapes ==
    /\ list \subseteq SUBSET Nat /\ (\A a, b \in list : a = b)
    /\ counter \in Nat /\ entry \in [Nodes -> Nat \cup {None}]
    /\ queue \in [Managers -> Seq(Ops)] /\ copy \in [Ops -> SUBSET Nat]

OpShapes ==
    /\ pc \in [Ops -> ControlPoints]
    /\ cur \in [Ops -> Nodes \cup {None}] /\ back \in [Ops -> BOOLEAN]
    /\ left \in [Ops -> SUBSET Nodes]
    /\ chain \in [Ops -> Seq([node: Nodes, marked: BOOLEAN])]
    /\ due \subseteq Ops /\ setting \in Settings

Shapes == GraphShapes /\ ListShapes /\ OpShapes

\* Every variable keeps its shape; an operation in a list lock waits for the list, creates or publishes it.
TypeOK ==
    /\ Shapes
    /\ \A m \in Managers : \A k \in DOMAIN queue[m] :
           pc[queue[m][k]] \in {"list", "create", "publish"}

Called(kinds) == {o \in setting.ops : Kind(o) \in kinds}

OneManager == \A o, q \in setting.ops : Op[o].manager = Op[q].manager

\* No registration or removal writes back a copy of a node that others change.
NoStaleCopies == setting.atomic /\ Called({"remove"}) = {}

\* The index in a credential is one the list can hold, and no other credential
\* has it, so that it can be revoked, and alone.
EntriesUsable ==
    \A n \in Nodes : entry[n] # None =>
        /\ entry[n] < setting.capacity
        /\ \A m \in Nodes : entry[m] = entry[n] => m = n

\* Every allocated index can be set, and with one manager, what a completed revocation published is never lost, neither
\* to a concurrent update nor to a creation of the list that raced with it.
BitsKept ==
    /\ TypeOK /\ EntriesUsable
    /\ OneManager =>
         \A o \in Called({"revoke"}) :
            /\ pc[o] = "done" /\ Node(o) \in Listed
            /\ \A r \in Called({"restore"}) : Node(r) # Node(o)
            => BitSet(Node(o))

\* A registration, a repeated one included, never clears the mark of a node, nor
\* does a revocation: only restoreDelegation does.  (removeDelegation of a child
\* and registration without registerNodeAtomic write stale copies of the parent.)
MarkKept ==
    [][NoStaleCopies =>
         \A n \in Nodes : Marked(n) /\ ~Marked(n)' =>
            \E o \in Called({"restore"}) : Node(o) = n /\ pc[o] = "write"]_revocationVars

\* A delegation whose revocation succeeded reads as revoked, by its mark or by
\* its bit, until a restoreDelegation of it has cleared both: whatever failed in
\* between, and whatever the storage drops.  (Two managers may lose the bit, and
\* stale copies the mark; what is left is the other of the two.)
StillRevoked ==
    \A o \in Called({"revoke"}) :
        /\ pc[o] = "done" /\ at[Node(o)] # 0
        /\ \/ Node(o) \in Listed /\ OneManager
           \/ NoStaleCopies /\ (Node(o) \notin Listed \/ ~setting.dropsMark)
        /\ \A r \in Called({"restore"}) :
               Node(r) = Node(o) => pc[r] \in {"idle", "unpublish", "list", "publish"}
        => Marked(Node(o)) \/ BitSet(Node(o))

\* A completed revocation has reached every descendant: each is marked, and its
\* bit is set, while no delegation is registered, removed or restored beside it and
\* one manager writes the list.
CascadeComplete ==
    ~setting.dropsMark /\ Called({"register", "remove", "restore"}) = {} =>
        \A o \in Called({"revoke"}) : pc[o] = "done" =>
            \A d \in Nodes : \A k \in DOMAIN Path[d] :
                at[d] # 0 /\ Path[d][k] = Node(o)
                    => Marked(d) /\ (OneManager /\ d \in Listed => BitSet(d))

\* A check of a stored delegation that begins after a revocation above it is
\* complete does not find it valid, although it may have been registered after the
\* cascade and carry no mark of its own.  (One that is registered between the two
\* reads of the check is found valid: isRevoked takes an unknown id as live.)
CheckedRevoked ==
    NoStaleCopies /\ (OneManager \/ ~setting.dropsMark) =>
        \A o \in due : pc[o] # "valid"

\* A revocation that succeeded is seen by whoever looks afterwards: by the mark or
\* the bit of the delegation itself, by those of its descendants, and by every check
\* of one below it (revokeDelegation, validateDelegation, isRevoked).
RevocationHolds == StillRevoked /\ CascadeComplete /\ CheckedRevoked
=============================================================================
