------------------------------ MODULE Sessions ------------------------------
(***************************************************************************)
(* Sessions: the SessionManager with its in-memory store, and the fallback *)
(* session of the middleware for calls that thread none (handleHandshake,  *)
(* ensureSession, createAutoSession, liveSessionCount).                    *)
(*                                                                         *)
(* Actions end where the code awaits.  The memory store hands out the      *)
(* stored object itself, so an object outlives its deletion while a reader *)
(* holds it; obj is that heap.  A session id is fresh for every session.   *)
(***************************************************************************)
EXTENDS Integers, Sequences, FiniteSets, SequencesExt

CONSTANTS
    Ids,            \* session ids, handed out once each
    Unthreaded,     \* unthreaded tool calls: each asks for the fallback session
    Threaded,       \* tool calls that thread the id of a session
    Clients,        \* handshakes of clients
    Janitors,       \* runs of cleanup() by the application's scheduler
    NoId,
    Lifetime,       \* absoluteSessionLifetime, in ticks
    SweepInterval,  \* sessionSweepIntervalMs, in ticks
    SessionSettings \* what a behaviour may start from: see SessionSettingType

Actors == Unthreaded \cup Threaded \cup Clients \cup Janitors

\* Who acts, config.autoSession, the capacity of the store, ttlMinutes in ticks,
\* whether the audit record of a handshake may fail, whether clearSessions() may be
\* called, and the bound on the clock.
SessionSettingType ==
    [actors: SUBSET Actors, autoSession: BOOLEAN, maxSessions: Nat \ {0}, idleLimit: Nat,
     auditMayFail: BOOLEAN, mayClear: BOOLEAN, maxTime: Nat]

ASSUME SessionsAssumption ==
    /\ IsFiniteSet(Ids) /\ {NoId, "ambiguous"} \cap Ids = {}
    /\ NoId \notin Actors \cup Nat /\ NoId # "ambiguous"
    /\ Unthreaded \cap (Threaded \cup Clients \cup Janitors) = {}
    /\ Threaded \cap (Clients \cup Janitors) = {} /\ Clients \cap Janitors = {}
    /\ Lifetime \in Nat /\ SweepInterval \in Nat
    /\ SessionSettings \subseteq SessionSettingType

VARIABLES
    now,
    used,       \* ids handed out
    live,       \* keys of the store's map
    order,      \* insertionOrder
    obj,        \* obj[s]: [created, last]
    active,     \* activeSessionId
    creator,    \* the call whose createAutoSession is in flight, or NoId
    lastSweep,  \* lastSessionSweepAt, or NoId
    todo,       \* todo[a]: entries a running cleanup of a has still to visit
    since,      \* since[a]: the time that cleanup reads
    phase,
    want,       \* want[a]: the session id a works on
    result,     \* result[c]: what the call was given
    auto,       \* ids of auto sessions
    place,      \* place[s]: rank of the last insertion of s into the store
    sset        \* the setting of this behaviour; it never changes

storeVars == <<live, order, place>>
sweepVars == <<lastSweep, todo, since>>
sessionVars == <<now, used, storeVars, obj, active, creator, sweepVars, phase, want, result, auto,
          sset>>

MaxSessions == sset.maxSessions

SessionsInit ==
    /\ now = 0 /\ used = {} /\ live = {} /\ order = <<>>
    /\ obj = [s \in Ids |-> [created |-> 0, last |-> 0]]
    /\ active = NoId /\ creator = NoId /\ lastSweep = NoId
    /\ todo = [a \in Actors |-> {}] /\ since = [a \in Actors |-> 0]
    /\ phase = [a \in Actors |-> "idle"] /\ want = [a \in Actors |-> NoId]
    /\ result = [a \in Actors |-> NoId]
    /\ auto = {} /\ place = [s \in Ids |-> 0]
    /\ sset \in SessionSettings

-----------------------------------------------------------------------------
(* MemorySessionStore.                                                     *)

\* There is room for a session once the first k ids of insertionOrder are gone.
Kept(k) == Cardinality(live \ ToSet(SubSeq(order, 1, k))) < MaxSessions

\* evictIfNeeded: how many ids are shifted off.
Shifted ==
    LET room == {k \in 0 .. Len(order) : Kept(k)}
    IN IF room = {} THEN Len(order) ELSE CHOOSE k \in room : \A j \in room : k <= j

Rank == 1 + CHOOSE n \in {place[s] : s \in Ids} : \A s \in Ids : place[s] <= n

\* Mutant of StoreSet: a new session is queued first for eviction.
StoreSetFirst(s) ==
    IF s \in live THEN UNCHANGED storeVars
    ELSE /\ live' = (live \ ToSet(SubSeq(order, 1, Shifted))) \cup {s}
         /\ order' = <<s>> \o SubSeq(order, Shifted + 1, Len(order))
         /\ place' = [place EXCEPT ![s] = Rank]

\* set(): a session that is not in the map is inserted, after evictIfNeeded.
StoreSet(s) ==
    IF s \in live THEN UNCHANGED storeVars
    ELSE /\ live' = (live \ ToSet(SubSeq(order, 1, Shifted))) \cup {s}
         /\ order' = Append(SubSeq(order, Shifted + 1, Len(order)), s)
         /\ place' = [place EXCEPT ![s] = Rank]

\* delete(): the id stays in insertionOrder.
StoreDelete(s) == live' = live \ {s} /\ UNCHANGED <<order, place>>

-----------------------------------------------------------------------------
(* SessionManager.                                                         *)

Expired(s, t) == \/ t - obj[s].last > sset.idleLimit
                 \/ t - obj[s].created > Lifetime

\* The end of validateHandshake: the session is stored under a fresh id.
Establish(s) ==
    /\ used # Ids /\ s = CHOOSE t \in Ids \ used : TRUE
    /\ used' = used \cup {s}
    /\ obj' = [obj EXCEPT ![s] = [created |-> now, last |-> now]]
    /\ StoreSet(s)

\* getSession, first step: the store is read.
GetSession(a, s, found, missing) ==
    /\ want' = [want EXCEPT ![a] = s]
    /\ phase' = [phase EXCEPT ![a] = IF s \in live THEN found ELSE missing]

\* Mutant of Refresh: the session that was read is put back unchecked.
RefreshUnchecked(a, found, missing) ==
    LET s == want[a] IN
    /\ obj' = [obj EXCEPT ![s].last = now]
    /\ StoreSet(s)
    /\ phase' = [phase EXCEPT ![a] = found]

\* getSession, second step: an expired session is deleted, another one is put
\* back with its activity refreshed.
Refresh(a, found, missing) ==
    LET s == want[a] IN
    IF Expired(s, now)
    THEN /\ StoreDelete(s)
         /\ phase' = [phase EXCEPT ![a] = missing]
         /\ UNCHANGED obj
    ELSE /\ obj' = [obj EXCEPT ![s].last = now]
         /\ StoreSet(s)
         /\ phase' = [phase EXCEPT ![a] = found]

\* A call that threads a session id, and one that was given the fallback.
UseSession(a, s) ==
    /\ a \in Threaded /\ phase[a] = "idle" /\ s \in used
    /\ GetSession(a, s, "held", "done")
    /\ UNCHANGED <<now, used, storeVars, obj, active, creator, sweepVars, result, auto>>

UseRefresh(a) ==
    /\ a \in Threaded /\ phase[a] = "held"
    /\ Refresh(a, "done", "done")
    /\ result' = [result EXCEPT ![a] = IF Expired(want[a], now) THEN NoId ELSE want[a]]
    /\ UNCHANGED <<now, used, active, creator, sweepVars, want, auto>>

ClearSessions ==
    /\ sset.mayClear /\ live # {}
    /\ live' = {} /\ order' = <<>>
    /\ UNCHANGED <<now, used, place, obj, active, creator, sweepVars, phase, want, result, auto>>

-----------------------------------------------------------------------------
(* cleanup(), run by a scheduler or by a call that found several sessions. *)

Cleanup(a) ==
    /\ a \in Janitors /\ phase[a] = "idle"
    /\ since' = [since EXCEPT ![a] = now]
    /\ phase' = [phase EXCEPT ![a] = "sweep"]
    /\ UNCHANGED <<now, used, storeVars, obj, active, creator, lastSweep, todo, want, result, auto>>

SweepStart(a) ==
    /\ phase[a] = "sweep"
    /\ todo' = [todo EXCEPT ![a] = live]
    /\ phase' = [phase EXCEPT ![a] = "sweeping"]
    /\ UNCHANGED <<now, used, storeVars, obj, active, creator, lastSweep, since, want, result, auto>>

SweepOne(a, s) ==
    /\ phase[a] = "sweeping" /\ s \in todo[a]
    /\ todo' = [todo EXCEPT ![a] = @ \ {s}]
    /\ IF Expired(s, since[a]) THEN StoreDelete(s) ELSE UNCHANGED storeVars
    /\ UNCHANGED <<now, used, obj, active, creator, lastSweep, since, phase, want, result, auto>>

\* Array.prototype.filter, by the positions of the elements that stay: kth is the k-th of them.
Filter(s, kept) ==
    LET places == {i \in DOMAIN s : s[i] \in kept}
        kth(k) == CHOOSE i \in places : Cardinality({n \in places : n <= i}) = k
    IN [k \in 1 .. Cardinality(places) |-> s[kth(k)]]

\* The store's own cleanup(): insertionOrder is compacted.
SweepEnd(a) ==
    /\ phase[a] = "sweeping" /\ todo[a] = {}
    /\ order' = Filter(order, live)
    /\ phase' = [phase EXCEPT ![a] = "counted"]
    /\ UNCHANGED <<now, used, live, place, obj, active, creator, sweepVars, want, result, auto>>

-----------------------------------------------------------------------------
(* The middleware: handshakes.                                             *)

Handshake(h, s) ==
    /\ h \in Clients /\ phase[h] = "idle"
    /\ Establish(s)
    /\ want' = [want EXCEPT ![h] = s]
    /\ phase' = [phase EXCEPT ![h] = "recording"]
    /\ UNCHANGED <<now, active, creator, sweepVars, result, auto>>

\* The session becomes the fallback once its audit record is delivered.
HandshakeDone(h) ==
    /\ h \in Clients /\ phase[h] = "recording"
    /\ \/ active' = want[h]
       \/ sset.auditMayFail /\ UNCHANGED active
    /\ phase' = [phase EXCEPT ![h] = "done"]
    /\ UNCHANGED <<now, used, storeVars, obj, creator, sweepVars, want, result, auto>>

-----------------------------------------------------------------------------
(* The middleware: the fallback session.                                   *)

\* Mutant of Share: every call creates a session of its own.
ShareNothing(c) == creator' = c /\ phase' = [phase EXCEPT ![c] = "creating"]

\* No fallback session: calls share the auto session that is in flight.
Share(c) ==
    CASE ~sset.autoSession -> phase' = [phase EXCEPT ![c] = "done"] /\ UNCHANGED creator
      [] sset.autoSession /\ creator = NoId -> creator' = c /\ phase' = [phase EXCEPT ![c] = "creating"]
      [] OTHER -> phase' = [phase EXCEPT ![c] = "joining"] /\ UNCHANGED creator

EnsureSession(c) ==
    /\ c \in Unthreaded /\ phase[c] = "idle"
    /\ IF active = NoId
       THEN Share(c) /\ UNCHANGED want
       ELSE GetSession(c, active, "probe", "missing") /\ UNCHANGED creator
    /\ UNCHANGED <<now, used, storeVars, obj, active, sweepVars, result, auto>>

Probe(c) ==
    /\ phase[c] = "probe"
    /\ Refresh(c, "count", "missing")
    /\ UNCHANGED <<now, used, active, creator, sweepVars, want, result, auto>>

Decide(c) ==
    /\ result' = [result EXCEPT ![c] = IF Cardinality(live) <= 1 THEN active ELSE "ambiguous"]
    /\ phase' = [phase EXCEPT ![c] = "done"]

\* Mutant of RecentlySwept: only the first sweep is ever made.
SweptOnce == lastSweep # NoId

RecentlySwept == lastSweep # NoId /\ now - lastSweep < SweepInterval

\* liveSessionCount: several sessions are swept first, once per interval.
Count(c) ==
    /\ phase[c] = "count"
    /\ IF Cardinality(live) <= 1 \/ RecentlySwept
       THEN Decide(c) /\ UNCHANGED <<lastSweep, since>>
       ELSE /\ lastSweep' = now
            /\ since' = [since EXCEPT ![c] = now]
            /\ phase' = [phase EXCEPT ![c] = "sweep"]
            /\ UNCHANGED result
    /\ UNCHANGED <<now, used, storeVars, obj, active, creator, todo, want, auto>>

CountAgain(c) ==
    /\ c \in Unthreaded /\ phase[c] = "counted"
    /\ Decide(c)
    /\ UNCHANGED <<now, used, storeVars, obj, active, creator, sweepVars, want, auto>>

\* getSession found no fallback session.
Missing(c) ==
    /\ phase[c] = "missing"
    /\ Share(c)
    /\ UNCHANGED <<now, used, storeVars, obj, active, sweepVars, want, result, auto>>

\* createAutoSession, through validateHandshake.
CreateAutoSession(c, s) ==
    /\ phase[c] = "creating"
    /\ Establish(s)
    /\ auto' = auto \cup {s}
    /\ want' = [want EXCEPT ![c] = s]
    /\ phase' = [phase EXCEPT ![c] = "created"]
    /\ UNCHANGED <<now, active, creator, sweepVars, result>>

Adopt(c) ==
    /\ phase[c] = "created"
    /\ active' = want[c]
    /\ phase' = [phase EXCEPT ![c] = "settling"]
    /\ UNCHANGED <<now, used, storeVars, obj, creator, sweepVars, want, result, auto>>

\* The shared promise settles: in-flight is cleared and every waiter resolved.
Settle(c) ==
    LET waiters == {d \in Unthreaded : phase[d] = "joining"} \cup {c} IN
    /\ phase[c] = "settling"
    /\ creator' = NoId
    /\ result' = [a \in Actors |-> IF a \in waiters THEN want[c] ELSE result[a]]
    /\ phase' = [a \in Actors |-> IF a \in waiters THEN "done" ELSE phase[a]]
    /\ UNCHANGED <<now, used, storeVars, obj, active, sweepVars, want, auto>>

Tick ==
    /\ now < sset.maxTime
    /\ now' = now + 1
    /\ UNCHANGED <<used, storeVars, obj, active, creator, sweepVars, phase, want, result, auto>>

SessionsNext ==
    /\ UNCHANGED sset
    /\ \/ Tick \/ ClearSessions
       \/ \E a \in sset.actors, s \in Ids :
            UseSession(a, s) \/ Handshake(a, s) \/ SweepOne(a, s) \/ CreateAutoSession(a, s)
       \/ \E a \in sset.actors :
            \/ UseRefresh(a) \/ HandshakeDone(a)
            \/ EnsureSession(a) \/ Probe(a) \/ Count(a) \/ CountAgain(a)
            \/ Cleanup(a) \/ SweepStart(a) \/ SweepEnd(a)
            \/ Missing(a) \/ Adopt(a) \/ Settle(a)

SessionsSpec == SessionsInit /\ [][SessionsNext]_sessionVars

-----------------------------------------------------------------------------
(* Properties.                                                             *)

\* Every variable keeps its shape.
SessionsTypeOK ==
    /\ now \in Nat /\ used \subseteq Ids /\ live \subseteq used
    /\ order \in Seq(used) /\ obj \in [Ids -> [created: Nat, last: Nat]]
    /\ active \in Ids \cup {NoId} /\ creator \in Unthreaded \cup {NoId}
    /\ lastSweep \in Nat \cup {NoId}
    /\ todo \in [Actors -> SUBSET Ids] /\ since \in [Actors -> Nat]
    /\ phase \in [Actors -> {"idle", "held", "recording", "probe", "count", "sweep", "sweeping",
                          "counted", "missing", "creating", "created", "joining", "settling",
                          "done"}]
    /\ want \in [Actors -> Ids \cup {NoId}]
    /\ result \in [Actors -> Ids \cup {NoId, "ambiguous"}]
    /\ auto \subseteq used /\ place \in [Ids -> Nat] /\ sset \in SessionSettings

\* The store holds at most maxSessions sessions, and every one can be evicted: it
\* has a place in insertionOrder, and exactly one, so that no entry left behind by
\* a deletion stands for it, although a session in use may be put back after its
\* eviction (MemorySessionStore.set, evictIfNeeded).
LiveOnceInOrder ==
    /\ SessionsTypeOK
    /\ Cardinality(live) <= MaxSessions
    /\ \A s \in live : Cardinality({k \in DOMAIN order : order[k] = s}) = 1

\* An eviction takes the session inserted longest ago, whatever deletions and
\* reads in progress did to insertionOrder in between.
EvictsOldest ==
    \A s \in live \ live' :
        live' \ live # {} => \A v \in live \cap live' : place[s] < place[v]

\* While no session has expired or been evicted, fallback calls share one auto
\* session, so that the fallback does not become ambiguous by itself.  (Later on a
\* call whose lookup of the old session is still pending creates a second one, and
\* after clearSessions() a reader may put the first one back beside it.)
OneAutoSession ==
    ~sset.mayClear /\ (\A s \in used : s \in live /\ ~Expired(s, now)) => Cardinality(auto) <= 1

\* The fallback is refused as ambiguous only if two sessions had not expired
\* when the sweep read the clock, or a sweep was made less than an interval ago.
AmbiguousOnlyIfSeveral ==
    \A c \in Unthreaded : result'[c] = "ambiguous" /\ result[c] # "ambiguous" =>
        \/ phase[c] = "count" /\ lastSweep # NoId /\ now - lastSweep < SweepInterval
        \/ phase[c] = "counted" /\ Cardinality({s \in live : ~Expired(s, since[c])}) > 1

\* Whatever operations overlap, the store gives up its oldest session and no other,
\* and the fallback gives up only when it has a choice (MemorySessionStore.set,
\* resolveSessionId).
GivesUpRightly == [][EvictsOldest /\ AmbiguousOnlyIfSeveral]_sessionVars

\* The store never holds a session it cannot evict, and the fallback does not make
\* itself ambiguous, however reads, evictions and creations overlap
\* (MemorySessionStore, ensureSession, createAutoSession).
StoreSound == LiveOnceInOrder /\ OneAutoSession
=============================================================================
