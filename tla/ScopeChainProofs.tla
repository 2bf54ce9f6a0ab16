-------------------------- MODULE ScopeChainProofs --------------------------
(***************************************************************************)
(* Machine-checked proofs about the matchers and about ScopeChain, for     *)
(* every alphabet, every set of resources and every regular expression     *)
(* engine: what a contained matcher grants and what a child that           *)
(* attenuates its parent grants; then, down a chain of any length, what    *)
(* the leaf grants its ancestors grant, as long as the value has no . or   *)
(* .. segment.                                                             *)
(***************************************************************************)
EXTENDS ScopeChain, FiniteSetTheorems, SequenceTheorems, TLAPS

Str == Seq(Chars \cup {"/"})
Scope == [matcher: Matchers, resource: Resources]

\* Resources and values are strings, also over the alphabet with a slash.
LEMMA StringTypes ==
    /\ \A r \in Resources : r \in Seq(Chars) /\ r \in Str
    /\ \A v \in Values : v \in Str
<1>1. Seq(Chars) \subseteq Str
    BY DEF Str
<1> QED BY <1>1, ScopeAssumption

\* A string that starts with one that starts with a third starts with that one.
LEMMA StartsWithTransitive ==
    ASSUME NEW s \in Str, NEW t \in Str, NEW u \in Str,
           StartsWith(s, t), StartsWith(t, u)
    PROVE  StartsWith(s, u)
BY DEF StartsWith, Str

\* A string under a path starts with the path, and stays under it when extended.
LEMMA UnderExtends ==
    ASSUME NEW s \in Str, NEW t \in Str, NEW base \in Str, Under(t, base)
    PROVE  /\ StartsWith(t, base)
           /\ StartsWith(s, t) => Under(s, base)
<1> DEFINE path == Append(base, "/")
<1>1. path \in Str /\ Len(path) = Len(base) + 1 /\ \A k \in 1 .. Len(base) : path[k] = base[k]
    BY DEF Str
<1>2. StartsWith(path, base)
    BY <1>1 DEF StartsWith, Str
<1>3. StartsWith(t, path)
    BY DEF Under
<1> HIDE DEF path
<1>4. StartsWith(t, base)
    BY <1>1, <1>2, <1>3, StartsWithTransitive
<1>5. StartsWith(s, t) => StartsWith(s, path)
    BY <1>1, <1>3, StartsWithTransitive
<1> QED BY <1>4, <1>5 DEF Under, path

\* The base of a pattern is a string.
LEMMA BaseType ==
    ASSUME NEW r \in Resources
    PROVE  PrefixBase(r) \in Str /\ PathBase(r) \in Str
<1> DEFINE base == PrefixBase(r)
           kept == {k \in 1 .. Len(base) : \E j \in k .. Len(base) : base[j] # "/"}
<1>1. r \in Str
    BY StringTypes
<1>2. base \in Str
    BY <1>1 DEF PrefixBase, Str
<1>3. Len(base) \in Nat
    BY <1>2 DEF Str
<1>4. IsFiniteSet(1 .. Len(base)) /\ Cardinality(1 .. Len(base)) = Len(base)
  <2> SUFFICES ASSUME NEW n \in Nat
               PROVE  IsFiniteSet(1 .. n) /\ Cardinality(1 .. n) = n
    BY <1>3
  <2> QED BY FS_Interval
<1>5. kept \subseteq 1 .. Len(base)
    OBVIOUS
<1> HIDE DEF base
<1>6. IsFiniteSet(kept) /\ Cardinality(kept) <= Len(base)
    BY <1>4, <1>5, FS_Subset
<1>7. Cardinality(kept) \in Nat
    BY <1>6, FS_CardinalityType
<1> HIDE DEF kept
<1>8. SubSeq(base, 1, Cardinality(kept)) \in Str
    BY <1>2, <1>3, <1>6, <1>7 DEF Str
<1>9. PathBase(r) = SubSeq(base, 1, Cardinality(kept))
    BY DEF PathBase, base, kept
<1> QED BY <1>2, <1>8, <1>9 DEF base

\* matcherContains is sound for a value without dot segments: what the inner
\* matcher grants, the outer one grants.
LEMMA ContainmentSound ==
    ASSUME NEW outer \in Scope, NEW inner \in Scope, NEW v \in Values,
           ~HasDotSegment(v), MatcherContains(outer, inner),
           MatchScope(inner.resource, inner.matcher, v)
    PROVE  MatchScope(outer.resource, outer.matcher, v)
<1> DEFINE i == BaseOf(inner)
           o == BaseOf(outer)
<1>1. v \in Str /\ i \in Str /\ o \in Str
    BY StringTypes, BaseType DEF BaseOf, Scope
<1>2. CASE outer = inner
    BY <1>2
<1>3. CASE inner.matcher = "exact" /\ MatchScope(outer.resource, outer.matcher, inner.resource)
    BY <1>3 DEF MatchScope
<1>4. CASE /\ inner.matcher # "exact"
           /\ \A scope \in {inner, outer} :
                scope.matcher = "path-prefix" => ~HasDotSegment(BaseOf(scope))
           /\ i # <<>> /\ o # <<>>
           /\ ContainmentRule(inner.matcher, outer.matcher, i, o)
  <2>1. inner.matcher = "path-prefix" => v = i \/ Under(v, i)
    BY <1>4 DEF MatchScope, BaseOf
  <2>2. inner.matcher = "prefix" => StartsWith(v, i)
    BY <1>4 DEF MatchScope, BaseOf
  <2>3. StartsWith(i, i)
    BY <1>1 DEF StartsWith, Str
  <2>4. inner.matcher = "path-prefix" => StartsWith(v, i)
    BY <1>1, <2>1, <2>3, UnderExtends
  <2>5. CASE outer.matcher = "prefix"
    <3>1. StartsWith(v, i) /\ StartsWith(i, o)
      BY <1>4, <2>2, <2>4, <2>5 DEF ContainmentRule
    <3>2. StartsWith(v, o)
      BY <1>1, <3>1, StartsWithTransitive
    <3> QED BY <1>4, <2>5, <3>2 DEF MatchScope, BaseOf
  <2>6. CASE outer.matcher = "path-prefix"
    <3>1. ~HasDotSegment(o)
      BY <1>4, <2>6
    <3>2. CASE Under(i, o)
      <4>1. StartsWith(v, i)
        BY <1>4, <2>2, <2>4, <2>6 DEF ContainmentRule
      <4>2. Under(v, o)
        BY <1>1, <3>2, <4>1, UnderExtends
      <4> QED BY <1>4, <2>6, <3>1, <4>2 DEF MatchScope, BaseOf
    <3>3. CASE inner.matcher = "path-prefix" /\ i = o
      BY <1>4, <2>1, <2>6, <3>1, <3>3 DEF MatchScope, BaseOf
    <3> QED BY <1>4, <2>6, <3>2, <3>3 DEF ContainmentRule
  <2> QED BY <1>4, <2>5, <2>6 DEF ContainmentRule
<1> HIDE DEF i, o
<1> QED BY <1>2, <1>3, <1>4 DEF MatcherContains, i, o

\* scopeSatisfies asks the entries of the credential's authority.
LEMMA SatisfiesByAuthority ==
    ASSUME NEW cred \in Authorities, NEW v \in Values
    PROVE  ScopeSatisfies(v, cred) <=>
             \E scope \in ScopeAuthority(cred) : MatchScope(scope.resource, scope.matcher, v)
<1>1. ASSUME NEW resource \in cred.flat
      PROVE  MatchScope(Exactly(resource).resource, Exactly(resource).matcher, v) <=> resource = v
    BY DEF MatchScope, Exactly
<1>2. ASSUME v \in cred.flat
      PROVE  \E scope \in ScopeAuthority(cred) : MatchScope(scope.resource, scope.matcher, v)
    BY <1>1, <1>2 DEF ScopeAuthority
<1>3. ASSUME NEW scope \in ScopeAuthority(cred), MatchScope(scope.resource, scope.matcher, v)
      PROVE  ScopeSatisfies(v, cred)
  <2>1. CASE scope \in cred.crisp
    BY <1>3, <2>1 DEF ScopeSatisfies
  <2>2. CASE \E resource \in cred.flat : scope = Exactly(resource)
    BY <1>1, <1>3, <2>2 DEF ScopeSatisfies
  <2> QED BY <2>1, <2>2 DEF ScopeAuthority
<1> QED BY <1>2, <1>3 DEF ScopeSatisfies, ScopeAuthority

LEMMA AuthorityType ==
    ASSUME NEW cred \in Authorities
    PROVE  ScopeAuthority(cred) \subseteq Scope
BY DEF Authorities, ScopeAuthority, Scope, Exactly, Matchers

\* One link of a chain: a child that passes validateScopeAttenuation grants no
\* plain path that its parent does not.
LEMMA LinkAttenuates ==
    ASSUME NEW parent \in Authorities, NEW child \in Authorities, NEW v \in Values,
           ~HasDotSegment(v), ScopeAuthority(parent) # {},
           ValidateScopeAttenuation(parent, child), ScopeSatisfies(v, child)
    PROVE  ScopeSatisfies(v, parent)
<1>1. PICK scope \in ScopeAuthority(child) : MatchScope(scope.resource, scope.matcher, v)
    BY SatisfiesByAuthority
<1>2. AuthorityContains(ScopeAuthority(parent), scope)
    BY <1>1 DEF ValidateScopeAttenuation
<1>3. PICK entry \in ScopeAuthority(parent) : entry = scope \/ MatcherContains(entry, scope)
    BY <1>2 DEF AuthorityContains
<1>4. entry \in Scope /\ scope \in Scope
    BY <1>1, <1>3, AuthorityType
<1>5. MatchScope(entry.resource, entry.matcher, v)
    BY <1>1, <1>3, <1>4, ContainmentSound
<1> QED BY <1>3, <1>5, SatisfiesByAuthority

-----------------------------------------------------------------------------
(* Down a chain.                                                           *)

LinksType == links \in Seq(Authorities)

\* The link from the last credential says nothing of the ancestors above it, so
\* the invariant relates every pair, and needs that a restricted chain stays so.
LinksInv == LinksType /\ RestrictionKept /\ AttenuationOfPlainPaths

\* LinksInv holds in every reachable state of a chain that validateDelegationChain builds.
THEOREM ChainInvariant == ChainSpec => []LinksInv
<1>1. ChainInit => LinksInv
    BY DEF ChainInit, LinksInv, LinksType, RestrictionKept, AttenuationOfPlainPaths, Attenuated
<1>2. LinksInv /\ [ChainNext]_links => LinksInv'
  <2> SUFFICES ASSUME LinksInv, [ChainNext]_links PROVE LinksInv'
    OBVIOUS
  <2>1. CASE UNCHANGED links
    BY <2>1 DEF LinksInv, LinksType, RestrictionKept, AttenuationOfPlainPaths, Attenuated
  <2>2. ASSUME NEW child \in Authorities, Extend(child)
        PROVE  LinksInv'
    <3> DEFINE n == Len(links)
    <3>1. n \in Nat /\ LinksType' /\ Len(links') = n + 1 /\ links'[n + 1] = child
          /\ \A k \in 1 .. n : links'[k] = links[k] /\ links[k] \in Authorities
      BY <2>2 DEF Extend, LinksInv, LinksType
    <3>2. ASSUME NEW k \in 1 .. n, Restricted(links[k])
          PROVE  /\ Restricted(links[n])
                 /\ ValidateScopeAttenuation(links[n], child)
                 /\ links[n] \in Authorities
      <4>1. n \in 1 .. n /\ links # <<>>
        BY <3>1, <3>2
      <4>2. Restricted(links[n])
        BY <3>1, <3>2, <4>1 DEF LinksInv, RestrictionKept
      <4> QED BY <2>2, <3>1, <4>1, <4>2 DEF Extend
    <3> HIDE DEF n
    <3>3. RestrictionKept'
      <4> SUFFICES ASSUME NEW i \in 1 .. n + 1, NEW j \in 1 .. n + 1, i < j,
                          Restricted(links'[i])
                   PROVE  Restricted(links'[j])
        BY <3>1 DEF RestrictionKept, Restricted
      <4>1. i \in 1 .. n /\ Restricted(links[i])
        BY <3>1
      <4>2. CASE j = n + 1
        BY <3>1, <3>2, <4>1, <4>2 DEF ValidateScopeAttenuation, Restricted
      <4>3. CASE j \in 1 .. n
        BY <3>1, <4>1, <4>3 DEF LinksInv, RestrictionKept, n
      <4> QED BY <3>1, <4>2, <4>3
    <3>4. AttenuationOfPlainPaths'
      <4> SUFFICES ASSUME NEW i \in 1 .. n + 1, NEW j \in 1 .. n + 1, i < j,
                          Restricted(links'[i]),
                          NEW v \in Values, ~HasDotSegment(v), ScopeSatisfies(v, links'[j])
                   PROVE  ScopeSatisfies(v, links'[i])
        BY <3>1 DEF AttenuationOfPlainPaths, Attenuated, Restricted
      <4>1. i \in 1 .. n /\ Restricted(links[i]) /\ n \in 1 .. n
        BY <3>1
      <4>2. CASE j \in 1 .. n
        BY <3>1, <4>1, <4>2 DEF LinksInv, AttenuationOfPlainPaths, Attenuated, n
      <4>3. CASE j = n + 1
        <5>1. ScopeSatisfies(v, links[n])
          BY <3>1, <3>2, <4>1, <4>3, LinkAttenuates DEF Restricted
        <5>2. CASE i = n
          BY <3>1, <4>1, <5>1, <5>2
        <5>3. CASE i < n
          BY <3>1, <4>1, <5>1, <5>3 DEF LinksInv, AttenuationOfPlainPaths, Attenuated, n
        <5> QED BY <4>1, <5>2, <5>3
      <4> QED BY <3>1, <4>2, <4>3
    <3> QED BY <3>1, <3>3, <3>4 DEF LinksInv
  <2> QED BY <2>1, <2>2 DEF ChainNext
<1> QED BY <1>1, <1>2, PTL DEF ChainSpec

\* No chain that passes the walk widens authority over plain paths: for every
\* alphabet, set of credentials, length and regular expression engine, what a
\* leaf grants every restricted ancestor grants, and a restricted chain stays
\* restricted.
THEOREM PlainPathsAttenuate == ChainSpec => [](AttenuationOfPlainPaths /\ RestrictionKept)
<1>1. LinksInv => AttenuationOfPlainPaths /\ RestrictionKept
    BY DEF LinksInv
<1> QED BY <1>1, ChainInvariant, PTL
=============================================================================
