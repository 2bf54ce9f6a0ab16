---------------------------- MODULE ScopeMatcher ----------------------------
(***************************************************************************)
(* Scope matchers and scope attenuation (src/src/delegation/               *)
(* scope-matcher.ts, and validateScopeAttenuation of chain-enforcement.ts) *)
(* as operators.  What they decide is about characters, so a scope id, a   *)
(* resource or a pattern is a sequence of one-character strings.  A        *)
(* credential's authority is [flat, crisp]: its flat scopes, matched       *)
(* exactly, and its CRISP matchers [matcher, resource].                    *)
(***************************************************************************)
EXTENDS Integers, Sequences, FiniteSets

CONSTANTS
    Chars,            \* the characters scope ids and patterns are made of
    Resources,        \* flat scopes, resources and patterns of credentials
    Values,           \* scope ids that tools require
    RegexTest(_, _)   \* does the anchored regular expression match the value,
                      \* after matchScope's length and nesting guards

ASSUME ScopeAssumption ==
    /\ Resources \subseteq Seq(Chars)
    /\ Values \subseteq Seq(Chars)

\* "other" stands for a matcher the code does not know.
Matchers == {"exact", "prefix", "path-prefix", "regex", "other"}
Authorities == [flat: SUBSET Resources, crisp: SUBSET [matcher: Matchers, resource: Resources]]

Separators == {"/", "\\"}

\* One trailing * of a prefix pattern is optional sugar.
PrefixBase(pattern) ==
    IF pattern # <<>> /\ pattern[Len(pattern)] = "*"
    THEN SubSeq(pattern, 1, Len(pattern) - 1)
    ELSE pattern

\* A path-prefix pattern also loses its trailing slashes: what is kept are the
\* positions up to the last character that is no slash.
PathBase(pattern) ==
    LET base == PrefixBase(pattern)
        kept == {k \in 1 .. Len(base) : \E j \in k .. Len(base) : base[j] # "/"}
    IN SubSeq(base, 1, Cardinality(kept))

StartsWith(s, base) ==
    /\ Len(base) <= Len(s)
    /\ \A k \in 1 .. Len(base) : s[k] = base[k]

\* value lies under base as a path: it starts with base and a slash.
Under(s, base) == StartsWith(s, Append(base, "/"))

\* Some segment between separators is . or ..
HasDotSegment(path) ==
    \E first \in 1 .. Len(path) : \E last \in first .. first + 1 :
        /\ last <= Len(path)
        /\ \A k \in first .. last : path[k] = "."
        /\ first = 1 \/ path[first - 1] \in Separators
        /\ last = Len(path) \/ path[last + 1] \in Separators

\* matchScope: a matcher the code does not know matches nothing, and neither
\* does an empty base.
MatchScope(pattern, matcher, value) ==
    \/ matcher = "exact" /\ pattern = value
    \/ /\ matcher = "prefix"
       /\ PrefixBase(pattern) # <<>>
       /\ StartsWith(value, PrefixBase(pattern))
    \/ /\ matcher = "path-prefix"
       /\ PathBase(pattern) # <<>>
       /\ ~HasDotSegment(PathBase(pattern)) /\ ~HasDotSegment(value)
       /\ value = PathBase(pattern) \/ Under(value, PathBase(pattern))
    \/ matcher = "regex" /\ RegexTest(pattern, value)

BaseOf(scope) ==
    IF scope.matcher = "path-prefix" THEN PathBase(scope.resource) ELSE PrefixBase(scope.resource)

\* CONTAINMENT: the rule for an inner and an outer pattern matcher, if there is one.
ContainmentRule(inner, outer, innerBase, outerBase) ==
    \/ outer = "prefix" /\ inner \in {"prefix", "path-prefix"} /\ StartsWith(innerBase, outerBase)
    \/ outer = "path-prefix" /\ inner = "path-prefix"
       /\ (innerBase = outerBase \/ Under(innerBase, outerBase))
    \/ outer = "path-prefix" /\ inner = "prefix" /\ Under(innerBase, outerBase)

\* matcherContains.
MatcherContains(outer, inner) ==
    \/ outer = inner
    \/ /\ inner.matcher = "exact"
       /\ MatchScope(outer.resource, outer.matcher, inner.resource)
    \/ /\ inner.matcher # "exact"
       /\ \A scope \in {inner, outer} :
            scope.matcher = "path-prefix" => ~HasDotSegment(BaseOf(scope))
       /\ BaseOf(inner) # <<>> /\ BaseOf(outer) # <<>>
       /\ ContainmentRule(inner.matcher, outer.matcher, BaseOf(inner), BaseOf(outer))

Exactly(resource) == [matcher |-> "exact", resource |-> resource]

\* scopeAuthority: the flat scopes as exact matchers, and the CRISP matchers.
ScopeAuthority(cred) == {Exactly(resource) : resource \in cred.flat} \cup cred.crisp

\* authorityContains: an identical entry, or a pattern entry that contains it.
AuthorityContains(authority, scope) ==
    \/ scope \in authority
    \/ \E entry \in authority : entry.matcher # "exact" /\ MatcherContains(entry, scope)

\* validateScopeAttenuation: a parent without scopes accepts any child; a child
\* without scopes does not attenuate a parent that has some.
ValidateScopeAttenuation(parent, child) ==
    \/ ScopeAuthority(parent) = {}
    \/ /\ ScopeAuthority(child) # {}
       /\ \A scope \in ScopeAuthority(child) : AuthorityContains(ScopeAuthority(parent), scope)

\* scopeSatisfies.
ScopeSatisfies(required, cred) ==
    \/ required \in cred.flat
    \/ \E scope \in cred.crisp : MatchScope(scope.resource, scope.matcher, required)
=============================================================================
