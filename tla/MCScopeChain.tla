---------------------------- MODULE MCScopeChain ----------------------------
(* An instance of ScopeChain for TLC: short strings over four characters.  *)
EXTENDS ScopeChain, TLC

Strings(chars, n) == UNION {[1 .. k -> chars] : k \in 0 .. n}

\* Patterns may end in a star; what a tool requires does not.
Patterns == Strings(Chars, 2)
Required == Strings(Chars \ {"*"}, 3)

\* One matcher, one flat scope, or no scopes.
OneScope ==
    {[flat |-> {r}, crisp |-> {}] : r \in Patterns}
    \cup {[flat |-> {}, crisp |-> {s}] : s \in [matcher: Matchers \ {"exact"}, resource: Patterns]}
    \cup {[flat |-> {}, crisp |-> {}]}

\* A regular expression without operators matches itself.
Literal(pattern, value) == pattern = value
=============================================================================
