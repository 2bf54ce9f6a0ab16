----------------------------- MODULE ScopeChain -----------------------------
(***************************************************************************)
(* How authority travels down a delegation chain: every link that          *)
(* validateDelegationChain accepts passed validateScopeAttenuation with    *)
(* its parent only (src/src/delegation/chain-enforcement.ts), and the gate *)
(* asks only the leaf whether it satisfies the tool's scope                *)
(* (src/src/middleware/with-kya-os.delegation-gate.ts).                    *)
(***************************************************************************)
EXTENDS ScopeMatcher

CONSTANTS
    Credentials,  \* the authorities of the credentials that are issued
    MaxLength     \* bound on the length of a chain

VARIABLE links    \* the authorities of the chain's credentials, root first

\* One more credential passes the walk of validateDelegationChain.
Extend(child) ==
    /\ Len(links) < MaxLength
    /\ links # <<>> => ValidateScopeAttenuation(links[Len(links)], child)
    /\ links' = Append(links, child)

ChainInit == links = <<>>
ChainNext == \E child \in Credentials \cap Authorities : Extend(child)
ChainSpec == ChainInit /\ [][ChainNext]_links

-----------------------------------------------------------------------------
Restricted(cred) == ScopeAuthority(cred) # {}

Attenuated(values) ==
    \A i, j \in 1 .. Len(links) :
        i < j /\ Restricted(links[i]) =>
            \A v \in values : ScopeSatisfies(v, links[j]) => ScopeSatisfies(v, links[i])

\* What the leaf of an accepted chain grants, every ancestor with scopes grants:
\* the claim of CONTAINMENT's comment, carried down a chain.
AttenuationOnly == Attenuated(Values)

\* The same for values without a . or .. segment.
AttenuationOfPlainPaths == Attenuated({v \in Values : ~HasDotSegment(v)})

\* A chain that is restricted once stays restricted: no link drops back to a
\* credential without scopes, which would accept any child again.
RestrictionKept ==
    \A i, j \in 1 .. Len(links) : i < j /\ Restricted(links[i]) => Restricted(links[j])
=============================================================================
