---------------------------- MODULE CardDelegation ----------------------------
(***************************************************************************)
(* The card's delegation chain: src/src/card/delegation.ts.  A credential  *)
(* is a hop [issuer, invoker, id, parent, target, actions, caveats, from,  *)
(* until, status]; times are ticks, Unparsed where Date.parse fails, and   *)
(* amounts are decimals [whole, fraction, digits].                         *)
(***************************************************************************)
EXTENDS Integers, Sequences, FiniteSets, FiniteSetsExt

CONSTANTS
    MaxDigits,      \* bound on the digits of a fraction
    Tens            \* Tens[n]: ten to the n

ASSUME DecimalAssumption ==
    /\ MaxDigits \in Nat
    /\ Tens \in [0..MaxDigits -> Nat]
    /\ Tens[0] = 1 /\ \A n \in 1..MaxDigits : Tens[n] = 10 * Tens[n - 1]

Unparsed == -1

\* A decimal text as decimalParts reads it; limits with no such reading have digits
\* Unparsed.
Decimal(whole, fraction, digits) == [whole |-> whole, fraction |-> fraction, digits |-> digits]

\* The decimals that are read.
Decimals == [whole : Nat, fraction : Nat, digits : 0..MaxDigits]

Scaled(d, scale) == d.whole * Tens[scale] + d.fraction * Tens[scale - d.digits]

\* Mutant of decimalLte: both sides are cut to the parent's digits.
LteTruncated(child, parent) ==
    /\ child.digits # Unparsed /\ parent.digits # Unparsed
    /\ LET scale == Max({child.digits, parent.digits})
           cut == Tens[scale - parent.digits]
       IN Scaled(child, scale) \div cut <= Scaled(parent, scale) \div cut

decimalLte(child, parent) ==
    /\ child.digits # Unparsed /\ parent.digits # Unparsed
    /\ LET scale == Max({child.digits, parent.digits}) IN Scaled(child, scale) <= Scaled(parent, scale)

dateLte(child, parent) == child # Unparsed /\ parent # Unparsed /\ child <= parent

\* A caveat [type, date, limit, currency, body]; date, limit and currency are sets of
\* at most one, body stands for the fields of an unknown type.
caveatNarrows(parent, child) ==
    /\ parent.type = child.type
    /\ CASE parent.type = "ValidUntil" ->
              /\ parent.date # {} /\ child.date # {}
              /\ \A c \in child.date, p \in parent.date : dateLte(c, p)
         [] parent.type = "MaxAmount" ->
              /\ parent.currency = {} \/ parent.currency = child.currency
              /\ parent.limit # {} /\ child.limit # {}
              /\ \A c \in child.limit, p \in parent.limit : decimalLte(c, p)
         [] OTHER -> parent = child

\* No caveat of the parent is dropped or broadened.
caveatReasons(parent, child) == \A pc \in parent : \E cc \in child : caveatNarrows(pc, cc)

\* attenuates finds no reason: child is within parent, and continues it.
attenuates(parent, child) ==
    /\ child.actions \subseteq parent.actions
    /\ caveatReasons(parent.caveats, child.caveats)
    /\ \A p \in parent.until : child.until # {} /\ \A c \in child.until : dateLte(c, p)
    /\ parent.invoker = child.issuer
    /\ child.parent = parent.id
    /\ child.target = parent.target

\* Every hop, and every ValidUntil caveat of it, is in its window at t.
expiryReasons(chain, t) ==
    \A i \in 1..Len(chain) :
        /\ \A u \in chain[i].until : u # Unparsed /\ u >= t
        /\ \A f \in chain[i].from : f # Unparsed /\ f <= t
        /\ \A c \in chain[i].caveats : c.type = "ValidUntil" =>
             \A d \in c.date : d # Unparsed /\ d >= t

\* ctx is [resource, resourceOwner, maxChainLength], each a set of at most one.
rootReasons(root, ctx) ==
    /\ root.parent = root.target
    /\ \A r \in ctx.resource : root.target = r
    /\ \A o \in ctx.resourceOwner : root.issuer = o

validateDelegationChain(chain, ctx, t) ==
    /\ chain # <<>>
    /\ \A n \in ctx.maxChainLength : n >= 1 /\ Len(chain) <= n
    /\ rootReasons(chain[1], ctx)
    /\ \A i \in 2..Len(chain) : attenuates(chain[i - 1], chain[i])
    /\ expiryReasons(chain, t)

responsiblePartyOf(chain) == chain[1].issuer
leafInvokerOf(chain) == chain[Len(chain)].invoker

\* The hops of a chain with a status entry, and the entry of one.
StatusHops(chain) == {i \in 1..Len(chain) : chain[i].status # {}}
statusEntryOf(vc) == CHOOSE s \in vc.status : TRUE

\* What a delegation credential holds, as far as it is compared: times and amounts
\* that are read, and those that are not.
IsHop(vc) ==
    /\ vc.until \cup vc.from \subseteq Int
    /\ \A s, t \in vc.status : s = t
    /\ \A c \in vc.caveats : c.date \subseteq Int /\ \A l \in c.limit : l.digits # Unparsed => l \in Decimals

-----------------------------------------------------------------------------
(* What a credential authorises, the reference attenuation is measured     *)
(* against: a use is [action, amount, currency, at, meets], the last one    *)
(* the unknown caveats it satisfies.                                       *)

CaveatPermits(c, use) ==
    CASE c.type = "ValidUntil" -> \A d \in c.date : use.at <= d
      [] c.type = "MaxAmount" -> /\ c.currency = {} \/ c.currency = {use.currency}
                                 /\ \A l \in c.limit :
                                      /\ l.digits # Unparsed
                                      /\ Scaled(use.amount, MaxDigits) <= Scaled(l, MaxDigits)
      [] OTHER -> c.body \in use.meets

Permits(vc, use) ==
    /\ use.action \in vc.actions
    /\ \A c \in vc.caveats : CaveatPermits(c, use)
    /\ \A u \in vc.until : use.at <= u
    /\ \A f \in vc.from : f <= use.at
=============================================================================
