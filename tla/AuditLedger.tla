---------------------------- MODULE AuditLedger ----------------------------
(***************************************************************************)
(* What an audit ledger epoch promises its producers, whatever recorder    *)
(* replicas, retries and races lie behind it: one append-only history that *)
(* starts with genesis, in which an event identity occurs at most once,    *)
(* and receipts that are prefixes of that history ending in the event the  *)
(* producer submitted.  A receipt is issued after its entry is committed   *)
(* and is never changed.  Turning a submission down is invisible here.     *)
(***************************************************************************)
EXTENDS Naturals, Sequences

CONSTANTS
    Genesis,        \* signing acts of genesis events
    Calls,          \* submissions
    KeyOf(_),       \* event identity of a signing act or a submission
    ContentOf(_)    \* event digest of a signing act or a submission

VARIABLES
    ledger,         \* the committed history, oldest entry first
    receipt         \* receipt[c]: the history up to c's entry, <<>> if none

vars == <<ledger, receipt>>

Init ==
    /\ ledger = <<>>
    /\ receipt = [c \in Calls |-> <<>>]

\* One more event becomes part of the history.
Commit(e) ==
    /\ e \in Genesis <=> ledger = <<>>
    /\ \A i \in 1..Len(ledger) : KeyOf(ledger[i]) # KeyOf(e)
    /\ ledger' = Append(ledger, e)
    /\ UNCHANGED receipt

\* A submission is told where its event is in the history.
Acknowledge(c) ==
    /\ receipt[c] = <<>>
    /\ \E n \in 1..Len(ledger) :
        /\ KeyOf(ledger[n]) = KeyOf(c)
        /\ ContentOf(ledger[n]) = ContentOf(c)
        /\ receipt' = [receipt EXCEPT ![c] = SubSeq(ledger, 1, n)]
    /\ UNCHANGED ledger

Next ==
    \/ \E e \in Genesis \cup Calls : Commit(e)
    \/ \E c \in Calls : Acknowledge(c)

Spec == Init /\ [][Next]_vars
=============================================================================
