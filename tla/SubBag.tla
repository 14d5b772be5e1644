------------------------------- MODULE SubBag -------------------------------
(***************************************************************************)
(* What a subscription table promises: a bag of prefixes.  A subscription  *)
(* adds one copy, or is lost when the prefix is too long or the bag full;  *)
(* a cancellation takes one copy away, if there is one.                    *)
(***************************************************************************)
EXTENDS Integers, FiniteSets

CONSTANTS
    Prefixes,       \* the prefixes a peer may name
    Storable,       \* those that are not too long
    Capacity        \* the number of copies the bag can hold

VARIABLES
    count,          \* the number of copies of each prefix
    total           \* the number of copies altogether

vars == <<count, total>>

Init == count = [p \in Prefixes |-> 0] /\ total = 0

Add(p) ==
    /\ p \in Storable /\ total < Capacity
    /\ count' = [count EXCEPT ![p] = @ + 1]
    /\ total' = total + 1

Remove(p) ==
    /\ count[p] > 0
    /\ count' = [count EXCEPT ![p] = @ - 1]
    /\ total' = total - 1

Next == \E p \in Prefixes : Add(p) \/ Remove(p)

Spec == Init /\ [][Next]_vars
=============================================================================
