---------------------------- MODULE SubTableSpec ----------------------------
(***************************************************************************)
(* A subscription table and the peer whose subscriptions it keeps.         *)
(***************************************************************************)
EXTENDS SubTable, FiniteSets

CONSTANTS
    Prefixes,       \* the prefixes the peer names
    Topics,         \* the topics that are published
    MaxHeld         \* bound: subscriptions the peer holds of one prefix

ASSUME MaxHeldAssumption == MaxHeld \in Nat

VARIABLES
    entries,    \* the table
    held,       \* ghost: the subscriptions the peer holds by its own account,
                \* made and not cancelled
    lost        \* ghost: a subscription was refused

vars == <<entries, held, lost>>

Init ==
    /\ entries = <<>>
    /\ held = [p \in Prefixes |-> 0]
    /\ lost = FALSE

DoSubscribe(p) ==
    /\ held[p] < MaxHeld
    /\ entries' = Subscribe(entries, p)
    /\ held' = [held EXCEPT ![p] = @ + 1]
    /\ lost' = (lost \/ TooLong(p) \/ Full(entries))

\* A peer may also cancel what it never subscribed to.
DoCancel(p) ==
    /\ entries' = Cancel(entries, p)
    /\ held' = [held EXCEPT ![p] = IF @ > 0 THEN @ - 1 ELSE 0]
    /\ UNCHANGED lost

Next == \E p \in Prefixes : DoSubscribe(p) \/ DoCancel(p)

Spec == Init /\ [][Next]_vars

-----------------------------------------------------------------------------
Count(p) == Cardinality(Positions(entries, p))

\* Every variable has its type, and the table fits its array.
TypeOK ==
    /\ entries \in Seq(Prefixes)
    /\ Len(entries) <= SUB_CAP
    /\ held \in [Prefixes -> 0 .. MaxHeld]
    /\ lost \in BOOLEAN

\* The table never keeps more of a prefix than the peer holds, whatever was
\* refused before: a peer that cancels as often as it subscribed gets
\* nothing any more, also after the table was full for a while.
NothingUnwanted == \A p \in Prefixes : Count(p) <= held[p]

\* "Two identical SUBSCRIBE frames require two CANCEL frames": as long as no
\* subscription was refused the table is the peer's account, so that a topic
\* is published exactly when the peer holds one of its prefixes.
NothingMissing ==
    ~lost =>
        /\ \A p \in Prefixes : Count(p) = held[p]
        /\ \A t \in Topics :
              Matches(entries, t) <=> \E p \in Prefixes : held[p] > 0 /\ StartsWith(t, p)

\* The table implements the bag.
Bag == INSTANCE SubBag WITH
          Storable <- {p \in Prefixes : ~TooLong(p)},
          Capacity <- SUB_CAP,
          count    <- [p \in Prefixes |-> Count(p)],
          total    <- Len(entries)

\* Every call is a step of the bag or leaves it alone.
ImplementsBag == Bag!Spec
=============================================================================
