------------------------------ MODULE SubTable ------------------------------
(***************************************************************************)
(* The subscription table of sub_table.rs, as pure operators.  A table is  *)
(* the sequence of its entries: heapless::Vec keeps them in a fixed array  *)
(* of SUB_CAP places, and the order is that of the array.                  *)
(***************************************************************************)
EXTENDS Integers, Sequences

CONSTANTS
    SUB_CAP,        \* MAX_ENTRIES: subscriptions a peer may hold
    PREFIX_CAP      \* MAX_PREFIX_LEN: bytes of a prefix

ASSUME SubTableAssumption == SUB_CAP \in Nat /\ PREFIX_CAP \in Nat

Positions(entries, p) == {i \in DOMAIN entries : entries[i] = p}

TooLong(p) == Len(p) > PREFIX_CAP

\* Mutant: room for one too many.
FullLate(entries) == Len(entries) > SUB_CAP

Full(entries) == Len(entries) >= SUB_CAP

\* Mutant: a prefix that is present is not stored again.
SubscribeOnce(entries, p) ==
    IF TooLong(p) \/ Full(entries) \/ Positions(entries, p) # {} THEN entries
    ELSE Append(entries, p)

\* subscribe: additive, a duplicate is an entry of its own.  PrefixTooLong
\* and TableFull leave the table as it is.
Subscribe(entries, p) ==
    IF TooLong(p) \/ Full(entries) THEN entries ELSE Append(entries, p)

\* Vec::swap_remove: the last entry takes the place of the removed one.
SwapRemove(entries, i) ==
    [j \in 1 .. Len(entries) - 1 |-> IF j = i THEN entries[Len(entries)] ELSE entries[j]]

\* Iterator::position
FirstPosition(entries, p) ==
    CHOOSE i \in Positions(entries, p) : \A j \in Positions(entries, p) : i <= j

\* Mutants: every copy of the prefix is removed; the last entry is removed
\* without being moved to the free place.
CancelAll(entries, p) == SelectSeq(entries, LAMBDA e : e # p)
CancelLast(entries, p) ==
    IF Positions(entries, p) = {} THEN entries
    ELSE SubSeq(entries, 1, Len(entries) - 1)

\* cancel: one entry is removed, or none if there is none.
Cancel(entries, p) ==
    IF Positions(entries, p) = {} THEN entries
    ELSE SwapRemove(entries, FirstPosition(entries, p))

\* slice::starts_with
StartsWith(topic, p) == Len(p) <= Len(topic) /\ SubSeq(topic, 1, Len(p)) = p

\* matches
Matches(entries, topic) == \E i \in DOMAIN entries : StartsWith(topic, entries[i])
=============================================================================
