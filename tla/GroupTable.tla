----------------------------- MODULE GroupTable -----------------------------
(***************************************************************************)
(* The group table of group_table.rs, as pure operators over the sequence  *)
(* of its entries.  Unlike a subscription, a membership is held once.      *)
(***************************************************************************)
EXTENDS Integers, Sequences

CONSTANTS
    GROUP_CAP,      \* MAX_ENTRIES: groups a peer may be a member of
    NAME_CAP        \* MAX_GROUP_LEN: bytes of a group name

ASSUME GroupTableAssumption == GROUP_CAP \in Nat /\ NAME_CAP \in Nat

Stored(entries) == {entries[i] : i \in DOMAIN entries}

TableFull(entries) == Len(entries) >= GROUP_CAP

GroupTooLong(g) == Len(g) > NAME_CAP

\* Mutant: the room is looked at before the duplicates.
RefusedFullFirst(entries, g) == GroupTooLong(g) \/ TableFull(entries)

\* join fails: GroupTooLong, or TableFull for a group that is not there yet.
Refused(entries, g) == GroupTooLong(g) \/ (g \notin Stored(entries) /\ TableFull(entries))

\* Mutant: no look for duplicates.
JoinAgain(entries, g) ==
    IF GroupTooLong(g) \/ TableFull(entries) THEN entries ELSE Append(entries, g)

\* join: length, then duplicates, then room.
Join(entries, g) ==
    IF Refused(entries, g) \/ g \in Stored(entries) THEN entries
    ELSE Append(entries, g)

\* Mutant: the last entry is removed without being moved to the free place.
LeaveLast(entries, g) ==
    IF g \notin Stored(entries) THEN entries ELSE SubSeq(entries, 1, Len(entries) - 1)

\* leave: position, then swap_remove.
Leave(entries, g) ==
    IF g \notin Stored(entries) THEN entries
    ELSE LET i == CHOOSE k \in DOMAIN entries :
                    entries[k] = g /\ \A j \in 1 .. k - 1 : entries[j] # g
         IN  [j \in 1 .. Len(entries) - 1 |->
                IF j = i THEN entries[Len(entries)] ELSE entries[j]]

MatchesGroup(entries, g) == g \in Stored(entries)
=============================================================================
