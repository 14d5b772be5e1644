--------------------------- MODULE GroupTableSpec ---------------------------
(***************************************************************************)
(* A group table and the peer whose memberships it keeps.                  *)
(***************************************************************************)
EXTENDS GroupTable

CONSTANT Groups     \* the group names the peer uses

VARIABLES
    groups,    \* the table
    member,     \* ghost: the groups the peer is in by its own account
    refused     \* ghost: those of them whose last JOIN failed

groupVars == <<groups, member, refused>>

GroupInit == groups = <<>> /\ member = {} /\ refused = {}

DoJoin(g) ==
    /\ groups' = Join(groups, g)
    /\ refused' = IF Refused(groups, g) THEN refused \cup {g} ELSE refused \ {g}
    /\ member' = member \cup {g}

DoLeave(g) ==
    /\ groups' = Leave(groups, g)
    /\ member' = member \ {g}
    /\ refused' = refused \ {g}

GroupNext == \E g \in Groups : DoJoin(g) \/ DoLeave(g)

GroupSpec == GroupInit /\ [][GroupNext]_groupVars

-----------------------------------------------------------------------------
\* Every variable has its type, and the table fits its array.
GroupTypeOK ==
    /\ groups \in Seq(Groups) /\ Len(groups) <= GROUP_CAP
    /\ member \subseteq Groups /\ refused \subseteq member

\* A group is stored at most once, so that one LEAVE is enough to leave it.
NoDuplicates == \A i, j \in DOMAIN groups : groups[i] = groups[j] => i = j

\* Exactly the groups whose last JOIN succeeded are published to the peer: a
\* membership is neither lost by the moves of swap_remove nor kept after
\* LEAVE, and a JOIN that finds its group in a full table succeeds.
MatchesMembers ==
    \A g \in Groups : MatchesGroup(groups, g) <=> g \in member \ refused
=============================================================================
